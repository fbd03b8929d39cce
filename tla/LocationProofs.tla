--------------------------- MODULE LocationProofs ---------------------------
(***************************************************************************)
(* Proofs about the three components that keep a location's figures: the   *)
(* wait-time engine (module WaitEngine), for any times, people and windows *)
(* and any number of dwells and orders; the vision-POS matcher (module     *)
(* Matcher), for any tolerance, retention, lag and clock skew that         *)
(* RetentionAssumption allows; and the forecast (module Forecast), for any *)
(* finite set of integer observations and any number of trainings.  The    *)
(* first two trim deques at their heads, the first and the last go by      *)
(* order statistics: those lemmas come first where they are needed.        *)
(***************************************************************************)
EXTENDS WaitEngine, Matcher, Forecast, FiniteSetTheorems, WellFoundedInduction, TLAPS

(* What is left of a deque when its first entries are gone. *)
Rest(q, gone) == SubSeq(q, gone + 1, Len(q))

LEMMA MinOfNaturals ==
    ASSUME NEW S \in SUBSET Nat, S # {}
    PROVE  Min(S) \in S /\ \A n \in S : Min(S) <= n
  <1> DEFINE Less == {pair \in Nat \X Nat : pair[1] < pair[2]}
  <1>1. IsWellFoundedOn(Less, Nat)
    BY NatLessThanWellFounded DEF OpToRel
  <1>2. \A m, n \in Nat : m < n => <<m, n>> \in Less
    OBVIOUS
  <1> HIDE DEF Less
  <1>3. PICK m \in S : \A n \in S : ~(<<n, m>> \in Less)
    BY <1>1, WFMin
  <1>4. \A n \in S : m <= n
    <2> SUFFICES ASSUME NEW n \in S, ~(m <= n) PROVE FALSE
      OBVIOUS
    <2>1. m \in Nat /\ n \in Nat
      OBVIOUS
    <2>2. n < m
      BY <2>1
    <2>3. <<n, m>> \in Less
      BY <1>2, <2>1, <2>2
    <2> QED
      BY <1>3, <2>3
  <1> QED
    BY <1>4 DEF Min

LEMMA RestOf ==
    ASSUME NEW S, NEW q \in Seq(S), NEW gone \in 0 .. Len(q)
    PROVE  /\ Rest(q, gone) \in Seq(S)
           /\ Len(Rest(q, gone)) = Len(q) - gone
           /\ \A i \in 1 .. Len(q) - gone : Rest(q, gone)[i] = q[gone + i]
  BY DEF Rest

LEMMA RestOfNothing ==
    ASSUME NEW S, NEW q \in Seq(S)
    PROVE  Rest(q, 0) = q /\ Rest(q, Len(q)) = <<>>
  BY DEF Rest

LEMMA RestOfRest ==
    ASSUME NEW S, NEW q \in Seq(S), NEW a \in 0 .. Len(q), NEW b \in 0 .. Len(q) - a
    PROVE  Rest(Rest(q, a), b) = Rest(q, a + b)
  <1>1. a + b \in 0 .. Len(q) /\ b \in 0 .. Len(Rest(q, a))
    BY RestOf
  <1>2. /\ Rest(Rest(q, a), b) \in Seq(S)
        /\ Len(Rest(Rest(q, a), b)) = Len(q) - (a + b)
        /\ \A i \in 1 .. Len(q) - (a + b) : Rest(Rest(q, a), b)[i] = q[(a + b) + i]
    <2>1. Rest(q, a) \in Seq(S) /\ Len(Rest(q, a)) = Len(q) - a
      BY RestOf
    <2>2. /\ Rest(Rest(q, a), b) \in Seq(S)
          /\ Len(Rest(Rest(q, a), b)) = (Len(q) - a) - b
          /\ \A i \in 1 .. (Len(q) - a) - b : Rest(Rest(q, a), b)[i] = Rest(q, a)[b + i]
      BY <1>1, <2>1, RestOf
    <2>3. \A i \in 1 .. Len(q) - a : Rest(q, a)[i] = q[a + i]
      BY RestOf
    <2> QED
      BY <2>2, <2>3
  <1>3. /\ Rest(q, a + b) \in Seq(S)
        /\ Len(Rest(q, a + b)) = Len(q) - (a + b)
        /\ \A i \in 1 .. Len(q) - (a + b) : Rest(q, a + b)[i] = q[(a + b) + i]
    BY <1>1, RestOf
  <1> QED
    BY <1>2, <1>3

LEMMA RestOfAppend ==
    ASSUME NEW S, NEW q \in Seq(S), NEW x \in S, NEW gone \in 0 .. Len(q)
    PROVE  Append(Rest(q, gone), x) = Rest(Append(q, x), gone)
  <1>1. /\ Rest(q, gone) \in Seq(S) /\ Len(Rest(q, gone)) = Len(q) - gone
        /\ \A i \in 1 .. Len(q) - gone : Rest(q, gone)[i] = q[gone + i]
    BY RestOf
  <1>2. Append(q, x) \in Seq(S) /\ gone \in 0 .. Len(Append(q, x))
    OBVIOUS
  <1>3. /\ Rest(Append(q, x), gone) \in Seq(S)
        /\ Len(Rest(Append(q, x), gone)) = Len(q) + 1 - gone
        /\ \A i \in 1 .. Len(q) + 1 - gone : Rest(Append(q, x), gone)[i] = Append(q, x)[gone + i]
    <2> DEFINE g == Append(q, x)
    <2>1. g \in Seq(S) /\ gone \in 0 .. Len(g) /\ Len(g) = Len(q) + 1
      BY <1>2
    <2> HIDE DEF g
    <2>2. /\ Rest(g, gone) \in Seq(S)
          /\ Len(Rest(g, gone)) = Len(g) - gone
          /\ \A i \in 1 .. Len(g) - gone : Rest(g, gone)[i] = g[gone + i]
      BY <2>1, RestOf
    <2> QED
      BY <2>1, <2>2 DEF g
  <1>4. \A i \in 1 .. Len(q) + 1 - gone :
            Append(Rest(q, gone), x)[i] = Append(q, x)[gone + i]
    <2> SUFFICES ASSUME NEW i \in 1 .. Len(q) + 1 - gone
                 PROVE  Append(Rest(q, gone), x)[i] = Append(q, x)[gone + i]
      OBVIOUS
    <2>1. CASE i = Len(q) + 1 - gone
      <3>1. Append(Rest(q, gone), x)[i] = x
        BY <1>1, <2>1
      <3>2. gone + i = Len(q) + 1 /\ Append(q, x)[Len(q) + 1] = x
        BY <2>1
      <3> QED
        BY <3>1, <3>2
    <2>2. CASE i < Len(q) + 1 - gone
      <3>1. i \in 1 .. Len(q) - gone /\ gone + i \in 1 .. Len(q)
        BY <2>2
      <3>2. Append(Rest(q, gone), x)[i] = Rest(q, gone)[i]
        BY <1>1, <3>1
      <3>3. Append(q, x)[gone + i] = q[gone + i]
        BY <3>1
      <3> QED
        BY <1>1, <3>1, <3>2, <3>3
    <2>3. i = Len(q) + 1 - gone \/ i < Len(q) + 1 - gone
      OBVIOUS
    <2> QED
      BY <2>1, <2>2, <2>3, Zenon
  <1>5. /\ Append(Rest(q, gone), x) \in Seq(S)
        /\ Len(Append(Rest(q, gone), x)) = Len(q) + 1 - gone
    BY <1>1
  <1>6. ASSUME NEW f \in Seq(S), NEW g \in Seq(S), Len(f) = Len(g),
               \A i \in 1 .. Len(f) : f[i] = g[i]
        PROVE  f = g
    BY <1>6
  <1> QED
    BY <1>3, <1>4, <1>5, <1>6

(* _trim pops from the head exactly the entries before the first recent    *)
(* one.                                                                    *)
DropsTo(q, recent, gone) ==
    /\ gone \in 0 .. Len(q)
    /\ DropOldHead(q, recent) = Rest(q, gone)
    /\ \A i \in 1 .. gone : i \notin recent
    /\ gone < Len(q) => gone + 1 \in recent

LEMMA DropOldHeadIsRest ==
    ASSUME NEW S, NEW q \in Seq(S), NEW recent \in SUBSET (1 .. Len(q))
    PROVE  \E gone \in 0 .. Len(q) : DropsTo(q, recent, gone)
  <1>1. CASE recent = {}
    <2>1. DropsTo(q, recent, Len(q))
      BY <1>1, RestOfNothing DEF DropsTo, DropOldHead
    <2> QED
      BY <2>1
  <1>2. CASE recent # {}
    <2> DEFINE first == Min(recent)
    <2>1. first \in recent /\ \A i \in recent : first <= i
      BY <1>2, MinOfNaturals
    <2> HIDE DEF first
    <2>2. DropOldHead(q, recent) = SubSeq(q, first, Len(q))
      BY <1>2 DEF DropOldHead, first
    <2>3. first - 1 \in 0 .. Len(q) /\ first = (first - 1) + 1
      BY <2>1
    <2>4. DropOldHead(q, recent) = Rest(q, first - 1)
      BY <2>2, <2>3 DEF Rest
    <2>5. DropsTo(q, recent, first - 1)
      BY <2>1, <2>3, <2>4 DEF DropsTo
    <2> QED
      BY <2>3, <2>5
  <1> QED
    BY <1>1, <1>2

(* Dropping what one caller finds old and then what a later caller finds   *)
(* old is dropping what the later caller finds old.                        *)
LaterReader(q, early, late, kept, left) ==
    /\ early \subseteq 1 .. Len(q) /\ late \subseteq early
    /\ kept = DropOldHead(q, early) /\ left \subseteq 1 .. Len(kept)
    /\ \A i \in 1 .. Len(kept) : i \in left <=> i + (Len(q) - Len(kept)) \in late

LEMMA DropTwice ==
    ASSUME NEW S, NEW q \in Seq(S), NEW early, NEW late, NEW kept, NEW left,
           LaterReader(q, early, late, kept, left)
    PROVE  DropOldHead(kept, left) = DropOldHead(q, late)
  <1> USE DEF LaterReader
  <1>1. PICK a \in 0 .. Len(q) : DropsTo(q, early, a)
    BY DropOldHeadIsRest
  <1>2. /\ DropOldHead(q, early) = Rest(q, a)
        /\ \A i \in 1 .. a : i \notin early
        /\ a < Len(q) => a + 1 \in early
    BY <1>1 DEF DropsTo
  <1>3. Rest(q, a) \in Seq(S) /\ Len(Rest(q, a)) = Len(q) - a
    BY RestOf
  <1>4. /\ left \in SUBSET (1 .. Len(q) - a)
        /\ \A i \in 1 .. Len(q) - a : i \in left <=> i + a \in late
    BY <1>2, <1>3
  <1>5. PICK b \in 0 .. Len(q) - a : DropsTo(Rest(q, a), left, b)
    <2>1. left \in SUBSET (1 .. Len(Rest(q, a)))
      BY <1>3, <1>4
    <2> QED
      BY <1>3, <2>1, DropOldHeadIsRest
  <1>6. /\ DropOldHead(Rest(q, a), left) = Rest(Rest(q, a), b)
        /\ \A i \in 1 .. b : i \notin left
        /\ b < Len(q) - a => b + 1 \in left
    BY <1>3, <1>5 DEF DropsTo
  <1>7. PICK c \in 0 .. Len(q) : DropsTo(q, late, c)
    <2>1. late \in SUBSET (1 .. Len(q))
      OBVIOUS
    <2> QED
      BY <2>1, DropOldHeadIsRest
  <1>8. /\ DropOldHead(q, late) = Rest(q, c)
        /\ \A i \in 1 .. c : i \notin late
        /\ c < Len(q) => c + 1 \in late
    BY <1>7 DEF DropsTo
  <1>9. \A i \in 1 .. a + b : i \notin late
    <2> SUFFICES ASSUME NEW i \in 1 .. a + b, i \in late PROVE FALSE
      OBVIOUS
    <2>1. CASE i <= a
      BY <1>2, <2>1
    <2>2. CASE i > a
      <3>1. i - a \in 1 .. b /\ i - a \in 1 .. Len(q) - a /\ (i - a) + a = i
        BY <2>2
      <3> QED
        BY <1>4, <1>6, <3>1
    <2> QED
      BY <2>1, <2>2
  <1>10. a + b < Len(q) => a + b + 1 \in late
    <2> SUFFICES ASSUME a + b < Len(q) PROVE a + b + 1 \in late
      OBVIOUS
    <2>1. b < Len(q) - a /\ (b + 1) + a = a + b + 1
      OBVIOUS
    <2>2. b + 1 \in left
      BY <1>6, <2>1
    <2>3. (b + 1) + a \in late
      BY <1>4, <2>2
    <2> QED
      BY <2>1, <2>3
  <1>11. c = a + b
    <2>1. ~(c < a + b)
      BY <1>8, <1>9
    <2>2. ~(c > a + b)
      BY <1>8, <1>10
    <2> QED
      BY <2>1, <2>2
  <1>12. Rest(Rest(q, a), b) = Rest(q, a + b)
    BY RestOfRest
  <1> QED
    BY <1>2, <1>6, <1>8, <1>11, <1>12
---------------------------------------------------------------------------
(* The inductive invariant: the dwells and the orders the engine still     *)
(* holds are what is left of all it was told of, and everything before     *)
(* them was too old at the latest time a caller trimmed with; orders       *)
(* arrived in order; the video clock is the latest time heard.             *)
Location ==
    [dwell : Seq(Int \X Int), inQueue : SUBSET People,
     orders : Seq(Int), lastVideo : Int \union {Absent}]

TypeInv ==
    /\ st \in Location
    /\ recorded \in Seq(Int \X Int) /\ received \in Seq(Int)
    /\ since \in [People -> Int \union {Absent}]
    /\ heard \in SUBSET Int
    /\ nowMax \in Int \union {Absent}
    /\ \A p \in st.inQueue : since[p] \in Int

SamplesKept(q, all, now) ==
    \E gone \in 0 .. Len(all) :
        /\ q = Rest(all, gone)
        /\ \A i \in 1 .. gone : now \in Int /\ now - all[i][1] > Window

OrdersKept(q, all, now) ==
    \E gone \in 0 .. Len(all) :
        /\ q = Rest(all, gone)
        /\ \A i \in 1 .. gone : now \in Int /\ now - all[i] > PosWindow

InOrder(q) == \A i, j \in 1 .. Len(q) : i <= j => q[i] <= q[j]

VideoClock(last, times) ==
    \/ last = Absent /\ times = {}
    \/ last \in times /\ \A h \in times : h <= last

IInv ==
    /\ TypeInv
    /\ SamplesKept(st.dwell, recorded, nowMax)
    /\ OrdersKept(st.orders, received, nowMax)
    /\ InOrder(received)
    /\ VideoClock(st.lastVideo, heard)

---------------------------------------------------------------------------
(* What one trim takes from what is left of a deque: entries that were     *)
(* already too old, or are too old now.                                    *)
LEMMA DropFromRest ==
    ASSUME NEW S, NEW all \in Seq(S), NEW gone \in 0 .. Len(all),
           NEW recent \in SUBSET (1 .. Len(all) - gone)
    PROVE  \E g \in gone .. Len(all) :
              /\ DropOldHead(Rest(all, gone), recent) = Rest(all, g)
              /\ \A i \in gone + 1 .. g : i - gone \notin recent
              /\ g < Len(all) => (g + 1) - gone \in recent
  <1>1. Rest(all, gone) \in Seq(S) /\ Len(Rest(all, gone)) = Len(all) - gone
    BY RestOf
  <1>2. recent \in SUBSET (1 .. Len(Rest(all, gone)))
    BY <1>1
  <1>3. PICK b \in 0 .. Len(Rest(all, gone)) : DropsTo(Rest(all, gone), recent, b)
    BY <1>1, <1>2, DropOldHeadIsRest
  <1>4. /\ DropOldHead(Rest(all, gone), recent) = Rest(Rest(all, gone), b)
        /\ \A i \in 1 .. b : i \notin recent
        /\ b < Len(all) - gone => b + 1 \in recent
    BY <1>1, <1>3 DEF DropsTo
  <1>5. b \in 0 .. Len(all) - gone
    BY <1>1, <1>3
  <1>6. Rest(Rest(all, gone), b) = Rest(all, gone + b)
    BY <1>5, RestOfRest
  <1>7. gone + b \in gone .. Len(all)
    BY <1>5
  <1>8. \A i \in gone + 1 .. gone + b : i - gone \notin recent
    BY <1>4, <1>5
  <1>9. gone + b < Len(all) => (gone + b + 1) - gone \in recent
    <2>1. (gone + b + 1) - gone = b + 1
      BY <1>5
    <2> QED
      BY <1>4, <1>5, <2>1
  <1> QED
    BY <1>4, <1>6, <1>7, <1>8, <1>9

LEMMA TimeOfSample ==
    ASSUME NEW all \in Seq(Int \X Int), NEW i \in 1 .. Len(all)
    PROVE  all[i][1] \in Int
  <1>1. all[i] \in Int \X Int
    OBVIOUS
  <1> QED
    BY <1>1

LEMMA SamplesKeptByTrim ==
    ASSUME NEW all \in Seq(Int \X Int), NEW q, NEW old \in Int \union {Absent},
           SamplesKept(q, all, old), NEW at \in Int, NEW new \in Int,
           new >= at, old \in Int => new >= old
    PROVE  /\ SamplesKept(DropOldHead(q, RecentDwells(q, at, Window)), all, new)
           /\ DropOldHead(q, RecentDwells(q, at, Window)) \in Seq(Int \X Int)
  <1>1. PICK gone \in 0 .. Len(all) :
            /\ q = Rest(all, gone)
            /\ \A i \in 1 .. gone : old \in Int /\ old - all[i][1] > Window
    BY DEF SamplesKept
  <1> DEFINE recent == RecentDwells(q, at, Window)
  <1>2. /\ q \in Seq(Int \X Int) /\ Len(q) = Len(all) - gone
        /\ \A i \in 1 .. Len(all) - gone : q[i] = all[gone + i]
    BY <1>1, RestOf
  <1>3. recent = {i \in 1 .. Len(all) - gone : at - q[i][1] <= Window}
    <2>1. DOMAIN q = 1 .. Len(all) - gone
      BY <1>2
    <2> QED
      BY <2>1 DEF RecentDwells
  <1> HIDE DEF recent
  <1>4. PICK g \in gone .. Len(all) :
            /\ DropOldHead(Rest(all, gone), recent) = Rest(all, g)
            /\ \A i \in gone + 1 .. g : i - gone \notin recent
    <2>1. recent \in SUBSET (1 .. Len(all) - gone)
      BY <1>3
    <2> QED
      BY <2>1, DropFromRest
  <1>5. ASSUME NEW i \in 1 .. g PROVE new - all[i][1] > Window
    <2>0. all[i][1] \in Int /\ Window \in Nat /\ gone \in Nat
      <3>1. i \in 1 .. Len(all)
        BY <1>4
      <3>2. all[i][1] \in Int
        BY <3>1, TimeOfSample
      <3>3. Window \in Nat
        BY WaitTimeAssumption
      <3> QED
        BY <3>2, <3>3
    <2>1. CASE i <= gone
      <3>1. old \in Int /\ old - all[i][1] > Window
        BY <1>1, <2>1
      <3> QED
        BY <2>0, <3>1
    <2>2. CASE i > gone
      <3>1. i - gone \notin recent /\ i - gone \in 1 .. Len(all) - gone /\ gone + (i - gone) = i
        BY <1>4, <2>2
      <3>2. q[i - gone] = all[i]
        BY <1>2, <3>1
      <3>3. ~(at - q[i - gone][1] <= Window)
        BY <1>3, <3>1
      <3> DEFINE x == all[i][1]
      <3>4. ~(at - x <= Window) /\ x \in Int /\ Window \in Nat
        BY <2>0, <3>2, <3>3
      <3> HIDE DEF x
      <3>5. new - x > Window
        BY <3>4
      <3> QED
        BY <3>5 DEF x
    <2> QED
      BY <2>1, <2>2
  <1>6. SamplesKept(Rest(all, g), all, new)
    BY <1>4, <1>5 DEF SamplesKept
  <1>7. Rest(all, g) \in Seq(Int \X Int)
    BY <1>4, RestOf
  <1> QED
    BY <1>1, <1>4, <1>6, <1>7 DEF recent

LEMMA OrdersKeptByTrim ==
    ASSUME NEW all \in Seq(Int), NEW q, NEW old \in Int \union {Absent},
           OrdersKept(q, all, old), NEW at \in Int, NEW new \in Int,
           new >= at, old \in Int => new >= old
    PROVE  /\ OrdersKept(DropOldHead(q, RecentOrders(q, at, PosWindow)), all, new)
           /\ DropOldHead(q, RecentOrders(q, at, PosWindow)) \in Seq(Int)
  <1>1. PICK gone \in 0 .. Len(all) :
            /\ q = Rest(all, gone)
            /\ \A i \in 1 .. gone : old \in Int /\ old - all[i] > PosWindow
    BY DEF OrdersKept
  <1> DEFINE recent == RecentOrders(q, at, PosWindow)
  <1>2. /\ q \in Seq(Int) /\ Len(q) = Len(all) - gone
        /\ \A i \in 1 .. Len(all) - gone : q[i] = all[gone + i]
    BY <1>1, RestOf
  <1>3. recent = {i \in 1 .. Len(all) - gone : at - q[i] <= PosWindow}
    BY <1>2 DEF RecentOrders
  <1> HIDE DEF recent
  <1>4. PICK g \in gone .. Len(all) :
            /\ DropOldHead(Rest(all, gone), recent) = Rest(all, g)
            /\ \A i \in gone + 1 .. g : i - gone \notin recent
    <2>1. recent \in SUBSET (1 .. Len(all) - gone)
      BY <1>3
    <2> QED
      BY <2>1, DropFromRest
  <1>5. ASSUME NEW i \in 1 .. g PROVE new - all[i] > PosWindow
    <2>0. all[i] \in Int /\ PosWindow \in Nat /\ gone \in Nat
      BY WaitTimeAssumption
    <2>1. CASE i <= gone
      <3>1. old \in Int /\ old - all[i] > PosWindow
        BY <1>1, <2>1
      <3> QED
        BY <2>0, <3>1
    <2>2. CASE i > gone
      <3>1. i - gone \notin recent /\ i - gone \in 1 .. Len(all) - gone /\ gone + (i - gone) = i
        BY <1>4, <2>2
      <3>2. q[i - gone] = all[i]
        BY <1>2, <3>1
      <3>3. ~(at - all[i] <= PosWindow)
        BY <1>3, <3>1, <3>2
      <3> QED
        BY <2>0, <3>3
    <2> QED
      BY <2>1, <2>2
  <1>6. OrdersKept(Rest(all, g), all, new)
    BY <1>4, <1>5 DEF OrdersKept
  <1>7. Rest(all, g) \in Seq(Int)
    BY <1>4, RestOf
  <1> QED
    BY <1>1, <1>4, <1>6, <1>7 DEF recent

(* A dwell or an order that is recorded is appended to what is held.       *)
LEMMA SamplesKeptByAppend ==
    ASSUME NEW all \in Seq(Int \X Int), NEW q, NEW now, SamplesKept(q, all, now),
           NEW x \in Int \X Int
    PROVE  /\ SamplesKept(Append(q, x), Append(all, x), now)
           /\ Append(all, x) \in Seq(Int \X Int)
  <1>1. PICK gone \in 0 .. Len(all) :
            /\ q = Rest(all, gone)
            /\ \A i \in 1 .. gone : now \in Int /\ now - all[i][1] > Window
    BY DEF SamplesKept
  <1>2. Append(q, x) = Rest(Append(all, x), gone)
    BY <1>1, RestOfAppend
  <1>3. gone \in 0 .. Len(Append(all, x)) /\ \A i \in 1 .. gone : Append(all, x)[i] = all[i]
    OBVIOUS
  <1>4. \A i \in 1 .. gone : now \in Int /\ now - Append(all, x)[i][1] > Window
    BY <1>1, <1>3
  <1> QED
    BY <1>2, <1>3, <1>4 DEF SamplesKept

LEMMA OrdersKeptByAppend ==
    ASSUME NEW all \in Seq(Int), NEW q, NEW now, OrdersKept(q, all, now), NEW x \in Int
    PROVE  /\ OrdersKept(Append(q, x), Append(all, x), now)
           /\ Append(all, x) \in Seq(Int)
  <1>1. PICK gone \in 0 .. Len(all) :
            /\ q = Rest(all, gone)
            /\ \A i \in 1 .. gone : now \in Int /\ now - all[i] > PosWindow
    BY DEF OrdersKept
  <1>2. Append(q, x) = Rest(Append(all, x), gone)
    BY <1>1, RestOfAppend
  <1>3. gone \in 0 .. Len(Append(all, x)) /\ \A i \in 1 .. gone : Append(all, x)[i] = all[i]
    OBVIOUS
  <1>4. \A i \in 1 .. gone : now \in Int /\ now - Append(all, x)[i] > PosWindow
    BY <1>1, <1>3
  <1> QED
    BY <1>2, <1>3, <1>4 DEF OrdersKept

(* The video clock keeps the latest time, whatever order they come in.     *)
LEMMA HeardKeepsTheLatest ==
    ASSUME NEW s \in Location, NEW times \in SUBSET Int, VideoClock(s.lastVideo, times),
           NEW ts \in Int
    PROVE  /\ Heard(s, ts) \in Location
           /\ VideoClock(Heard(s, ts).lastVideo, times \union {ts})
           /\ Heard(s, ts).dwell = s.dwell /\ Heard(s, ts).orders = s.orders
           /\ Heard(s, ts).inQueue = s.inQueue
  <1> DEFINE last == IF s.lastVideo = Absent \/ ts > s.lastVideo THEN ts ELSE s.lastVideo
  <1>1. s.lastVideo \in Int \union {Absent} /\ Absent \notin Int
    BY WaitTimeAssumption DEF Location
  <1>2. Heard(s, ts) = [s EXCEPT !.lastVideo = last]
    BY DEF Heard
  <1>3. last \in Int
    BY <1>1
  <1>4. VideoClock(last, times \union {ts})
    <2>1. CASE s.lastVideo = Absent
      <3>1. times = {} /\ last = ts
        BY <1>1, <2>1 DEF VideoClock
      <3> QED
        BY <3>1 DEF VideoClock
    <2>2. CASE s.lastVideo # Absent
      <3>1. s.lastVideo \in Int /\ s.lastVideo \in times /\ \A h \in times : h <= s.lastVideo
        BY <1>1, <2>2 DEF VideoClock
      <3>2. last \in times \union {ts} /\ last >= s.lastVideo /\ last >= ts
        BY <2>2, <3>1
      <3> HIDE DEF last
      <3>3. \A h \in times \union {ts} : h <= last
        BY <1>3, <3>1, <3>2
      <3> QED
        BY <3>2, <3>3 DEF VideoClock
    <2> QED
      BY <2>1, <2>2
  <1> HIDE DEF last
  <1> QED
    BY <1>2, <1>3, <1>4 DEF Location

LEMMA TrimFields ==
    ASSUME NEW s \in Location, NEW at
    PROVE  /\ Trim(s, at).dwell = DropOldHead(s.dwell, RecentDwells(s.dwell, at, Window))
           /\ Trim(s, at).orders = DropOldHead(s.orders, RecentOrders(s.orders, at, PosWindow))
           /\ Trim(s, at).inQueue = s.inQueue /\ Trim(s, at).lastVideo = s.lastVideo
           /\ /\ Trim(s, at).dwell \in Seq(Int \X Int)
              /\ Trim(s, at).orders \in Seq(Int)
              => Trim(s, at) \in Location
  <1> DEFINE dwell == DropOldHead(s.dwell, RecentDwells(s.dwell, at, Window))
             orders == DropOldHead(s.orders, RecentOrders(s.orders, at, PosWindow))
  <1>1. Trim(s, at) = [s EXCEPT !.dwell = dwell, !.orders = orders]
    BY DEF Trim
  <1> HIDE DEF dwell, orders
  <1>2. /\ Trim(s, at).dwell = dwell /\ Trim(s, at).orders = orders
        /\ Trim(s, at).inQueue = s.inQueue /\ Trim(s, at).lastVideo = s.lastVideo
        /\ dwell \in Seq(Int \X Int) /\ orders \in Seq(Int) => Trim(s, at) \in Location
    BY <1>1 DEF Location
  <1> QED
    BY <1>2 DEF dwell, orders

(* What every handler ends with: a trim of what it made of the state.      *)
LEMMA TrimKeeps ==
    ASSUME NEW s \in Location, NEW rec \in Seq(Int \X Int), NEW rcv \in Seq(Int),
           NEW old \in Int \union {Absent}, NEW at \in Int, NEW new \in Int,
           new >= at, old \in Int => new >= old,
           SamplesKept(s.dwell, rec, old), OrdersKept(s.orders, rcv, old)
    PROVE  /\ Trim(s, at) \in Location
           /\ SamplesKept(Trim(s, at).dwell, rec, new)
           /\ OrdersKept(Trim(s, at).orders, rcv, new)
           /\ Trim(s, at).inQueue = s.inQueue /\ Trim(s, at).lastVideo = s.lastVideo
  <1>1. /\ SamplesKept(Trim(s, at).dwell, rec, new)
        /\ Trim(s, at).dwell \in Seq(Int \X Int)
    <2>1. Trim(s, at).dwell = DropOldHead(s.dwell, RecentDwells(s.dwell, at, Window))
      BY TrimFields
    <2> QED
      BY <2>1, SamplesKeptByTrim
  <1>2. /\ OrdersKept(Trim(s, at).orders, rcv, new)
        /\ Trim(s, at).orders \in Seq(Int)
    <2>1. Trim(s, at).orders = DropOldHead(s.orders, RecentOrders(s.orders, at, PosWindow))
      BY TrimFields
    <2> QED
      BY <2>1, OrdersKeptByTrim
  <1>4. Trim(s, at) \in Location
    BY <1>1, <1>2, TrimFields
  <1> QED
    BY <1>1, <1>2, <1>4, TrimFields

LEMMA TrimmedMovesOn ==
    ASSUME NEW now \in Int, nowMax \in Int \union {Absent}, Trimmed(now)
    PROVE  /\ nowMax' \in Int /\ nowMax' >= now
           /\ nowMax \in Int => nowMax' >= nowMax
  BY WaitTimeAssumption DEF Trimmed

LEMMA InOrderByAppend ==
    ASSUME NEW q \in Seq(Int), InOrder(q), NEW at \in Int, q # <<>> => at >= Last(q)
    PROVE  InOrder(Append(q, at))
  <1> SUFFICES ASSUME NEW i \in 1 .. Len(q) + 1, NEW j \in 1 .. Len(q) + 1, i <= j
               PROVE  Append(q, at)[i] <= Append(q, at)[j]
    BY DEF InOrder
  <1>1. CASE j <= Len(q)
    <2>1. i \in 1 .. Len(q) /\ j \in 1 .. Len(q)
      BY <1>1
    <2>2. Append(q, at)[i] = q[i] /\ Append(q, at)[j] = q[j]
      BY <2>1
    <2> QED
      BY <2>1, <2>2 DEF InOrder
  <1>2. CASE j = Len(q) + 1 /\ i = Len(q) + 1
    BY <1>2
  <1>3. CASE j = Len(q) + 1 /\ i <= Len(q)
    <2>1. i \in 1 .. Len(q) /\ Len(q) \in 1 .. Len(q) /\ i <= Len(q)
      BY <1>3
    <2>2. Append(q, at)[i] = q[i] /\ Append(q, at)[j] = at
      BY <1>3, <2>1
    <2>3. q[i] <= q[Len(q)] /\ q[i] \in Int /\ q[Len(q)] \in Int
      BY <2>1 DEF InOrder
    <2>4. at >= q[Len(q)]
      BY <2>1 DEF Last
    <2> QED
      BY <2>2, <2>3, <2>4
  <1>4. j <= Len(q) \/ (j = Len(q) + 1 /\ i = Len(q) + 1) \/ (j = Len(q) + 1 /\ i <= Len(q))
    OBVIOUS
  <1> QED
    BY <1>1, <1>2, <1>3, <1>4, Zenon

---------------------------------------------------------------------------
LEMMA InitIInv == Init => IInv
  <1> SUFFICES ASSUME Init PROVE IInv
    OBVIOUS
  <1>1. st.dwell = <<>> /\ st.orders = <<>> /\ st.inQueue = {} /\ st.lastVideo = Absent
    BY DEF Init, EmptyLocation
  <1>2. TypeInv
    BY DEF Init, EmptyLocation, TypeInv, Location
  <1>3. \A q : q = <<>> => Rest(q, 0) = <<>>
    BY DEF Rest
  <1>4. SamplesKept(st.dwell, recorded, nowMax) /\ OrdersKept(st.orders, received, nowMax)
    BY <1>1, <1>3 DEF Init, SamplesKept, OrdersKept
  <1>5. InOrder(received) /\ VideoClock(st.lastVideo, heard)
    BY <1>1 DEF Init, InOrder, VideoClock
  <1> QED
    BY <1>2, <1>4, <1>5 DEF IInv

(* What a zone event of the queue makes of the state before the trim.      *)
LEMMA EnterEvent ==
    ASSUME NEW s \in Location, NEW p \in People, NEW ts \in Int
    PROVE  /\ OnZoneEvent(s, Event("enter", "queue", p, ts, Absent))
                = Trim([Heard(s, ts) EXCEPT !.inQueue = @ \union {p}], ts)
           /\ OnZoneEvent(s, Event("enter", "service", p, ts, Absent)) = Heard(s, ts)
  BY DEF OnZoneEvent, Counted, Event

LEMMA ExitEvent ==
    ASSUME NEW s \in Location, NEW p \in People, NEW ts \in Int, NEW d \in Int
    PROVE  OnZoneEvent(s, Event("exit", "queue", p, ts, d))
             = Trim([Heard(s, ts) EXCEPT
                        !.inQueue = @ \ {p},
                        !.dwell = IF d >= MinDwell THEN Append(@, <<ts, d>>) ELSE @], ts)
  BY DEF OnZoneEvent, Counted, Event

LEMMA EnterKeeps ==
    ASSUME IInv, NEW p \in People, NEW t \in Int, EnterQueue(p, t)
    PROVE  IInv'
  <1> USE DEF IInv, TypeInv
  <1>1. /\ st' = OnZoneEvent(st, Event("enter", "queue", p, t, Absent))
        /\ since' = [since EXCEPT ![p] = t] /\ heard' = heard \union {t}
        /\ recorded' = recorded /\ received' = received
    BY DEF EnterQueue
  <1>2. nowMax' \in Int /\ nowMax' >= t /\ (nowMax \in Int => nowMax' >= nowMax)
    BY TrimmedMovesOn DEF EnterQueue
  <1> DEFINE h == Heard(st, t)
             mid == [h EXCEPT !.inQueue = @ \union {p}]
  <1>3. /\ h \in Location /\ VideoClock(h.lastVideo, heard')
        /\ h.dwell = st.dwell /\ h.orders = st.orders /\ h.inQueue = st.inQueue
    BY <1>1, HeardKeepsTheLatest
  <1>4. st' = Trim(mid, t)
    BY <1>1, EnterEvent
  <1> HIDE DEF h
  <1>5. /\ mid \in Location /\ mid.dwell = st.dwell /\ mid.orders = st.orders
        /\ mid.inQueue = st.inQueue \union {p} /\ mid.lastVideo = h.lastVideo
    BY <1>3 DEF Location
  <1> HIDE DEF mid
  <1>6. /\ st' \in Location
        /\ SamplesKept(st'.dwell, recorded, nowMax')
        /\ OrdersKept(st'.orders, received, nowMax')
        /\ st'.inQueue = mid.inQueue /\ st'.lastVideo = mid.lastVideo
    BY <1>2, <1>4, <1>5, TrimKeeps
  <1>7. VideoClock(st'.lastVideo, heard')
    BY <1>3, <1>5, <1>6
  <1>8. /\ since' \in [People -> Int \union {Absent}]
        /\ \A o \in st'.inQueue : since'[o] \in Int
    BY <1>1, <1>5, <1>6 DEF Location
  <1>9. heard' \in SUBSET Int
    BY <1>1
  <1> QED
    BY <1>1, <1>2, <1>6, <1>7, <1>8, <1>9

LEMMA ExitKeeps ==
    ASSUME IInv, NEW p \in People, NEW t \in Int, ExitQueue(p, t)
    PROVE  IInv'
  <1> USE DEF IInv, TypeInv
  <1> DEFINE d == IF t >= since[p] THEN t - since[p] ELSE 0
             long == d >= MinDwell
  <1>1. /\ p \in st.inQueue
        /\ st' = OnZoneEvent(st, Event("exit", "queue", p, t, d))
        /\ recorded' = IF long THEN Append(recorded, <<t, d>>) ELSE recorded
        /\ since' = [since EXCEPT ![p] = Absent] /\ heard' = heard \union {t}
        /\ received' = received
    BY DEF ExitQueue
  <1>2. nowMax' \in Int /\ nowMax' >= t /\ (nowMax \in Int => nowMax' >= nowMax)
    BY TrimmedMovesOn DEF ExitQueue
  <1>d. d \in Int
    BY <1>1
  <1> HIDE DEF d, long
  <1> DEFINE h == Heard(st, t)
             mid == [h EXCEPT !.inQueue = @ \ {p},
                              !.dwell = IF long THEN Append(@, <<t, d>>) ELSE @]
  <1>3. /\ h \in Location /\ VideoClock(h.lastVideo, heard')
        /\ h.dwell = st.dwell /\ h.orders = st.orders /\ h.inQueue = st.inQueue
    BY <1>1, HeardKeepsTheLatest
  <1>4. st' = Trim(mid, t)
    BY <1>1, <1>d, ExitEvent DEF long
  <1> HIDE DEF h
  <1>5. /\ SamplesKept(IF long THEN Append(st.dwell, <<t, d>>) ELSE st.dwell, recorded', nowMax)
        /\ recorded' \in Seq(Int \X Int)
        /\ (IF long THEN Append(st.dwell, <<t, d>>) ELSE st.dwell) \in Seq(Int \X Int)
    <2>0. <<t, d>> \in Int \X Int /\ st.dwell \in Seq(Int \X Int)
      BY <1>d DEF Location
    <2>1. CASE long
      BY <1>1, <2>0, <2>1, SamplesKeptByAppend
    <2>2. CASE ~long
      BY <1>1, <2>0, <2>2
    <2> QED
      BY <2>1, <2>2
  <1>6. /\ mid.dwell = (IF long THEN Append(st.dwell, <<t, d>>) ELSE st.dwell)
        /\ mid.orders = st.orders
        /\ mid.inQueue = st.inQueue \ {p} /\ mid.lastVideo = h.lastVideo
        /\ mid \in Location
    BY <1>3, <1>5 DEF Location
  <1> HIDE DEF mid
  <1>7. /\ st' \in Location
        /\ SamplesKept(st'.dwell, recorded', nowMax')
        /\ OrdersKept(st'.orders, received, nowMax')
        /\ st'.inQueue = mid.inQueue /\ st'.lastVideo = mid.lastVideo
    <2>1. SamplesKept(mid.dwell, recorded', nowMax) /\ OrdersKept(mid.orders, received, nowMax)
      BY <1>5, <1>6
    <2>2. recorded' \in Seq(Int \X Int) /\ mid \in Location
      BY <1>5, <1>6
    <2> QED
      BY <1>2, <1>4, <2>1, <2>2, TrimKeeps
  <1>8. VideoClock(st'.lastVideo, heard')
    BY <1>3, <1>6, <1>7
  <1>9. /\ since' \in [People -> Int \union {Absent}]
        /\ \A o \in st'.inQueue : since'[o] \in Int
    BY <1>1, <1>6, <1>7 DEF Location
  <1>10. heard' \in SUBSET Int
    BY <1>1
  <1> QED
    BY <1>1, <1>2, <1>5, <1>7, <1>8, <1>9, <1>10

LEMMA OtherVideoKeeps ==
    ASSUME IInv, NEW t \in Int, OtherVideo(t)
    PROVE  IInv'
  <1> USE DEF IInv, TypeInv
  <1>1. st' = Heard(st, t)
    BY EnterEvent DEF OtherVideo
  <1>2. /\ heard' = heard \union {t} /\ UNCHANGED <<since, recorded, received, nowMax>>
    BY DEF OtherVideo
  <1>3. /\ st' \in Location /\ VideoClock(st'.lastVideo, heard')
        /\ st'.dwell = st.dwell /\ st'.orders = st.orders /\ st'.inQueue = st.inQueue
    BY <1>1, <1>2, HeardKeepsTheLatest
  <1> QED
    BY <1>2, <1>3

LEMMA PosEventKeeps ==
    ASSUME IInv, NEW type, NEW t \in Int, PosEvent(type, t)
    PROVE  IInv'
  <1> USE DEF IInv, TypeInv
  <1> DEFINE counted == type \in OrderTypes
             mid == IF counted THEN [st EXCEPT !.orders = Append(@, t)] ELSE st
  <1>1. /\ received # <<>> => t >= Last(received)
        /\ st' = Trim(mid, t)
        /\ received' = IF counted THEN Append(received, t) ELSE received
        /\ UNCHANGED <<since, recorded, heard>>
    BY DEF PosEvent, OnPosEvent
  <1>2. nowMax' \in Int /\ nowMax' >= t /\ (nowMax \in Int => nowMax' >= nowMax)
    BY TrimmedMovesOn DEF PosEvent
  <1> HIDE DEF counted
  <1>3. /\ OrdersKept(IF counted THEN Append(st.orders, t) ELSE st.orders, received', nowMax)
        /\ received' \in Seq(Int) /\ InOrder(received')
    <2>1. CASE counted
      BY <1>1, <2>1, OrdersKeptByAppend, InOrderByAppend
    <2>2. CASE ~counted
      BY <1>1, <2>2
    <2> QED
      BY <2>1, <2>2
  <1>4. /\ mid.orders = (IF counted THEN Append(st.orders, t) ELSE st.orders)
        /\ mid.dwell = st.dwell
        /\ mid.inQueue = st.inQueue /\ mid.lastVideo = st.lastVideo
        /\ mid \in Location
    <2>1. CASE counted
      <3>1. mid = [st EXCEPT !.orders = Append(@, t)]
        BY <2>1
      <3> HIDE DEF mid
      <3>2. Append(st.orders, t) \in Seq(Int)
        BY DEF Location
      <3>3. /\ mid.orders = Append(st.orders, t)
            /\ mid.dwell = st.dwell
            /\ mid.inQueue = st.inQueue /\ mid.lastVideo = st.lastVideo
            /\ mid \in Location
        BY <3>1, <3>2 DEF Location
      <3> QED
        BY <2>1, <3>3
    <2>2. CASE ~counted
      BY <2>2
    <2> QED
      BY <2>1, <2>2
  <1> HIDE DEF mid
  <1>5. /\ st' \in Location
        /\ SamplesKept(st'.dwell, recorded, nowMax')
        /\ OrdersKept(st'.orders, received', nowMax')
        /\ st'.inQueue = mid.inQueue /\ st'.lastVideo = mid.lastVideo
    <2>1. SamplesKept(mid.dwell, recorded, nowMax) /\ OrdersKept(mid.orders, received', nowMax)
      BY <1>3, <1>4
    <2>2. received' \in Seq(Int) /\ mid \in Location
      BY <1>3, <1>4
    <2>3. st' = Trim(mid, t)
      BY <1>1
    <2> QED
      BY <1>2, <2>1, <2>2, <2>3, TrimKeeps
  <1> QED
    BY <1>1, <1>2, <1>3, <1>4, <1>5

LEMMA ReadKeeps ==
    ASSUME IInv, NEW t \in Int, Read(t)
    PROVE  IInv'
  <1> USE DEF IInv, TypeInv
  <1>1. st' = Trim(st, t) /\ UNCHANGED <<since, recorded, received, heard>>
    BY DEF Read
  <1>2. nowMax' \in Int /\ nowMax' >= t /\ (nowMax \in Int => nowMax' >= nowMax)
    BY TrimmedMovesOn DEF Read
  <1>3. /\ st' \in Location
        /\ SamplesKept(st'.dwell, recorded, nowMax')
        /\ OrdersKept(st'.orders, received, nowMax')
        /\ st'.inQueue = st.inQueue /\ st'.lastVideo = st.lastVideo
    <2>1. st \in Location /\ recorded \in Seq(Int \X Int) /\ received \in Seq(Int)
      OBVIOUS
    <2>2. SamplesKept(st.dwell, recorded, nowMax) /\ OrdersKept(st.orders, received, nowMax)
      OBVIOUS
    <2>3. nowMax \in Int \union {Absent}
      OBVIOUS
    <2> HIDE DEF IInv, TypeInv
    <2> QED
      BY <1>1, <1>2, <2>1, <2>2, <2>3, TrimKeeps
  <1> QED
    BY <1>1, <1>2, <1>3

LEMMA NextIInv == IInv /\ [Next]_vars => IInv'
  <1> SUFFICES ASSUME IInv, [Next]_vars PROVE IInv'
    OBVIOUS
  <1>1. ASSUME NEW t \in Times, NEW p \in People, EnterQueue(p, t) PROVE IInv'
    BY <1>1, TimesAssumption, EnterKeeps
  <1>2. ASSUME NEW t \in Times, NEW p \in People, ExitQueue(p, t) PROVE IInv'
    BY <1>2, TimesAssumption, ExitKeeps
  <1>3. ASSUME NEW t \in Times, OtherVideo(t) PROVE IInv'
    BY <1>3, TimesAssumption, OtherVideoKeeps
  <1>4. ASSUME NEW t \in Times, NEW type, PosEvent(type, t) PROVE IInv'
    BY <1>4, TimesAssumption, PosEventKeeps
  <1>5. ASSUME NEW t \in Times, Read(t) PROVE IInv'
    BY <1>5, TimesAssumption, ReadKeeps
  <1>6. CASE UNCHANGED vars
    BY <1>6 DEF vars, IInv, TypeInv
  <1> QED
    BY <1>1, <1>2, <1>3, <1>4, <1>5, <1>6 DEF Next

(* The invariant holds of every run of the engine.                         *)
THEOREM InvariantHolds == Spec => []IInv
  BY InitIInv, NextIInv, PTL DEF Spec

(* NoSampleLost: what is missing of the dwells recorded is a prefix, and   *)
(* every dwell in it was older than the window for the latest caller of    *)
(* _trim (engine.py), in whatever order the callers' times came.           *)
THEOREM NoSampleLostHolds == Spec => []NoSampleLost
  <1>1. IInv => NoSampleLost
    <2> SUFFICES ASSUME IInv PROVE NoSampleLost
      OBVIOUS
    <2>1. PICK gone \in 0 .. Len(recorded) :
              /\ st.dwell = Rest(recorded, gone)
              /\ \A i \in 1 .. gone : nowMax \in Int /\ nowMax - recorded[i][1] > Window
      BY DEF IInv, SamplesKept
    <2>2. Len(st.dwell) = Len(recorded) - gone
      BY <2>1, RestOf DEF IInv, TypeInv
    <2> DEFINE lost == Len(recorded) - Len(st.dwell)
    <2>3. lost = gone
      BY <2>2 DEF IInv, TypeInv
    <2> HIDE DEF lost
    <2>4. /\ lost >= 0
          /\ st.dwell = SubSeq(recorded, lost + 1, Len(recorded))
          /\ \A i \in 1 .. lost : nowMax - recorded[i][1] > Window
      BY <2>1, <2>3 DEF Rest
    <2> QED
      BY <2>4 DEF NoSampleLost, lost
  <1> QED
    BY <1>1, InvariantHolds, PTL

---------------------------------------------------------------------------
LEMMA SameLocation ==
    ASSUME NEW r \in Location, NEW s \in Location,
           r.dwell = s.dwell, r.orders = s.orders,
           r.inQueue = s.inQueue, r.lastVideo = s.lastVideo
    PROVE  r = s
  BY DEF Location

LEMMA TrimIsLocation ==
    ASSUME NEW s \in Location, NEW at \in Int
    PROVE  Trim(s, at) \in Location
  <1> DEFINE dwells == RecentDwells(s.dwell, at, Window)
             orders == RecentOrders(s.orders, at, PosWindow)
  <1>1. s.dwell \in Seq(Int \X Int) /\ s.orders \in Seq(Int)
    BY DEF Location
  <1>2. dwells \in SUBSET (1 .. Len(s.dwell)) /\ orders \in SUBSET (1 .. Len(s.orders))
    BY <1>1 DEF RecentDwells, RecentOrders
  <1>3. Trim(s, at).dwell = DropOldHead(s.dwell, dwells)
    BY TrimFields
  <1>4. Trim(s, at).orders = DropOldHead(s.orders, orders)
    BY TrimFields
  <1> HIDE DEF dwells, orders
  <1>5. Trim(s, at).dwell \in Seq(Int \X Int)
    <2>1. PICK a \in 0 .. Len(s.dwell) : DropOldHead(s.dwell, dwells) = Rest(s.dwell, a)
      BY <1>1, <1>2, DropOldHeadIsRest DEF DropsTo
    <2>2. Rest(s.dwell, a) \in Seq(Int \X Int)
      BY <1>1, RestOf
    <2> QED
      BY <1>3, <2>1, <2>2
  <1>6. Trim(s, at).orders \in Seq(Int)
    <2>1. PICK a \in 0 .. Len(s.orders) : DropOldHead(s.orders, orders) = Rest(s.orders, a)
      BY <1>1, <1>2, DropOldHeadIsRest DEF DropsTo
    <2> QED
      BY <1>1, <1>4, <2>1, RestOf
  <1> QED
    BY <1>5, <1>6, TrimFields

(* One reader's trim and then a later reader's is the later reader's.      *)
LEMMA TrimTwice ==
    ASSUME NEW s \in Location, NEW early \in Int, NEW late \in Int, early <= late
    PROVE  Trim(Trim(s, early), late) = Trim(s, late)
  <1> DEFINE dwells == RecentDwells(s.dwell, early, Window)
             orders == RecentOrders(s.orders, early, PosWindow)
             dwell == DropOldHead(s.dwell, dwells)
             order == DropOldHead(s.orders, orders)
  <1>1. s.dwell \in Seq(Int \X Int) /\ s.orders \in Seq(Int) /\ Window \in Nat /\ PosWindow \in Nat
    BY WaitTimeAssumption DEF Location
  <1>2. \A i \in 1 .. Len(s.dwell) : s.dwell[i][1] \in Int
    BY <1>1, TimeOfSample
  <1>3. DropOldHead(dwell, RecentDwells(dwell, late, Window))
          = DropOldHead(s.dwell, RecentDwells(s.dwell, late, Window))
    <2> DEFINE lates == RecentDwells(s.dwell, late, Window)
               left == RecentDwells(dwell, late, Window)
    <2>1. DOMAIN s.dwell = 1 .. Len(s.dwell)
      BY <1>1
    <2>2. dwells = {i \in 1 .. Len(s.dwell) : early - s.dwell[i][1] <= Window}
      BY <2>1 DEF RecentDwells
    <2>3. lates = {i \in 1 .. Len(s.dwell) : late - s.dwell[i][1] <= Window}
      BY <2>1 DEF RecentDwells
    <2> HIDE DEF dwells, lates
    <2>4. dwells \in SUBSET (1 .. Len(s.dwell)) /\ lates \in SUBSET dwells
      <3>1. ASSUME NEW i \in lates PROVE i \in dwells
        <4>1. i \in 1 .. Len(s.dwell) /\ late - s.dwell[i][1] <= Window /\ s.dwell[i][1] \in Int
          BY <1>1, <1>2, <2>3
        <4>2. early - s.dwell[i][1] <= Window
          BY <1>1, <4>1
        <4> QED
          BY <2>2, <4>1, <4>2
      <3> QED
        BY <2>2, <3>1
    <2>5. PICK a \in 0 .. Len(s.dwell) : dwell = Rest(s.dwell, a)
      BY <1>1, <2>4, DropOldHeadIsRest DEF DropsTo
    <2>6. dwell = DropOldHead(s.dwell, dwells)
      OBVIOUS
    <2> HIDE DEF dwell
    <2>7. /\ dwell \in Seq(Int \X Int) /\ Len(dwell) = Len(s.dwell) - a
          /\ \A i \in 1 .. Len(s.dwell) - a : dwell[i] = s.dwell[a + i]
      BY <1>1, <2>5, RestOf
    <2>8. DOMAIN dwell = 1 .. Len(dwell)
      BY <2>7
    <2>9. left = {i \in 1 .. Len(dwell) : late - dwell[i][1] <= Window}
      BY <2>8 DEF RecentDwells
    <2> HIDE DEF left
    <2>10. \A i \in 1 .. Len(dwell) : /\ dwell[i] = s.dwell[a + i] /\ a + i \in 1 .. Len(s.dwell)
                                      /\ i + (Len(s.dwell) - Len(dwell)) = a + i
      BY <1>1, <2>7
    <2>11. \A i \in 1 .. Len(dwell) : i \in left <=> i + (Len(s.dwell) - Len(dwell)) \in lates
      BY <2>3, <2>9, <2>10
    <2>12. left \in SUBSET (1 .. Len(dwell))
      BY <2>9
    <2>13. DropOldHead(dwell, left) = DropOldHead(s.dwell, lates)
      <3>1. LaterReader(s.dwell, dwells, lates, dwell, left)
        BY <2>4, <2>6, <2>11, <2>12 DEF LaterReader
      <3> QED
        BY <1>1, <3>1, DropTwice
    <2> QED
      BY <2>13 DEF lates, left
  <1>4. DropOldHead(order, RecentOrders(order, late, PosWindow))
          = DropOldHead(s.orders, RecentOrders(s.orders, late, PosWindow))
    <2> DEFINE lates == RecentOrders(s.orders, late, PosWindow)
               left == RecentOrders(order, late, PosWindow)
    <2>1. DOMAIN s.orders = 1 .. Len(s.orders)
      BY <1>1
    <2>2. orders = {i \in 1 .. Len(s.orders) : early - s.orders[i] <= PosWindow}
      BY <2>1 DEF RecentOrders
    <2>3. lates = {i \in 1 .. Len(s.orders) : late - s.orders[i] <= PosWindow}
      BY <2>1 DEF RecentOrders
    <2> HIDE DEF orders, lates
    <2>4. orders \in SUBSET (1 .. Len(s.orders)) /\ lates \in SUBSET orders
      <3>1. ASSUME NEW i \in lates PROVE i \in orders
        <4>1. i \in 1 .. Len(s.orders) /\ late - s.orders[i] <= PosWindow /\ s.orders[i] \in Int
          BY <1>1, <2>3
        <4>2. early - s.orders[i] <= PosWindow
          BY <1>1, <4>1
        <4> QED
          BY <2>2, <4>1, <4>2
      <3> QED
        BY <2>2, <3>1
    <2>5. PICK a \in 0 .. Len(s.orders) : order = Rest(s.orders, a)
      BY <1>1, <2>4, DropOldHeadIsRest DEF DropsTo
    <2>6. order = DropOldHead(s.orders, orders)
      OBVIOUS
    <2> HIDE DEF order
    <2>7. /\ order \in Seq(Int) /\ Len(order) = Len(s.orders) - a
          /\ \A i \in 1 .. Len(s.orders) - a : order[i] = s.orders[a + i]
      BY <1>1, <2>5, RestOf
    <2>8. DOMAIN order = 1 .. Len(order)
      BY <2>7
    <2>9. left = {i \in 1 .. Len(order) : late - order[i] <= PosWindow}
      BY <2>8 DEF RecentOrders
    <2> HIDE DEF left
    <2>10. \A i \in 1 .. Len(order) : /\ order[i] = s.orders[a + i] /\ a + i \in 1 .. Len(s.orders)
                                      /\ i + (Len(s.orders) - Len(order)) = a + i
      BY <1>1, <2>7
    <2>11. \A i \in 1 .. Len(order) : i \in left <=> i + (Len(s.orders) - Len(order)) \in lates
      BY <2>3, <2>9, <2>10
    <2>12. left \in SUBSET (1 .. Len(order))
      BY <2>9
    <2>13. DropOldHead(order, left) = DropOldHead(s.orders, lates)
      <3>1. LaterReader(s.orders, orders, lates, order, left)
        BY <2>4, <2>6, <2>11, <2>12 DEF LaterReader
      <3> QED
        BY <1>1, <3>1, DropTwice
    <2> QED
      BY <2>13 DEF lates, left
  <1>5. Trim(s, early) \in Location /\ Trim(s, early).dwell = dwell /\ Trim(s, early).orders = order
        /\ Trim(s, early).inQueue = s.inQueue /\ Trim(s, early).lastVideo = s.lastVideo
    BY TrimFields, TrimIsLocation
  <1> HIDE DEF dwells, orders, dwell, order
  <1> DEFINE twice == Trim(Trim(s, early), late)
             once == Trim(s, late)
  <1>6. twice \in Location /\ once \in Location
    BY <1>5, TrimIsLocation
  <1>7. /\ twice.dwell = DropOldHead(dwell, RecentDwells(dwell, late, Window))
        /\ twice.orders = DropOldHead(order, RecentOrders(order, late, PosWindow))
        /\ twice.inQueue = s.inQueue /\ twice.lastVideo = s.lastVideo
    BY <1>5, TrimFields
  <1>8. /\ once.dwell = DropOldHead(s.dwell, RecentDwells(s.dwell, late, Window))
        /\ once.orders = DropOldHead(s.orders, RecentOrders(s.orders, late, PosWindow))
        /\ once.inQueue = s.inQueue /\ once.lastVideo = s.lastVideo
    BY TrimFields
  <1> HIDE DEF once, twice
  <1>9. twice = once
    BY <1>3, <1>4, <1>6, <1>7, <1>8, SameLocation
  <1> QED
    BY <1>9 DEF once, twice

(* ReadsDoNotDisturb: GET /wait and every new socket trim the state they   *)
(* read (engine.estimate calls _trim), and no later reader can tell.       *)
THEOREM ReadsDoNotDisturbHolds == Spec => []ReadsDoNotDisturb
  <1>1. IInv => ReadsDoNotDisturb
    <2> SUFFICES ASSUME IInv, NEW early \in Times, NEW late \in Times, early <= late
                 PROVE  Estimate(Trim(st, early), late) = Estimate(st, late)
      BY DEF ReadsDoNotDisturb
    <2>1. Trim(Trim(st, early), late) = Trim(st, late)
      BY TimesAssumption, TrimTwice DEF IInv, TypeInv
    <2> QED
      BY <2>1 DEF Estimate
  <1> QED
    BY <1>1, InvariantHolds, PTL

---------------------------------------------------------------------------
(* What is left of the orders after a trim at a time no earlier than every *)
(* earlier one are exactly those of the window.                            *)
LEMMA OrdersOfTheWindow ==
    ASSUME NEW all \in Seq(Int), NEW q, NEW old \in Int \union {Absent},
           OrdersKept(q, all, old), InOrder(all),
           NEW now \in Int, old \in Int => now >= old
    PROVE  /\ Len(DropOldHead(q, RecentOrders(q, now, PosWindow)))
                = Cardinality(RecentOrders(all, now, PosWindow))
           /\ DropOldHead(q, RecentOrders(q, now, PosWindow)) \in Seq(Int)
  <1>1. PICK gone \in 0 .. Len(all) :
            /\ q = Rest(all, gone)
            /\ \A i \in 1 .. gone : old \in Int /\ old - all[i] > PosWindow
    BY DEF OrdersKept
  <1> DEFINE recent == RecentOrders(q, now, PosWindow)
             n == Len(all)
  <1>2. /\ q \in Seq(Int) /\ Len(q) = Len(all) - gone
        /\ \A i \in 1 .. Len(all) - gone : q[i] = all[gone + i]
    BY <1>1, RestOf
  <1>3. recent = {i \in 1 .. Len(all) - gone : now - q[i] <= PosWindow}
    BY <1>2 DEF RecentOrders
  <1> HIDE DEF recent
  <1>4. PICK g \in gone .. Len(all) :
            /\ DropOldHead(Rest(all, gone), recent) = Rest(all, g)
            /\ \A i \in gone + 1 .. g : i - gone \notin recent
            /\ g < Len(all) => (g + 1) - gone \in recent
    <2>1. recent \in SUBSET (1 .. Len(all) - gone)
      BY <1>3
    <2> QED
      BY <2>1, DropFromRest
  <1>5. ASSUME NEW i \in 1 .. g PROVE ~(now - all[i] <= PosWindow)
    <2>0. all[i] \in Int /\ PosWindow \in Nat /\ gone \in Nat
      BY WaitTimeAssumption
    <2>1. CASE i <= gone
      <3>1. old \in Int /\ old - all[i] > PosWindow
        BY <1>1, <2>1
      <3> QED
        BY <2>0, <3>1
    <2>2. CASE i > gone
      <3>1. i - gone \notin recent /\ i - gone \in 1 .. Len(all) - gone /\ gone + (i - gone) = i
        BY <1>4, <2>2
      <3>2. q[i - gone] = all[i]
        BY <1>2, <3>1
      <3> QED
        BY <1>3, <3>1, <3>2
    <2> QED
      BY <2>1, <2>2
  <1>6. ASSUME NEW i \in g + 1 .. Len(all) PROVE now - all[i] <= PosWindow
    <2>1. g < Len(all) /\ g + 1 \in 1 .. Len(all) /\ i \in 1 .. Len(all) /\ g + 1 <= i
      BY <1>4
    <2>2. (g + 1) - gone \in recent /\ (g + 1) - gone \in 1 .. Len(all) - gone
      BY <1>3, <1>4, <2>1
    <2>3. q[(g + 1) - gone] = all[gone + ((g + 1) - gone)] /\ gone + ((g + 1) - gone) = g + 1
      BY <1>2, <1>4, <2>2
    <2>4. now - all[g + 1] <= PosWindow
      BY <1>3, <2>2, <2>3
    <2>5. all[g + 1] <= all[i]
      BY <2>1 DEF InOrder
    <2>6. all[g + 1] \in Int /\ all[i] \in Int
      BY <2>1
    <2>7. PosWindow \in Nat
      BY WaitTimeAssumption
    <2> QED
      BY <2>4, <2>5, <2>6, <2>7
  <1>7. RecentOrders(all, now, PosWindow) = g + 1 .. Len(all)
    <2>1. g \in Nat /\ DOMAIN all = 1 .. Len(all)
      BY <1>4
    <2>2. RecentOrders(all, now, PosWindow) = {i \in 1 .. Len(all) : now - all[i] <= PosWindow}
      BY <2>1 DEF RecentOrders
    <2>3. \A i \in 1 .. Len(all) : i \in 1 .. g \/ i \in g + 1 .. Len(all)
      BY <2>1
    <2>4. g + 1 .. Len(all) \subseteq 1 .. Len(all)
      BY <2>1
    <2> QED
      BY <1>5, <1>6, <2>2, <2>3, <2>4
  <1>8. Cardinality(g + 1 .. Len(all)) = Len(all) - g
    <2>1. g + 1 \in Int /\ Len(all) \in Int /\ g <= Len(all)
      BY <1>4
    <2>2. Cardinality(g + 1 .. Len(all)) = IF g + 1 > Len(all) THEN 0 ELSE Len(all) - (g + 1) + 1
      BY <2>1, FS_Interval
    <2> QED
      BY <2>1, <2>2
  <1>9. Rest(all, g) \in Seq(Int) /\ Len(Rest(all, g)) = Len(all) - g
    BY <1>4, RestOf
  <1> QED
    BY <1>1, <1>4, <1>7, <1>8, <1>9 DEF recent

(* _pos_estimate: a number unless fewer than three orders are in the       *)
(* window.                                                                 *)
LEMMA PosEstimateIsAbsent ==
    ASSUME NEW s \in Location, NEW n \in Int
    PROVE  PosEstimate(s, n) = Absent <=> Len(s.orders) < 3
  <1>1. Len(s.orders) \in Nat /\ PosWindow \in Int
    BY WaitTimeAssumption DEF Location
  <1>2. <<n * PosWindow, Len(s.orders)>> \in Int \X Int
    BY <1>1
  <1>3. <<n * PosWindow, Len(s.orders)>> # Absent
    BY <1>2, WaitTimeAssumption
  <1> QED
    BY <1>3 DEF PosEstimate

LEMMA PosQueueIsNumber ==
    ASSUME NEW s \in Location, NEW now \in Int
    PROVE  PosQueue(s, now) \in Int
  <1> DEFINE recent == Cardinality(RecentOrders(s.orders, now, Burst))
             num == recent * PosWindow - Len(s.orders) * Burst
  <1>1. s.orders \in Seq(Int) /\ PosWindow \in Nat \ {0} /\ Burst \in Nat
    BY WaitTimeAssumption DEF Location
  <1>2. recent \in Nat
    <2>1. IsFiniteSet(1 .. Len(s.orders))
      BY <1>1, FS_Interval
    <2>2. RecentOrders(s.orders, now, Burst) \subseteq 1 .. Len(s.orders)
      BY <1>1 DEF RecentOrders
    <2>3. IsFiniteSet(RecentOrders(s.orders, now, Burst))
      BY <2>1, <2>2, FS_Subset
    <2> QED
      BY <2>3, FS_CardinalityType
  <1> HIDE DEF recent
  <1>3. num \in Int
    BY <1>1, <1>2
  <1> HIDE DEF num
  <1>4. RoundHalfEven(num, PosWindow) \in Int
    BY <1>1, <1>3 DEF RoundHalfEven
  <1> QED
    BY <1>4 DEF PosQueue, num, recent

LEMMA PosOnlySource ==
    ASSUME NEW s \in Location, NEW now \in Int
    PROVE  /\ PosOnlyEstimate(s, now).source = IF Len(s.orders) < 3 THEN "no_data" ELSE "pos_only"
           /\ PosOnlyEstimate(s, now).queueLength = 0
  <1>1. PosEstimate(s, PosQueue(s, now)) = Absent <=> Len(s.orders) < 3
    BY PosQueueIsNumber, PosEstimateIsAbsent
  <1> QED
    BY <1>1 DEF PosOnlyEstimate, Unknown, Build

LEMMA VisionSource ==
    ASSUME NEW s
    PROVE  VisionEstimate(s).source = "vision"
  <1> DEFINE dwells == [i \in 1 .. Len(s.dwell) |-> s.dwell[i][2]]
             n == Len(dwells)
             q == Cardinality(s.inQueue)
             pos == PosEstimate(s, q)
             enough == n >= MinSamples
             few == n < MinSamples
             some == q > 0
             none == q = 0
             known == pos # Absent
             a == Build(q, Percentile(dwells, 5), Percentile(dwells, 9), "vision", n)
             b == Build(0, <<0, 1>>, <<0, 1>>, "vision", n)
             c == Build(q, pos, OneAndAHalf(pos), "vision", n)
             d == Unknown(q, "vision", n)
  <1>1. a.source = "vision" /\ b.source = "vision" /\ c.source = "vision" /\ d.source = "vision"
    BY DEF Build, Unknown
  <1>2. VisionEstimate(s) = CASE enough -> a
                              [] few /\ none -> b
                              [] few /\ some /\ known -> c
                              [] OTHER -> d
    BY DEF VisionEstimate
  <1> HIDE DEF a, b, c, d, enough, few, some, none, known
  <1> QED
    BY <1>1, <1>2

(* The engine has fresh video exactly when a frame or an event is fresh.   *)
LEMMA VideoOkIsFresh ==
    ASSUME NEW s \in Location, NEW times \in SUBSET Int, VideoClock(s.lastVideo, times),
           NEW now \in Int
    PROVE  VideoOk(s, now) <=> \E h \in times : now - h <= StaleAfter
  <1>1. StaleAfter \in Nat /\ Absent \notin Int
    BY WaitTimeAssumption
  <1>2. CASE s.lastVideo = Absent
    BY <1>1, <1>2 DEF VideoOk, VideoClock
  <1>3. CASE s.lastVideo # Absent
    <2>1. s.lastVideo \in times /\ \A h \in times : h <= s.lastVideo
      BY <1>3 DEF VideoClock
    <2>2. (\E h \in times : now - h <= StaleAfter) => now - s.lastVideo <= StaleAfter
      <3> SUFFICES ASSUME NEW h \in times, now - h <= StaleAfter
                   PROVE  now - s.lastVideo <= StaleAfter
        OBVIOUS
      <3>1. h \in Int /\ s.lastVideo \in Int /\ h <= s.lastVideo
        BY <2>1
      <3> QED
        BY <1>1, <3>1
    <2> QED
      BY <1>3, <2>1, <2>2 DEF VideoOk
  <1> QED
    BY <1>2, <1>3

(* SourceIsHonest: a reader is told "vision" exactly when a frame or event *)
(* is at most video_stale_after old, "pos_only" exactly when none is and   *)
(* three orders came within pos_window, and never the people of a queue    *)
(* nobody watches (estimate, engine.py).                                   *)
THEOREM SourceIsHonestHolds == Spec => []SourceIsHonest
  <1>1. IInv => SourceIsHonest
    <2> SUFFICES ASSUME IInv, NEW now \in Times, nowMax = Absent \/ now >= nowMax
                 PROVE  LET est == Estimate(st, now)
                            fresh == \E h \in heard : now - h <= StaleAfter
                            orders == Cardinality(RecentOrders(received, now, PosWindow))
                        IN  /\ est.source = "vision" <=> fresh
                            /\ est.source = "pos_only" <=> ~fresh /\ orders >= 3
                            /\ ~fresh => est.queueLength = 0
      BY DEF SourceIsHonest
    <2> DEFINE s == Trim(st, now)
               fresh == \E h \in heard : now - h <= StaleAfter
               orders == Cardinality(RecentOrders(received, now, PosWindow))
    <2>1. now \in Int /\ (nowMax \in Int => now >= nowMax)
      BY TimesAssumption, WaitTimeAssumption
    <2>2. /\ st \in Location /\ received \in Seq(Int) /\ recorded \in Seq(Int \X Int)
          /\ nowMax \in Int \union {Absent} /\ heard \in SUBSET Int
      BY DEF IInv, TypeInv
    <2>3. /\ SamplesKept(st.dwell, recorded, nowMax) /\ OrdersKept(st.orders, received, nowMax)
          /\ InOrder(received) /\ VideoClock(st.lastVideo, heard)
      BY DEF IInv
    <2>4. s \in Location /\ s.lastVideo = st.lastVideo
      <3>1. now >= now
        BY <2>1
      <3> QED
        BY <2>1, <2>2, <2>3, <3>1, TrimKeeps
    <2>5. Len(s.orders) = orders /\ Len(s.orders) \in Nat
      <3>1. s.orders = DropOldHead(st.orders, RecentOrders(st.orders, now, PosWindow))
        BY <2>2, TrimFields
      <3> QED
        BY <2>1, <2>2, <2>3, <3>1, OrdersOfTheWindow
    <2>6. VideoOk(s, now) <=> fresh
      BY <2>1, <2>2, <2>3, <2>4, VideoOkIsFresh
    <2>7. Estimate(st, now) = IF VideoOk(s, now) THEN VisionEstimate(s) ELSE PosOnlyEstimate(s, now)
      BY DEF Estimate
    <2> HIDE DEF s, fresh, orders
    <2>8. VisionEstimate(s).source = "vision"
      BY VisionSource
    <2>9. /\ PosOnlyEstimate(s, now).source = IF Len(s.orders) < 3 THEN "no_data" ELSE "pos_only"
          /\ PosOnlyEstimate(s, now).queueLength = 0
      BY <2>1, <2>4, PosOnlySource
    <2>10. /\ Estimate(st, now).source = "vision" <=> fresh
           /\ Estimate(st, now).source = "pos_only" <=> ~fresh /\ orders >= 3
           /\ ~fresh => Estimate(st, now).queueLength = 0
      <3>1. CASE fresh
        BY <2>6, <2>7, <2>8, <3>1
      <3>2. CASE ~fresh
        <4>1. Estimate(st, now) = PosOnlyEstimate(s, now)
          BY <2>6, <2>7, <3>2
        <4>2. CASE orders < 3
          BY <2>5, <2>9, <3>2, <4>1, <4>2
        <4>3. CASE orders >= 3
          BY <2>5, <2>9, <3>2, <4>1, <4>3
        <4> QED
          BY <2>5, <4>2, <4>3
      <3> QED
        BY <3>1, <3>2
    <2> QED
      BY <2>10 DEF fresh, orders
  <1> QED
    BY <1>1, InvariantHolds, PTL

---------------------------------------------------------------------------
(* Order statistics of a function with finitely many integer values.       *)
Upto(f, v) == {x \in DOMAIN f : f[x] <= v}
Below(f, v) == {x \in DOMAIN f : f[x] < v}

Finite(f) == IsFiniteSet(DOMAIN f) /\ \A x \in DOMAIN f : f[x] \in Int

LEMMA Counting ==
    ASSUME NEW D, IsFiniteSet(D), NEW P \in SUBSET D, NEW Q \in SUBSET P
    PROVE  /\ Cardinality(P) \in Nat /\ Cardinality(P) <= Cardinality(D)
           /\ Cardinality(Q) \in Nat /\ Cardinality(Q) <= Cardinality(P)
           /\ Cardinality(P) = Cardinality(Q) => P = Q
           /\ Cardinality(D) \in Nat
<1>1. IsFiniteSet(P) /\ Cardinality(P) <= Cardinality(D)
  BY FS_Subset
<1>2. IsFiniteSet(Q) /\ Cardinality(Q) <= Cardinality(P) /\ (Cardinality(P) = Cardinality(Q) => P = Q)
  BY <1>1, FS_Subset
<1> QED BY <1>1, <1>2, FS_CardinalityType

(* A value that fewest of the values of a set P of places are no greater   *)
(* than is the least one, and one that most are no greater than is the     *)
(* greatest.                                                               *)
LEMMA Extremes ==
    ASSUME NEW f, Finite(f), NEW P \in SUBSET DOMAIN f, P # {}
    PROVE  /\ \E x \in P : \A y \in P : f[x] <= f[y]
           /\ \E x \in P : \A y \in P : f[y] <= f[x]
<1> DEFINE n == Cardinality(P)
           Under(x) == {y \in P : f[y] <= f[x]}
           S == {Cardinality(Under(x)) : x \in P}
           T == {n - Cardinality(Under(x)) : x \in P}
<1>1. /\ IsFiniteSet(DOMAIN f) /\ \A x \in P : f[x] \in Int
      /\ \A x, y \in P : f[x] <= f[y] \/ f[y] < f[x]
  BY DEF Finite
<1>2. \A x \in P : Under(x) \in SUBSET P
  OBVIOUS
<1>3. IsFiniteSet(P) /\ n \in Nat
  BY <1>1, FS_Subset, FS_CardinalityType
<1>4. \A x, y \in P : f[y] < f[x] => Under(y) \in SUBSET Under(x) /\ x \notin Under(y) /\ x \in Under(x)
  <2> SUFFICES ASSUME NEW x \in P, NEW y \in P, f[y] < f[x]
               PROVE  Under(y) \in SUBSET Under(x) /\ x \notin Under(y) /\ x \in Under(x)
    OBVIOUS
  <2>1. f[x] \in Int /\ f[y] \in Int
    BY <1>1
  <2>2. ~(f[x] <= f[y]) /\ f[x] <= f[x]
    BY <2>1
  <2>3. \A z \in P : f[z] <= f[y] => f[z] <= f[x]
    BY <1>1, <2>1
  <2> QED BY <2>2, <2>3
<1> HIDE DEF Under
<1>5. \A x \in P : Cardinality(Under(x)) \in Nat /\ Cardinality(Under(x)) <= n
  BY <1>2, <1>3, Counting
<1>6. \A x, y \in P : f[y] < f[x] => Cardinality(Under(y)) < Cardinality(Under(x))
  <2> SUFFICES ASSUME NEW x \in P, NEW y \in P, f[y] < f[x]
               PROVE  Cardinality(Under(y)) < Cardinality(Under(x))
    OBVIOUS
  <2>1. /\ Under(y) \in SUBSET Under(x) /\ Under(x) \in SUBSET P
        /\ Under(x) # Under(y)
    BY <1>2, <1>4
  <2>2. /\ Cardinality(Under(y)) <= Cardinality(Under(x))
        /\ Cardinality(Under(x)) # Cardinality(Under(y))
    BY <1>3, <2>1, Counting
  <2> QED BY <1>5, <2>2
<1>7. S \in SUBSET Nat /\ T \in SUBSET Nat /\ S # {} /\ T # {}
  <2>1. \A x \in P : n - Cardinality(Under(x)) \in Nat
    BY <1>3, <1>5
  <2> HIDE DEF n
  <2>2. S \in SUBSET Nat /\ T \in SUBSET Nat
    BY <1>5, <2>1
  <2> QED BY <2>2
<1>8. \E x \in P : \A y \in P : Cardinality(Under(x)) <= Cardinality(Under(y))
  <2>1. PICK m \in S : \A s \in S : m <= s
    <3> HIDE DEF S
    <3> QED BY <1>7, MinOfNaturals
  <2> QED BY <2>1
<1>9. \E x \in P : \A y \in P : Cardinality(Under(y)) <= Cardinality(Under(x))
  <2>1. PICK m \in T : \A t \in T : m <= t
    <3> HIDE DEF T
    <3> QED BY <1>7, MinOfNaturals
  <2>2. PICK x \in P : m = n - Cardinality(Under(x))
    OBVIOUS
  <2>3. \A y \in P : n - Cardinality(Under(x)) <= n - Cardinality(Under(y))
    BY <2>1, <2>2
  <2> HIDE DEF n
  <2> QED BY <1>3, <1>5, <2>3
<1>10. \E x \in P : \A y \in P : f[x] <= f[y]
  <2>1. PICK x \in P : \A y \in P : Cardinality(Under(x)) <= Cardinality(Under(y))
    BY <1>8
  <2>2. \A y \in P : ~(f[y] < f[x])
    BY <1>5, <1>6, <2>1
  <2> QED BY <1>1, <2>2
<1>11. \E x \in P : \A y \in P : f[y] <= f[x]
  <2>1. PICK x \in P : \A y \in P : Cardinality(Under(y)) <= Cardinality(Under(x))
    BY <1>9
  <2>2. \A y \in P : ~(f[x] < f[y])
    BY <1>5, <1>6, <2>1
  <2> QED BY <1>1, <2>2
<1> QED BY <1>10, <1>11

(* Kth picks a value: the least that k of the values reach.                *)
IsKth(f, k, v) ==
    /\ v \in {f[x] : x \in DOMAIN f}
    /\ Cardinality(Below(f, v)) < k
    /\ Cardinality(Upto(f, v)) >= k

LEMMA KthExists ==
    ASSUME NEW f, Finite(f), NEW k \in 1 .. Cardinality(DOMAIN f)
    PROVE  \E v : IsKth(f, k, v)
<1> DEFINE D == DOMAIN f
           n == Cardinality(D)
           P == {x \in D : Cardinality(Upto(f, f[x])) >= k}
<1>1. IsFiniteSet(D) /\ \A x \in D : f[x] \in Int
  BY DEF Finite
<1>2. n \in Nat /\ k \in Nat /\ 1 <= k /\ k <= n
  BY <1>1, FS_CardinalityType
<1>3. \A v : Upto(f, v) \in SUBSET D /\ Below(f, v) \in SUBSET D
  BY DEF Upto, Below
<1>4. \A v : Cardinality(Upto(f, v)) \in Nat /\ Cardinality(Below(f, v)) \in Nat
  <2> HIDE DEF D
  <2> QED BY <1>1, <1>3, Counting
<1>5. Cardinality({}) = 0
  BY FS_EmptySet
<1>6. D # {}
  BY <1>2, <1>5
<1>7. PICK x \in D : \A y \in D : f[y] <= f[x]
  BY <1>6, Extremes
<1>8. Upto(f, f[x]) = D
  BY <1>7 DEF Upto
<1>9. P \in SUBSET D /\ P # {}
  BY <1>2, <1>8
<1>10. PICK z \in P : \A y \in P : f[z] <= f[y]
  <2> HIDE DEF P
  <2> QED BY <1>9, Extremes
<1>11. z \in D /\ f[z] \in Int /\ Cardinality(Upto(f, f[z])) >= k
  BY <1>1
<1>12. ASSUME Cardinality(Below(f, f[z])) >= k PROVE FALSE
  <2>1. Below(f, f[z]) # {}
    <3>1. ~(0 >= k)
      BY <1>2
    <3> QED BY <1>5, <1>12, <3>1
  <2>2. PICK l \in Below(f, f[z]) : \A y \in Below(f, f[z]) : f[y] <= f[l]
    BY <1>3, <2>1, Extremes
  <2>3. l \in D /\ f[l] < f[z] /\ f[l] \in Int
    BY <1>1 DEF Below
  <2>4. Upto(f, f[l]) = Below(f, f[z])
    <3>1. \A y \in D : f[y] <= f[l] => f[y] < f[z]
      BY <1>1, <1>11, <2>3
    <3>2. \A y \in D : f[y] < f[z] => f[y] <= f[l]
      BY <2>2 DEF Below
    <3> QED BY <3>1, <3>2 DEF Upto, Below
  <2>5. l \in P
    BY <1>12, <2>3, <2>4
  <2> QED BY <1>10, <1>11, <2>3, <2>5
<1>13. Cardinality(Below(f, f[z])) < k
  BY <1>2, <1>4, <1>12
<1> QED BY <1>11, <1>13 DEF IsKth

LEMMA KthIsKth ==
    ASSUME NEW f, Finite(f), NEW k \in 1 .. Cardinality(DOMAIN f)
    PROVE  IsKth(f, k, Kth(f, k)) /\ Kth(f, k) \in Int
<1> DEFINE V == {f[x] : x \in DOMAIN f}
           W(v) == /\ Cardinality({x \in DOMAIN f : f[x] < v}) < k
                   /\ Cardinality({x \in DOMAIN f : f[x] <= v}) >= k
<1>1. \A v : W(v) <=> Cardinality(Below(f, v)) < k /\ Cardinality(Upto(f, v)) >= k
  BY Zenon DEF Below, Upto
<1>2. Kth(f, k) = CHOOSE v \in V : W(v)
  BY DEF Kth
<1>3. \E v \in V : W(v)
  BY <1>1, KthExists DEF IsKth
<1>4. V \in SUBSET Int
  BY DEF Finite
<1> HIDE DEF W
<1>5. Kth(f, k) \in V /\ W(Kth(f, k))
  <2> HIDE DEF V
  <2> QED BY <1>2, <1>3
<1> QED BY <1>1, <1>4, <1>5 DEF IsKth

(* A later place holds no smaller value; the first holds the least, the    *)
(* last the greatest.                                                      *)
LEMMA KthGrows ==
    ASSUME NEW f, Finite(f), NEW k \in 1 .. Cardinality(DOMAIN f),
           NEW l \in 1 .. Cardinality(DOMAIN f), k <= l
    PROVE  Kth(f, k) <= Kth(f, l)
<1> DEFINE u == Kth(f, k)
           v == Kth(f, l)
<1>1. IsKth(f, k, u) /\ IsKth(f, l, v) /\ u \in Int /\ v \in Int
  BY KthIsKth
<1>2. /\ IsFiniteSet(DOMAIN f) /\ k \in Int /\ l \in Int
      /\ \A x \in DOMAIN f : f[x] \in Int
  BY DEF Finite
<1> HIDE DEF u, v
<1>3. ASSUME v < u PROVE FALSE
  <2>1. Upto(f, v) \in SUBSET Below(f, u) /\ Below(f, u) \in SUBSET DOMAIN f
    <3>1. \A x \in DOMAIN f : f[x] <= v => f[x] < u
      BY <1>1, <1>2, <1>3
    <3> QED BY <3>1 DEF Upto, Below
  <2>2. /\ Cardinality(Upto(f, v)) <= Cardinality(Below(f, u))
        /\ Cardinality(Upto(f, v)) \in Nat /\ Cardinality(Below(f, u)) \in Nat
    BY <1>2, <2>1, Counting
  <2>3. Cardinality(Below(f, u)) < k /\ Cardinality(Upto(f, v)) >= l
    BY <1>1 DEF IsKth
  <2> QED BY <1>2, <2>2, <2>3
<1>4. u <= v
  BY <1>1, <1>3
<1> QED BY <1>4 DEF u, v

LEMMA FirstAndLast ==
    ASSUME NEW f, Finite(f), NEW x \in DOMAIN f
    PROVE  /\ Cardinality(DOMAIN f) \in Nat /\ 1 <= Cardinality(DOMAIN f)
           /\ Kth(f, 1) <= f[x] /\ f[x] <= Kth(f, Cardinality(DOMAIN f))
<1> DEFINE n == Cardinality(DOMAIN f)
           u == Kth(f, 1)
           v == Kth(f, n)
<1>1. IsFiniteSet(DOMAIN f) /\ f[x] \in Int
  BY DEF Finite
<1>2. n \in Nat /\ n # 0
  BY <1>1, FS_CardinalityType, FS_EmptySet
<1>3. 1 \in 1 .. n /\ n \in 1 .. n
  BY <1>2
<1>4. IsKth(f, 1, u) /\ IsKth(f, n, v) /\ u \in Int /\ v \in Int
  BY <1>3, KthIsKth
<1> HIDE DEF u, v
<1>5. Below(f, u) \in SUBSET DOMAIN f /\ Upto(f, v) \in SUBSET DOMAIN f
  BY DEF Below, Upto
<1>6. /\ Cardinality(Below(f, u)) \in Nat /\ IsFiniteSet(Below(f, u))
      /\ Cardinality(Upto(f, v)) \in Nat /\ Cardinality(Upto(f, v)) <= n
      /\ Cardinality(DOMAIN f) = Cardinality(Upto(f, v)) => DOMAIN f = Upto(f, v)
  <2>1. DOMAIN f \in SUBSET DOMAIN f
    OBVIOUS
  <2> QED BY <1>1, <1>5, <2>1, Counting, FS_Subset
<1>7. Cardinality(Below(f, u)) = 0 /\ Cardinality(Upto(f, v)) = n
  BY <1>2, <1>4, <1>6 DEF IsKth
<1>8. Below(f, u) = {} /\ Upto(f, v) = DOMAIN f
  BY <1>6, <1>7, FS_EmptySet
<1>9. x \notin Below(f, u) /\ x \in Upto(f, v)
  BY <1>8
<1>10. u <= f[x] /\ f[x] <= v
  <2>1. ~(f[x] < u) /\ f[x] <= v
    BY <1>9 DEF Below, Upto
  <2> QED BY <1>1, <1>4, <2>1
<1> QED BY <1>2, <1>10 DEF u, v

(* The places a quantile interpolates between, and how far. *)
LEMMA PlaceOf ==
    ASSUME NEW n \in Nat \ {0}, NEW t \in 0 .. 10
    PROVE  /\ 1 + ((n - 1) * t) \div 10 \in 1 .. n
           /\ ((n - 1) * t) % 10 \in 0 .. 9
<1> DEFINE N == (n - 1) * t
<1>1. N \in Int /\ 0 <= N /\ N <= (n - 1) * 10
  <2>1. n - 1 \in Nat /\ t \in Nat /\ t <= 10
    OBVIOUS
  <2>2. \A a, b, c \in Nat : b <= c => 0 <= a * b /\ a * b \in Int /\ a * b <= a * c
    OBVIOUS
  <2> QED BY <2>1, <2>2
<1> HIDE DEF N
<1>2. 1 + N \div 10 \in 1 .. n /\ N % 10 \in 0 .. 9
  BY <1>1
<1> QED BY <1>2 DEF N

LEMMA PlacesInOrder ==
    ASSUME NEW n \in Nat \ {0}, NEW t \in 0 .. 10, NEW u \in 0 .. 10, t <= u
    PROVE  LET i == 1 + ((n - 1) * t) \div 10
               j == 1 + ((n - 1) * u) \div 10
           IN  /\ i <= j
               /\ i = j => ((n - 1) * t) % 10 <= ((n - 1) * u) % 10
<1> DEFINE N == (n - 1) * t
           M == (n - 1) * u
<1>1. N \in Int /\ M \in Int /\ N <= M
  <2>1. n - 1 \in Nat /\ t \in Nat /\ u \in Nat
    OBVIOUS
  <2>2. \A a, b, c \in Nat : b <= c => a * b \in Int /\ a * c \in Int /\ a * b <= a * c
    OBVIOUS
  <2> QED BY <2>1, <2>2
<1> HIDE DEF N, M
<1>2. 1 + N \div 10 <= 1 + M \div 10 /\ (1 + N \div 10 = 1 + M \div 10 => N % 10 <= M % 10)
  BY <1>1
<1> QED BY <1>2 DEF N, M

Between(a, b, r) == 10 * a + r * (b - a)

LEMMA BetweenLemma ==
    ASSUME NEW a \in Int, NEW b \in Int, a <= b, NEW r \in 0 .. 9
    PROVE  /\ Between(a, b, r) \in Int
           /\ 10 * a <= Between(a, b, r) /\ Between(a, b, r) <= 10 * b
           /\ \A s \in 0 .. 9 : r <= s => Between(a, b, r) <= Between(a, b, s)
<1> DEFINE w == b - a
<1>1. w \in Nat /\ b = a + w
  OBVIOUS
<1> HIDE DEF w
<1>2. \A p, q \in Nat : p <= q => p * w <= q * w /\ p * w \in Int /\ q * w \in Int /\ 0 <= p * w
  BY <1>1
<1>3. r \in Nat /\ r <= 10 /\ 10 \in Nat
  OBVIOUS
<1>4. r * w \in Int /\ 0 <= r * w /\ r * w <= 10 * w
  BY <1>2, <1>3
<1>5. Between(a, b, r) = 10 * a + r * w
  BY DEF Between, w
<1>6. /\ Between(a, b, r) \in Int /\ 10 * a <= Between(a, b, r)
      /\ Between(a, b, r) <= 10 * b
  BY <1>1, <1>4, <1>5
<1>7. ASSUME NEW s \in 0 .. 9, r <= s PROVE Between(a, b, r) <= Between(a, b, s)
  <2>1. Between(a, b, s) = 10 * a + s * w
    BY DEF Between, w
  <2>2. s \in Nat
    OBVIOUS
  <2>3. r * w <= s * w /\ s * w \in Int
    BY <1>2, <1>3, <1>7, <2>2
  <2> QED BY <1>4, <1>5, <2>1, <2>3
<1> QED BY <1>6, <1>7

(* A quantile is an integer (in tenths) between the least and the greatest *)
(* value, and a higher one is no smaller.                                  *)
LEMMA QuantilesInOrder ==
    ASSUME NEW f, Finite(f), DOMAIN f # {}, NEW t \in 0 .. 10, NEW u \in 0 .. 10, t <= u
    PROVE  /\ Quantile(f, t) \in Int /\ Quantile(f, u) \in Int
           /\ 10 * Kth(f, 1) <= Quantile(f, t)
           /\ Quantile(f, t) <= Quantile(f, u)
           /\ Quantile(f, u) <= 10 * Kth(f, Cardinality(DOMAIN f))
<1> DEFINE n == Cardinality(DOMAIN f)
           i == 1 + ((n - 1) * t) \div 10
           j == 1 + ((n - 1) * u) \div 10
           r == ((n - 1) * t) % 10
           s == ((n - 1) * u) % 10
           after(k) == IF k < n THEN k + 1 ELSE n
           a == Kth(f, i)
           b == Kth(f, after(i))
           x == Kth(f, j)
           y == Kth(f, after(j))
<1>1. Quantile(f, t) = Between(a, b, r) /\ Quantile(f, u) = Between(x, y, s)
  BY DEF Quantile, Between
<1>2. n \in Nat \ {0}
  BY FS_CardinalityType, FS_EmptySet DEF Finite
<1>3. i \in 1 .. n /\ j \in 1 .. n /\ r \in 0 .. 9 /\ s \in 0 .. 9
  <2> HIDE DEF n
  <2> QED BY <1>2, PlaceOf
<1>4. i <= j /\ (i = j => r <= s)
  <2> HIDE DEF n
  <2> QED BY <1>2, PlacesInOrder
<1> HIDE DEF i, j, r, s, n
<1>5. /\ after(i) \in 1 .. n /\ after(j) \in 1 .. n /\ i <= after(i) /\ j <= after(j)
      /\ i = j => after(i) = after(j)
      /\ i < j => after(i) <= j
      /\ 1 \in 1 .. n /\ n \in 1 .. n /\ 1 <= i /\ after(j) <= n
  BY <1>2, <1>3, <1>4
<1> HIDE DEF after
<1>6. /\ a \in Int /\ b \in Int /\ x \in Int /\ y \in Int
      /\ Kth(f, 1) \in Int /\ Kth(f, n) \in Int
  BY <1>3, <1>5, KthIsKth DEF n
<1>7. a <= b /\ x <= y /\ Kth(f, 1) <= a /\ y <= Kth(f, n)
  BY <1>3, <1>5, KthGrows DEF n
<1>8. /\ i = j => a = x /\ b = y
      /\ i < j => b <= x
  BY <1>3, <1>5, KthGrows DEF n
<1> DEFINE P == Between(a, b, r)
           Q == Between(x, y, s)
<1> HIDE DEF a, b, x, y
<1>9. /\ P \in Int /\ 10 * a <= P /\ P <= 10 * b
      /\ Q \in Int /\ 10 * x <= Q /\ Q <= 10 * y
  BY <1>3, <1>6, <1>7, BetweenLemma
<1>10. P <= Q
  <2>1. CASE i = j
    <3>1. r <= s /\ a = x /\ b = y
      BY <1>4, <1>8, <2>1
    <3> QED BY <1>3, <1>6, <1>7, <3>1, BetweenLemma
  <2>2. CASE i < j
    <3> HIDE DEF P, Q
    <3>1. b <= x
      BY <1>8, <2>2
    <3> QED BY <1>6, <1>9, <3>1
  <2> QED BY <1>3, <1>4, <2>1, <2>2
<1> HIDE DEF P, Q
<1>11. 10 * Kth(f, 1) <= P /\ Q <= 10 * Kth(f, n)
  BY <1>6, <1>7, <1>9
<1> QED BY <1>1, <1>9, <1>10, <1>11 DEF P, Q, n

---------------------------------------------------------------------------
(* The percentiles and the band.                                           *)
(* What the customer reads: p50 is no more than p90, both are fractions of *)
(* natural numbers, and the band contains them.                            *)
Fraction == Nat \X (Nat \ {0})

LEMMA PercentilesInOrder ==
    ASSUME NEW d \in Seq(Nat), Len(d) > 0
    PROVE  /\ Percentile(d, 5) \in Fraction /\ Percentile(d, 9) \in Fraction
           /\ AtMost(Percentile(d, 5), Percentile(d, 9))
<1> DEFINE n == Len(d)
           p == Quantile(d, 5)
           q == Quantile(d, 9)
<1>1. /\ n \in Nat \ {0} /\ DOMAIN d = 1 .. n
      /\ \A i \in 1 .. n : d[i] \in Nat
  OBVIOUS
<1>2. IsFiniteSet(1 .. n) /\ Cardinality(1 .. n) = n
  <2>1. Cardinality(1 .. n) = IF 1 > n THEN 0 ELSE n - 1 + 1
    BY <1>1, FS_Interval
  <2> QED BY <1>1, <2>1, FS_Interval
<1>3. Finite(d) /\ DOMAIN d # {}
  BY <1>1, <1>2 DEF Finite
<1>4. /\ p \in Int /\ q \in Int /\ p <= q
      /\ 10 * Kth(d, 1) <= p
  BY <1>3, QuantilesInOrder
<1>5. Kth(d, 1) \in Nat
  <2>1. 1 \in 1 .. Cardinality(DOMAIN d)
    BY <1>1, <1>2
  <2> QED BY <1>1, <1>3, <2>1, KthIsKth DEF IsKth
<1>6. Percentile(d, 5) = <<p, 10>> /\ Percentile(d, 9) = <<q, 10>>
  BY DEF Percentile
<1> HIDE DEF p, q
<1>7. p \in Nat /\ q \in Nat /\ p * 10 <= q * 10
  BY <1>4, <1>5
<1> QED BY <1>6, <1>7 DEF AtMost, Fraction

Covers(band, p50, p90) ==
    /\ AtMost(<<band[1] * Minute, 1>>, p50)
    /\ AtMost(p90, <<band[2] * Minute, 1>>)
    /\ band[1] < band[2]

LEMMA DivIsBelow ==
    ASSUME NEW a \in Int, NEW D \in Nat, D > 0
    PROVE  (a \div D) \in Int /\ (a \div D) * D <= a
OBVIOUS

LEMMA BandCovers ==
    ASSUME NEW p50 \in Fraction, NEW p90 \in Fraction
    PROVE  Covers(Band(p50, p90), p50, p90)
<1> DEFINE a == p50[1]
           b == p50[2]
           c == p90[1]
           d == p90[2]
           step == IF c >= 10 * Minute * d THEN 5 ELSE 2
           D == b * Minute * step
           E == d * Minute * step
           k == a \div D
           e == (-c) \div E
           low == step * k
           high == -step * e
           top == IF high <= low THEN low + step ELSE high
<1>1. Band(p50, p90) = <<low, top>>
  BY DEF Band
<1>2. /\ a \in Nat /\ b \in Nat \ {0} /\ c \in Nat /\ d \in Nat \ {0}
      /\ p50 = <<a, b>> /\ p90 = <<c, d>>
  BY DEF Fraction
<1>3. Minute \in Nat \ {0}
  BY WaitTimeAssumption
<1>4. step \in {2, 5}
  OBVIOUS
<1> HIDE DEF a, b, c, d, step
<1>5. D \in Nat /\ D > 0 /\ E \in Nat /\ E > 0
  <2>1. \A x, y \in Nat \ {0} : x * y \in Nat \ {0}
    OBVIOUS
  <2>2. b * Minute \in Nat \ {0} /\ d * Minute \in Nat \ {0} /\ step \in Nat \ {0}
    BY <1>2, <1>3, <1>4, <2>1
  <2> HIDE DEF D, E
  <2>3. D \in Nat \ {0} /\ E \in Nat \ {0}
    BY <2>1, <2>2 DEF D, E
  <2> QED BY <2>3
<1> HIDE DEF D, E
<1>6. k \in Int /\ k * D <= a /\ e \in Int /\ e * E <= -c
  <2>1. a \in Int /\ -c \in Int
    BY <1>2
  <2> QED BY <1>5, <2>1, DivIsBelow
<1> HIDE DEF k, e
<1>7. low * Minute * b = k * D
  BY <1>2, <1>3, <1>4, <1>6 DEF D
<1>8. high * Minute * d = -(e * E)
  BY <1>2, <1>3, <1>4, <1>6 DEF E
<1>9. low \in Int /\ high \in Int
  BY <1>4, <1>6
<1> HIDE DEF low, high
<1>10. top \in Int /\ high <= top /\ low < top
  BY <1>4, <1>9
<1> HIDE DEF top
<1>11. low * Minute * b <= a
  BY <1>6, <1>7
<1>12. c <= high * Minute * d
  <2>1. e * E \in Int
    BY <1>5, <1>6
  <2> QED BY <1>2, <1>6, <1>8, <2>1
<1>13. high * Minute * d <= top * Minute * d
  <2>1. Minute * d \in Nat /\ high * (Minute * d) = high * Minute * d /\ top * (Minute * d) = top * Minute * d
    BY <1>2, <1>3, <1>9, <1>10
  <2>2. \A x, y \in Int, z \in Nat : x <= y => x * z <= y * z
    OBVIOUS
  <2>3. high * (Minute * d) <= top * (Minute * d)
    BY <1>9, <1>10, <2>1, <2>2
  <2> QED BY <2>1, <2>3
<1>14. c <= top * Minute * d
  <2>1. high * Minute * d \in Int /\ top * Minute * d \in Int
    BY <1>2, <1>3, <1>9, <1>10
  <2> QED BY <1>2, <1>12, <1>13, <2>1
<1>15. /\ low * Minute * b <= a * 1
       /\ c * 1 <= top * Minute * d
  BY <1>2, <1>11, <1>14
<1>16. Band(p50, p90)[1] = low /\ Band(p50, p90)[2] = top
  BY <1>1
<1>17. AtMost(<<low * Minute, 1>>, p50)
  BY <1>2, <1>15 DEF AtMost
<1>18. AtMost(p90, <<top * Minute, 1>>)
  BY <1>2, <1>15 DEF AtMost
<1> QED BY <1>10, <1>16, <1>17, <1>18 DEF Covers

Honest(est) ==
    est.band # Absent => AtMost(est.p50, est.p90) /\ Covers(est.band, est.p50, est.p90)

LEMMA BuildIsHonest ==
    ASSUME NEW q, NEW p50 \in Fraction, NEW p90 \in Fraction, AtMost(p50, p90), NEW source, NEW n
    PROVE  Honest(Build(q, p50, p90, source, n))
<1> DEFINE est == Build(q, p50, p90, source, n)
<1>1. est.p50 = p50 /\ est.p90 = p90 /\ est.band = Band(p50, p90)
  BY DEF Build
<1> HIDE DEF est
<1>2. Covers(Band(p50, p90), p50, p90)
  BY BandCovers
<1>3. Honest(est)
  BY <1>1, <1>2 DEF Honest
<1> QED BY <1>3 DEF est

LEMMA UnknownIsHonest ==
    ASSUME NEW q, NEW source, NEW n
    PROVE  Honest(Unknown(q, source, n))
BY DEF Honest, Unknown

LEMMA PosEstimateInOrder ==
    ASSUME NEW s \in Location, NEW q \in Nat, PosEstimate(s, q) # Absent
    PROVE  LET pos == PosEstimate(s, q)
           IN  pos \in Fraction /\ OneAndAHalf(pos) \in Fraction /\ AtMost(pos, OneAndAHalf(pos))
<1> DEFINE n == Len(s.orders)
           a == q * PosWindow
<1>1. n \in Nat /\ n >= 3
  BY DEF PosEstimate, Location
<1>2. PosEstimate(s, q) = <<a, n>>
  BY DEF PosEstimate
<1>3. a \in Nat
  BY WaitTimeAssumption
<1> HIDE DEF a, n
<1>4. 3 * a \in Nat /\ 2 * n \in Nat \ {0} /\ n \in Nat \ {0} /\ a * (2 * n) <= (3 * a) * n
  <2>1. a * n \in Nat
    <3>1. \A x, y \in Nat : x * y \in Nat
      OBVIOUS
    <3> QED BY <1>1, <1>3, <3>1
  <2>2. a * (2 * n) = 2 * (a * n) /\ (3 * a) * n = 3 * (a * n)
    BY <1>1, <1>3
  <2> QED BY <1>1, <1>3, <2>1, <2>2
<1>5. OneAndAHalf(<<a, n>>) = <<3 * a, 2 * n>>
  BY DEF OneAndAHalf
<1>6. <<a, n>> \in Fraction /\ <<3 * a, 2 * n>> \in Fraction
  BY <1>3, <1>4 DEF Fraction
<1>7. AtMost(<<a, n>>, <<3 * a, 2 * n>>)
  BY <1>4 DEF AtMost
<1> QED BY <1>2, <1>5, <1>6, <1>7

LEMMA PosQueueIsNatural ==
    ASSUME NEW s \in Location, NEW now \in Int
    PROVE  PosQueue(s, now) \in Nat
<1>1. PosQueue(s, now) \in Int
  BY PosQueueIsNumber
<1>2. PosQueue(s, now) >= 0
  <2> DEFINE r == RoundHalfEven(Cardinality(RecentOrders(s.orders, now, Burst)) * PosWindow
                                  - Len(s.orders) * Burst, PosWindow)
  <2>1. PosQueue(s, now) = IF r > 0 THEN r ELSE 0
    BY DEF PosQueue
  <2> HIDE DEF r
  <2> QED BY <1>1, <2>1
<1> QED BY <1>1, <1>2

LEMMA PosOnlyIsHonest ==
    ASSUME NEW s \in Location, NEW now \in Int
    PROVE  Honest(PosOnlyEstimate(s, now))
<1> DEFINE pos == PosEstimate(s, PosQueue(s, now))
<1>1. PosOnlyEstimate(s, now)
        = IF pos = Absent THEN Unknown(0, "no_data", 0)
                          ELSE Build(0, pos, OneAndAHalf(pos), "pos_only", Len(s.orders))
  BY DEF PosOnlyEstimate
<1>2. ASSUME pos # Absent
      PROVE  pos \in Fraction /\ OneAndAHalf(pos) \in Fraction /\ AtMost(pos, OneAndAHalf(pos))
  BY <1>2, PosQueueIsNatural, PosEstimateInOrder
<1> HIDE DEF pos
<1>3. CASE pos = Absent
  BY <1>1, <1>3, UnknownIsHonest
<1>4. CASE pos # Absent
  BY <1>1, <1>2, <1>4, BuildIsHonest
<1> QED BY <1>3, <1>4

(* A location that counts people and dwells as the code does.              *)
Counts(s) ==
    /\ s \in Location
    /\ IsFiniteSet(s.inQueue)
    /\ \A i \in 1 .. Len(s.dwell) : s.dwell[i][2] \in Nat

LEMMA VisionIsHonest ==
    ASSUME NEW s, Counts(s)
    PROVE  Honest(VisionEstimate(s))
<1> DEFINE dwells == [i \in 1 .. Len(s.dwell) |-> s.dwell[i][2]]
           n == Len(dwells)
           q == Cardinality(s.inQueue)
           pos == PosEstimate(s, q)
           enough == n >= MinSamples
           few == n < MinSamples
           some == q > 0
           none == q = 0
           known == pos # Absent
           a == Build(q, Percentile(dwells, 5), Percentile(dwells, 9), "vision", n)
           b == Build(0, <<0, 1>>, <<0, 1>>, "vision", n)
           c == Build(q, pos, OneAndAHalf(pos), "vision", n)
           d == Unknown(q, "vision", n)
<1>1. VisionEstimate(s) = CASE enough -> a
                            [] few /\ none -> b
                            [] few /\ some /\ known -> c
                            [] OTHER -> d
  BY DEF VisionEstimate
<1>2. dwells \in Seq(Nat)
  BY DEF Counts, Location
<1>3. q \in Nat
  BY FS_CardinalityType DEF Counts
<1>4. ASSUME enough PROVE Honest(a)
  <2>1. n > 0
    <3> HIDE DEF dwells
    <3> QED BY <1>2, <1>4, WaitTimeAssumption
  <2> HIDE DEF dwells
  <2> QED BY <1>2, <2>1, PercentilesInOrder, BuildIsHonest
<1>5. Honest(b)
  <2>1. <<0, 1>> \in Fraction /\ AtMost(<<0, 1>>, <<0, 1>>)
    BY DEF Fraction, AtMost
  <2> QED BY <2>1, BuildIsHonest
<1>6. ASSUME known PROVE Honest(c)
  <2>1. s \in Location
    BY DEF Counts
  <2> HIDE DEF dwells, q
  <2>2. pos \in Fraction /\ OneAndAHalf(pos) \in Fraction /\ AtMost(pos, OneAndAHalf(pos))
    BY <1>3, <1>6, <2>1, PosEstimateInOrder
  <2> QED BY <2>2, BuildIsHonest
<1>7. Honest(d)
  BY UnknownIsHonest
<1> HIDE DEF a, b, c, d, enough, few, some, none, known
<1> QED BY <1>1, <1>4, <1>5, <1>6, <1>7

(* Beside IInv: finitely many people are in the queue, and no dwell is     *)
(* negative, whatever order the times of an entry and an exit come in.     *)
CountsInv ==
    /\ IsFiniteSet(st.inQueue)
    /\ \A i \in 1 .. Len(recorded) : recorded[i][2] \in Nat

LEMMA InitCounts == Init => CountsInv
<1> SUFFICES ASSUME Init PROVE CountsInv
  OBVIOUS
<1>1. st.inQueue = {} /\ recorded = <<>>
  BY DEF Init, EmptyLocation
<1>2. IsFiniteSet({}) /\ 1 .. Len(<<>>) = {}
  BY FS_EmptySet
<1> QED BY <1>1, <1>2 DEF CountsInv

LEMMA NextCounts == IInv /\ CountsInv /\ [Next]_vars => CountsInv'
<1> SUFFICES ASSUME IInv, CountsInv, [Next]_vars PROVE CountsInv'
  OBVIOUS
<1>1. /\ st \in Location /\ recorded \in Seq(Int \X Int) /\ Times \subseteq Int
      /\ since \in [People -> Int \union {Absent}] /\ \A p \in st.inQueue : since[p] \in Int
  BY TimesAssumption DEF IInv, TypeInv
<1>2. ASSUME NEW t \in Times, NEW p \in People, EnterQueue(p, t) PROVE CountsInv'
  <2> DEFINE h == Heard(st, t)
             mid == [h EXCEPT !.inQueue = @ \union {p}]
  <2>1. st' = Trim(mid, t) /\ recorded' = recorded
    BY <1>1, <1>2, EnterEvent DEF EnterQueue
  <2>2. h \in Location /\ h.inQueue = st.inQueue
    BY <1>1, HeardKeepsTheLatest DEF IInv, TypeInv
  <2> HIDE DEF h
  <2>3. mid \in Location /\ mid.inQueue = st.inQueue \union {p}
    BY <1>2, <2>2 DEF Location
  <2> HIDE DEF mid
  <2>4. st'.inQueue = st.inQueue \union {p}
    BY <1>1, <2>1, <2>3, TrimFields
  <2>5. IsFiniteSet(st.inQueue \union {p})
    BY FS_AddElement DEF CountsInv
  <2> QED BY <2>1, <2>4, <2>5 DEF CountsInv
<1>3. ASSUME NEW t \in Times, NEW p \in People, ExitQueue(p, t) PROVE CountsInv'
  <2> DEFINE d == IF t >= since[p] THEN t - since[p] ELSE 0
             long == d >= MinDwell
             h == Heard(st, t)
             mid == [h EXCEPT !.inQueue = @ \ {p},
                              !.dwell = IF long THEN Append(@, <<t, d>>) ELSE @]
  <2>1. d \in Nat
    BY <1>1, <1>3 DEF ExitQueue
  <2>2. st' = OnZoneEvent(st, Event("exit", "queue", p, t, d))
    BY <1>3 DEF ExitQueue
  <2>3. recorded' = IF long THEN Append(recorded, <<t, d>>) ELSE recorded
    BY <1>3 DEF ExitQueue
  <2> HIDE DEF d
  <2>4. st' = Trim(mid, t)
    <3>1. t \in Int /\ d \in Int /\ st \in Location
      BY <1>1, <2>1
    <3> QED BY <2>2, <3>1, ExitEvent
  <2>5. h \in Location /\ h.inQueue = st.inQueue
    BY <1>1, HeardKeepsTheLatest DEF IInv, TypeInv
  <2> HIDE DEF h, long
  <2>6. mid \in Location /\ mid.inQueue = st.inQueue \ {p}
    <3>1. h.dwell \in Seq(Int \X Int) /\ <<t, d>> \in Int \X Int
      BY <1>1, <2>1, <2>5 DEF Location
    <3>2. (IF long THEN Append(h.dwell, <<t, d>>) ELSE h.dwell) \in Seq(Int \X Int)
      BY <3>1
    <3> QED BY <2>5, <3>2 DEF Location
  <2> HIDE DEF mid
  <2>7. st'.inQueue = st.inQueue \ {p}
    BY <1>1, <2>4, <2>6, TrimFields
  <2>8. IsFiniteSet(st.inQueue \ {p})
    BY FS_RemoveElement DEF CountsInv
  <2>9. \A i \in 1 .. Len(recorded') : recorded'[i][2] \in Nat
    <3>1. CASE long
      <4>1. /\ Len(recorded') = Len(recorded) + 1
            /\ \A i \in 1 .. Len(recorded) : recorded'[i] = recorded[i]
            /\ recorded'[Len(recorded) + 1] = <<t, d>>
        BY <1>1, <2>3, <3>1
      <4>2. \A i \in 1 .. Len(recorded) + 1 : i \in 1 .. Len(recorded) \/ i = Len(recorded) + 1
        BY <1>1
      <4> QED BY <2>1, <4>1, <4>2 DEF CountsInv
    <3>2. CASE ~long
      BY <2>3, <3>2 DEF CountsInv
    <3> QED BY <3>1, <3>2
  <2> QED BY <2>7, <2>8, <2>9 DEF CountsInv
<1>4. ASSUME NEW t \in Times, OtherVideo(t) PROVE CountsInv'
  <2>1. st' = Heard(st, t) /\ recorded' = recorded
    BY <1>1, <1>4, EnterEvent DEF OtherVideo
  <2>2. Heard(st, t).inQueue = st.inQueue
    BY <1>1, HeardKeepsTheLatest DEF IInv, TypeInv
  <2> QED BY <2>1, <2>2 DEF CountsInv
<1>5. ASSUME NEW t \in Times, NEW type, PosEvent(type, t) PROVE CountsInv'
  <2> DEFINE mid == IF type \in OrderTypes THEN [st EXCEPT !.orders = Append(@, t)] ELSE st
  <2>1. st' = Trim(mid, t) /\ recorded' = recorded
    BY <1>5 DEF PosEvent, OnPosEvent
  <2>2. mid \in Location /\ mid.inQueue = st.inQueue
    <3>1. Append(st.orders, t) \in Seq(Int)
      BY <1>1 DEF Location
    <3>2. [st EXCEPT !.orders = Append(@, t)] \in Location
      BY <1>1, <3>1 DEF Location
    <3>3. [st EXCEPT !.orders = Append(@, t)].inQueue = st.inQueue
      BY <1>1 DEF Location
    <3> QED BY <1>1, <3>2, <3>3
  <2> HIDE DEF mid
  <2> QED BY <1>1, <2>1, <2>2, TrimFields DEF CountsInv
<1>6. ASSUME NEW t \in Times, Read(t) PROVE CountsInv'
  BY <1>1, <1>6, TrimFields DEF Read, CountsInv
<1>7. CASE UNCHANGED vars
  BY <1>7 DEF vars, CountsInv
<1> QED BY <1>2, <1>3, <1>4, <1>5, <1>6, <1>7 DEF Next

LEMMA TrimmedCounts ==
    ASSUME IInv, CountsInv, NEW now \in Int
    PROVE  Counts(Trim(st, now))
<1>1. st \in Location /\ recorded \in Seq(Int \X Int) /\ received \in Seq(Int)
      /\ nowMax \in Int \union {Absent}
  BY DEF IInv, TypeInv
<1>2. Absent \notin Int
  BY WaitTimeAssumption
<1> DEFINE s == Trim(st, now)
           new == IF nowMax \in Int /\ nowMax > now THEN nowMax ELSE now
<1>3. new \in Int /\ new >= now /\ (nowMax \in Int => new >= nowMax)
  OBVIOUS
<1> HIDE DEF new
<1>4. s \in Location /\ SamplesKept(s.dwell, recorded, new) /\ s.inQueue = st.inQueue
  <2>1. SamplesKept(st.dwell, recorded, nowMax) /\ OrdersKept(st.orders, received, nowMax)
    BY DEF IInv
  <2> QED BY <1>1, <1>3, <2>1, TrimKeeps
<1> HIDE DEF s
<1>5. PICK gone \in 0 .. Len(recorded) : s.dwell = Rest(recorded, gone)
  BY <1>4 DEF SamplesKept
<1>6. /\ Len(s.dwell) = Len(recorded) - gone
      /\ \A i \in 1 .. Len(recorded) - gone : s.dwell[i] = recorded[gone + i]
  BY <1>1, <1>5, RestOf
<1>7. \A i \in 1 .. Len(recorded) - gone : gone + i \in 1 .. Len(recorded)
  BY <1>1
<1>8. \A i \in 1 .. Len(s.dwell) : s.dwell[i][2] \in Nat
  BY <1>6, <1>7 DEF CountsInv
<1>9. Counts(s)
  BY <1>4, <1>8 DEF Counts, CountsInv
<1> QED BY <1>9 DEF s

(* BandCoversEstimate: however an estimate was made (percentiles of the    *)
(* dwells, orders of the POS, or an empty queue), p50 is no more than p90  *)
(* and the band of _band contains both and is not empty.                   *)
THEOREM BandCoversEstimateHolds == Spec => []BandCoversEstimate
<1>1. IInv /\ CountsInv => BandCoversEstimate
  <2> SUFFICES ASSUME IInv, CountsInv, NEW now \in Times
               PROVE  LET est == Estimate(st, now)
                      IN  est.band # Absent =>
                            /\ AtMost(est.p50, est.p90)
                            /\ AtMost(<<est.band[1] * Minute, 1>>, est.p50)
                            /\ AtMost(est.p90, <<est.band[2] * Minute, 1>>)
                            /\ est.band[1] < est.band[2]
    BY DEF BandCoversEstimate
  <2> DEFINE s == Trim(st, now)
  <2>1. now \in Int
    BY TimesAssumption
  <2>2. Counts(s)
    BY <2>1, TrimmedCounts
  <2>3. Estimate(st, now) = IF VideoOk(s, now) THEN VisionEstimate(s) ELSE PosOnlyEstimate(s, now)
    BY DEF Estimate
  <2> HIDE DEF s
  <2>4. s \in Location
    BY <2>2 DEF Counts
  <2>5. Honest(Estimate(st, now))
    BY <2>1, <2>2, <2>3, <2>4, VisionIsHonest, PosOnlyIsHonest
  <2> QED BY <2>5 DEF Honest, Covers
<1>2. Spec => []CountsInv
  <2>1. Init => CountsInv
    BY InitCounts
  <2>2. IInv /\ CountsInv /\ [Next]_vars => CountsInv'
    BY NextCounts
  <2> QED BY <2>1, <2>2, InvariantHolds, PTL DEF Spec
<1> QED BY <1>1, <1>2, InvariantHolds, PTL

---------------------------------------------------------------------------
(* The matcher.  What an operation leaves of a deque is said by what it    *)
(* holds: entries, each of them once.                                      *)
Entries == [id : Nat, ts : Int]

NoTwice(q) == \A i, j \in 1 .. Len(q) : q[i] = q[j] => i = j

Deques == {q \in Seq(Entries) : NoTwice(q)}

Stores(s) == /\ DOMAIN s = {"exits", "pending"} /\ s = [exits |-> s.exits, pending |-> s.pending]
             /\ s.exits \in Deques /\ s.pending \in Deques

LEMMA InDeque ==
    ASSUME NEW q \in Deques, NEW x
    PROVE  x \in ToSet(q) <=> \E i \in 1 .. Len(q) : q[i] = x
BY DEF Deques, ToSet

LEMMA HoldsEntries ==
    ASSUME NEW q \in Deques
    PROVE  ToSet(q) \subseteq Entries
BY DEF Deques, ToSet

LEMMA AppendToDeque ==
    ASSUME NEW q \in Deques, NEW x \in Entries, x \notin ToSet(q)
    PROVE  Append(q, x) \in Deques /\ ToSet(Append(q, x)) = ToSet(q) \union {x}
<1> DEFINE g == Append(q, x)
<1>1. /\ q \in Seq(Entries) /\ NoTwice(q) /\ \A i \in 1 .. Len(q) : q[i] # x
  BY InDeque DEF Deques
<1>2. /\ g \in Seq(Entries) /\ Len(g) = Len(q) + 1
      /\ \A i \in 1 .. Len(q) + 1 : g[i] = IF i = Len(q) + 1 THEN x ELSE q[i]
  BY <1>1
<1> HIDE DEF g
<1>3. NoTwice(g)
  BY <1>1, <1>2 DEF NoTwice
<1>4. g \in Deques
  BY <1>2, <1>3 DEF Deques
<1>5. \A y : (\E i \in 1 .. Len(g) : g[i] = y) <=> (\E i \in 1 .. Len(q) : q[i] = y) \/ y = x
  <2>1. Len(q) \in Nat
    BY <1>1
  <2>2. ASSUME NEW y, NEW i \in 1 .. Len(g), g[i] = y
        PROVE  (\E j \in 1 .. Len(q) : q[j] = y) \/ y = x
    <3>1. i = Len(q) + 1 \/ i \in 1 .. Len(q)
      BY <1>2, <2>1, <2>2
    <3> QED BY <1>2, <2>1, <2>2, <3>1
  <2>3. ASSUME NEW y, NEW i \in 1 .. Len(q), q[i] = y
        PROVE  \E j \in 1 .. Len(g) : g[j] = y
    <3>1. i \in 1 .. Len(g) /\ g[i] = q[i]
      BY <1>2, <2>1
    <3> QED BY <2>3, <3>1
  <2>4. Len(q) + 1 \in 1 .. Len(g) /\ g[Len(q) + 1] = x
    BY <1>2, <2>1
  <2> QED BY <2>2, <2>3, <2>4
<1>6. \A y : y \in ToSet(g) <=> y \in ToSet(q) \/ y = x
  BY <1>4, <1>5, InDeque
<1> QED BY <1>4, <1>6 DEF g

LEMMA RemoveFromDeque ==
    ASSUME NEW q \in Deques, NEW p \in 1 .. Len(q)
    PROVE  RemoveAt(q, p) \in Deques /\ ToSet(RemoveAt(q, p)) = ToSet(q) \ {q[p]}
<1> DEFINE g == RemoveAt(q, p)
<1>1. q \in Seq(Entries) /\ NoTwice(q)
  BY DEF Deques
<1>2. /\ g \in Seq(Entries) /\ Len(g) = Len(q) - 1
      /\ \A i \in 1 .. Len(q) - 1 : g[i] = IF i < p THEN q[i] ELSE q[i + 1]
  <2> DEFINE front == SubSeq(q, 1, p - 1)
             back == SubSeq(q, p + 1, Len(q))
  <2>1. /\ front \in Seq(Entries) /\ Len(front) = p - 1
        /\ \A i \in 1 .. p - 1 : front[i] = q[i]
    BY <1>1
  <2>2. /\ back \in Seq(Entries) /\ Len(back) = Len(q) - p
        /\ \A i \in 1 .. Len(q) - p : back[i] = q[i + p]
    BY <1>1
  <2>3. g = front \o back
    BY DEF RemoveAt
  <2> HIDE DEF front, back, g
  <2>4. /\ g \in Seq(Entries) /\ Len(g) = Len(q) - 1
    BY <1>1, <2>1, <2>2, <2>3
  <2>5. ASSUME NEW i \in 1 .. Len(q) - 1
        PROVE  g[i] = IF i < p THEN q[i] ELSE q[i + 1]
    <3>1. CASE i < p
      BY <1>1, <2>1, <2>2, <2>3, <3>1
    <3>2. CASE ~(i < p)
      <4>1. i - (p - 1) \in 1 .. Len(q) - p /\ (i - (p - 1)) + p = i + 1
        BY <1>1, <3>2
      <4>2. g[i] = back[i - (p - 1)]
        BY <1>1, <2>1, <2>2, <2>3, <3>2, <4>1
      <4> QED BY <2>2, <3>2, <4>1, <4>2
    <3> QED BY <3>1, <3>2
  <2> QED BY <2>4, <2>5
<1> HIDE DEF g
<1>3. NoTwice(g)
  <2> SUFFICES ASSUME NEW i \in 1 .. Len(g), NEW j \in 1 .. Len(g), g[i] = g[j] PROVE i = j
    BY DEF NoTwice
  <2> DEFINE At(k) == IF k < p THEN k ELSE k + 1
  <2>1. \A k \in 1 .. Len(g) : At(k) \in 1 .. Len(q) /\ g[k] = q[At(k)]
    <3> SUFFICES ASSUME NEW k \in 1 .. Len(g) PROVE At(k) \in 1 .. Len(q) /\ g[k] = q[At(k)]
      OBVIOUS
    <3>1. k \in 1 .. Len(q) - 1 /\ Len(q) \in Nat /\ p \in Int
      BY <1>1, <1>2
    <3>2. g[k] = IF k < p THEN q[k] ELSE q[k + 1]
      BY <1>2, <3>1
    <3>3. At(k) \in 1 .. Len(q)
      BY <3>1
    <3> QED BY <3>2, <3>3
  <2>2. At(i) = At(j)
    <3> HIDE DEF At
    <3> QED BY <1>1, <2>1 DEF NoTwice
  <2> QED BY <1>2, <2>2
<1>4. g \in Deques
  BY <1>2, <1>3 DEF Deques
<1>5. ASSUME NEW y
      PROVE  (\E i \in 1 .. Len(g) : g[i] = y) <=> (\E i \in 1 .. Len(q) : q[i] = y) /\ y # q[p]
  <2>1. ASSUME NEW i \in 1 .. Len(g), g[i] = y
        PROVE  (\E j \in 1 .. Len(q) : q[j] = y) /\ y # q[p]
    <3>1. PICK j \in 1 .. Len(q) : j # p /\ g[i] = q[j]
      BY <1>1, <1>2
    <3> QED BY <1>1, <2>1, <3>1 DEF NoTwice
  <2>2. ASSUME NEW i \in 1 .. Len(q), q[i] = y, y # q[p]
        PROVE  \E j \in 1 .. Len(g) : g[j] = y
    <3>1. CASE i < p
      <4>1. i \in 1 .. Len(g) /\ g[i] = q[i]
        BY <1>1, <1>2, <3>1
      <4> QED BY <2>2, <4>1
    <3>2. CASE i > p
      <4>1. i - 1 \in 1 .. Len(g) /\ g[i - 1] = q[(i - 1) + 1] /\ (i - 1) + 1 = i
        BY <1>1, <1>2, <3>2
      <4> QED BY <2>2, <4>1
    <3> QED BY <2>2, <3>1, <3>2
  <2> QED BY <2>1, <2>2
<1>6. \A y : y \in ToSet(g) <=> y \in ToSet(q) /\ y # q[p]
  BY <1>4, <1>5, InDeque
<1> QED BY <1>4, <1>6 DEF g

LEMMA RemoveFirstFromDeque ==
    ASSUME NEW q \in Deques, NEW x \in ToSet(q)
    PROVE  RemoveFirst(q, x) \in Deques /\ ToSet(RemoveFirst(q, x)) = ToSet(q) \ {x}
<1>1. PICK p \in 1 .. Len(q) : q[p] = x
  BY InDeque
<1> DEFINE I == {i \in 1 .. Len(q) : q[i] = x}
<1>2. I = {p}
  BY <1>1 DEF Deques, NoTwice
<1>3. Min(I) = p
  BY <1>2 DEF Min
<1>4. RemoveFirst(q, x) = RemoveAt(q, p)
  BY <1>1, <1>2, <1>3 DEF RemoveFirst, SelectInSeq
<1> QED BY <1>1, <1>4, RemoveFromDeque

(* _trim, by the clock now: what it leaves was there, and what it takes is *)
(* older than Keep.                                                        *)
Trims(q, left, now) ==
    /\ left \in Deques /\ ToSet(left) \subseteq ToSet(q)
    /\ \A x \in ToSet(q) : x \in ToSet(left) \/ now - x.ts > Keep

LEMMA TrimDeque ==
    ASSUME NEW q \in Deques, NEW now \in Int
    PROVE  Trims(q, DropOldHead(q, {i \in 1 .. Len(q) : now - q[i].ts <= Keep}), now)
<1> DEFINE recent == {i \in 1 .. Len(q) : now - q[i].ts <= Keep}
           left == DropOldHead(q, recent)
<1>1. q \in Seq(Entries) /\ NoTwice(q) /\ Keep \in Nat
  BY MatchingAssumption DEF Deques
<1>2. PICK gone \in 0 .. Len(q) : DropsTo(q, recent, gone)
  BY <1>1, DropOldHeadIsRest
<1>3. left = Rest(q, gone) /\ \A i \in 1 .. gone : i \notin recent
  BY <1>2 DEF DropsTo
<1>4. /\ left \in Seq(Entries) /\ Len(left) = Len(q) - gone
      /\ \A i \in 1 .. Len(q) - gone : left[i] = q[gone + i]
  BY <1>1, <1>3, RestOf
<1>5. \A i \in 1 .. gone : now - q[i].ts > Keep
  <2> SUFFICES ASSUME NEW i \in 1 .. gone PROVE now - q[i].ts > Keep
    OBVIOUS
  <2>1. i \in 1 .. Len(q) /\ ~(now - q[i].ts <= Keep)
    BY <1>3
  <2>2. q[i] \in Entries
    BY <1>1, <2>1
  <2>3. q[i].ts \in Int
    BY <2>2 DEF Entries
  <2> QED BY <1>1, <2>1, <2>3
<1> HIDE DEF left, recent
<1>6. left \in Deques
  <2>1. ASSUME NEW i \in 1 .. Len(left), NEW j \in 1 .. Len(left), left[i] = left[j]
        PROVE  i = j
    BY <1>1, <1>4, <2>1 DEF NoTwice
  <2> QED BY <1>4, <2>1 DEF Deques, NoTwice
<1>7. \A x \in ToSet(left) : x \in ToSet(q)
  <2> SUFFICES ASSUME NEW x \in ToSet(left) PROVE x \in ToSet(q)
    OBVIOUS
  <2>1. PICK i \in 1 .. Len(left) : left[i] = x
    BY <1>6, InDeque
  <2>2. gone + i \in 1 .. Len(q) /\ q[gone + i] = x
    BY <1>1, <1>4, <2>1
  <2> QED BY <2>2, InDeque
<1>8. \A x \in ToSet(q) : x \in ToSet(left) \/ now - x.ts > Keep
  <2> SUFFICES ASSUME NEW x \in ToSet(q) PROVE x \in ToSet(left) \/ now - x.ts > Keep
    OBVIOUS
  <2>1. PICK i \in 1 .. Len(q) : q[i] = x
    BY InDeque
  <2>2. CASE i <= gone
    BY <1>5, <2>1, <2>2
  <2>3. CASE i > gone
    <3>1. i - gone \in 1 .. Len(left) /\ left[i - gone] = q[gone + (i - gone)]
          /\ gone + (i - gone) = i
      BY <1>1, <1>4, <2>3
    <3> QED BY <1>6, <2>1, <3>1, InDeque
  <2> QED BY <2>2, <2>3
<1> QED BY <1>6, <1>7, <1>8 DEF Trims, left, recent

LEMMA TrimStoresTrims ==
    ASSUME NEW s, Stores(s), NEW now \in Int
    PROVE  /\ Stores(TrimStores(s, now))
           /\ Trims(s.exits, TrimStores(s, now).exits, now)
           /\ Trims(s.pending, TrimStores(s, now).pending, now)
<1> DEFINE Recent(q) == {i \in 1 .. Len(q) : now - q[i].ts <= Keep}
           Left(q) == DropOldHead(q, Recent(q))
           From(q) == IF Recent(q) # {} THEN Min(Recent(q)) ELSE 0
<1>1. \A q \in Deques : (From(q) = 0 <=> Recent(q) = {}) /\ Left(q) =
          IF From(q) = 0 THEN <<>> ELSE SubSeq(q, From(q), Len(q))
  <2> SUFFICES ASSUME NEW q \in Deques
               PROVE  (From(q) = 0 <=> Recent(q) = {}) /\ Left(q) =
                         IF From(q) = 0 THEN <<>> ELSE SubSeq(q, From(q), Len(q))
    OBVIOUS
  <2>1. Recent(q) \in SUBSET Nat /\ 0 \notin Recent(q)
    BY DEF Deques
  <2>2. Recent(q) # {} => Min(Recent(q)) \in Recent(q)
    <3> HIDE DEF Recent
    <3> QED BY <2>1, MinOfNaturals
  <2> HIDE DEF Recent
  <2> QED BY <2>1, <2>2 DEF DropOldHead
<1>2. TrimStores(s, now) = [exits |-> Left(s.exits), pending |-> Left(s.pending)]
  <2>1. TrimStores(s, now) =
          [exits |-> IF From(s.exits) = 0 THEN <<>>
                     ELSE SubSeq(s.exits, From(s.exits), Len(s.exits)),
           pending |-> IF From(s.pending) = 0 THEN <<>>
                       ELSE SubSeq(s.pending, From(s.pending), Len(s.pending))]
    BY DEF TrimStores, SelectInSeq
  <2>2. s.exits \in Deques /\ s.pending \in Deques
    BY DEF Stores
  <2> HIDE DEF Left, From, Recent
  <2> QED BY <1>1, <2>1, <2>2
<1>3. Trims(s.exits, Left(s.exits), now) /\ Trims(s.pending, Left(s.pending), now)
  BY TrimDeque DEF Stores
<1> HIDE DEF Left
<1> QED BY <1>2, <1>3 DEF Stores, Trims

LEMMA RetentionLemma ==
    /\ Keep \in Nat /\ Tolerance \in Nat /\ MaxTime \in Nat /\ MaxLag \in Nat /\ MaxAhead \in Nat
    /\ MaxLag + MaxAhead + Tolerance <= Keep /\ Tolerance <= Keep
BY MatchingAssumption, RetentionAssumption

LEMMA ApartLemma ==
    ASSUME NEW x \in Entries, NEW y \in Entries
    PROVE  /\ x.ts \in Int /\ y.ts \in Int /\ Apart(x, y) \in Nat /\ Apart(x, y) = Apart(y, x)
           /\ Apart(x, y) >= x.ts - y.ts /\ Apart(x, y) >= y.ts - x.ts
<1>1. x.ts \in Int /\ y.ts \in Int
  BY DEF Entries
<1> QED BY <1>1 DEF Apart

(* What an operation at the time now leaves of a deque that held the       *)
(* entries before: the ones it paired are gone, any other is there or old. *)
Leaves(before, paired, left, now) ==
    /\ left \in Deques /\ ToSet(left) \subseteq before \ paired
    /\ \A x \in before \ paired : x \in ToSet(left) \/ now - x.ts > Keep

(* on_zone_event pairs the exit unless no pending check_open is near it.   *)
Exits(s, ev, result) ==
    \E paired \in SUBSET ToSet(s.pending) :
        /\ result.pairs = {Pair(pos, ev) : pos \in paired}
        /\ \A pos, other \in paired : pos = other
        /\ \A pos \in paired : Apart(pos, ev) <= Tolerance
        /\ paired = {} => \A pos \in ToSet(s.pending) : Apart(pos, ev) > Tolerance
        /\ Leaves(ToSet(s.exits) \union {ev}, IF paired = {} THEN {} ELSE {ev},
                  result.stores.exits, ev.ts)
        /\ Leaves(ToSet(s.pending), paired, result.stores.pending, ev.ts)

LEMMA MatchExitLemma ==
    ASSUME NEW s, Stores(s), NEW ev \in Entries, ev \notin ToSet(s.exits)
    PROVE  Stores(MatchExit(s, ev).stores) /\ Exits(s, ev, MatchExit(s, ev))
<1> DEFINE told == [s EXCEPT !.exits = Append(@, ev)]
           t == TrimStores(told, ev.ts)
           near == {i \in 1 .. Len(t.pending) : Apart(t.pending[i], ev) <= Tolerance}
           first == IF near # {} THEN Min(near) ELSE 0
           result == MatchExit(s, ev)
<1>1. ev.ts \in Int
  BY DEF Entries
<1>2. /\ Append(s.exits, ev) \in Deques
      /\ ToSet(Append(s.exits, ev)) = ToSet(s.exits) \union {ev}
  BY AppendToDeque DEF Stores
<1>3. /\ Stores(told) /\ told.pending = s.pending
      /\ ToSet(told.exits) = ToSet(s.exits) \union {ev}
  <2>1. told = [exits |-> Append(s.exits, ev), pending |-> s.pending]
    BY DEF Stores
  <2> HIDE DEF told
  <2> QED BY <1>2, <2>1 DEF Stores
<1>4. result = IF first = 0 THEN [stores |-> t, pairs |-> {}]
               ELSE [stores |-> [exits   |-> RemoveFirst(t.exits, ev),
                                 pending |-> RemoveAt(t.pending, first)],
                     pairs  |-> {Pair(t.pending[first], ev)}]
  BY DEF MatchExit, SelectInSeq
<1> HIDE DEF told
<1>5. Stores(t) /\ Trims(told.exits, t.exits, ev.ts) /\ Trims(told.pending, t.pending, ev.ts)
  BY <1>1, <1>3, TrimStoresTrims
<1> HIDE DEF t, result
<1>6. /\ t.exits \in Deques /\ t.pending \in Deques
      /\ ToSet(t.exits) \subseteq ToSet(s.exits) \union {ev}
      /\ \A x \in ToSet(s.exits) \union {ev} : x \in ToSet(t.exits) \/ ev.ts - x.ts > Keep
      /\ ToSet(t.pending) \subseteq ToSet(s.pending)
      /\ \A x \in ToSet(s.pending) : x \in ToSet(t.pending) \/ ev.ts - x.ts > Keep
  BY <1>3, <1>5 DEF Trims
<1>7. /\ near \in SUBSET Nat /\ 0 \notin near
  BY <1>6 DEF Deques
<1>8. \A x \in Entries : ev.ts - x.ts > Keep => Apart(x, ev) > Tolerance
  <2> SUFFICES ASSUME NEW x \in Entries, ev.ts - x.ts > Keep PROVE Apart(x, ev) > Tolerance
    OBVIOUS
  <2>1. Apart(x, ev) \in Nat /\ Apart(x, ev) >= ev.ts - x.ts /\ x.ts \in Int
    BY ApartLemma
  <2> QED BY <1>1, <2>1, RetentionLemma
<1>9. CASE near = {}
  <2>1. result = [stores |-> t, pairs |-> {}]
    BY <1>4, <1>9
  <2>2. \A pos \in ToSet(s.pending) : Apart(pos, ev) > Tolerance
    <3> SUFFICES ASSUME NEW pos \in ToSet(s.pending) PROVE Apart(pos, ev) > Tolerance
      OBVIOUS
    <3>1. pos \in Entries
      BY HoldsEntries DEF Stores
    <3>2. CASE pos \in ToSet(t.pending)
      <4>1. PICK i \in 1 .. Len(t.pending) : t.pending[i] = pos
        BY <1>6, <3>2, InDeque
      <4>2. ~(Apart(pos, ev) <= Tolerance)
        BY <1>9, <4>1
      <4>3. Apart(pos, ev) \in Nat
        BY <3>1, ApartLemma
      <4> QED BY <4>2, <4>3, RetentionLemma
    <3> QED BY <1>6, <1>8, <3>1, <3>2
  <2>3. /\ Leaves(ToSet(s.exits) \union {ev}, {}, t.exits, ev.ts)
        /\ Leaves(ToSet(s.pending), {}, t.pending, ev.ts)
    BY <1>6 DEF Leaves
  <2>4. {} \in SUBSET ToSet(s.pending) /\ {Pair(pos, ev) : pos \in {}} = {}
    OBVIOUS
  <2>5. result.stores = t /\ result.pairs = {}
    BY <2>1
  <2>6. Exits(s, ev, result)
    BY <2>2, <2>3, <2>4, <2>5 DEF Exits
  <2> QED BY <1>5, <2>5, <2>6 DEF result
<1>10. CASE near # {}
  <2>1. first \in near /\ first # 0
    <3>1. Min(near) \in near
      <4> HIDE DEF near
      <4> QED BY <1>7, <1>10, MinOfNaturals
    <3> HIDE DEF near
    <3> QED BY <1>7, <1>10, <3>1
  <2> DEFINE pos == t.pending[first]
             exits == RemoveFirst(t.exits, ev)
             pending == RemoveAt(t.pending, first)
  <2>2. first \in 1 .. Len(t.pending) /\ Apart(pos, ev) <= Tolerance
    BY <2>1
  <2>3. result = [stores |-> [exits |-> exits, pending |-> pending], pairs |-> {Pair(pos, ev)}]
    BY <1>4, <2>1
  <2> HIDE DEF first
  <2>4. pos \in ToSet(t.pending)
    BY <1>6, <2>2, InDeque
  <2>5. pending \in Deques /\ ToSet(pending) = ToSet(t.pending) \ {pos}
    BY <1>6, <2>2, RemoveFromDeque
  <2>6. ev \in ToSet(t.exits)
    BY <1>1, <1>6, RetentionLemma
  <2>7. exits \in Deques /\ ToSet(exits) = ToSet(t.exits) \ {ev}
    BY <1>6, <2>6, RemoveFirstFromDeque
  <2> HIDE DEF pos, exits, pending
  <2>8. /\ Leaves(ToSet(s.exits) \union {ev}, {ev}, exits, ev.ts)
        /\ Leaves(ToSet(s.pending), {pos}, pending, ev.ts)
    BY <1>6, <2>5, <2>7 DEF Leaves
  <2>9. {pos} \in SUBSET ToSet(s.pending) /\ {Pair(p, ev) : p \in {pos}} = {Pair(pos, ev)}
    BY <1>6, <2>4
  <2>10. /\ result.stores = [exits |-> exits, pending |-> pending]
         /\ result.pairs = {Pair(pos, ev)}
    BY <2>3
  <2>11. Stores(result.stores)
    BY <2>5, <2>7, <2>10 DEF Stores
  <2>12. Exits(s, ev, result)
    <3>1. {pos} # {}
      OBVIOUS
    <3>2. /\ result.pairs = {Pair(p, ev) : p \in {pos}}
          /\ result.stores.exits = exits /\ result.stores.pending = pending
      BY <2>9, <2>10
    <3>3. Leaves(ToSet(s.exits) \union {ev}, IF {pos} = {} THEN {} ELSE {ev},
                 result.stores.exits, ev.ts)
      BY <2>8, <3>1, <3>2
    <3> QED BY <2>2, <2>8, <2>9, <3>1, <3>2, <3>3 DEF Exits, pos
  <2> QED BY <2>11, <2>12 DEF result
<1> QED BY <1>9, <1>10

(* on_pos_event pairs the check_open unless no unmatched exit is near it.  *)
Opens(s, pos, result) ==
    \E paired \in SUBSET ToSet(s.exits) :
        /\ result.pairs = {Pair(pos, ev) : ev \in paired}
        /\ \A ev, other \in paired : ev = other
        /\ \A ev \in paired : Apart(pos, ev) <= Tolerance
        /\ paired = {} => \A ev \in ToSet(s.exits) : Apart(pos, ev) > Tolerance
        /\ Leaves(ToSet(s.pending) \union {pos}, IF paired = {} THEN {} ELSE {pos},
                  result.stores.pending, pos.ts)
        /\ Leaves(ToSet(s.exits), paired, result.stores.exits, pos.ts)

(* Of the exits near a check_open one is the first of the closest.         *)
LEMMA SomeIsClosest ==
    ASSUME NEW q \in Deques, NEW pos \in Entries, NEW p \in 1 .. Len(q),
           Apart(q[p], pos) <= Tolerance
    PROVE  \E i \in 1 .. Len(q) : IsClosest(q, pos, i)
<1> DEFINE Off(i) == Apart(q[i], pos)
           gaps == {Off(i) : i \in 1 .. Len(q)}
           least == Min(gaps)
           nearest == {i \in 1 .. Len(q) : Off(i) = least}
           first == Min(nearest)
<1>1. Len(q) \in Nat /\ \A i \in 1 .. Len(q) : Off(i) \in Nat
  <2>1. Len(q) \in Nat /\ \A i \in 1 .. Len(q) : q[i] \in Entries
    BY DEF Deques
  <2> QED BY <2>1, ApartLemma
<1> HIDE DEF Off
<1>2. least \in gaps /\ \A n \in gaps : least <= n
  <2>1. gaps \in SUBSET Nat /\ gaps # {}
    BY <1>1
  <2> HIDE DEF gaps
  <2> QED BY <2>1, MinOfNaturals
<1>3. least \in Nat /\ \A i \in 1 .. Len(q) : least <= Off(i)
  BY <1>1, <1>2
<1>4. nearest # {} /\ nearest \in SUBSET Nat
  <2> HIDE DEF least
  <2> QED BY <1>2
<1> HIDE DEF least, gaps
<1>5. first \in nearest /\ \A n \in nearest : first <= n
  <2> HIDE DEF nearest
  <2> QED BY <1>4, MinOfNaturals
<1> HIDE DEF first
<1>6. first \in 1 .. Len(q) /\ Off(first) = least /\ Off(first) <= Tolerance
  <2>1. first \in 1 .. Len(q) /\ Off(first) = least
    BY <1>5
  <2>2. Off(p) <= Tolerance /\ least <= Off(p) /\ Off(p) \in Nat
    BY <1>1, <1>3 DEF Off
  <2> QED BY <1>3, <2>1, <2>2, RetentionLemma
<1>7. \A j \in 1 .. Len(q) : Off(j) >= Off(first)
  BY <1>1, <1>3, <1>6
<1>8. \A j \in 1 .. first - 1 : Off(j) > Off(first)
  <2> SUFFICES ASSUME NEW j \in 1 .. first - 1 PROVE Off(j) > Off(first)
    OBVIOUS
  <2>1. j \in 1 .. Len(q) /\ ~(first <= j)
    BY <1>1, <1>6
  <2>2. Off(j) # least
    BY <1>5, <2>1
  <2> QED BY <1>1, <1>3, <1>6, <2>1, <2>2
<1> QED BY <1>6, <1>7, <1>8 DEF IsClosest, Off

LEMMA MatchPosLemma ==
    ASSUME NEW s, Stores(s), NEW pos \in Entries, pos \notin ToSet(s.pending)
    PROVE  Stores(MatchPos(s, pos).stores) /\ Opens(s, pos, MatchPos(s, pos))
<1> DEFINE t == TrimStores(s, pos.ts)
           closest == {i \in 1 .. Len(t.exits) : IsClosest(t.exits, pos, i)}
           i == CHOOSE i \in closest : TRUE
           result == MatchPos(s, pos)
<1>1. pos.ts \in Int
  BY DEF Entries
<1>2. result = IF closest = {}
                 THEN [stores |-> [t EXCEPT !.pending = Append(@, pos)], pairs |-> {}]
                 ELSE [stores |-> [t EXCEPT !.exits = RemoveAt(@, i)],
                       pairs  |-> {Pair(pos, t.exits[i])}]
  BY DEF MatchPos
<1>3. Stores(t) /\ Trims(s.exits, t.exits, pos.ts) /\ Trims(s.pending, t.pending, pos.ts)
  BY <1>1, TrimStoresTrims
<1> HIDE DEF t, result
<1>4. /\ t.exits \in Deques /\ t.pending \in Deques
      /\ ToSet(t.exits) \subseteq ToSet(s.exits)
      /\ \A x \in ToSet(s.exits) : x \in ToSet(t.exits) \/ pos.ts - x.ts > Keep
      /\ ToSet(t.pending) \subseteq ToSet(s.pending)
      /\ \A x \in ToSet(s.pending) : x \in ToSet(t.pending) \/ pos.ts - x.ts > Keep
      /\ t = [exits |-> t.exits, pending |-> t.pending]
  BY <1>3 DEF Trims, Stores
<1>5. CASE closest = {}
  <2> DEFINE pending == Append(t.pending, pos)
  <2>1. pending \in Deques /\ ToSet(pending) = ToSet(t.pending) \union {pos}
    BY <1>4, AppendToDeque
  <2>2. result = [stores |-> [exits |-> t.exits, pending |-> pending], pairs |-> {}]
    <3>1. [t EXCEPT !.pending = Append(@, pos)] = [exits |-> t.exits, pending |-> pending]
      BY <1>4
    <3> QED BY <1>2, <1>5, <3>1
  <2> HIDE DEF pending
  <2>3. \A ev \in ToSet(s.exits) : Apart(pos, ev) > Tolerance
    <3> SUFFICES ASSUME NEW ev \in ToSet(s.exits) PROVE Apart(pos, ev) > Tolerance
      OBVIOUS
    <3>1. ev \in Entries
      BY HoldsEntries DEF Stores
    <3>2. /\ Apart(pos, ev) \in Nat /\ Apart(pos, ev) = Apart(ev, pos)
          /\ Apart(pos, ev) >= pos.ts - ev.ts /\ ev.ts \in Int
      BY <3>1, ApartLemma
    <3>3. CASE ev \in ToSet(t.exits)
      <4>1. PICK p \in 1 .. Len(t.exits) : t.exits[p] = ev
        BY <1>4, <3>3, InDeque
      <4>2. ~(Apart(ev, pos) <= Tolerance)
        BY <1>4, <1>5, <4>1, SomeIsClosest
      <4> QED BY <3>2, <4>2, RetentionLemma
    <3>4. CASE pos.ts - ev.ts > Keep
      BY <1>1, <3>2, <3>4, RetentionLemma
    <3> QED BY <1>4, <3>3, <3>4
  <2>4. /\ Leaves(ToSet(s.pending) \union {pos}, {}, pending, pos.ts)
        /\ Leaves(ToSet(s.exits), {}, t.exits, pos.ts)
    BY <1>4, <2>1 DEF Leaves
  <2>5. {} \in SUBSET ToSet(s.exits) /\ {Pair(pos, ev) : ev \in {}} = {}
    OBVIOUS
  <2>6. /\ result.stores = [exits |-> t.exits, pending |-> pending] /\ result.pairs = {}
        /\ result.stores.exits = t.exits /\ result.stores.pending = pending
    BY <2>2
  <2>7. Opens(s, pos, result)
    BY <2>3, <2>4, <2>5, <2>6 DEF Opens
  <2>8. Stores(result.stores)
    BY <1>4, <2>1, <2>6 DEF Stores
  <2> QED BY <2>7, <2>8 DEF result
<1>6. CASE closest # {}
  <2> DEFINE ev == t.exits[i]
             exits == RemoveAt(t.exits, i)
  <2>1. i \in closest
    BY <1>6
  <2>2. i \in 1 .. Len(t.exits) /\ Apart(ev, pos) <= Tolerance
    BY <2>1 DEF IsClosest
  <2>3. result = [stores |-> [exits |-> exits, pending |-> t.pending], pairs |-> {Pair(pos, ev)}]
    <3>1. [t EXCEPT !.exits = RemoveAt(@, i)] = [exits |-> exits, pending |-> t.pending]
      BY <1>4
    <3> QED BY <1>2, <1>6, <3>1
  <2> HIDE DEF i
  <2>4. ev \in ToSet(t.exits)
    BY <1>4, <2>2, InDeque
  <2>5. exits \in Deques /\ ToSet(exits) = ToSet(t.exits) \ {ev}
    BY <1>4, <2>2, RemoveFromDeque
  <2> HIDE DEF ev, exits
  <2>6. ev \in Entries /\ ev \in ToSet(s.exits)
    BY <1>4, <2>4, HoldsEntries
  <2>7. Apart(pos, ev) <= Tolerance
    BY <2>2, <2>6, ApartLemma DEF ev
  <2>8. /\ Leaves(ToSet(s.pending) \union {pos}, {pos}, t.pending, pos.ts)
        /\ Leaves(ToSet(s.exits), {ev}, exits, pos.ts)
    BY <1>4, <2>5 DEF Leaves
  <2>9. {ev} \in SUBSET ToSet(s.exits) /\ {Pair(pos, e) : e \in {ev}} = {Pair(pos, ev)}
    BY <2>6
  <2>10. /\ result.stores = [exits |-> exits, pending |-> t.pending]
         /\ result.stores.exits = exits /\ result.stores.pending = t.pending
         /\ result.pairs = {Pair(pos, e) : e \in {ev}}
    BY <2>3, <2>9
  <2>11. Stores(result.stores)
    BY <1>4, <2>5, <2>10 DEF Stores
  <2>12. Opens(s, pos, result)
    <3>1. Leaves(ToSet(s.pending) \union {pos}, IF {ev} = {} THEN {} ELSE {pos},
                 result.stores.pending, pos.ts)
      BY <2>8, <2>10
    <3> QED BY <2>7, <2>8, <2>9, <2>10, <3>1 DEF Opens
  <2> QED BY <2>11, <2>12 DEF result
<1> QED BY <1>5, <1>6

---------------------------------------------------------------------------
(* The matcher's inductive invariant.  What arrived has distinct ids; an   *)
(* event that is not paired is in its deque, unless it is so old for every *)
(* clock that nothing still to come can be near it.                        *)
Numbered(events) == IsFiniteSet(events) /\ \A x \in events : x.id <= Cardinality(events)

Arrived ==
    /\ clock \in Int /\ exited \subseteq Entries /\ opened \subseteq Entries
    /\ Numbered(exited) /\ Numbered(opened)
    /\ Stores(matcher)
    /\ ToSet(matcher.exits) \subseteq exited /\ ToSet(matcher.pending) \subseteq opened
    /\ \A p \in pairs : p.pos \in opened /\ p.exit \in exited

Forgotten(x) == clock + MaxAhead - x.ts > Keep

UnpairedAreKept ==
    /\ \A ev \in exited :
           ev \in ToSet(matcher.exits) \/ (\E p \in pairs : p.exit = ev) \/ Forgotten(ev)
    /\ \A pos \in opened :
           pos \in ToSet(matcher.pending) \/ (\E p \in pairs : p.pos = pos) \/ Forgotten(pos)

MatcherInv == Arrived /\ UnpairedAreKept /\ PairingIsMaximal

LEMMA NextNumber ==
    ASSUME NEW events \in SUBSET Entries, Numbered(events), NEW ts \in Int
    PROVE  LET x == [id |-> Cardinality(events) + 1, ts |-> ts]
           IN  x \in Entries /\ x \notin events /\ Numbered(events \union {x})
<1> DEFINE n == Cardinality(events)
           x == [id |-> n + 1, ts |-> ts]
<1>1. IsFiniteSet(events) /\ n \in Nat /\ \A y \in events : y.id <= n /\ y.id \in Nat
  BY FS_CardinalityType DEF Numbered, Entries
<1> HIDE DEF n
<1>2. x \in Entries /\ x \notin events /\ x.id = n + 1
  BY <1>1 DEF Entries
<1> HIDE DEF x
<1>3. IsFiniteSet(events \union {x}) /\ Cardinality(events \union {x}) = n + 1
  BY <1>1, <1>2, FS_AddElement DEF n
<1>4. Numbered(events \union {x})
  <2>1. \A y \in events \union {x} : y.id <= n + 1
    BY <1>1, <1>2
  <2> QED BY <1>3, <2>1 DEF Numbered
<1> QED BY <1>2, <1>4 DEF x, n

LEMMA InitMatcherInv == MatcherInit => MatcherInv
<1> SUFFICES ASSUME MatcherInit PROVE MatcherInv
  OBVIOUS
<1>1. clock = 0 /\ matcher = [exits |-> <<>>, pending |-> <<>>]
      /\ exited = {} /\ opened = {} /\ pairs = {}
  BY DEF MatcherInit, EmptyMatcher
<1>2. <<>> \in Deques /\ ToSet(<<>>) = {}
  BY DEF Deques, NoTwice, ToSet
<1>3. Stores(matcher) /\ ToSet(matcher.exits) = {} /\ ToSet(matcher.pending) = {}
  BY <1>1, <1>2 DEF Stores
<1>4. Numbered({})
  BY FS_EmptySet DEF Numbered
<1> QED BY <1>1, <1>3, <1>4 DEF MatcherInv, Arrived, UnpairedAreKept, PairingIsMaximal

(* An exit that is no more than MaxLag late finds every check_open that is *)
(* near it, and a check_open every exit.                                   *)
LEMMA ForgottenAreFar ==
    ASSUME clock \in Int, NEW x \in Entries, Forgotten(x), NEW y \in Entries,
           y.ts >= clock - MaxLag
    PROVE  Apart(x, y) > Tolerance
<1>1. /\ Apart(x, y) \in Nat /\ Apart(x, y) >= y.ts - x.ts /\ x.ts \in Int /\ y.ts \in Int
  BY ApartLemma
<1> QED BY <1>1, RetentionLemma DEF Forgotten

LEMMA QueueExitKeeps ==
    ASSUME MatcherInv, NEW ts \in Int, QueueExit(ts)
    PROVE  MatcherInv'
<1> DEFINE ev == [id |-> Cardinality(exited) + 1, ts |-> ts]
           result == MatchExit(matcher, ev)
<1>1. /\ ts >= clock - MaxLag /\ ts <= clock + MaxAhead
      /\ matcher' = result.stores /\ pairs' = pairs \union result.pairs
      /\ exited' = exited \union {ev} /\ clock' = clock /\ opened' = opened
  BY DEF QueueExit, Record
<1>2. ev \in Entries /\ ev \notin exited /\ Numbered(exited \union {ev})
  BY NextNumber DEF MatcherInv, Arrived
<1>3. /\ clock \in Int /\ exited \subseteq Entries /\ opened \subseteq Entries
      /\ Stores(matcher)
      /\ ToSet(matcher.exits) \subseteq exited /\ ToSet(matcher.pending) \subseteq opened
      /\ \A p \in pairs : p.pos \in opened /\ p.exit \in exited
  BY DEF MatcherInv, Arrived
<1>4. Stores(result.stores) /\ Exits(matcher, ev, result)
  BY <1>2, <1>3, MatchExitLemma
<1>5. ev.ts = ts
  OBVIOUS
<1> HIDE DEF ev, result
<1>6. PICK paired \in SUBSET ToSet(matcher.pending) :
        /\ result.pairs = {Pair(pos, ev) : pos \in paired}
        /\ \A pos, other \in paired : pos = other
        /\ \A pos \in paired : Apart(pos, ev) <= Tolerance
        /\ paired = {} => \A pos \in ToSet(matcher.pending) : Apart(pos, ev) > Tolerance
        /\ Leaves(ToSet(matcher.exits) \union {ev}, IF paired = {} THEN {} ELSE {ev},
                  matcher'.exits, ts)
        /\ Leaves(ToSet(matcher.pending), paired, matcher'.pending, ts)
  BY <1>1, <1>4, <1>5 DEF Exits
<1>7. /\ pairs \subseteq pairs'
      /\ \A p \in pairs' : p \in pairs \/ (p.exit = ev /\ p.pos \in paired)
      /\ \A p \in pairs' : p \notin pairs => p = Pair(p.pos, ev)
      /\ \A pos \in paired : \E p \in pairs' : p.pos = pos /\ p.exit = ev
  <2>1. pairs' = pairs \union {Pair(pos, ev) : pos \in paired}
    BY <1>1, <1>6
  <2>2. \A pos : Pair(pos, ev).pos = pos /\ Pair(pos, ev).exit = ev
    BY DEF Pair
  <2>3. \A p \in pairs' : p \notin pairs =>
            p.exit = ev /\ p.pos \in paired /\ p = Pair(p.pos, ev)
    BY <2>1, <2>2
  <2>4. \A pos \in paired : Pair(pos, ev) \in pairs'
    BY <2>1
  <2> QED BY <2>1, <2>2, <2>3, <2>4
<1>8. /\ ToSet(matcher'.exits) \subseteq ToSet(matcher.exits) \union {ev}
      /\ ToSet(matcher'.pending) \subseteq ToSet(matcher.pending) \ paired
      /\ paired # {} => ev \notin ToSet(matcher'.exits)
      /\ \A x \in ToSet(matcher.exits) \union {ev} :
             x \in ToSet(matcher'.exits) \/ (paired # {} /\ x = ev) \/ ts - x.ts > Keep
      /\ \A x \in ToSet(matcher.pending) \ paired :
             x \in ToSet(matcher'.pending) \/ ts - x.ts > Keep
  BY <1>6 DEF Leaves
<1>9. Arrived'
  BY <1>1, <1>2, <1>3, <1>4, <1>7, <1>8 DEF MatcherInv, Arrived
<1>10. \A x \in Entries : ts - x.ts > Keep => Forgotten(x)'
  <2> SUFFICES ASSUME NEW x \in Entries, ts - x.ts > Keep PROVE Forgotten(x)'
    OBVIOUS
  <2>1. x.ts \in Int
    BY DEF Entries
  <2> QED BY <1>1, <1>3, <2>1, RetentionLemma DEF Forgotten
<1>11. \A x : Forgotten(x) => Forgotten(x)'
  BY <1>1 DEF Forgotten
<1>12. UnpairedAreKept'
  <2>1. ASSUME NEW x \in exited'
        PROVE  x \in ToSet(matcher'.exits) \/ (\E p \in pairs' : p.exit = x) \/ Forgotten(x)'
    <3>1. x \in Entries
      BY <1>1, <1>2, <1>3
    <3>2. CASE x = ev \/ x \in ToSet(matcher.exits)
      BY <1>7, <1>8, <1>10, <3>1, <3>2
    <3>3. CASE x \in exited /\ x \notin ToSet(matcher.exits)
      BY <1>7, <1>11, <3>3 DEF MatcherInv, UnpairedAreKept
    <3> QED BY <1>1, <3>2, <3>3
  <2>2. ASSUME NEW x \in opened
        PROVE  x \in ToSet(matcher'.pending) \/ (\E p \in pairs' : p.pos = x) \/ Forgotten(x)'
    <3>1. x \in Entries
      BY <1>3
    <3>2. CASE x \in ToSet(matcher.pending)
      BY <1>7, <1>8, <1>10, <3>1, <3>2
    <3>3. CASE x \notin ToSet(matcher.pending)
      BY <1>7, <1>11, <3>3 DEF MatcherInv, UnpairedAreKept
    <3> QED BY <3>2, <3>3
  <2> QED BY <1>1, <2>1, <2>2 DEF UnpairedAreKept
<1>13. PairingIsMaximal'
  <2>1. ASSUME NEW p \in pairs', NEW q \in pairs', p.pos = q.pos \/ p.exit = q.exit
        PROVE  p = q
    <3>1. CASE p \in pairs /\ q \in pairs
      BY <2>1, <3>1 DEF MatcherInv, PairingIsMaximal
    <3>2. ASSUME NEW r \in pairs, NEW s \in pairs', s \notin pairs
          PROVE  r.pos # s.pos /\ r.exit # s.exit
      <4>1. s.exit = ev /\ s.pos \in ToSet(matcher.pending)
        BY <1>6, <1>7, <3>2
      <4>2. r.exit \in exited /\ r.pos \notin ToSet(matcher.pending)
        BY <1>3 DEF MatcherInv, PairingIsMaximal
      <4> QED BY <1>2, <4>1, <4>2
    <3>3. CASE p \notin pairs /\ q \notin pairs
      <4>1. p.pos \in paired /\ q.pos \in paired /\ p = Pair(p.pos, ev) /\ q = Pair(q.pos, ev)
        BY <1>7, <3>3
      <4>2. p.pos = q.pos
        BY <1>6, <4>1
      <4> QED BY <4>1, <4>2
    <3> QED BY <2>1, <3>1, <3>2, <3>3
  <2>2. ASSUME NEW p \in pairs'
        PROVE  /\ p.pos \notin ToSet(matcher'.pending) /\ p.exit \notin ToSet(matcher'.exits)
               /\ Apart(p.pos, p.exit) <= Tolerance
    <3>1. CASE p \in pairs
      <4>1. /\ p.pos \notin ToSet(matcher.pending) /\ p.exit \notin ToSet(matcher.exits)
            /\ Apart(p.pos, p.exit) <= Tolerance /\ p.exit \in exited
        BY <1>3, <3>1 DEF MatcherInv, PairingIsMaximal
      <4> QED BY <1>2, <1>8, <4>1
    <3>2. CASE p \notin pairs
      BY <1>6, <1>7, <1>8, <3>2
    <3> QED BY <3>1, <3>2
  <2>3. ASSUME NEW pos \in opened, NEW x \in exited', Apart(pos, x) <= Tolerance
        PROVE  \E p \in pairs' : p.pos = pos \/ p.exit = x
    <3>1. CASE x \in exited
      BY <1>7, <2>3, <3>1 DEF MatcherInv, PairingIsMaximal
    <3>2. CASE x = ev
      <4>1. pos \in Entries /\ Apart(pos, ev) \in Nat
        BY <1>2, <1>3, ApartLemma
      <4>2. ~Forgotten(pos)
        BY <1>1, <1>2, <1>3, <1>5, <2>3, <3>2, <4>1, ForgottenAreFar, RetentionLemma
      <4>3. pos \in ToSet(matcher.pending) \/ \E p \in pairs : p.pos = pos
        BY <4>2 DEF MatcherInv, UnpairedAreKept
      <4>4. pos \in ToSet(matcher.pending) => paired # {}
        BY <1>6, <2>3, <3>2, <4>1, RetentionLemma
      <4> QED BY <1>7, <3>2, <4>3, <4>4
    <3> QED BY <1>1, <3>1, <3>2
  <2> QED BY <1>1, <2>1, <2>2, <2>3 DEF PairingIsMaximal
<1> QED BY <1>9, <1>12, <1>13 DEF MatcherInv

LEMMA CheckOpenKeeps ==
    ASSUME MatcherInv, CheckOpen
    PROVE  MatcherInv'
<1> DEFINE pos == [id |-> Cardinality(opened) + 1, ts |-> clock]
           result == MatchPos(matcher, pos)
<1>1. /\ matcher' = result.stores /\ pairs' = pairs \union result.pairs
      /\ opened' = opened \union {pos} /\ clock' = clock /\ exited' = exited
  BY DEF CheckOpen, Record
<1>2. pos \in Entries /\ pos \notin opened /\ Numbered(opened \union {pos})
  BY NextNumber DEF MatcherInv, Arrived
<1>3. /\ clock \in Int /\ exited \subseteq Entries /\ opened \subseteq Entries
      /\ Stores(matcher)
      /\ ToSet(matcher.exits) \subseteq exited /\ ToSet(matcher.pending) \subseteq opened
      /\ \A p \in pairs : p.pos \in opened /\ p.exit \in exited
  BY DEF MatcherInv, Arrived
<1>4. Stores(result.stores) /\ Opens(matcher, pos, result)
  BY <1>2, <1>3, MatchPosLemma
<1>5. pos.ts = clock
  OBVIOUS
<1> HIDE DEF pos, result
<1>6. PICK paired \in SUBSET ToSet(matcher.exits) :
        /\ result.pairs = {Pair(pos, ev) : ev \in paired}
        /\ \A ev, other \in paired : ev = other
        /\ \A ev \in paired : Apart(pos, ev) <= Tolerance
        /\ paired = {} => \A ev \in ToSet(matcher.exits) : Apart(pos, ev) > Tolerance
        /\ Leaves(ToSet(matcher.pending) \union {pos}, IF paired = {} THEN {} ELSE {pos},
                  matcher'.pending, clock)
        /\ Leaves(ToSet(matcher.exits), paired, matcher'.exits, clock)
  BY <1>1, <1>4, <1>5 DEF Opens
<1>7. /\ pairs \subseteq pairs'
      /\ \A p \in pairs' : p \in pairs \/ (p.pos = pos /\ p.exit \in paired)
      /\ \A p \in pairs' : p \notin pairs => p = Pair(pos, p.exit)
      /\ \A ev \in paired : \E p \in pairs' : p.pos = pos /\ p.exit = ev
  <2>1. pairs' = pairs \union {Pair(pos, ev) : ev \in paired}
    BY <1>1, <1>6
  <2>2. \A ev : Pair(pos, ev).pos = pos /\ Pair(pos, ev).exit = ev
    BY DEF Pair
  <2>3. \A p \in pairs' : p \notin pairs =>
            p.pos = pos /\ p.exit \in paired /\ p = Pair(pos, p.exit)
    BY <2>1, <2>2
  <2>4. \A ev \in paired : Pair(pos, ev) \in pairs'
    BY <2>1
  <2> QED BY <2>1, <2>2, <2>3, <2>4
<1>8. /\ ToSet(matcher'.pending) \subseteq ToSet(matcher.pending) \union {pos}
      /\ ToSet(matcher'.exits) \subseteq ToSet(matcher.exits) \ paired
      /\ paired # {} => pos \notin ToSet(matcher'.pending)
      /\ \A x \in ToSet(matcher.pending) \union {pos} :
             x \in ToSet(matcher'.pending) \/ (paired # {} /\ x = pos) \/ clock - x.ts > Keep
      /\ \A x \in ToSet(matcher.exits) \ paired :
             x \in ToSet(matcher'.exits) \/ clock - x.ts > Keep
  BY <1>6 DEF Leaves
<1>9. Arrived'
  BY <1>1, <1>2, <1>3, <1>4, <1>7, <1>8 DEF MatcherInv, Arrived
<1>10. \A x \in Entries : clock - x.ts > Keep => Forgotten(x)'
  <2> SUFFICES ASSUME NEW x \in Entries, clock - x.ts > Keep PROVE Forgotten(x)'
    OBVIOUS
  <2>1. x.ts \in Int
    BY DEF Entries
  <2> QED BY <1>1, <1>3, <2>1, RetentionLemma DEF Forgotten
<1>11. \A x : Forgotten(x) => Forgotten(x)'
  BY <1>1 DEF Forgotten
<1>12. UnpairedAreKept'
  <2>1. ASSUME NEW x \in opened'
        PROVE  x \in ToSet(matcher'.pending) \/ (\E p \in pairs' : p.pos = x) \/ Forgotten(x)'
    <3>1. x \in Entries
      BY <1>1, <1>2, <1>3
    <3>2. CASE x = pos \/ x \in ToSet(matcher.pending)
      BY <1>7, <1>8, <1>10, <3>1, <3>2
    <3>3. CASE x \in opened /\ x \notin ToSet(matcher.pending)
      BY <1>7, <1>11, <3>3 DEF MatcherInv, UnpairedAreKept
    <3> QED BY <1>1, <3>2, <3>3
  <2>2. ASSUME NEW x \in exited
        PROVE  x \in ToSet(matcher'.exits) \/ (\E p \in pairs' : p.exit = x) \/ Forgotten(x)'
    <3>1. x \in Entries
      BY <1>3
    <3>2. CASE x \in ToSet(matcher.exits)
      BY <1>7, <1>8, <1>10, <3>1, <3>2
    <3>3. CASE x \notin ToSet(matcher.exits)
      BY <1>7, <1>11, <3>3 DEF MatcherInv, UnpairedAreKept
    <3> QED BY <3>2, <3>3
  <2> QED BY <1>1, <2>1, <2>2 DEF UnpairedAreKept
<1>13. PairingIsMaximal'
  <2>1. ASSUME NEW p \in pairs', NEW q \in pairs', p.pos = q.pos \/ p.exit = q.exit
        PROVE  p = q
    <3>1. CASE p \in pairs /\ q \in pairs
      BY <2>1, <3>1 DEF MatcherInv, PairingIsMaximal
    <3>2. ASSUME NEW r \in pairs, NEW s \in pairs', s \notin pairs
          PROVE  r.pos # s.pos /\ r.exit # s.exit
      <4>1. s.pos = pos /\ s.exit \in ToSet(matcher.exits)
        BY <1>6, <1>7, <3>2
      <4>2. r.pos \in opened /\ r.exit \notin ToSet(matcher.exits)
        BY <1>3 DEF MatcherInv, PairingIsMaximal
      <4> QED BY <1>2, <4>1, <4>2
    <3>3. CASE p \notin pairs /\ q \notin pairs
      <4>1. p.exit \in paired /\ q.exit \in paired /\ p = Pair(pos, p.exit) /\ q = Pair(pos, q.exit)
        BY <1>7, <3>3
      <4>2. p.exit = q.exit
        BY <1>6, <4>1
      <4> QED BY <4>1, <4>2
    <3> QED BY <2>1, <3>1, <3>2, <3>3
  <2>2. ASSUME NEW p \in pairs'
        PROVE  /\ p.pos \notin ToSet(matcher'.pending) /\ p.exit \notin ToSet(matcher'.exits)
               /\ Apart(p.pos, p.exit) <= Tolerance
    <3>1. CASE p \in pairs
      <4>1. /\ p.pos \notin ToSet(matcher.pending) /\ p.exit \notin ToSet(matcher.exits)
            /\ Apart(p.pos, p.exit) <= Tolerance /\ p.pos \in opened
        BY <1>3, <3>1 DEF MatcherInv, PairingIsMaximal
      <4> QED BY <1>2, <1>8, <4>1
    <3>2. CASE p \notin pairs
      BY <1>6, <1>7, <1>8, <3>2
    <3> QED BY <3>1, <3>2
  <2>3. ASSUME NEW x \in opened', NEW ev \in exited, Apart(x, ev) <= Tolerance
        PROVE  \E p \in pairs' : p.pos = x \/ p.exit = ev
    <3>1. CASE x \in opened
      BY <1>7, <2>3, <3>1 DEF MatcherInv, PairingIsMaximal
    <3>2. CASE x = pos
      <4>1. ev \in Entries /\ Apart(pos, ev) \in Nat /\ Apart(ev, pos) = Apart(pos, ev)
        BY <1>2, <1>3, ApartLemma
      <4>2. ~Forgotten(ev)
        <5>1. pos.ts >= clock - MaxLag
          BY <1>3, <1>5, RetentionLemma
        <5>2. ~(Apart(ev, pos) > Tolerance)
          BY <2>3, <3>2, <4>1, RetentionLemma
        <5> QED BY <1>2, <1>3, <4>1, <5>1, <5>2, ForgottenAreFar
      <4>3. ev \in ToSet(matcher.exits) \/ \E p \in pairs : p.exit = ev
        BY <4>2 DEF MatcherInv, UnpairedAreKept
      <4>4. ev \in ToSet(matcher.exits) => paired # {}
        BY <1>6, <2>3, <3>2, <4>1, RetentionLemma
      <4> QED BY <1>7, <3>2, <4>3, <4>4
    <3> QED BY <1>1, <3>1, <3>2
  <2> QED BY <1>1, <2>1, <2>2, <2>3 DEF PairingIsMaximal
<1> QED BY <1>9, <1>12, <1>13 DEF MatcherInv

(* The clock runs on: what is forgotten stays so. *)
LEMMA TickKeeps == ASSUME MatcherInv, Tick PROVE MatcherInv'
<1>1. clock' = clock + 1 /\ UNCHANGED <<matcher, exited, opened, pairs>>
  BY DEF Tick
<1>2. clock \in Int /\ Arrived'
  BY <1>1 DEF MatcherInv, Arrived
<1>3. \A x \in Entries : Forgotten(x) => Forgotten(x)'
  <2> SUFFICES ASSUME NEW x \in Entries, Forgotten(x) PROVE Forgotten(x)'
    OBVIOUS
  <2>1. x.ts \in Int
    BY DEF Entries
  <2> QED BY <1>1, <1>2, <2>1, RetentionLemma DEF Forgotten
<1>4. exited \subseteq Entries /\ opened \subseteq Entries
  BY DEF MatcherInv, Arrived
<1>5. UnpairedAreKept'
  BY <1>1, <1>3, <1>4 DEF MatcherInv, UnpairedAreKept
<1>6. PairingIsMaximal'
  BY <1>1 DEF MatcherInv, PairingIsMaximal
<1> QED BY <1>2, <1>5, <1>6 DEF MatcherInv

LEMMA NextMatcherInv == MatcherInv /\ [MatcherNext]_matcherVars => MatcherInv'
<1> SUFFICES ASSUME MatcherInv, [MatcherNext]_matcherVars PROVE MatcherInv'
  OBVIOUS
<1>1. CASE CheckOpen
  BY <1>1, CheckOpenKeeps
<1>2. CASE Tick
  BY <1>2, TickKeeps
<1>3. CASE \E ts \in -MaxLag .. MaxTime + MaxAhead : QueueExit(ts)
  <2>1. PICK ts \in -MaxLag .. MaxTime + MaxAhead : QueueExit(ts)
    BY <1>3
  <2>2. ts \in Int
    BY <2>1, RetentionLemma
  <2> QED BY <2>1, <2>2, QueueExitKeeps
<1>4. CASE UNCHANGED matcherVars
  BY <1>4 DEF matcherVars, MatcherInv, Arrived, UnpairedAreKept, Forgotten, PairingIsMaximal
<1> QED BY <1>1, <1>2, <1>3, <1>4 DEF MatcherNext

(* The matcher pairs every check_open with an exit if it can, and each     *)
(* with one only, although _trim forgets by the clock of either side.      *)
THEOREM PairingIsMaximalHolds == MatcherSpec => []PairingIsMaximal
<1>1. MatcherInv => PairingIsMaximal
  BY DEF MatcherInv
<1> QED BY <1>1, InitMatcherInv, NextMatcherInv, PTL DEF MatcherSpec

---------------------------------------------------------------------------
(* The forecast.  What is predicted lies within what was observed.         *)
Within(f, lo, hi) == \A x \in DOMAIN f : lo <= f[x] /\ f[x] <= hi

LEMMA QuantileWithin ==
    ASSUME NEW f, Finite(f), DOMAIN f # {}, NEW lo \in Int, NEW hi \in Int, Within(f, lo, hi),
           NEW t \in 0 .. 10
    PROVE  10 * lo <= Quantile(f, t) /\ Quantile(f, t) <= 10 * hi
<1> DEFINE n == Cardinality(DOMAIN f)
<1>1. n \in Nat \ {0}
  BY FS_CardinalityType, FS_EmptySet DEF Finite
<1>2. 1 \in 1 .. n /\ n \in 1 .. n
  BY <1>1
<1>3. /\ Kth(f, 1) \in {f[x] : x \in DOMAIN f} /\ Kth(f, 1) \in Int
      /\ Kth(f, n) \in {f[x] : x \in DOMAIN f} /\ Kth(f, n) \in Int
  BY <1>2, KthIsKth DEF IsKth
<1>4. lo <= Kth(f, 1) /\ Kth(f, n) <= hi
  BY <1>3 DEF Within
<1>5. /\ Quantile(f, t) \in Int /\ 10 * Kth(f, 1) <= Quantile(f, t)
      /\ Quantile(f, t) <= 10 * Kth(f, n)
  <2>1. t <= t
    OBVIOUS
  <2> QED BY <2>1, QuantilesInOrder
<1> HIDE DEF n
<1> QED BY <1>3, <1>4, <1>5

(* aggregate_to_buckets: one median for each of finitely many buckets.     *)
LEMMA SeriesLemma ==
    ASSUME NEW obs \in SUBSET Observations
    PROVE  /\ Finite(Series(obs))
           /\ obs # {} => DOMAIN Series(obs) # {}
           /\ \A lo, hi \in Int : (\A o \in obs : lo <= o[2] /\ o[2] <= hi)
                                    => Within(Series(obs), 10 * lo, 10 * hi)
<1> DEFINE T == {Bucket(o[1]) : o \in obs}
           In(b) == {o \in obs : Bucket(o[1]) = b}
           f(b) == [o \in In(b) |-> o[2]]
<1>1. Series(obs) = [b \in T |-> Quantile(f(b), 5)]
  BY DEF Series
<1>2. IsFiniteSet(obs) /\ \A o \in obs : o[2] \in Int
  BY ForecastAssumption, FS_Subset
<1>3. IsFiniteSet(T)
  <2> DEFINE g == [o \in obs |-> Bucket(o[1])]
  <2>1. g \in Surjection(obs, T)
    BY DEF Surjection
  <2> HIDE DEF g, T
  <2> QED BY <1>2, <2>1, FS_Surjection
<1>4. ASSUME NEW b \in T
      PROVE  Finite(f(b)) /\ DOMAIN f(b) = In(b) /\ In(b) # {}
  <2>1. IsFiniteSet(In(b))
    BY <1>2, FS_Subset
  <2> QED BY <1>2, <2>1 DEF Finite
<1>5. ASSUME NEW b \in T PROVE Quantile(f(b), 5) \in Int
  <2>1. 5 \in 0 .. 10 /\ 5 <= 5
    OBVIOUS
  <2> HIDE DEF f, In, T
  <2> QED BY <1>4, <2>1, QuantilesInOrder
<1>6. Finite(Series(obs))
  <2> HIDE DEF f, T
  <2> QED BY <1>1, <1>3, <1>5 DEF Finite
<1>7. ASSUME NEW lo \in Int, NEW hi \in Int, \A o \in obs : lo <= o[2] /\ o[2] <= hi
      PROVE  Within(Series(obs), 10 * lo, 10 * hi)
  <2>1. ASSUME NEW b \in T PROVE 10 * lo <= Quantile(f(b), 5) /\ Quantile(f(b), 5) <= 10 * hi
    <3>1. Within(f(b), lo, hi)
      BY <1>7 DEF Within
    <3>2. 5 \in 0 .. 10
      OBVIOUS
    <3> HIDE DEF f, In, T
    <3> QED BY <1>4, <3>1, <3>2, QuantileWithin
  <2> HIDE DEF f, T
  <2> QED BY <1>1, <2>1 DEF Within
<1>8. obs # {} => T # {}
  OBVIOUS
<1>9. DOMAIN Series(obs) = T
  BY <1>1
<1> HIDE DEF T
<1> QED BY <1>6, <1>7, <1>8, <1>9

Points == [ts : Int, q10 : Int, q50 : Int, q90 : Int]

(* predict never goes by an empty slot while there is anything to go by.   *)
LEMMA SlotLemma ==
    ASSUME NEW s, Finite(s), NEW ts
    PROVE  /\ SlotBuckets(s, ts) \in SUBSET DOMAIN s
           /\ DOMAIN s # {} => SlotBuckets(s, ts) # {}
<1> DEFINE weekly == {b \in DOMAIN s : b % Week = ts % Week}
           daily == {b \in DOMAIN s : b % Day = ts % Day}
<1>1. SlotBuckets(s, ts) = IF Cardinality(weekly) >= MinSlotObs THEN weekly
                           ELSE IF Cardinality(daily) >= MinSlotObs THEN daily
                           ELSE DOMAIN s
  BY DEF SlotBuckets
<1>2. weekly \in SUBSET DOMAIN s /\ daily \in SUBSET DOMAIN s
  OBVIOUS
<1>3. ~(Cardinality({}) >= MinSlotObs)
  <2>1. Cardinality({}) = 0 /\ MinSlotObs \in Nat \ {0}
    BY FS_EmptySet, ForecastAssumption
  <2> QED BY <2>1
<1> HIDE DEF weekly, daily
<1> QED BY <1>1, <1>2, <1>3

LEMMA PredictLemma ==
    ASSUME NEW s, Finite(s), NEW ts \in Int
    PROVE  /\ Predict(s, ts) \in Points
           /\ \A lo, hi \in Int : DOMAIN s # {} /\ Within(s, lo, hi) =>
                 /\ 10 * lo <= Predict(s, ts).q10
                 /\ Predict(s, ts).q10 <= Predict(s, ts).q50
                 /\ Predict(s, ts).q50 <= Predict(s, ts).q90
                 /\ Predict(s, ts).q90 <= 10 * hi
<1> DEFINE slot == SlotBuckets(s, ts)
           f == [b \in slot |-> s[b]]
           q(t) == IF slot = {} THEN 0 ELSE Quantile(f, t)
           p == Predict(s, ts)
<1>1. p = [ts |-> ts, q10 |-> q(1), q50 |-> q(5), q90 |-> IF q(9) > q(5) THEN q(9) ELSE q(5)]
  BY DEF Predict
<1>2. slot \in SUBSET DOMAIN s /\ (DOMAIN s # {} => slot # {})
  BY SlotLemma
<1> HIDE DEF slot
<1>3. Finite(f) /\ DOMAIN f = slot /\ \A b \in slot : f[b] = s[b]
  <2>1. IsFiniteSet(slot)
    BY <1>2, FS_Subset DEF Finite
  <2> QED BY <1>2, <2>1 DEF Finite
<1> HIDE DEF f
<1>4. 1 \in 0 .. 10 /\ 5 \in 0 .. 10 /\ 9 \in 0 .. 10 /\ 1 <= 5 /\ 5 <= 9
  OBVIOUS
<1>5. ASSUME slot # {}
      PROVE  /\ Quantile(f, 1) \in Int /\ Quantile(f, 5) \in Int /\ Quantile(f, 9) \in Int
             /\ Quantile(f, 1) <= Quantile(f, 5) /\ Quantile(f, 5) <= Quantile(f, 9)
  BY <1>3, <1>4, <1>5, QuantilesInOrder
<1>6. q(1) \in Int /\ q(5) \in Int /\ q(9) \in Int
  BY <1>5
<1> HIDE DEF p
<1>7. p \in Points
  <2> HIDE DEF q
  <2> QED BY <1>1, <1>6 DEF Points
<1>8. ASSUME NEW lo \in Int, NEW hi \in Int, DOMAIN s # {}, Within(s, lo, hi)
      PROVE  10 * lo <= p.q10 /\ p.q10 <= p.q50 /\ p.q50 <= p.q90 /\ p.q90 <= 10 * hi
  <2>1. slot # {} /\ Within(f, lo, hi)
    BY <1>2, <1>3, <1>8 DEF Within
  <2>2. q(1) = Quantile(f, 1) /\ q(5) = Quantile(f, 5) /\ q(9) = Quantile(f, 9)
    BY <2>1
  <2>3. 10 * lo <= Quantile(f, 1) /\ Quantile(f, 9) <= 10 * hi
    BY <1>3, <1>4, <2>1, QuantileWithin
  <2>4. p.q10 = q(1) /\ p.q50 = q(5) /\ p.q90 = q(9)
    <3>1. q(9) > q(5) \/ q(9) = q(5)
      BY <1>5, <1>6, <2>1, <2>2
    <3> HIDE DEF q
    <3> QED BY <1>1, <3>1
  <2> QED BY <1>5, <2>1, <2>2, <2>3, <2>4
<1> QED BY <1>7, <1>8 DEF p

Records == [id : Nat, tier : {"cold", "warm"}, model : {"seasonal_naive", "prophet"},
            points : Seq(Points)]

LEMMA IntervalLemma ==
    ASSUME NEW f \in [lower : Int, yhat : Int, upper : Int], NEW ts \in Int
    PROVE  /\ Interval(f, ts) \in Points
           /\ 0 <= Interval(f, ts).q10 /\ 0 <= Interval(f, ts).q50 /\ 0 <= Interval(f, ts).q90
<1>1. \A w \in Int : Clamped(w) \in Int /\ 0 <= Clamped(w)
  BY DEF Clamped
<1>2. /\ Clamped(f.lower) \in Int /\ 0 <= Clamped(f.lower)
      /\ Clamped(f.yhat) \in Int /\ 0 <= Clamped(f.yhat)
      /\ Clamped(f.upper) \in Int /\ 0 <= Clamped(f.upper)
  BY <1>1
<1> QED BY <1>2 DEF Interval, Points

(* A forecast is the seasonal forecaster's, of the observations' medians,  *)
(* or the library's, clamped.                                              *)
Predicted(fc, obs) ==
    \/ fc.model = "seasonal_naive"
         /\ \A i \in 1 .. Horizon : \E ts \in Int : fc.points[i] = Predict(Series(obs), ts)
    \/ fc.model = "prophet"
         /\ \A i \in 1 .. Horizon :
               0 <= fc.points[i].q10 /\ 0 <= fc.points[i].q50 /\ 0 <= fc.points[i].q90

LEMMA RunLemma ==
    ASSUME serverTime \in Int, NEW obs \in SUBSET Observations, NEW id \in Nat,
           NEW fc \in Run(obs, id)
    PROVE  fc \in Records /\ fc.id = id /\ Predicted(fc, obs)
<1> DEFINE time(i) == Bucket(serverTime) + Step + (i - 1) * Step
           tier == Tier(Series(obs))
           made(model, points) == [id |-> id, tier |-> tier, model |-> model, points |-> points]
           seasonal == [i \in 1 .. Horizon |-> Predict(Series(obs), time(i))]
           library(f) == [i \in 1 .. Horizon |-> Interval(f[i], time(i))]
<1>1. Horizon \in Nat /\ \A i \in 1 .. Horizon : time(i) \in Int
  <2>1. Step \in Nat /\ Horizon \in Nat
    BY ForecastAssumption
  <2>2. Bucket(serverTime) \in Int
    BY ForecastAssumption DEF Bucket
  <2> QED BY <2>1, <2>2
<1>2. tier \in {"cold", "warm"}
  BY DEF Tier
<1>3. \/ fc = made("seasonal_naive", seasonal)
      \/ \E f \in Fits : fc = made("prophet", library(f))
  BY DEF Run
<1> HIDE DEF tier, time
<1>4. ASSUME NEW points \in [1 .. Horizon -> Points], NEW model \in {"seasonal_naive", "prophet"}
      PROVE  made(model, points) \in Records
  <2>1. points \in Seq(Points)
    BY <1>1
  <2> QED BY <1>2, <2>1 DEF Records
<1>5. CASE fc = made("seasonal_naive", seasonal)
  <2>1. Finite(Series(obs))
    BY SeriesLemma
  <2>2. \A i \in 1 .. Horizon : Predict(Series(obs), time(i)) \in Points
    BY <1>1, <2>1, PredictLemma
  <2>3. seasonal \in [1 .. Horizon -> Points]
    BY <2>2
  <2>4. \A i \in 1 .. Horizon : \E ts \in Int : seasonal[i] = Predict(Series(obs), ts)
    BY <1>1
  <2> HIDE DEF seasonal
  <2>5. fc \in Records
    BY <1>4, <1>5, <2>3
  <2>6. fc.id = id /\ fc.model = "seasonal_naive" /\ fc.points = seasonal
    BY <1>5
  <2> QED BY <2>4, <2>5, <2>6 DEF Predicted
<1>6. ASSUME NEW f \in Fits, fc = made("prophet", library(f))
      PROVE  fc \in Records /\ fc.id = id /\ Predicted(fc, obs)
  <2> DEFINE points == library(f)
  <2>1. \A i \in 1 .. Horizon : f[i] \in [lower : Int, yhat : Int, upper : Int]
    BY ForecastAssumption
  <2>2. \A i \in 1 .. Horizon :
           /\ Interval(f[i], time(i)) \in Points
           /\ 0 <= Interval(f[i], time(i)).q10 /\ 0 <= Interval(f[i], time(i)).q50
           /\ 0 <= Interval(f[i], time(i)).q90
    BY <1>1, <2>1, IntervalLemma
  <2>3. points \in [1 .. Horizon -> Points]
    BY <2>2
  <2>4. \A i \in 1 .. Horizon : 0 <= points[i].q10 /\ 0 <= points[i].q50 /\ 0 <= points[i].q90
    BY <2>2
  <2>5. fc = made("prophet", points)
    BY <1>6
  <2> HIDE DEF points
  <2>6. fc \in Records
    BY <1>4, <2>3, <2>5
  <2>7. fc.id = id /\ fc.model = "prophet" /\ fc.points = points
    BY <2>5
  <2> QED BY <2>4, <2>6, <2>7 DEF Predicted
<1> QED BY <1>3, <1>5, <1>6

(* The inductive invariant: the cache holds a forecast of what its         *)
(* training was given, and of those begun since only some that raised.     *)
ForecastTypeInv ==
    /\ serverTime \in Int /\ trained \in Nat /\ earlier \in Nat
    /\ cache # None => cache \in Records
    /\ basis \subseteq Observations

InRange(p, lo, hi) == 100 * lo <= p.q10 /\ p.q10 <= p.q50 /\ p.q50 <= p.q90 /\ p.q90 <= 100 * hi

ForecastInv == ForecastTypeInv /\ ForecastStaysInRange /\ NewestTrainingIsServed

LEMMA NoneIsNoRecord == None \notin Records
BY ForecastAssumption DEF Records, Points

LEMMA TrainedInRange ==
    ASSUME NEW obs \in SUBSET Observations, obs # {}, NEW fc,
           Predicted(fc, obs), fc.model = "seasonal_naive", NEW i \in 1 .. Horizon
    PROVE  LET seen == [o \in obs |-> o[2]]
           IN  InRange(fc.points[i], Kth(seen, 1), Kth(seen, Cardinality(obs)))
<1> DEFINE seen == [o \in obs |-> o[2]]
           lo == Kth(seen, 1)
           hi == Kth(seen, Cardinality(obs))
           p == fc.points[i]
<1>1. Finite(seen) /\ DOMAIN seen = obs
  <2>1. IsFiniteSet(obs) /\ \A o \in obs : o[2] \in Int
    BY ForecastAssumption, FS_Subset
  <2> QED BY <2>1 DEF Finite
<1>2. \A o \in obs : seen[o] = o[2]
  OBVIOUS
<1> HIDE DEF seen
<1>3. /\ \A o \in obs : lo <= seen[o] /\ seen[o] <= hi
      /\ Cardinality(obs) \in Nat /\ 1 <= Cardinality(obs)
  BY <1>1, FirstAndLast
<1>4. lo \in Int /\ hi \in Int
  <2>1. 1 \in 1 .. Cardinality(obs) /\ Cardinality(obs) \in 1 .. Cardinality(obs)
    BY <1>3
  <2> QED BY <1>1, <2>1, KthIsKth
<1> HIDE DEF lo, hi
<1>5. Within(Series(obs), 10 * lo, 10 * hi) /\ Finite(Series(obs)) /\ DOMAIN Series(obs) # {}
  BY <1>2, <1>3, <1>4, SeriesLemma
<1>6. PICK ts \in Int : p = Predict(Series(obs), ts)
  BY DEF Predicted
<1> HIDE DEF p
<1>7. 10 * lo \in Int /\ 10 * hi \in Int
  BY <1>4
<1>8. /\ 10 * (10 * lo) <= p.q10 /\ p.q10 <= p.q50 /\ p.q50 <= p.q90
      /\ p.q90 <= 10 * (10 * hi)
  BY <1>5, <1>6, <1>7, PredictLemma
<1>9. 10 * (10 * lo) = 100 * lo /\ 10 * (10 * hi) = 100 * hi
  BY <1>4
<1>10. InRange(p, lo, hi)
  BY <1>8, <1>9 DEF InRange
<1> QED BY <1>10 DEF p, lo, hi, seen

LEMMA TrainKeeps ==
    ASSUME ForecastInv, NEW obs \in SUBSET Observations, Train(obs)
    PROVE  ForecastInv'
<1>1. serverTime \in Int /\ trained \in Nat /\ earlier \in Nat
  BY DEF ForecastInv, ForecastTypeInv
<1>2. PICK fc \in Run(obs, trained + 1) : cache' = fc
  BY DEF Train
<1>3. /\ trained' = trained + 1 /\ basis' = obs
      /\ serverTime' = serverTime /\ earlier' = earlier
  BY DEF Train
<1>4. trained + 1 \in Nat
  BY <1>1
<1>5. fc \in Records /\ fc.id = trained + 1 /\ Predicted(fc, obs)
  BY <1>1, <1>4, RunLemma
<1>6. ForecastTypeInv'
  BY <1>1, <1>2, <1>3, <1>4, <1>5 DEF ForecastTypeInv
<1>7. NewestTrainingIsServed'
  <2>1. cache' # None /\ cache'.id = trained'
    BY <1>2, <1>3, <1>5, NoneIsNoRecord
  <2>2. \A t \in 1 .. trained' : ~(t > trained')
    BY <1>1, <1>3
  <2> QED BY <2>1, <2>2 DEF NewestTrainingIsServed
<1>8. ForecastStaysInRange'
  <2>1. ASSUME obs # {}, fc.model = "seasonal_naive", NEW i \in 1 .. Horizon
        PROVE  LET seen == [o \in obs |-> o[2]]
               IN  InRange(fc.points[i], Kth(seen, 1), Kth(seen, Cardinality(obs)))
    BY <1>5, <2>1, TrainedInRange
  <2>2. ASSUME fc.model = "prophet", NEW i \in 1 .. Horizon
        PROVE  0 <= fc.points[i].q10 /\ 0 <= fc.points[i].q50 /\ 0 <= fc.points[i].q90
    BY <1>5, <2>2 DEF Predicted
  <2> QED BY <1>2, <1>3, <2>1, <2>2 DEF ForecastStaysInRange, InRange
<1> QED BY <1>6, <1>7, <1>8 DEF ForecastInv

LEMMA TrainRaisesKeeps ==
    ASSUME ForecastInv, NEW obs \in SUBSET Observations, TrainRaises(obs)
    PROVE  ForecastInv'
<1>1. /\ trained' = trained + 1 /\ raised' = raised \union {trained'}
      /\ UNCHANGED <<serverTime, cache, basis, earlier>>
  BY DEF TrainRaises
<1>2. ForecastTypeInv /\ ForecastStaysInRange /\ NewestTrainingIsServed
  BY DEF ForecastInv
<1>3. ForecastTypeInv'
  BY <1>1, <1>2 DEF ForecastTypeInv
<1>4. ForecastStaysInRange'
  BY <1>1, <1>2 DEF ForecastStaysInRange
<1>5. NewestTrainingIsServed'
  <2> DEFINE served == IF cache = None THEN earlier ELSE cache.id
  <2>1. \A t \in 1 .. trained : t > served => t \in raised
    BY <1>2 DEF NewestTrainingIsServed
  <2>2. served' = served
    BY <1>1
  <2>3. trained \in Nat
    BY <1>2 DEF ForecastTypeInv
  <2> HIDE DEF served
  <2>4. \A t \in 1 .. trained' : t > served => t \in raised'
    BY <1>1, <2>1, <2>3
  <2> QED BY <2>2, <2>4 DEF NewestTrainingIsServed, served
<1> QED BY <1>3, <1>4, <1>5 DEF ForecastInv

LEMMA NextForecastInv == ForecastInv /\ [ForecastNext]_forecastVars => ForecastInv'
<1> SUFFICES ASSUME ForecastInv, [ForecastNext]_forecastVars PROVE ForecastInv'
  OBVIOUS
<1> USE DEF ForecastInv, ForecastTypeInv, ForecastStaysInRange, NewestTrainingIsServed
<1>1. ASSUME NEW obs \in SUBSET Observations, Train(obs) PROVE ForecastInv'
  <2> HIDE DEF ForecastInv
  <2> QED BY <1>1, TrainKeeps
<1>2. ASSUME NEW fc \in saving, Saved(fc) \/ SaveFails(fc) PROVE ForecastInv'
  BY <1>2 DEF Saved, SaveFails
<1>6. ASSUME NEW obs \in SUBSET Observations, TrainRaises(obs) PROVE ForecastInv'
  <2> HIDE DEF ForecastInv
  <2> QED BY <1>6, TrainRaisesKeeps
<1>3. CASE Restart
  BY <1>3 DEF Restart
<1>4. CASE TimePasses
  BY <1>4 DEF TimePasses
<1>5. CASE UNCHANGED forecastVars
  BY <1>5 DEF forecastVars
<1> QED BY <1>1, <1>2, <1>3, <1>4, <1>5, <1>6 DEF ForecastNext

LEMMA InitForecastInv == ForecastInit => ForecastInv
BY ForecastAssumption
   DEF ForecastInit, ForecastInv, ForecastTypeInv, ForecastStaysInRange, NewestTrainingIsServed

(* The forecast's invariant holds of every run of the service.             *)
THEOREM ForecastInvariantHolds == ForecastSpec => []ForecastInv
BY InitForecastInv, NextForecastInv, PTL DEF ForecastSpec

(* ForecastStaysInRange: whatever slots of the week have too few           *)
(* observations, what the seasonal forecaster's predict (models.py) says   *)
(* lies between the least and the greatest wait observed, its quantiles in *)
(* order; whatever Prophet says, what is served of it is not negative.     *)
THEOREM ForecastStaysInRangeHolds == ForecastSpec => []ForecastStaysInRange
<1>1. ForecastInv => ForecastStaysInRange
  BY DEF ForecastInv
<1> QED BY <1>1, ForecastInvariantHolds, PTL

(* NewestTrainingIsServed: the cache is set before the insert is awaited   *)
(* (train_forecast, main.py), so inserts that end late or fail never bring *)
(* an older forecast back; only a training whose fit raised (models.py:82) *)
(* leaves the one before it.                                               *)
THEOREM NewestTrainingIsServedHolds == ForecastSpec => []NewestTrainingIsServed
<1>1. ForecastInv => NewestTrainingIsServed
  BY DEF ForecastInv
<1> QED BY <1>1, ForecastInvariantHolds, PTL

---------------------------------------------------------------------------
(* The best times.                                                         *)
(* Induction, of a set that holds the numbers for which a claim is true.   *)
LEMMA Induction ==
    ASSUME NEW S, 0 \in S, \A m \in Nat : m \in S => m + 1 \in S
    PROVE  \A m \in Nat : m \in S
<1> DEFINE Less == {pair \in Nat \X Nat : pair[1] < pair[2]}
           rest == Nat \ S
<1>1. IsWellFoundedOn(Less, Nat)
  BY NatLessThanWellFounded DEF OpToRel
<1>2. \A m, n \in Nat : m < n => <<m, n>> \in Less
  OBVIOUS
<1> HIDE DEF Less
<1>3. rest = {}
  <2> SUFFICES ASSUME rest # {} PROVE FALSE
    OBVIOUS
  <2>1. PICK m \in rest : \A n \in rest : ~(<<n, m>> \in Less)
    BY <1>1, WFMin
  <2>2. m \in Nat /\ m - 1 \in Nat /\ m - 1 < m
    BY <2>1
  <2>3. <<m - 1, m>> \in Less
    BY <1>2, <2>2
  <2>4. m - 1 \notin rest
    BY <2>1, <2>3
  <2> QED BY <2>1, <2>2, <2>4
<1> QED BY <1>3

(* What the loop of best_windows does with a point. *)
Pick(chosen, p) ==
    IF Len(chosen) < Best /\ \A i \in DOMAIN chosen : Gap(p, chosen[i]) >= MinGapSteps * Step
      THEN Append(chosen, p) ELSE chosen

LEMMA MaxOfInterval ==
    ASSUME NEW n \in Nat \ {0}, NEW s \in SUBSET (1 .. n), n \in s
    PROVE  Max(s) = n
<1>1. \A i \in s : n >= i
  OBVIOUS
<1>2. \A i \in s : i \in Int
  OBVIOUS
<1>3. ASSUME NEW x \in s, \A y \in s : x >= y PROVE x = n
  BY <1>1, <1>2, <1>3
<1>4. Max(s) \in s /\ \A y \in s : Max(s) >= y
  BY <1>1 DEF Max
<1> QED BY <1>3, <1>4

ChoiceRun(ranked, n, it) ==
    it = [s \in SUBSET (1 .. n) |->
             IF s = {} THEN <<>> ELSE Pick(it[s \ {Max(s)}], ranked[Max(s)])]

LEMMA ChoiceRunsExist ==
    ASSUME NEW ranked, NEW n \in Nat
    PROVE  \E it : ChoiceRun(ranked, n, it)
<1> DEFINE with == {m \in Nat : \E it : ChoiceRun(ranked, m, it)}
<1>1. \E it : ChoiceRun(ranked, 0, it)
  <2> DEFINE it == [s \in SUBSET (1 .. 0) |-> <<>>]
  <2>1. \A s \in SUBSET (1 .. 0) : s = {}
    OBVIOUS
  <2>2. it = [s \in SUBSET (1 .. 0) |->
                 IF s = {} THEN <<>> ELSE Pick(it[s \ {Max(s)}], ranked[Max(s)])]
    BY <2>1
  <2> QED BY <2>2 DEF ChoiceRun
<1>2. ASSUME NEW m \in Nat, NEW g, ChoiceRun(ranked, m, g)
      PROVE  \E it : ChoiceRun(ranked, m + 1, it)
  <2> DEFINE it == [s \in SUBSET (1 .. m + 1) |->
                       IF m + 1 \in s THEN Pick(g[s \ {m + 1}], ranked[m + 1]) ELSE g[s]]
  <2>1. ASSUME NEW s \in SUBSET (1 .. m + 1)
        PROVE  it[s] = IF s = {} THEN <<>> ELSE Pick(it[s \ {Max(s)}], ranked[Max(s)])
    <3>1. CASE m + 1 \in s
      <4>1. Max(s) = m + 1
        BY <3>1, MaxOfInterval
      <4>2. it[s \ {m + 1}] = g[s \ {m + 1}]
        OBVIOUS
      <4> QED BY <3>1, <4>1, <4>2
    <3>2. CASE m + 1 \notin s
      <4>1. s \in SUBSET (1 .. m) /\ s \ {Max(s)} \in SUBSET (1 .. m)
        <5>1. \A i \in s : i \in 1 .. m + 1 /\ i # m + 1
          BY <3>2
        <5>2. \A i \in s : i \in 1 .. m
          BY <5>1
        <5> QED BY <5>2
      <4>2. g[s] = IF s = {} THEN <<>> ELSE Pick(g[s \ {Max(s)}], ranked[Max(s)])
        BY <1>2, <4>1 DEF ChoiceRun
      <4>3. it[s] = g[s] /\ it[s \ {Max(s)}] = g[s \ {Max(s)}]
        BY <3>2
      <4> QED BY <4>2, <4>3
    <3> QED BY <3>1, <3>2
  <2>2. it = [s \in SUBSET (1 .. m + 1) |->
                 IF s = {} THEN <<>> ELSE Pick(it[s \ {Max(s)}], ranked[Max(s)])]
    BY <2>1
  <2> QED BY <2>2 DEF ChoiceRun
<1>3. \A m \in Nat : m \in with
  <2>1. 0 \in with
    BY <1>1
  <2>2. \A m \in Nat : m \in with => m + 1 \in with
    BY <1>2
  <2> HIDE DEF with
  <2> QED BY <2>1, <2>2, Induction
<1> QED BY <1>3

ChoiceUnfolds(ranked, n, q) ==
    /\ q[0] = <<>>
    /\ \A i \in 1 .. n : q[i] = Pick(q[i - 1], ranked[i])

LEMMA BestWindowsUnfold ==
    ASSUME NEW points, NEW n \in Nat, DOMAIN Ranked(points) = 1 .. n
    PROVE  \E q : ChoiceUnfolds(Ranked(points), n, q) /\ BestWindows(points) = q[n]
<1> DEFINE ranked == Ranked(points)
           it == CHOOSE it : ChoiceRun(ranked, n, it)
           q == [i \in 0 .. n |-> it[1 .. i]]
<1>1. BestWindows(points) = it[1 .. n]
  BY Zenon DEF BestWindows, FoldLeft, MapThenFoldSet, Pick, ChoiceRun
<1>2. ChoiceRun(ranked, n, it)
  BY ChoiceRunsExist
<1> HIDE DEF it, ranked
<1>3. \A s \in SUBSET (1 .. n) :
          it[s] = IF s = {} THEN <<>> ELSE Pick(it[s \ {Max(s)}], ranked[Max(s)])
  BY <1>2 DEF ChoiceRun
<1>4. q[0] = <<>>
  <2>1. 1 .. 0 = {} /\ {} \in SUBSET (1 .. n)
    OBVIOUS
  <2>2. it[{}] = <<>>
    BY <1>3, <2>1
  <2>3. q[0] = it[1 .. 0]
    OBVIOUS
  <2> QED BY <2>1, <2>2, <2>3
<1>5. ASSUME NEW i \in 1 .. n PROVE q[i] = Pick(q[i - 1], ranked[i])
  <2>1. i \in Nat \ {0} /\ 1 .. i \in SUBSET (1 .. n) /\ i \in 1 .. i
    OBVIOUS
  <2>2. Max(1 .. i) = i
    BY <2>1, MaxOfInterval
  <2>3. (1 .. i) \ {i} = 1 .. i - 1
    BY <2>1
  <2>4. it[1 .. i] = Pick(it[1 .. i - 1], ranked[i])
    BY <1>3, <2>1, <2>2, <2>3
  <2> QED BY <2>4
<1>6. BestWindows(points) = q[n]
  BY <1>1
<1>7. ChoiceUnfolds(ranked, n, q)
  BY <1>4, <1>5 DEF ChoiceUnfolds
<1> QED BY <1>6, <1>7 DEF ranked

(* Python's sort, as Ranked has it: every point has a place, and a later   *)
(* place has no lower wait.                                                *)
Sorted(points, ranked, n) ==
    /\ ranked \in Seq(Points) /\ Len(ranked) = n
    /\ \A k, l \in 1 .. n : k <= l => ranked[k].q50 <= ranked[l].q50
    /\ \A i \in 1 .. n : \E k \in 1 .. n : ranked[k] = points[i]

LEMMA RankedIsSorted ==
    ASSUME NEW points \in Seq(Points)
    PROVE  Sorted(points, Ranked(points), Len(points))
<1> DEFINE n == Len(points)
           D == DOMAIN points
           Before(i, j) == \/ points[i].q50 < points[j].q50
                           \/ points[i].q50 = points[j].q50 /\ i < j
           Ahd(i) == {j \in D : Before(j, i)}
           Place(i) == 1 + Cardinality(Ahd(i))
           place == [i \in D |-> Place(i)]
           At(k) == CHOOSE i \in D : Place(i) = k
<1>1. Ranked(points) = [k \in D |-> points[At(k)]]
  BY DEF Ranked
<1>2. n \in Nat /\ D = 1 .. n /\ \A i \in D : points[i] \in Points /\ points[i].q50 \in Int /\ i \in Int
  <2>1. n \in Nat /\ D = 1 .. n
    OBVIOUS
  <2>2. \A i \in D : points[i] \in Points
    OBVIOUS
  <2>3. \A p \in Points : p.q50 \in Int
    BY DEF Points
  <2>4. \A i \in 1 .. n : i \in Int
    OBVIOUS
  <2> HIDE DEF D, n
  <2> QED BY <2>1, <2>2, <2>3, <2>4
<1>3. IsFiniteSet(D) /\ Cardinality(D) = n
  <2>1. Cardinality(1 .. n) = IF 1 > n THEN 0 ELSE n - 1 + 1
    BY <1>2, FS_Interval
  <2> QED BY <1>2, <2>1, FS_Interval
<1>4. /\ \A i \in D : ~Before(i, i)
      /\ \A i, j \in D : i = j \/ Before(i, j) \/ Before(j, i)
      /\ \A i, j, k \in D : Before(i, j) /\ Before(j, k) => Before(i, k)
      /\ \A i, j \in D : ~Before(j, i) => points[i].q50 <= points[j].q50
  BY <1>2
<1> HIDE DEF D, Before
<1>5. \A i \in D : /\ Ahd(i) \in SUBSET (D \ {i}) /\ Ahd(i) \in SUBSET D
                   /\ \A j \in D : Before(j, i) => Ahd(j) \in SUBSET Ahd(i) /\ j \in Ahd(i) /\ j \notin Ahd(j)
  BY <1>4
<1> HIDE DEF Ahd
<1>6. ASSUME NEW i \in D PROVE Cardinality(Ahd(i)) \in Nat /\ Cardinality(Ahd(i)) <= n - 1
  <2>1. IsFiniteSet(D \ {i}) /\ Cardinality(D \ {i}) = n - 1
    BY <1>3, FS_RemoveElement
  <2> QED BY <1>5, <2>1, Counting
<1>7. ASSUME NEW i \in D, NEW j \in D, Before(j, i) PROVE Place(j) < Place(i)
  <2>1. /\ Ahd(j) \in SUBSET Ahd(i) /\ Ahd(i) # Ahd(j) /\ Ahd(i) \in SUBSET D
    BY <1>5, <1>7
  <2>2. /\ Cardinality(Ahd(j)) <= Cardinality(Ahd(i))
        /\ Cardinality(Ahd(i)) # Cardinality(Ahd(j))
    BY <1>3, <2>1, Counting
  <2> QED BY <1>6, <2>2
<1>8. \A i \in D : Place(i) \in 1 .. n /\ Place(i) \in Int
  <2> SUFFICES ASSUME NEW i \in D PROVE Place(i) \in 1 .. n /\ Place(i) \in Int
    OBVIOUS
  <2> QED BY <1>2, <1>6
<1>9. \A i, j \in D : Place(i) = Place(j) => i = j
  <2> SUFFICES ASSUME NEW i \in D, NEW j \in D, Place(i) = Place(j), i # j PROVE FALSE
    OBVIOUS
  <2>1. Place(i) < Place(j) \/ Place(j) < Place(i)
    BY <1>4, <1>7
  <2> QED BY <1>8, <2>1
<1> HIDE DEF Place
<1>10. place \in Injection(D, 1 .. n)
  BY <1>8, <1>9 DEF Injection, IsInjective
<1>11. place \in Surjection(D, 1 .. n)
  <2>1. IsFiniteSet(1 .. n) /\ Cardinality(D) = Cardinality(1 .. n)
    BY <1>2, <1>3
  <2> HIDE DEF place
  <2> QED BY <1>3, <1>10, <2>1, FS_Injection
<1>12. \A k \in 1 .. n : \E i \in D : Place(i) = k
  BY <1>11 DEF Surjection
<1>13. \A k \in 1 .. n : At(k) \in D /\ Place(At(k)) = k
  BY <1>12
<1>14. \A i \in D : At(Place(i)) = i
  BY <1>8, <1>9, <1>13
<1> HIDE DEF At
<1> DEFINE r == Ranked(points)
<1>15. DOMAIN r = 1 .. n /\ \A k \in 1 .. n : r[k] = points[At(k)]
  BY <1>1, <1>2
<1>16. r \in Seq(Points) /\ Len(r) = n
  <2>1. r \in [1 .. n -> Points]
    <3>1. \A k \in 1 .. n : points[At(k)] \in Points
      BY <1>2, <1>13
    <3> QED BY <1>1, <1>2, <3>1
  <2> HIDE DEF r
  <2> QED BY <1>2, <1>15, <2>1
<1> HIDE DEF r
<1>17. ASSUME NEW k \in 1 .. n, NEW l \in 1 .. n, k <= l PROVE r[k].q50 <= r[l].q50
  <2>1. At(k) \in D /\ At(l) \in D /\ Place(At(k)) = k /\ Place(At(l)) = l
    BY <1>13
  <2>2. ~Before(At(l), At(k))
    <3>1. ASSUME Before(At(l), At(k)) PROVE FALSE
      <4>1. l < k
        BY <1>7, <2>1, <3>1
      <4> QED BY <1>17, <4>1
    <3> QED BY <3>1
  <2>3. points[At(k)].q50 <= points[At(l)].q50
    BY <1>4, <2>1, <2>2
  <2> QED BY <1>15, <2>3
<1>18. ASSUME NEW i \in 1 .. n PROVE \E k \in 1 .. n : r[k] = points[i]
  <2>1. i \in D /\ Place(i) \in 1 .. n
    BY <1>2, <1>8
  <2> QED BY <1>14, <1>15, <2>1
<1>19. Sorted(points, r, n)
  BY <1>16, <1>17, <1>18 DEF Sorted
<1> QED BY <1>19 DEF r

(* What the loop of best_windows has after the first k points: choices     *)
(* that are apart, and for each of the points one that is near and no      *)
(* worse, or as many as were asked for and none worse.                     *)
Far == MinGapSteps * Step

Settled(chosen, p) ==
    \/ \E i \in 1 .. Len(chosen) : Gap(p, chosen[i]) < Far /\ chosen[i].q50 <= p.q50
    \/ Len(chosen) = Best /\ \A i \in 1 .. Len(chosen) : chosen[i].q50 <= p.q50

Chosen(ranked, k, chosen) ==
    /\ chosen \in Seq(Points) /\ Len(chosen) <= Best
    /\ \A i, j \in 1 .. Len(chosen) : i # j => Gap(chosen[i], chosen[j]) >= Far
    /\ \A i \in 1 .. Len(chosen) : \E j \in 1 .. k : chosen[i] = ranked[j]
    /\ \A j \in 1 .. k : Settled(chosen, ranked[j])

LEMMA GapLemma ==
    /\ Far \in Nat \ {0}
    /\ \A p, c \in Points : Gap(p, c) \in Int /\ Gap(p, c) = Gap(c, p)
    /\ \A p \in Points : Gap(p, p) = 0 /\ Gap(p, p) < Far /\ p.q50 \in Int /\ p.q50 <= p.q50
<1>1. \A a, b \in Nat \ {0} : a * b \in Nat \ {0}
  OBVIOUS
<1>2. Far \in Nat \ {0}
  BY <1>1, ForecastAssumption DEF Far
<1>3. \A p \in Points : p.ts \in Int /\ p.q50 \in Int
  BY DEF Points
<1> QED BY <1>2, <1>3 DEF Gap

LEMMA PickKeeps ==
    ASSUME NEW points, NEW ranked, NEW n \in Nat, Sorted(points, ranked, n),
           NEW k \in Nat, k < n, NEW q, Chosen(ranked, k, q)
    PROVE  Chosen(ranked, k + 1, Pick(q, ranked[k + 1]))
<1> DEFINE p == ranked[k + 1]
           m == Len(q)
<1>1. k + 1 \in 1 .. n /\ \A j \in 1 .. k : j \in 1 .. n /\ j <= k + 1 /\ j \in 1 .. k + 1
  OBVIOUS
<1>2. /\ ranked \in Seq(Points) /\ Len(ranked) = n
      /\ \A a, b \in 1 .. n : a <= b => ranked[a].q50 <= ranked[b].q50
  BY DEF Sorted
<1>3. p \in Points
  BY <1>1, <1>2
<1>4. /\ q \in Seq(Points) /\ m <= Best /\ m \in Nat /\ DOMAIN q = 1 .. m
      /\ \A i \in 1 .. m : q[i] \in Points
  BY DEF Chosen
<1>5. /\ \A i, j \in 1 .. m : i # j => Gap(q[i], q[j]) >= Far
      /\ \A i \in 1 .. m : \E j \in 1 .. k : q[i] = ranked[j]
      /\ \A j \in 1 .. k : Settled(q, ranked[j])
  BY DEF Chosen
<1>6. \A i \in 1 .. m : q[i].q50 <= p.q50
  BY <1>1, <1>2, <1>5
<1>7. Best \in Nat
  BY ForecastAssumption
<1>8. \A j \in 1 .. k + 1 : j \in 1 .. k \/ j = k + 1
  OBVIOUS
<1> HIDE DEF p, m
<1>9. CASE m < Best /\ \A i \in DOMAIN q : Gap(p, q[i]) >= Far
  <2> DEFINE r == Append(q, p)
  <2>1. Pick(q, p) = r
    BY <1>9 DEF Pick, Far, m
  <2>2. /\ r \in Seq(Points) /\ Len(r) = m + 1 /\ r[m + 1] = p
        /\ \A i \in 1 .. m : r[i] = q[i]
    BY <1>3, <1>4 DEF m
  <2>3. m + 1 <= Best /\ \A i \in 1 .. m + 1 : i \in 1 .. m \/ i = m + 1
    BY <1>4, <1>7, <1>9
  <2> HIDE DEF r
  <2>4. \A i \in 1 .. m : Gap(p, q[i]) >= Far /\ Gap(q[i], p) >= Far
    BY <1>3, <1>4, <1>9, GapLemma
  <2>5. ASSUME NEW i \in 1 .. m + 1, NEW j \in 1 .. m + 1, i # j PROVE Gap(r[i], r[j]) >= Far
    BY <1>5, <2>2, <2>3, <2>4, <2>5
  <2>6. ASSUME NEW i \in 1 .. m + 1 PROVE \E j \in 1 .. k + 1 : r[i] = ranked[j]
    <3>1. CASE i \in 1 .. m
      BY <1>1, <1>5, <2>2, <3>1
    <3>2. CASE i = m + 1
      BY <2>2, <3>2 DEF p
    <3> QED BY <2>3, <3>1, <3>2
  <2>7. ASSUME NEW j \in 1 .. k + 1 PROVE Settled(r, ranked[j])
    <3>1. CASE j \in 1 .. k
      <4>1. PICK i \in 1 .. m : Gap(ranked[j], q[i]) < Far /\ q[i].q50 <= ranked[j].q50
        <5>1. Settled(q, ranked[j]) /\ m # Best
          BY <1>4, <1>5, <1>7, <1>9, <3>1
        <5> QED BY <5>1 DEF Settled, m
      <4>2. i \in 1 .. m + 1 /\ r[i] = q[i]
        BY <1>4, <2>2
      <4> QED BY <2>2, <4>1, <4>2 DEF Settled
    <3>2. CASE j = k + 1
      <4>1. m + 1 \in 1 .. m + 1 /\ r[m + 1] = p /\ Gap(p, p) < Far /\ p.q50 <= p.q50
        BY <1>3, <1>4, <2>2, GapLemma
      <4>2. ranked[j] = p
        BY <3>2 DEF p
      <4> QED BY <2>2, <4>1, <4>2 DEF Settled
    <3> QED BY <1>8, <3>1, <3>2
  <2>8. Chosen(ranked, k + 1, r)
    BY <2>2, <2>3, <2>5, <2>6, <2>7 DEF Chosen
  <2> QED BY <2>1, <2>8 DEF p
<1>10. CASE ~(m < Best /\ \A i \in DOMAIN q : Gap(p, q[i]) >= Far)
  <2>1. Pick(q, p) = q
    BY <1>10 DEF Pick, Far, m
  <2>2. Settled(q, p)
    <3>1. CASE ~(m < Best)
      <4>1. m = Best
        BY <1>4, <1>7, <3>1
      <4> QED BY <1>6, <4>1 DEF Settled, m
    <3>2. CASE \E i \in DOMAIN q : ~(Gap(p, q[i]) >= Far)
      <4>1. PICK i \in 1 .. m : ~(Gap(p, q[i]) >= Far)
        BY <1>4, <3>2
      <4>2. Gap(p, q[i]) < Far
        BY <1>3, <1>4, <4>1, GapLemma
      <4> QED BY <1>6, <4>2 DEF Settled, m
    <3> QED BY <1>10, <3>1, <3>2
  <2>3. \A j \in 1 .. k + 1 : Settled(q, ranked[j])
    BY <1>5, <1>8, <2>2 DEF p
  <2>4. \A i \in 1 .. m : \E j \in 1 .. k + 1 : q[i] = ranked[j]
    BY <1>1, <1>5
  <2>5. Chosen(ranked, k + 1, q)
    BY <1>4, <1>5, <2>3, <2>4 DEF Chosen, m
  <2> QED BY <2>1, <2>5 DEF p
<1> QED BY <1>9, <1>10

LEMMA WindowsChosen ==
    ASSUME NEW points \in Seq(Points)
    PROVE  Chosen(Ranked(points), Len(points), BestWindows(points))
<1> DEFINE n == Len(points)
           ranked == Ranked(points)
<1>1. Sorted(points, ranked, n) /\ n \in Nat
  BY RankedIsSorted
<1>2. DOMAIN ranked = 1 .. n
  <2> HIDE DEF n, ranked
  <2> QED BY <1>1 DEF Sorted
<1>3. PICK q : ChoiceUnfolds(ranked, n, q) /\ BestWindows(points) = q[n]
  BY <1>1, <1>2, BestWindowsUnfold
<1> DEFINE S == {k \in Nat : k <= n => Chosen(ranked, k, q[k])}
<1> HIDE DEF n, ranked
<1>4. 0 \in S
  <2>1. q[0] = <<>>
    BY <1>3 DEF ChoiceUnfolds
  <2>2. Len(<<>>) = 0 /\ <<>> \in Seq(Points) /\ 1 .. 0 = {}
    OBVIOUS
  <2>3. 0 <= Best
    BY ForecastAssumption
  <2>4. Chosen(ranked, 0, <<>>)
    BY <2>2, <2>3 DEF Chosen
  <2> QED BY <2>1, <2>4
<1>5. ASSUME NEW k \in Nat, k \in S PROVE k + 1 \in S
  <2> SUFFICES ASSUME k + 1 <= n PROVE Chosen(ranked, k + 1, q[k + 1])
    OBVIOUS
  <2>1. k < n /\ k <= n /\ k + 1 \in 1 .. n /\ (k + 1) - 1 = k
    BY <1>1
  <2>2. Chosen(ranked, k, q[k])
    BY <1>5, <2>1
  <2>3. q[k + 1] = Pick(q[(k + 1) - 1], ranked[k + 1])
    BY <1>3, <2>1 DEF ChoiceUnfolds
  <2> QED BY <1>1, <2>1, <2>2, <2>3, PickKeeps
<1>6. n \in S
  <2> HIDE DEF S
  <2> QED BY <1>1, <1>4, <1>5, Induction
<1>7. n <= n
  BY <1>1
<1>8. Chosen(ranked, n, q[n])
  BY <1>6, <1>7
<1> QED BY <1>3, <1>8 DEF n, ranked

LEMMA AheadLemma ==
    ASSUME NEW fc \in Records, serverTime \in Int
    PROVE  Ahead(fc, Day) \in Seq(Points)
<1> DEFINE ps == fc.points
           now == {i \in DOMAIN ps : ps[i].ts <= serverTime + Day}
           m == Cardinality(now)
<1>1. ps \in Seq(Points)
  BY DEF Records
<1>2. Ahead(fc, Day) = SubSeq(ps, 1, m)
  BY DEF Ahead
<1>3. Len(ps) \in Nat /\ DOMAIN ps = 1 .. Len(ps)
  BY <1>1
<1>4. m \in Nat /\ m <= Len(ps)
  <2>1. IsFiniteSet(1 .. Len(ps)) /\ Cardinality(1 .. Len(ps)) = Len(ps)
    BY <1>3, FS_Interval
  <2>2. now \in SUBSET (1 .. Len(ps))
    BY <1>3
  <2> HIDE DEF now, ps
  <2> QED BY <2>1, <2>2, FS_Subset, FS_CardinalityType
<1> HIDE DEF m, ps
<1>5. SubSeq(ps, 1, m) \in Seq(Points)
  BY <1>1, <1>3, <1>4
<1> QED BY <1>2, <1>5

(* As many choices as places: no two are the same point. *)
LEMMA AsManyPoints ==
    ASSUME NEW ranked, NEW n, NEW q, Chosen(ranked, n, q)
    PROVE  Cardinality(ToSet(q)) = Len(q)
<1> DEFINE m == Len(q)
           T == ToSet(q)
<1>1. /\ q \in Seq(Points) /\ m \in Nat /\ DOMAIN q = 1 .. m /\ \A i \in 1 .. m : q[i] \in Points
      /\ \A i, j \in 1 .. m : i # j => Gap(q[i], q[j]) >= Far
  BY DEF Chosen
<1>2. T = {q[i] : i \in 1 .. m}
  BY <1>1 DEF ToSet
<1>3. \A i, j \in 1 .. m : q[i] = q[j] => i = j
  BY <1>1, GapLemma
<1> HIDE DEF m, T
<1> DEFINE f == [i \in 1 .. m |-> q[i]]
<1>4. f \in Bijection(1 .. m, T)
  BY <1>2, <1>3 DEF Bijection, Injection, Surjection, IsInjective
<1>5. IsFiniteSet(1 .. m) /\ Cardinality(1 .. m) = m
  BY <1>1, FS_Interval
<1> HIDE DEF f
<1>6. IsFiniteSet(T) /\ Cardinality(T) = Cardinality(1 .. m)
  BY <1>4, <1>5, FS_Bijection DEF ExistsBijection
<1> QED BY <1>5, <1>6 DEF m, T

LEMMA BestOfAny ==
    ASSUME NEW points \in Seq(Points)
    PROVE  LET best == ToSet(BestWindows(points))
           IN  /\ \A p, c \in best : p # c => ~(Gap(p, c) < Far)
               /\ \A p \in ToSet(points) :
                     \/ \E c \in best : Gap(p, c) < Far /\ c.q50 <= p.q50
                     \/ Cardinality(best) = Best /\ \A c \in best : c.q50 <= p.q50
<1> DEFINE q == BestWindows(points)
           ranked == Ranked(points)
           n == Len(points)
           m == Len(q)
           best == ToSet(q)
<1>1. Chosen(ranked, n, q) /\ Sorted(points, ranked, n)
  BY WindowsChosen, RankedIsSorted
<1>2. Cardinality(best) = m
  BY <1>1, AsManyPoints
<1>3. n \in Nat /\ ToSet(points) = {points[i] : i \in 1 .. n}
  BY DEF ToSet
<1> HIDE DEF q, n, ranked
<1>4. /\ q \in Seq(Points) /\ \A i \in 1 .. m : q[i] \in Points
      /\ \A i, j \in 1 .. m : i # j => Gap(q[i], q[j]) >= Far
      /\ \A j \in 1 .. n : Settled(q, ranked[j])
  BY <1>1 DEF Chosen
<1>5. best = {q[i] : i \in 1 .. m}
  BY <1>4 DEF ToSet
<1> HIDE DEF best, m
<1>6. \A p, c \in best : p # c => ~(Gap(p, c) < Far)
  <2> SUFFICES ASSUME NEW p \in best, NEW c \in best, p # c PROVE ~(Gap(p, c) < Far)
    OBVIOUS
  <2>1. PICK i \in 1 .. m, j \in 1 .. m : p = q[i] /\ c = q[j]
    BY <1>5
  <2>2. i # j /\ q[i] \in Points /\ q[j] \in Points /\ Gap(q[i], q[j]) >= Far
    BY <1>4, <2>1
  <2> QED BY <2>1, <2>2, GapLemma
<1>7. ASSUME NEW p \in ToSet(points)
      PROVE  \/ \E c \in best : Gap(p, c) < Far /\ c.q50 <= p.q50
             \/ Cardinality(best) = Best /\ \A c \in best : c.q50 <= p.q50
  <2>1. PICK i \in 1 .. n : p = points[i]
    BY <1>3
  <2>2. PICK k \in 1 .. n : ranked[k] = points[i]
    BY <1>1 DEF Sorted
  <2>3. Settled(q, p)
    BY <1>4, <2>1, <2>2
  <2> QED BY <1>2, <1>5, <2>3 DEF Settled, m
<1> QED BY <1>6, <1>7 DEF best, q

(* BestTimesAreBest: what best_times answers are times a gap apart, and a  *)
(* time best_windows (schemas.py) passes over is near one of them that is  *)
(* no worse, or they are as many as were asked for and none of them worse. *)
THEOREM BestTimesAreBestHolds == ForecastSpec => []BestTimesAreBest
<1>1. ASSUME ForecastTypeInv, cache # None
      PROVE  LET best == ToSet(BestTimes(cache))
                 close(p, c) == Gap(p, c) < MinGapSteps * Step
             IN  /\ \A p, c \in best : p # c => ~close(p, c)
                 /\ \A p \in ToSet(Ahead(cache, Day)) \ best :
                       \/ \E c \in best : close(p, c) /\ c.q50 <= p.q50
                       \/ Cardinality(best) = Best /\ \A c \in best : c.q50 <= p.q50
  <2>1. Ahead(cache, Day) \in Seq(Points)
    BY <1>1, AheadLemma DEF ForecastTypeInv
  <2> DEFINE a == Ahead(cache, Day)
             best == ToSet(BestWindows(a))
  <2>2. BestTimes(cache) = BestWindows(a)
    BY DEF BestTimes
  <2> HIDE DEF a
  <2>3. /\ \A p, c \in best : p # c => ~(Gap(p, c) < Far)
        /\ \A p \in ToSet(a) :
              \/ \E c \in best : Gap(p, c) < Far /\ c.q50 <= p.q50
              \/ Cardinality(best) = Best /\ \A c \in best : c.q50 <= p.q50
    BY <2>1, BestOfAny DEF a
  <2> QED BY <2>2, <2>3 DEF Far, a
<1>2. ForecastTypeInv => BestTimesAreBest
  BY <1>1, Zenon DEF BestTimesAreBest
<1>3. ForecastInv => BestTimesAreBest
  BY <1>2 DEF ForecastInv
<1> QED BY <1>3, ForecastInvariantHolds, PTL
=============================================================================
