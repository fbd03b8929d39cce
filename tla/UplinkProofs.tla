---------------------------- MODULE UplinkProofs ----------------------------
(***************************************************************************)
(* An outage loses nothing while the clock runs forward, a frame is        *)
(* processed again only for a cause and the spool is replayed in the order *)
(* of the frames the clock was not stepped back between, for any frames,   *)
(* any number of files a drain replays, any bound of the spool and any     *)
(* number of kills, lost answers and steps back.                           *)
(*                                                                         *)
(* The inductive invariant says what the spool holds at each point of the  *)
(* agent's loop: every file another frame; where the clock stands: past    *)
(* the names it gave since it was stepped back, so that the next name      *)
(* comes after theirs; a drain has as many files before it as it still may *)
(* replay; the file that is about to be removed was processed.  Its last   *)
(* conjunct counts the frames that would be processed again if they were   *)
(* sent now: each was paid for by a lost answer or a kill, but for the one *)
(* whose unlink is under way.                                              *)
(***************************************************************************)
EXTENDS UplinkHistory, FiniteSetTheorems, TLAPS

Files == [frame : Frames, torn : BOOLEAN]

Names(s) == {file.frame : file \in ToSet(s)}
Sound(s) == {file.frame : file \in {x \in ToSet(s) : ~x.torn}}
Distinct(s) == \A i, j \in 1 .. Len(s) : i # j => s[i].frame # s[j].frame

WellTyped ==
    /\ pc \in {"idle", "send", "drain", "unlink"}
    /\ hand \in Frames \union {NoFrame}
    /\ spool \in Seq(Files)
    /\ clock \in 0 .. 2 * Len(spool)
    /\ left \in Nat
    /\ restarts \in Nat
    /\ extra \in Nat
    /\ lostAnswers \in Nat

HandIsNew == pc = "send" => hand \in Frames \ Spooled

ReplayHasFiles == pc \in {"drain", "unlink"} => left \in 1 .. Len(spool)

UnlinkedIsProcessed == pc = "unlink" => ~Head(spool).torn /\ Oldest \in processed

InOrder ==
    /\ recent \subseteq Held /\ before \subseteq Held \X Held
    /\ \A i, j \in 1 .. Len(spool) : <<spool[i].frame, spool[j].frame>> \in before => i < j
    /\ pc = "send" => \A f : /\ <<hand, f>> \notin before
                             /\ <<f, hand>> \in before => f \in recent
    /\ \A j \in 1 .. Len(spool) :
           spool[j].frame \in recent => /\ 2 * j - 1 <= clock
                                        /\ pc = "send" => 2 * j <= clock

Repeats ==
    /\ IsFiniteSet(Kept)
    /\ extra + Cardinality(Kept \intersect processed)
         <= lostAnswers + restarts + (IF pc = "unlink" THEN 1 ELSE 0)

IInv == /\ WellTyped /\ HandIsNew /\ Distinct(spool) /\ ReplayHasFiles
        /\ UnlinkedIsProcessed /\ InOrder /\ Repeats

---------------------------------------------------------------------------
(* What saving a file and removing the head do to the frames of the spool. *)
LEMMA NamesLemma ==
    ASSUME NEW s \in Seq(Files), NEW f
    PROVE  /\ f \in Names(s) <=> \E i \in 1 .. Len(s) : s[i].frame = f
           /\ f \in Sound(s) <=> \E i \in 1 .. Len(s) : s[i].frame = f /\ ~s[i].torn
BY DEF Names, Sound, ToSet

LEMMA InsertLemma ==
    ASSUME NEW s \in Seq(Files), NEW file \in Files, NEW k \in 1 .. Len(s) + 1
    PROVE  /\ InsertAt(s, k, file) \in Seq(Files)
           /\ Len(InsertAt(s, k, file)) = Len(s) + 1
           /\ InsertAt(s, k, file)[k] = file
           /\ \A i \in 1 .. k - 1 : InsertAt(s, k, file)[i] = s[i]
           /\ \A i \in k + 1 .. Len(s) + 1 : InsertAt(s, k, file)[i] = s[i - 1]
<1> DEFINE a == SubSeq(s, 1, k - 1)
           b == SubSeq(s, k, Len(s))
           c == a \o <<file>>
<1>1. Len(s) \in Nat /\ k \in Nat
  OBVIOUS
<1>2. /\ a \in Seq(Files) /\ Len(a) = k - 1 /\ \A i \in 1 .. k - 1 : a[i] = s[i]
  BY <1>1
<1>3. /\ b \in Seq(Files) /\ Len(b) = Len(s) + 1 - k
      /\ \A i \in 1 .. Len(s) + 1 - k : b[i] = s[k - 1 + i]
  BY <1>1
<1> HIDE DEF a, b
<1>4. /\ c \in Seq(Files) /\ Len(c) = k /\ c[k] = file
      /\ \A i \in 1 .. k - 1 : c[i] = s[i]
  BY <1>1, <1>2
<1> HIDE DEF c
<1>5. /\ c \o b \in Seq(Files) /\ Len(c \o b) = Len(s) + 1
      /\ \A i \in 1 .. k : (c \o b)[i] = c[i]
      /\ \A i \in k + 1 .. Len(s) + 1 : (c \o b)[i] = b[i - k]
  BY <1>1, <1>3, <1>4
<1>6. \A i \in k + 1 .. Len(s) + 1 : i - k \in 1 .. Len(s) + 1 - k /\ k - 1 + (i - k) = i - 1
  BY <1>1
<1>7. InsertAt(s, k, file) = c \o b
  BY DEF InsertAt, a, b, c
<1>8. \A i \in k + 1 .. Len(s) + 1 : (c \o b)[i] = s[i - 1]
  BY <1>3, <1>5, <1>6
<1>9. \A i \in 1 .. k - 1 : (c \o b)[i] = s[i]
  BY <1>1, <1>4, <1>5
<1> QED BY <1>1, <1>4, <1>5, <1>7, <1>8, <1>9

LEMMA TailLemma ==
    ASSUME NEW s \in Seq(Files), s # <<>>, Distinct(s)
    PROVE  /\ Tail(s) \in Seq(Files)
           /\ Distinct(Tail(s))
           /\ Head(s).frame \in Names(s)
           /\ ~Head(s).torn => Head(s).frame \in Sound(s)
           /\ Names(Tail(s)) = Names(s) \ {Head(s).frame}
           /\ ~Head(s).torn => Sound(Tail(s)) = Sound(s) \ {Head(s).frame}
<1> DEFINE t == Tail(s)
<1>1. /\ t \in Seq(Files) /\ Len(t) = Len(s) - 1 /\ Len(s) \in Nat /\ Len(s) > 0
      /\ \A i \in 1 .. Len(t) : t[i] = s[i + 1]
      /\ Head(s) = s[1]
  OBVIOUS
<1> HIDE DEF t
<1>2. Distinct(t)
  BY <1>1 DEF Distinct
<1>3. Head(s).frame \in Names(s) /\ (~Head(s).torn => Head(s).frame \in Sound(s))
  BY <1>1, NamesLemma
<1>4. ASSUME NEW f PROVE f \in Names(t) <=> f \in Names(s) \ {Head(s).frame}
  <2>1. f \in Names(t) => f \in Names(s) \ {Head(s).frame}
    <3>1. SUFFICES ASSUME NEW i \in 1 .. Len(t), t[i].frame = f PROVE f \in Names(s) \ {Head(s).frame}
      BY <1>1, NamesLemma
    <3>2. i + 1 \in 1 .. Len(s) /\ i + 1 # 1 /\ 1 \in 1 .. Len(s) /\ s[i + 1].frame = f
      BY <1>1, <3>1
    <3> QED BY <1>1, <3>2, NamesLemma DEF Distinct
  <2>2. ASSUME f \in Names(s), f # Head(s).frame PROVE f \in Names(t)
    <3>1. PICK i \in 1 .. Len(s) : s[i].frame = f
      BY <2>2, NamesLemma
    <3>2. i - 1 \in 1 .. Len(t) /\ t[i - 1] = s[i]
      BY <1>1, <2>2, <3>1
    <3> QED BY <1>1, <3>1, <3>2, NamesLemma
  <2> QED BY <2>1, <2>2
<1>5. ASSUME ~Head(s).torn, NEW f PROVE f \in Sound(t) <=> f \in Sound(s) \ {Head(s).frame}
  <2>1. f \in Sound(t) => f \in Sound(s) \ {Head(s).frame}
    <3>1. SUFFICES ASSUME NEW i \in 1 .. Len(t), t[i].frame = f, ~t[i].torn
                   PROVE  f \in Sound(s) \ {Head(s).frame}
      BY <1>1, NamesLemma
    <3>2. i + 1 \in 1 .. Len(s) /\ i + 1 # 1 /\ 1 \in 1 .. Len(s) /\ s[i + 1] = t[i]
      BY <1>1, <3>1
    <3> QED BY <1>1, <3>1, <3>2, NamesLemma DEF Distinct
  <2>2. ASSUME f \in Sound(s), f # Head(s).frame PROVE f \in Sound(t)
    <3>1. PICK i \in 1 .. Len(s) : s[i].frame = f /\ ~s[i].torn
      BY <2>2, NamesLemma
    <3>2. i - 1 \in 1 .. Len(t) /\ t[i - 1] = s[i]
      BY <1>1, <2>2, <3>1
    <3> QED BY <1>1, <3>1, <3>2, NamesLemma
  <2> QED BY <2>1, <2>2
<1> QED BY <1>1, <1>2, <1>3, <1>4, <1>5 DEF t

(* Processing a frame the agent keeps makes one more repeat, now or later  *)
(* when it is sent again; a kept frame that was processed and leaves the   *)
(* agent makes one less.                                                   *)
LEMMA ProcessLemma ==
    ASSUME IsFiniteSet(Kept), NEW f \in Kept, Process(f), extra \in Nat
    PROVE  /\ extra' \in Nat
           /\ extra' + Cardinality(Kept \intersect processed')
                = extra + Cardinality(Kept \intersect processed) + 1
           /\ f \in processed'
           /\ Cardinality(Kept \intersect processed) \in Nat
           /\ Cardinality(Kept \intersect processed') \in Nat
<1> DEFINE W == Kept \intersect processed
<1>1. IsFiniteSet(W) /\ Cardinality(W) \in Nat
  BY FS_Intersection, FS_CardinalityType
<1>2. Kept \intersect processed' = W \union {f}
  BY DEF Process
<1>3. Cardinality(W \union {f}) = IF f \in W THEN Cardinality(W) ELSE Cardinality(W) + 1
  BY <1>1, FS_AddElement
<1> QED BY <1>1, <1>2, <1>3 DEF Process

LEMMA LeaveLemma ==
    ASSUME NEW K, NEW L, NEW P, IsFiniteSet(K), L \subseteq K
    PROVE  /\ IsFiniteSet(L)
           /\ Cardinality(L \intersect P) \in Nat
           /\ Cardinality(K \intersect P) \in Nat
           /\ Cardinality(L \intersect P) <= Cardinality(K \intersect P)
           /\ \A f \in K \intersect P : f \notin L =>
                  Cardinality(L \intersect P) <= Cardinality(K \intersect P) - 1
<1>1. /\ IsFiniteSet(K \intersect P) /\ Cardinality(K \intersect P) \in Nat
      /\ IsFiniteSet(L \intersect P) /\ Cardinality(L \intersect P) \in Nat
      /\ IsFiniteSet(L)
  BY FS_Intersection, FS_Subset, FS_CardinalityType
<1>2. Cardinality(L \intersect P) <= Cardinality(K \intersect P)
  BY <1>1, FS_Subset
<1>3. ASSUME NEW f \in K \intersect P, f \notin L
      PROVE  Cardinality(L \intersect P) <= Cardinality(K \intersect P) - 1
  <2>1. L \intersect P \subseteq (K \intersect P) \ {f}
    BY <1>3
  <2>2. /\ IsFiniteSet((K \intersect P) \ {f})
        /\ Cardinality((K \intersect P) \ {f}) = Cardinality(K \intersect P) - 1
    BY <1>1, <1>3, FS_RemoveElement
  <2> QED BY <2>1, <2>2, FS_Subset
<1> QED BY <1>1, <1>2, <1>3

(* The sets the history names, in terms of the spool. *)
LEMMA HeldLemma ==
    /\ Spooled = Names(spool) /\ Spooled' = Names(spool')
    /\ Kept = Sound(spool) \union InHand /\ Kept' = Sound(spool') \union InHand'
    /\ Held = Names(spool) \union InHand /\ Held' = Names(spool') \union InHand'
    /\ Sound(spool) \subseteq Names(spool)
BY DEF Spooled, Names, Kept, Sound, Held

(* Forgetting the order of frames that left keeps that of the spool. *)
LEMMA ReorderLemma ==
    ASSUME spool' \in Seq(Files), Reorder, pc' # "send",
           \A i, j \in 1 .. Len(spool') :
               <<spool'[i].frame, spool'[j].frame>> \in before => i < j,
           \A j \in 1 .. Len(spool') : spool'[j].frame \in recent => 2 * j - 1 <= clock'
    PROVE  InOrder'
BY DEF Reorder, InOrder

(* The frame in hand is saved as the k-th file, at which the clock stands: *)
(* the files before it stay, those after it move on by d or, if there was  *)
(* one of its name, stay but for that one.                                 *)
LEMMA PlaceLemma ==
    ASSUME WellTyped, NEW file \in Files, Save(file)
    PROVE  /\ spool' \in Seq(Files)
           /\ clock' \in 0 .. 2 * Len(spool')
           /\ \E k \in 1 .. Len(spool'), d \in {0, 1} :
                 /\ 2 * k - 1 = clock' /\ clock <= 2 * k - 1
                 /\ spool'[k] = file
                 /\ \A i \in 1 .. k - 1 : i \in 1 .. Len(spool) /\ spool'[i] = spool[i]
                 /\ \A i \in k + 1 .. Len(spool') :
                        i - d \in k .. Len(spool) /\ spool'[i] = spool[i - d]
                 /\ Len(spool) = Len(spool') - d
<1> DEFINE k == clock \div 2 + 1
<1>1. /\ spool \in Seq(Files) /\ Len(spool) \in Nat /\ clock \in 0 .. 2 * Len(spool)
      /\ k \in Nat /\ k >= 1
  BY DEF WellTyped
<1>2. CASE clock % 2 = 1
  <2>1. 2 * k - 1 = clock /\ k \in 1 .. Len(spool)
    BY <1>1, <1>2
  <2>2. spool' = [spool EXCEPT ![k] = file] /\ clock' = clock
    BY <1>2 DEF Save, ReplaceAt
  <2> HIDE DEF k
  <2>3. /\ spool' \in Seq(Files) /\ Len(spool') = Len(spool) /\ spool'[k] = file
        /\ \A i \in 1 .. Len(spool) : i # k => spool'[i] = spool[i]
    BY <1>1, <2>1, <2>2
  <2>4. /\ \A i \in 1 .. k - 1 : i \in 1 .. Len(spool) /\ spool'[i] = spool[i]
        /\ \A i \in k + 1 .. Len(spool') :
               i - 0 \in k .. Len(spool) /\ spool'[i] = spool[i - 0]
    BY <1>1, <2>1, <2>3
  <2>5. /\ Len(spool') \in Nat /\ clock' = 2 * k - 1 /\ clock <= 2 * k - 1
        /\ Len(spool) = Len(spool') - 0
    BY <1>1, <2>1, <2>2, <2>3
  <2>6. k \in 1 .. Len(spool') /\ 0 \in {0, 1} /\ clock' \in 0 .. 2 * Len(spool')
    BY <1>1, <2>1, <2>5
  <2> QED BY <2>3, <2>4, <2>5, <2>6
<1>3. CASE clock % 2 # 1
  <2>1. 2 * k - 2 = clock /\ k \in 1 .. Len(spool) + 1
    BY <1>1, <1>3
  <2>2. spool' = InsertAt(spool, k, file) /\ clock' = clock + 1
    BY <1>3 DEF Save
  <2> HIDE DEF k
  <2>3. /\ spool' \in Seq(Files) /\ Len(spool') = Len(spool) + 1 /\ spool'[k] = file
        /\ \A i \in 1 .. k - 1 : spool'[i] = spool[i]
        /\ \A i \in k + 1 .. Len(spool) + 1 : spool'[i] = spool[i - 1]
    <3>1. /\ InsertAt(spool, k, file) \in Seq(Files)
          /\ Len(InsertAt(spool, k, file)) = Len(spool) + 1
          /\ InsertAt(spool, k, file)[k] = file
          /\ \A i \in 1 .. k - 1 : InsertAt(spool, k, file)[i] = spool[i]
          /\ \A i \in k + 1 .. Len(spool) + 1 : InsertAt(spool, k, file)[i] = spool[i - 1]
      BY <1>1, <2>1, InsertLemma
    <3> QED BY <2>2, <3>1
  <2>4. /\ \A i \in 1 .. k - 1 : i \in 1 .. Len(spool) /\ spool'[i] = spool[i]
        /\ \A i \in k + 1 .. Len(spool') :
               i - 1 \in k .. Len(spool) /\ spool'[i] = spool[i - 1]
    BY <1>1, <2>1, <2>3
  <2>5. /\ Len(spool') \in Nat /\ clock' = 2 * k - 1 /\ clock <= 2 * k - 1
        /\ Len(spool) = Len(spool') - 1
    BY <1>1, <2>1, <2>2, <2>3
  <2>6. k \in 1 .. Len(spool') /\ 1 \in {0, 1} /\ clock' \in 0 .. 2 * Len(spool')
    BY <1>1, <2>1, <2>5
  <2> QED BY <2>3, <2>4, <2>5, <2>6
<1> QED BY <1>2, <1>3

LEMMA SaveLemma ==
    ASSUME IInv, pc = "send", NEW torn \in BOOLEAN, Save(File(hand, torn))
    PROVE  /\ spool' \in Seq(Files)
           /\ clock' \in 0 .. 2 * Len(spool')
           /\ Distinct(spool')
           /\ Sound(spool') \subseteq Sound(spool) \union (IF torn THEN {} ELSE {hand})
           /\ ~torn => hand \in Sound(spool')
           /\ Sound(spool) \intersect recent \subseteq Sound(spool')
           /\ \A i, j \in 1 .. Len(spool') :
                  <<spool'[i].frame, spool'[j].frame>> \in before => i < j
           /\ \A j \in 1 .. Len(spool') : spool'[j].frame \in recent => 2 * j - 1 <= clock'
<1>1. /\ WellTyped /\ spool \in Seq(Files) /\ hand \in Frames /\ hand \notin Names(spool)
      /\ clock \in Nat /\ Len(spool) \in Nat
  BY HeldLemma DEF IInv, WellTyped, HandIsNew
<1>2. /\ File(hand, torn) \in Files /\ File(hand, torn).frame = hand
      /\ File(hand, torn).torn = torn
  BY <1>1 DEF File, Files
<1>3. spool' \in Seq(Files) /\ clock' \in 0 .. 2 * Len(spool')
  BY <1>1, <1>2, PlaceLemma
<1>4. PICK k \in 1 .. Len(spool'), d \in {0, 1} :
          /\ 2 * k - 1 = clock' /\ clock <= 2 * k - 1
          /\ spool'[k] = File(hand, torn)
          /\ \A i \in 1 .. k - 1 : i \in 1 .. Len(spool) /\ spool'[i] = spool[i]
          /\ \A i \in k + 1 .. Len(spool') :
                 i - d \in k .. Len(spool) /\ spool'[i] = spool[i - d]
          /\ Len(spool) = Len(spool') - d
  BY <1>1, <1>2, PlaceLemma
<1>5. Len(spool') \in Nat /\ k \in Nat
  BY <1>3
<1> DEFINE old(i) == IF i < k THEN i ELSE i - d
<1>6. \A i \in 1 .. Len(spool') : i # k => /\ old(i) \in 1 .. Len(spool)
                                           /\ spool'[i] = spool[old(i)]
                                           /\ i < k <=> old(i) < k
  <2> SUFFICES ASSUME NEW i \in 1 .. Len(spool'), i # k
               PROVE  /\ old(i) \in 1 .. Len(spool)
                      /\ spool'[i] = spool[old(i)]
                      /\ i < k <=> old(i) < k
    OBVIOUS
  <2>1. CASE i < k
    <3>1. i \in 1 .. k - 1
      BY <1>5, <2>1
    <3> QED BY <1>4, <2>1, <3>1
  <2>2. CASE ~(i < k)
    <3>1. i \in k + 1 .. Len(spool')
      BY <1>5, <2>2
    <3> QED BY <1>4, <1>5, <2>2, <3>1
  <2> QED BY <2>1, <2>2
<1>7. \A i, j \in 1 .. Len(spool') :
          i # k /\ j # k => (i < j <=> old(i) < old(j)) /\ (i = j <=> old(i) = old(j))
  <2> SUFFICES ASSUME NEW i \in 1 .. Len(spool'), NEW j \in 1 .. Len(spool'), i # k, j # k
               PROVE  (i < j <=> old(i) < old(j)) /\ (i = j <=> old(i) = old(j))
    OBVIOUS
  <2>1. (i < k <=> old(i) < k) /\ (j < k <=> old(j) < k)
    BY <1>6
  <2> QED BY <1>5, <2>1
<1>8. \A i \in 1 .. Len(spool) : spool[i].frame \in recent => i < k
  <2> SUFFICES ASSUME NEW i \in 1 .. Len(spool), spool[i].frame \in recent
               PROVE  i < k
    OBVIOUS
  <2>1. 2 * i <= clock
    BY DEF IInv, InOrder
  <2> QED BY <1>1, <1>4, <1>5, <2>1
<1>9. \A i \in 1 .. Len(spool') : i # k => spool'[i].frame \in Names(spool)
  BY <1>1, <1>6, NamesLemma
<1> HIDE DEF old
<1>10. Distinct(spool')
  <2> SUFFICES ASSUME NEW i \in 1 .. Len(spool'), NEW j \in 1 .. Len(spool'), i # j
               PROVE  spool'[i].frame # spool'[j].frame
    BY DEF Distinct
  <2>1. CASE i = k \/ j = k
    BY <1>1, <1>2, <1>4, <1>9, <2>1
  <2>2. CASE i # k /\ j # k
    BY <1>6, <1>7, <2>2 DEF Distinct, IInv
  <2> QED BY <2>1, <2>2
<1>11. Sound(spool') \subseteq Sound(spool) \union (IF torn THEN {} ELSE {hand})
  <2> SUFFICES ASSUME NEW f \in Sound(spool')
               PROVE  f \in Sound(spool) \/ (~torn /\ f = hand)
    OBVIOUS
  <2>1. PICK i \in 1 .. Len(spool') : spool'[i].frame = f /\ ~spool'[i].torn
    BY <1>3, NamesLemma
  <2>2. CASE i = k
    BY <1>2, <1>4, <2>1, <2>2
  <2>3. CASE i # k
    BY <1>1, <1>6, <2>1, <2>3, NamesLemma
  <2> QED BY <2>2, <2>3
<1>12. ~torn => hand \in Sound(spool')
  BY <1>2, <1>3, <1>4, NamesLemma
<1>13. Sound(spool) \intersect recent \subseteq Sound(spool')
  <2> SUFFICES ASSUME NEW f \in Sound(spool), f \in recent PROVE f \in Sound(spool')
    OBVIOUS
  <2>1. PICK i \in 1 .. Len(spool) : spool[i].frame = f /\ ~spool[i].torn
    BY <1>1, NamesLemma
  <2>2. i \in 1 .. k - 1 /\ i \in 1 .. Len(spool')
    BY <1>1, <1>5, <1>8, <2>1
  <2>3. spool'[i] = spool[i]
    BY <1>4, <2>2
  <2> QED BY <1>3, <2>1, <2>2, <2>3, NamesLemma
<1>14. ASSUME NEW i \in 1 .. Len(spool'), NEW j \in 1 .. Len(spool'),
              <<spool'[i].frame, spool'[j].frame>> \in before
       PROVE  i < j
  <2>1. CASE i = k
    BY <1>2, <1>4, <1>14, <2>1 DEF IInv, InOrder
  <2>2. CASE i # k /\ j = k
    <3>1. spool'[i].frame \in recent
      BY <1>2, <1>4, <1>14, <2>2 DEF IInv, InOrder
    <3>2. old(i) < k
      BY <1>6, <1>8, <2>2, <3>1
    <3> QED BY <1>6, <2>2, <3>2
  <2>3. CASE i # k /\ j # k
    <3>1. old(i) < old(j)
      BY <1>6, <1>14, <2>3 DEF IInv, InOrder
    <3> QED BY <1>7, <2>3, <3>1
  <2> QED BY <2>1, <2>2, <2>3
<1>15. ASSUME NEW j \in 1 .. Len(spool'), spool'[j].frame \in recent
       PROVE  2 * j - 1 <= clock'
  <2>1. j <= k
    BY <1>5, <1>6, <1>8, <1>15
  <2> QED BY <1>4, <1>5, <2>1
<1> QED BY <1>3, <1>10, <1>11, <1>12, <1>13, <1>14, <1>15

LEMMA InitLemma == HInit => IInv
<1> SUFFICES ASSUME HInit PROVE IInv
  OBVIOUS
<1>0. spool \in Seq(Files)
  BY DEF HInit, Init
<1>1. spool = <<>> /\ Len(spool) = 0
  BY DEF HInit, Init
<1>2. Kept = {}
  <2>1. ASSUME NEW f \in Sound(spool) PROVE FALSE
    <3>1. PICK i \in 1 .. Len(spool) : spool[i].frame = f
      BY <1>0, <2>1, NamesLemma
    <3> QED BY <1>1, <3>1
  <2> QED BY <2>1, HeldLemma DEF HInit, Init, InHand
<1>3. IsFiniteSet(Kept) /\ Cardinality(Kept \intersect processed) = 0
  BY <1>2, FS_EmptySet
<1> QED BY <1>0, <1>1, <1>3 DEF HInit, Init, IInv, WellTyped, HandIsNew, Distinct, ReplayHasFiles,
              UnlinkedIsProcessed, InOrder, Repeats

LEMMA EvenLemma == ASSUME NEW n \in Nat, n % 2 = 0 PROVE \E h \in Nat : n = 2 * h
<1>1. n \div 2 \in Nat /\ n = 2 * (n \div 2)
  OBVIOUS
<1> QED BY <1>1

LEMMA CaptureKeeps == ASSUME IInv, HCapture PROVE IInv'
<1> USE DEF IInv
<1>1. PICK f \in Frames : /\ Capture(f)
                          /\ recent' = recent \union {f}
                          /\ before' = before \union (recent \X {f})
                          /\ processed' = processed \ {f}
  BY DEF HCapture
<1>2. /\ pc = "idle" /\ pc' = "send" /\ hand' = f /\ f \notin Names(spool)
      /\ clock' \in {now \in clock .. 2 * Len(spool) : now > clock \/ now % 2 = 0}
      /\ spool' = spool /\ UNCHANGED <<left, restarts, extra, lostAnswers>>
  BY <1>1, HeldLemma DEF Capture, HCapture
<1>3. Kept = Sound(spool) /\ Kept' = Kept \union {f} /\ f \notin Kept
      /\ Held = Names(spool) /\ Held' = Held \union {f} /\ f \notin Held
  BY <1>2, HeldLemma DEF InHand
<1>4. WellTyped' /\ HandIsNew' /\ Distinct(spool)' /\ ReplayHasFiles' /\ UnlinkedIsProcessed'
  BY <1>2, HeldLemma DEF WellTyped, HandIsNew, Distinct, ReplayHasFiles, UnlinkedIsProcessed
<1>5. InOrder'
  <2>1. recent' \subseteq Held' /\ before' \subseteq Held' \X Held'
    BY <1>1, <1>3 DEF InOrder
  <2>2. \A g \in Held : <<g, f>> \notin before /\ <<f, g>> \notin before /\ f \notin recent
    BY <1>3 DEF InOrder
  <2>3. \A i \in 1 .. Len(spool) : spool[i].frame \in Held
    BY <1>3, NamesLemma DEF WellTyped
  <2>4. \A i, j \in 1 .. Len(spool) :
            <<spool[i].frame, spool[j].frame>> \in before' => i < j
    <3>1. \A i, j \in 1 .. Len(spool) : <<spool[i].frame, spool[j].frame>> \in before' =>
              <<spool[i].frame, spool[j].frame>> \in before
      BY <1>1, <1>3, <2>3
    <3> QED BY <3>1 DEF InOrder
  <2>5. \A g : <<f, g>> \notin before' /\ (<<g, f>> \in before' => g \in recent')
    <3>1. \A g : <<f, g>> \notin before
      BY <1>3 DEF InOrder
    <3>2. \A g : <<g, f>> \notin before
      BY <1>3 DEF InOrder
    <3>3. f \notin recent
      BY <2>2, <1>3 DEF InOrder
    <3> QED BY <1>1, <3>1, <3>2, <3>3
  <2>6. ASSUME NEW j \in 1 .. Len(spool), spool[j].frame \in recent'
        PROVE  2 * j - 1 <= clock' /\ 2 * j <= clock'
    <3>1. spool[j].frame \in recent
      BY <1>1, <1>3, <2>3, <2>6
    <3>2. 2 * j - 1 <= clock
      BY <3>1 DEF InOrder
    <3>3. clock \in Nat /\ clock' \in Nat /\ j \in Nat /\ clock <= clock'
      BY <1>2 DEF WellTyped
    <3>4. clock' > clock \/ clock' % 2 = 0
      BY <1>2
    <3>5. CASE clock' > clock
      <4> HIDE DEF IInv
      <4> QED BY <3>2, <3>3, <3>5
    <3>6. CASE clock' % 2 = 0
      <4>1. PICK h \in Nat : clock' = 2 * h
        BY <3>3, <3>6, EvenLemma
      <4> HIDE DEF IInv
      <4> QED BY <3>2, <3>3, <4>1
    <3> QED BY <3>4, <3>5, <3>6
  <2> QED BY <1>2, <2>1, <2>4, <2>5, <2>6 DEF InOrder
<1>6. Repeats'
  <2>1. Kept' \intersect processed' = Kept \intersect processed
    BY <1>1, <1>3
  <2>2. IsFiniteSet(Kept')
    BY <1>3, FS_AddElement DEF Repeats
  <2> QED BY <1>2, <2>1, <2>2 DEF Repeats
<1> QED BY <1>4, <1>5, <1>6

LEMMA SendAckedKeeps == ASSUME IInv, HSendAcked PROVE IInv' /\ hand \in processed'
<1> USE DEF IInv
<1>1. /\ pc = "send" /\ pc' \in {"idle", "drain"} /\ spool' = spool /\ clock' = clock /\ hand' = NoFrame
      /\ UNCHANGED <<restarts, lostAnswers>>
      /\ pc' = "drain" => left' \in 1 .. Len(spool)
      /\ left' \in Nat
  BY DrainBatchAssumption DEF HSendAcked, SendAcked, Idle, WellTyped
<1>2. /\ hand \in Kept /\ hand \notin Names(spool)
      /\ Kept' = Sound(spool) /\ Kept' \subseteq Kept /\ hand \notin Kept'
  BY <1>1, HeldLemma DEF InHand, HandIsNew
<1>3. /\ extra' \in Nat
      /\ extra' + Cardinality(Kept \intersect processed')
           = extra + Cardinality(Kept \intersect processed) + 1
      /\ hand \in processed'
      /\ Cardinality(Kept \intersect processed') \in Nat
      /\ Cardinality(Kept \intersect processed) \in Nat
  BY <1>2, ProcessLemma DEF HSendAcked, WellTyped, Repeats
<1>4. WellTyped' /\ HandIsNew' /\ Distinct(spool)' /\ ReplayHasFiles' /\ UnlinkedIsProcessed'
  BY <1>1, <1>3 DEF WellTyped, HandIsNew, Distinct, ReplayHasFiles, UnlinkedIsProcessed
<1>5. InOrder'
  BY <1>1, ReorderLemma DEF InOrder, HSendAcked, WellTyped
<1>6. Repeats'
  <2>1. /\ IsFiniteSet(Kept')
        /\ Cardinality(Kept' \intersect processed') \in Nat
        /\ Cardinality(Kept' \intersect processed') <= Cardinality(Kept \intersect processed') - 1
    BY <1>2, <1>3, LeaveLemma DEF Repeats
  <2> QED BY <1>1, <1>3, <2>1 DEF Repeats, WellTyped
<1> QED BY <1>3, <1>4, <1>5, <1>6

(* The post of a frame of the agent that fails leaves what it keeps, and   *)
(* pays for the repeat it may have made.                                   *)
LEMMA FailedLemma ==
    ASSUME IInv, NEW f \in Kept, Failed(f)
    PROVE  /\ extra' \in Nat /\ lostAnswers' \in Nat
           /\ extra' + Cardinality(Kept \intersect processed') + lostAnswers
                <= extra + Cardinality(Kept \intersect processed) + lostAnswers'
           /\ Cardinality(Kept \intersect processed') \in Nat
           /\ Cardinality(Kept \intersect processed) \in Nat
<1>1. extra \in Nat /\ lostAnswers \in Nat /\ IsFiniteSet(Kept)
  BY DEF IInv, WellTyped, Repeats
<1>2. Cardinality(Kept \intersect processed) \in Nat
  BY <1>1, FS_Intersection, FS_CardinalityType
<1>3. CASE UNCHANGED <<processed, extra, lostAnswers>>
  BY <1>1, <1>2, <1>3
<1>4. CASE lostAnswers' = lostAnswers + 1 /\ Process(f)
  <2>1. /\ extra' \in Nat
        /\ extra' + Cardinality(Kept \intersect processed')
             = extra + Cardinality(Kept \intersect processed) + 1
        /\ Cardinality(Kept \intersect processed') \in Nat
    BY <1>1, <1>4, ProcessLemma
  <2> QED BY <1>1, <1>2, <1>4, <2>1
<1> QED BY <1>3, <1>4 DEF Failed

LEMMA SendFailedKeeps ==
    ASSUME IInv, HSendFailed
    PROVE  IInv' /\ Kept \intersect recent \subseteq Kept'
<1> USE DEF IInv
<1>1. /\ pc = "send" /\ pc' = "idle" /\ hand' = NoFrame /\ left' = 0
      /\ Save(File(hand, FALSE)) /\ Failed(hand) /\ Reorder
      /\ UNCHANGED restarts
      /\ InHand = {hand} /\ InHand' = {}
  BY DEF HSendFailed, SendFailed, Idle, InHand
<1>2. /\ spool' \in Seq(Files) /\ clock' \in 0 .. 2 * Len(spool') /\ Distinct(spool')
      /\ Sound(spool') \subseteq Sound(spool) \union {hand} /\ hand \in Sound(spool')
      /\ Sound(spool) \intersect recent \subseteq Sound(spool')
      /\ \A i, j \in 1 .. Len(spool') :
             <<spool'[i].frame, spool'[j].frame>> \in before => i < j
      /\ \A j \in 1 .. Len(spool') : spool'[j].frame \in recent => 2 * j - 1 <= clock'
  <2> HIDE DEF IInv
  <2> QED BY <1>1, SaveLemma
<1>3. Kept' \subseteq Kept /\ hand \in Kept /\ Kept \intersect recent \subseteq Kept'
  BY <1>1, <1>2, HeldLemma
<1>4. /\ extra' \in Nat /\ lostAnswers' \in Nat
      /\ extra' + Cardinality(Kept \intersect processed') + lostAnswers
           <= extra + Cardinality(Kept \intersect processed) + lostAnswers'
      /\ Cardinality(Kept \intersect processed') \in Nat
      /\ Cardinality(Kept \intersect processed) \in Nat
  BY <1>1, <1>3, FailedLemma
<1>5. WellTyped' /\ HandIsNew' /\ ReplayHasFiles' /\ UnlinkedIsProcessed'
  BY <1>1, <1>2, <1>4 DEF WellTyped, HandIsNew, ReplayHasFiles, UnlinkedIsProcessed
<1>6. InOrder'
  BY <1>1, <1>2, ReorderLemma
<1>7. Repeats'
  <2>1. /\ IsFiniteSet(Kept')
        /\ Cardinality(Kept' \intersect processed') \in Nat
        /\ Cardinality(Kept' \intersect processed') <= Cardinality(Kept \intersect processed')
    BY <1>3, LeaveLemma DEF Repeats
  <2>2. /\ restarts' = restarts /\ restarts \in Nat
        /\ extra \in Nat /\ lostAnswers \in Nat
        /\ extra + Cardinality(Kept \intersect processed) <= lostAnswers + restarts
        /\ pc' # "unlink"
    BY <1>1 DEF Repeats, WellTyped
  <2>3. extra' + Cardinality(Kept' \intersect processed') <= lostAnswers' + restarts'
    <3> HIDE DEF IInv
    <3> QED BY <1>4, <2>1, <2>2
  <2>4. lostAnswers' + restarts' + (IF pc' = "unlink" THEN 1 ELSE 0) = lostAnswers' + restarts'
    <3> HIDE DEF IInv
    <3> QED BY <1>4, <2>2
  <2> HIDE DEF IInv
  <2> QED BY <2>1, <2>3, <2>4 DEF Repeats
<1> QED BY <1>2, <1>3, <1>5, <1>6, <1>7 DEF Distinct

(* What a drain knows of the file it is at. *)
LEMMA HeadLemma ==
    ASSUME IInv, pc \in {"drain", "unlink"}
    PROVE  /\ spool # <<>> /\ Len(spool) > 0
           /\ Head(spool) = spool[1]
           /\ Oldest \in Names(spool) /\ (~Head(spool).torn => Oldest \in Kept)
           /\ Kept = Sound(spool) /\ Held = Names(spool)
BY TailLemma, HeldLemma DEF IInv, WellTyped, ReplayHasFiles, Oldest, InHand

LEMMA DrainAckedKeeps == ASSUME IInv, HDrainAcked PROVE IInv' /\ Kept' = Kept
<1> USE DEF IInv
<1>1. /\ pc = "drain" /\ pc' = "unlink" /\ ~Head(spool).torn
      /\ spool' = spool /\ UNCHANGED <<clock, hand, left, restarts, lostAnswers>>
      /\ Oldest \in Kept /\ Process(Oldest)
  BY HeadLemma DEF HDrainAcked, DrainAcked
<1>2. Kept' = Kept
  BY <1>1, HeldLemma DEF InHand
<1>3. /\ extra' \in Nat
      /\ extra' + Cardinality(Kept \intersect processed')
           = extra + Cardinality(Kept \intersect processed) + 1
      /\ Oldest \in processed'
      /\ Cardinality(Kept \intersect processed') \in Nat
      /\ Cardinality(Kept \intersect processed) \in Nat
  BY <1>1, ProcessLemma DEF WellTyped, Repeats
<1>4. WellTyped' /\ HandIsNew' /\ Distinct(spool)' /\ ReplayHasFiles' /\ UnlinkedIsProcessed'
  BY <1>1, <1>3 DEF WellTyped, HandIsNew, Distinct, ReplayHasFiles, UnlinkedIsProcessed, Oldest
<1>5. InOrder'
  BY <1>1, ReorderLemma DEF InOrder, HDrainAcked, WellTyped
<1>6. Repeats'
  BY <1>1, <1>2, <1>3 DEF Repeats, WellTyped
<1> QED BY <1>2, <1>4, <1>5, <1>6

LEMMA UnlinkKeeps == ASSUME IInv, HUnlink PROVE IInv' /\ Kept \ Kept' \subseteq processed'
<1> USE DEF IInv
<1>1. /\ pc = "unlink" /\ pc' \in {"idle", "drain"} /\ spool' = Tail(spool)
      /\ clock' = (IF clock < 2 THEN 0 ELSE clock - 2)
      /\ UNCHANGED <<restarts, lostAnswers, extra, processed>>
      /\ hand' \in {hand, NoFrame}
      /\ ~Head(spool).torn /\ Oldest \in processed /\ Oldest \in Kept /\ spool # <<>>
      /\ Kept = Sound(spool)
  BY HeadLemma DEF HUnlink, Unlink, Idle, UnlinkedIsProcessed
<1>2. left' \in Nat /\ (pc' = "drain" => left' \in 1 .. Len(spool'))
  BY <1>1 DEF HUnlink, Unlink, Idle, ReplayHasFiles, WellTyped
<1>3. /\ spool' \in Seq(Files) /\ Distinct(spool)'
      /\ Sound(spool') = Sound(spool) \ {Oldest}
  BY <1>1, TailLemma DEF WellTyped, Distinct, Oldest
<1>4. Kept' = Kept \ {Oldest}
  BY <1>1, <1>3, HeldLemma DEF InHand
<1>5. WellTyped' /\ HandIsNew' /\ ReplayHasFiles' /\ UnlinkedIsProcessed'
  <2>1. Len(spool') = Len(spool) - 1 /\ Len(spool) \in Nat /\ clock' \in 0 .. 2 * Len(spool')
    BY <1>1 DEF WellTyped
  <2> QED BY <1>1, <1>2, <1>3, <2>1 DEF WellTyped, HandIsNew, ReplayHasFiles, UnlinkedIsProcessed
<1>6. InOrder'
  <2>1. /\ Len(spool') = Len(spool) - 1
        /\ \A i \in 1 .. Len(spool') : i + 1 \in 1 .. Len(spool) /\ spool'[i] = spool[i + 1]
    BY <1>1 DEF WellTyped
  <2>2. \A i, j \in 1 .. Len(spool') :
            <<spool'[i].frame, spool'[j].frame>> \in before => i < j
    <3> SUFFICES ASSUME NEW i \in 1 .. Len(spool'), NEW j \in 1 .. Len(spool'),
                        <<spool'[i].frame, spool'[j].frame>> \in before
                 PROVE  i < j
      OBVIOUS
    <3>1. i + 1 \in 1 .. Len(spool) /\ j + 1 \in 1 .. Len(spool)
      BY <2>1
    <3>2. i + 1 < j + 1
      BY <2>1, <3>1 DEF InOrder
    <3> QED BY <3>2
  <2>3. ASSUME NEW j \in 1 .. Len(spool'), spool'[j].frame \in recent
        PROVE  2 * j - 1 <= clock'
    <3>1. 2 * (j + 1) - 1 <= clock
      BY <2>1, <2>3 DEF InOrder
    <3>2. clock \in Nat /\ j \in Nat
      BY DEF WellTyped
    <3> QED BY <1>1, <3>1, <3>2
  <2> QED BY <1>1, <1>3, <2>2, <2>3, ReorderLemma DEF HUnlink
<1>7. Repeats'
  <2>1. /\ IsFiniteSet(Kept')
        /\ Cardinality(Kept' \intersect processed) \in Nat
        /\ Cardinality(Kept \intersect processed) \in Nat
        /\ Cardinality(Kept' \intersect processed) <= Cardinality(Kept \intersect processed) - 1
    BY <1>1, <1>4, LeaveLemma DEF Repeats
  <2> QED BY <1>1, <2>1 DEF Repeats, WellTyped
<1> QED BY <1>1, <1>3, <1>4, <1>5, <1>6, <1>7

LEMMA DrainFailedKeeps == ASSUME IInv, HDrainFailed PROVE IInv' /\ Kept' = Kept
<1> USE DEF IInv
<1>1. /\ pc = "drain" /\ pc' = "idle" /\ spool' = spool /\ clock' = clock /\ hand' = NoFrame /\ left' = 0
      /\ UNCHANGED restarts
      /\ Kept' = Kept
  BY HeldLemma DEF HDrainFailed, DrainFailed, Idle, InHand
<1>2. /\ extra' \in Nat /\ lostAnswers' \in Nat
      /\ extra' + Cardinality(Kept \intersect processed') + lostAnswers
           <= extra + Cardinality(Kept \intersect processed) + lostAnswers'
      /\ Cardinality(Kept \intersect processed') \in Nat
      /\ Cardinality(Kept \intersect processed) \in Nat
  <2>1. CASE Head(spool).torn
    <3>1. Cardinality(Kept \intersect processed) \in Nat
      BY FS_Intersection, FS_CardinalityType DEF Repeats
    <3>2. UNCHANGED <<processed, extra, lostAnswers>>
      BY <2>1 DEF HDrainFailed
    <3> QED BY <3>1, <3>2 DEF WellTyped
  <2>2. CASE ~Head(spool).torn
    BY <1>1, <2>2, HeadLemma, FailedLemma DEF HDrainFailed
  <2> QED BY <2>1, <2>2
<1>3. WellTyped' /\ HandIsNew' /\ Distinct(spool)' /\ ReplayHasFiles' /\ UnlinkedIsProcessed'
  BY <1>1, <1>2 DEF WellTyped, HandIsNew, Distinct, ReplayHasFiles, UnlinkedIsProcessed
<1>4. InOrder'
  BY <1>1, ReorderLemma DEF InOrder, HDrainFailed, WellTyped
<1>5. Repeats'
  <2>1. /\ extra + Cardinality(Kept \intersect processed) <= lostAnswers + restarts
        /\ IsFiniteSet(Kept) /\ restarts \in Nat /\ lostAnswers \in Nat /\ extra \in Nat
    BY <1>1 DEF Repeats, WellTyped
  <2>2. extra' + Cardinality(Kept \intersect processed') <= lostAnswers' + restarts
    <3> HIDE DEF IInv
    <3> QED BY <1>2, <2>1
  <2>3. lostAnswers' + restarts + (IF pc' = "unlink" THEN 1 ELSE 0) = lostAnswers' + restarts
    <3> HIDE DEF IInv
    <3> QED BY <1>1, <1>2, <2>1
  <2> HIDE DEF IInv
  <2> QED BY <1>1, <2>1, <2>2, <2>3 DEF Repeats
<1> QED BY <1>1, <1>3, <1>4, <1>5

LEMMA CrashKeeps ==
    ASSUME IInv, HCrash
    PROVE  /\ IInv' /\ restarts' = restarts + 1
           /\ Kept \intersect recent \subseteq Kept' \union {hand}
<1> USE DEF IInv
<1>1. /\ pc' = "idle" /\ hand' = NoFrame /\ left' = 0 /\ restarts' = restarts + 1
      /\ UNCHANGED <<processed, extra, lostAnswers>> /\ Reorder
      /\ InHand' = {} /\ InHand \subseteq {hand}
  BY DEF HCrash, Crash, CrashTearing, Idle, InHand
<1>2. /\ spool' \in Seq(Files) /\ clock' \in 0 .. 2 * Len(spool') /\ Distinct(spool')
      /\ Sound(spool') \subseteq Sound(spool)
      /\ Sound(spool) \intersect recent \subseteq Sound(spool')
      /\ \A i, j \in 1 .. Len(spool') :
             <<spool'[i].frame, spool'[j].frame>> \in before => i < j
      /\ \A j \in 1 .. Len(spool') : spool'[j].frame \in recent => 2 * j - 1 <= clock'
  <2>1. CASE Crash
    BY <2>1 DEF Crash, WellTyped, InOrder
  <2>2. CASE CrashTearing
    <3> HIDE DEF IInv
    <3>1. pc = "send" /\ Save(File(hand, TRUE))
      BY <2>2 DEF CrashTearing
    <3> QED BY <3>1, SaveLemma
  <2> QED BY <2>1, <2>2 DEF HCrash
<1>3. Kept' \subseteq Kept /\ Kept \intersect recent \subseteq Kept' \union {hand}
  BY <1>1, <1>2, HeldLemma
<1>4. WellTyped' /\ HandIsNew' /\ ReplayHasFiles' /\ UnlinkedIsProcessed'
  BY <1>1, <1>2 DEF WellTyped, HandIsNew, ReplayHasFiles, UnlinkedIsProcessed
<1>5. InOrder'
  BY <1>1, <1>2, ReorderLemma
<1>6. Repeats'
  <2>1. /\ IsFiniteSet(Kept')
        /\ Cardinality(Kept' \intersect processed) \in Nat
        /\ Cardinality(Kept \intersect processed) \in Nat
        /\ Cardinality(Kept' \intersect processed) <= Cardinality(Kept \intersect processed)
    BY <1>3, LeaveLemma DEF Repeats
  <2>2. /\ restarts \in Nat /\ extra \in Nat /\ lostAnswers \in Nat
        /\ extra + Cardinality(Kept \intersect processed) <= lostAnswers + restarts + 1
    <3>1. CASE pc = "unlink"
      BY <3>1 DEF Repeats, WellTyped
    <3>2. CASE pc # "unlink"
      BY <2>1, <3>2 DEF Repeats, WellTyped
    <3> QED BY <3>1, <3>2
  <2>3. extra' + Cardinality(Kept' \intersect processed') <= lostAnswers' + restarts'
    <3>1. Cardinality(Kept' \intersect processed') = Cardinality(Kept' \intersect processed)
      BY <1>1
    <3> HIDE DEF IInv
    <3> QED BY <1>1, <2>1, <2>2, <3>1
  <2>4. lostAnswers' + restarts' + (IF pc' = "unlink" THEN 1 ELSE 0) = lostAnswers' + restarts'
    <3> HIDE DEF IInv
    <3> QED BY <1>1, <2>2
  <2> HIDE DEF IInv
  <2> QED BY <2>1, <2>3, <2>4 DEF Repeats
<1> QED BY <1>1, <1>2, <1>3, <1>4, <1>5, <1>6 DEF Distinct

LEMMA StepBackKeeps == ASSUME IInv, HStepBack PROVE IInv' /\ Kept' = Kept
<1> USE DEF IInv
<1>1. /\ clock' \in 0 .. clock - 1
      /\ UNCHANGED <<pc, hand, spool, left, restarts, processed, extra, lostAnswers>>
      /\ recent' = InHand /\ before' = {pair \in before : pair[2] \notin InHand}
  BY DEF HStepBack, StepBack
<1>2. Kept' = Kept /\ Held' = Held /\ InHand \subseteq Held
  BY <1>1 DEF Kept, Held, Spooled, InHand
<1>3. clock' \in 0 .. 2 * Len(spool')
  BY <1>1 DEF WellTyped
<1>4. /\ WellTyped' /\ HandIsNew' /\ Distinct(spool)' /\ ReplayHasFiles'
      /\ UnlinkedIsProcessed' /\ Repeats'
  BY <1>1, <1>2, <1>3 DEF WellTyped, HandIsNew, Spooled, Distinct, ReplayHasFiles,
                          UnlinkedIsProcessed, Oldest, Repeats
<1>5. \A j \in 1 .. Len(spool) : spool[j].frame \notin InHand
  BY NamesLemma, HeldLemma DEF WellTyped, HandIsNew, InHand
<1>6. pc = "send" => InHand = {hand}
  BY DEF InHand
<1>7. pc = "send" => \A f : <<hand, f>> \notin before' /\ <<f, hand>> \notin before'
  BY <1>1, <1>6 DEF InOrder
<1>8. \A i, j \in 1 .. Len(spool') : <<spool'[i].frame, spool'[j].frame>> \in before' => i < j
  BY <1>1 DEF InOrder
<1>9. recent' \subseteq Held' /\ before' \subseteq Held' \X Held'
  BY <1>1, <1>2 DEF InOrder
<1>10. InOrder'
  BY <1>1, <1>5, <1>7, <1>8, <1>9 DEF InOrder
<1> QED BY <1>2, <1>4, <1>10

LEMMA LinkKeeps == ASSUME IInv, HLink \/ UNCHANGED allVars PROVE IInv' /\ Kept' = Kept
<1>1. UNCHANGED <<pc, hand, spool, clock, left, restarts, recent, before, processed, extra,
                  lostAnswers>>
  BY DEF HLink, Link, LinkFails, LinkHeals, allVars, vars, history
<1>2. Kept' = Kept /\ Held' = Held
  BY <1>1 DEF Kept, Held, Spooled, InHand
<1> QED BY <1>1, <1>2 DEF IInv, WellTyped, HandIsNew, Spooled, Distinct, ReplayHasFiles,
                          UnlinkedIsProcessed, Oldest, InOrder, Repeats

---------------------------------------------------------------------------
(* One step: the invariant is kept, and what leaves the agent was          *)
(* processed, was in the hands of an agent that is killed, or had its name *)
(* from before the clock was stepped back.                                 *)
LEMMA StepLemma ==
    ASSUME IInv, [HNext]_allVars
    PROVE  /\ IInv'
           /\ \A f \in Kept \ Kept' : \/ f \in processed'
                                      \/ restarts' > restarts /\ f = hand
                                      \/ f \notin recent
<1>1. CASE HCapture
  <2>1. Kept \subseteq Kept'
    BY <1>1 DEF HCapture, Capture, Kept, InHand
  <2> QED BY <1>1, <2>1, CaptureKeeps
<1>2. CASE HSendAcked
  <2>1. Kept \ Kept' \subseteq {hand}
    BY <1>2 DEF HSendAcked, SendAcked, Kept, InHand
  <2> QED BY <1>2, <2>1, SendAckedKeeps
<1>3. CASE HSendFailed
  BY <1>3, SendFailedKeeps
<1>4. CASE HDrainAcked
  BY <1>4, DrainAckedKeeps
<1>5. CASE HUnlink
  BY <1>5, UnlinkKeeps
<1>6. CASE HDrainFailed
  BY <1>6, DrainFailedKeeps
<1>7. CASE HCrash
  BY <1>7, CrashKeeps DEF IInv, WellTyped
<1>8. CASE HStepBack
  BY <1>8, StepBackKeeps
<1>9. CASE HLink \/ UNCHANGED allVars
  BY <1>9, LinkKeeps
<1> QED BY <1>1, <1>2, <1>3, <1>4, <1>5, <1>6, <1>7, <1>8, <1>9 DEF HNext, HAgent

(* The inductive invariant holds throughout. *)
THEOREM InvariantHolds == HSpec => []IInv
<1>1. HInit => IInv
  BY InitLemma
<1>2. IInv /\ [HNext]_allVars => IInv'
  BY StepLemma
<1> QED BY <1>1, <1>2, PTL DEF HSpec

(* An outage loses nothing while the clock runs forward: whatever the link *)
(* and the server do with a post, a frame leaves Uplink.send, the spool or *)
(* the hands of the agent only once it was processed, when the agent is    *)
(* killed while it holds it in memory, or when a step back of the clock    *)
(* gives its name to a later frame.                                        *)
THEOREM LossesHaveACauseHolds == HSpec => LossesHaveACause
<1>1. IInv /\ [HNext]_allVars =>
          [\A f \in Kept \ Kept' : \/ f \in processed'
                                   \/ restarts' > restarts /\ f = hand
                                   \/ f \notin recent]_allVars
  BY StepLemma
<1> QED BY <1>1, InvariantHolds, PTL DEF HSpec, LossesHaveACause

(* Uplink._drain and Uplink.send make the server process a frame again at  *)
(* most once for each answer that was lost and each kill between an answer *)
(* and its unlink.                                                         *)
THEOREM DuplicatesHaveACauseHolds == HSpec => []DuplicatesHaveACause
<1>1. IInv => DuplicatesHaveACause
  <2> SUFFICES ASSUME IInv PROVE DuplicatesHaveACause
    OBVIOUS
  <2>1. /\ extra \in Nat /\ lostAnswers \in Nat /\ restarts \in Nat /\ IsFiniteSet(Kept)
        /\ Cardinality(Kept \intersect processed) \in Nat
    BY FS_Intersection, FS_CardinalityType DEF IInv, WellTyped, Repeats
  <2>2. CASE pc # "unlink"
    BY <2>1, <2>2 DEF IInv, Repeats, DuplicatesHaveACause
  <2>3. CASE pc = "unlink"
    <3>1. Oldest \in Kept \intersect processed
      BY <2>3, HeadLemma DEF IInv, UnlinkedIsProcessed
    <3>2. Cardinality(Kept \intersect processed) # 0
      BY <2>1, <3>1, FS_Intersection, FS_EmptySet
    <3> QED BY <2>1, <2>3, <3>2 DEF IInv, Repeats, DuplicatesHaveACause
  <2> QED BY <2>2, <2>3
<1> QED BY <1>1, InvariantHolds, PTL

(* Sorting names that come from the clock puts the files of an outage in   *)
(* the order run took their frames, whatever was sent, lost, torn,         *)
(* replayed or written over before, as far as the clock was not stepped    *)
(* back between the two.                                                   *)
THEOREM ReplayIsInOrderHolds == HSpec => []ReplayIsInOrder
<1>1. IInv => ReplayIsInOrder
  <2> SUFFICES ASSUME IInv, pc = "drain", NEW f \in Held, <<f, Oldest>> \in before
               PROVE  FALSE
    BY DEF ReplayIsInOrder
  <2>1. /\ spool \in Seq(Files) /\ Len(spool) > 0 /\ Oldest = spool[1].frame
        /\ f \in Names(spool)
    BY HeadLemma DEF IInv, WellTyped, Oldest
  <2>2. PICK i \in 1 .. Len(spool) : spool[i].frame = f
    BY <2>1, NamesLemma
  <2>3. 1 \in 1 .. Len(spool) /\ ~(i < 1)
    BY <2>1, <2>2
  <2> QED BY <2>1, <2>2, <2>3 DEF IInv, InOrder
<1> QED BY <1>1, InvariantHolds, PTL
=============================================================================
