--------------------------- MODULE AppStateProofs ---------------------------
(***************************************************************************)
(* Proofs about the API process (module AppState), for any cameras, people,*)
(* zones, times, spans, and any number of requests and mishaps.            *)
(*                                                                         *)
(* IInv says of each camera that the two dictionaries of its engine are in *)
(* step and go back to frames (SightingsAreShown, StaysHaveSightings), and *)
(* that what the engines returned is stored or on its way.  SharedInv adds *)
(* the live count and the answers.  The first part of the module is about  *)
(* one update and the fold over its events, in whichever order the code    *)
(* hands them to the handlers; the second about requests and the database; *)
(* the last about the state the cameras of a location share.               *)
(***************************************************************************)
EXTENDS AppState, FiniteSetTheorems, WellFoundedInduction, TLAPS

---------------------------------------------------------------------------
(* What update leaves of a camera's last sightings. *)
LEMMA SeenAfter ==
    ASSUME NEW seen, NEW f, NEW ts \in Int,
           \A t \in DOMAIN seen : seen[t] \in Int
    PROVE  /\ \A t : t \in DOMAIN Z!UpdateSeen(seen, f, ts) <=>
                  t \in f.visible \/ (t \in DOMAIN seen /\ ts - seen[t] <= MaxSilence)
           /\ \A t \in DOMAIN Z!UpdateSeen(seen, f, ts) :
                  Z!UpdateSeen(seen, f, ts)[t] = IF t \in f.visible THEN ts ELSE seen[t]
BY EngineAssumption DEF Z!UpdateSeen, Z!SeenAfterExpire, Z!SeenNow, Z!Silent

(* What update does to the stays and says of it: a key the frame shows     *)
(* inside is open afterwards and any other was open before; who opens      *)
(* enters, who closes exits, each in one event.                            *)
StaysMove(enter, seen, f, ts, after) ==
    /\ f.present \subseteq after
    /\ after \subseteq DOMAIN enter \union f.present
    /\ \A k \in after \ f.present :
           Z!Tid(k) \notin f.visible /\ ts - seen[Z!Tid(k)] <= MaxSilence

EventsTell(enter, f, events, after) ==
    /\ \A ev \in events :
           \/ ev.type = "enter" /\ ev.key \in f.present \ DOMAIN enter
           \/ ev.type = "exit" /\ ev.key \in DOMAIN enter \ after
    /\ \A k \in f.present \ DOMAIN enter :
           \E ev \in events : ev.type = "enter" /\ ev.key = k
    /\ \A k \in DOMAIN enter \ after :
           \E ev \in events : ev.type = "exit" /\ ev.key = k
    /\ \A ev, other \in events : ev.key = other.key => ev = other

LEMMA StaysAfter ==
    ASSUME NEW enter, NEW seen, NEW f \in Z!Frames, NEW ts \in Int,
           \A t \in DOMAIN seen : seen[t] \in Int,
           \A k \in DOMAIN enter : Z!Tid(k) \in DOMAIN seen
    PROVE  /\ StaysMove(enter, seen, f, ts, DOMAIN Z!UpdateEnter(enter, seen, f, ts))
           /\ EventsTell(enter, f, Z!UpdateEvents(enter, seen, f, ts),
                         DOMAIN Z!UpdateEnter(enter, seen, f, ts))
<1> DEFINE s == Z!SeenNow(seen, f, ts)
           e == Z!EnterNow(enter, f, ts)
           gone == Z!LeftKeys(e, s, f, ts)
           silent == Z!ExpiredKeys(Z!Without(e, gone), s, ts)
           events == Z!UpdateEvents(enter, seen, f, ts)
           after == DOMAIN Z!UpdateEnter(enter, seen, f, ts)
           In(k) == Z!EnterEvent(k, ts)
           Out(k) == Z!ExitEvent(e, k, ts)
           Late(k) == Z!ExitEvent(Z!Without(e, gone), k, s[Z!Tid(k)])
<1>1. /\ DOMAIN e = DOMAIN enter \union f.present
      /\ \A k \in DOMAIN e : Z!Tid(k) \in DOMAIN s
      /\ \A k \in DOMAIN e : s[Z!Tid(k)] = IF Z!Tid(k) \in f.visible THEN ts ELSE seen[Z!Tid(k)]
      /\ \A k \in f.present : Z!Tid(k) \in f.visible
      /\ \A k \in DOMAIN e : Z!Tid(k) \notin f.visible => seen[Z!Tid(k)] \in Int
  BY DEF Z!EnterNow, Z!SeenNow, Z!Frames
<1>2. after = DOMAIN e \ (gone \union Z!ExpiredKeys(e, s, ts))
  BY DEF Z!UpdateEnter, Z!Without
<1>3. silent = Z!ExpiredKeys(e, s, ts) \ gone
  BY DEF Z!ExpiredKeys, Z!Without
<1>4. \A k : k \in gone <=> k \in DOMAIN e \ f.present /\ s[Z!Tid(k)] = ts
  BY <1>1 DEF Z!LeftKeys
<1>5. \A k : k \in Z!ExpiredKeys(e, s, ts) <=> k \in DOMAIN e /\ ts - s[Z!Tid(k)] > MaxSilence
  BY <1>1 DEF Z!ExpiredKeys, Z!Silent
<1>6. \A k \in Z!ExpiredKeys(e, s, ts) : k \notin f.present
  BY <1>1, <1>5, EngineAssumption
<1>7. DOMAIN enter \ after = gone \union silent /\ gone \intersect silent = {}
  BY <1>1, <1>2, <1>3, <1>4, <1>5, <1>6
<1>8. \A ev : ev \in events <=>
          \/ \E k \in f.present \ DOMAIN enter : ev = In(k)
          \/ \E k \in gone : ev = Out(k)
          \/ \E k \in silent : ev = Late(k)
  BY DEF Z!UpdateEvents, Z!ExpireEvents, Z!EnteredKeys
<1>9. \A k : /\ In(k).type = "enter" /\ In(k).key = k
             /\ Out(k).type = "exit" /\ Out(k).key = k
             /\ Late(k).type = "exit" /\ Late(k).key = k
  BY DEF Z!EnterEvent, Z!ExitEvent
<1>10. \A k \in after \ f.present :
          Z!Tid(k) \notin f.visible /\ ts - seen[Z!Tid(k)] <= MaxSilence
  <2> SUFFICES ASSUME NEW k \in after \ f.present
               PROVE  Z!Tid(k) \notin f.visible /\ ts - seen[Z!Tid(k)] <= MaxSilence
    OBVIOUS
  <2>1. k \in DOMAIN e /\ s[Z!Tid(k)] # ts /\ ~(ts - s[Z!Tid(k)] > MaxSilence)
    BY <1>2, <1>4, <1>5
  <2>2. Z!Tid(k) \notin f.visible
    BY <1>1, <2>1
  <2> QED BY <1>1, <2>1, <2>2, EngineAssumption
<1>11. f.present \subseteq after /\ after \subseteq DOMAIN enter \union f.present
  BY <1>1, <1>2, <1>4, <1>6
<1> HIDE DEF s, e, gone, silent, events, after, In, Out, Late
<1>12. \A ev \in events :
          \/ ev.type = "enter" /\ ev.key \in f.present \ DOMAIN enter
          \/ ev.type = "exit" /\ ev.key \in DOMAIN enter \ after
  BY <1>7, <1>8, <1>9
<1>13. /\ \A k \in f.present \ DOMAIN enter : \E ev \in events : ev.type = "enter" /\ ev.key = k
       /\ \A k \in DOMAIN enter \ after : \E ev \in events : ev.type = "exit" /\ ev.key = k
  BY <1>7, <1>8, <1>9
<1>14. ASSUME NEW ev \in events, NEW other \in events, ev.key = other.key PROVE ev = other
  <2>1. CASE ev.key \in f.present \ DOMAIN enter
    <3>1. ev = In(ev.key)
      BY <1>7, <1>8, <1>9, <1>11, <2>1
    <3>2. other = In(ev.key)
      BY <1>7, <1>8, <1>9, <1>11, <1>14, <2>1
    <3> QED BY <3>1, <3>2
  <2>2. CASE ev.key \in gone
    <3>1. ev = Out(ev.key)
      BY <1>7, <1>8, <1>9, <1>11, <2>2
    <3>2. other = Out(ev.key)
      BY <1>7, <1>8, <1>9, <1>11, <1>14, <2>2
    <3> QED BY <3>1, <3>2
  <2>3. CASE ev.key \in silent
    <3>1. ev = Late(ev.key)
      BY <1>7, <1>8, <1>9, <1>11, <2>3
    <3>2. other = Late(ev.key)
      BY <1>7, <1>8, <1>9, <1>11, <1>14, <2>3
    <3> QED BY <3>1, <3>2
  <2> QED BY <1>7, <1>12, <2>1, <2>2, <2>3
<1>15. StaysMove(enter, seen, f, ts, after) /\ EventsTell(enter, f, events, after)
  BY <1>10, <1>11, <1>12, <1>13, <1>14 DEF StaysMove, EventsTell
<1> QED BY <1>15 DEF events, after

---------------------------------------------------------------------------
(* A batch is the events of an update, each of them once. *)
LEMMA BatchesHoldTheEvents ==
    ASSUME NEW events, IsFiniteSet(events), NEW ts, NEW batch \in Batches(events, ts)
    PROVE  /\ DOMAIN batch = 1 .. Cardinality(events) /\ Cardinality(events) \in Nat
           /\ \A i \in DOMAIN batch : batch[i] \in events
           /\ \A e \in events : \E i \in DOMAIN batch : batch[i] = e
           /\ ToSet(batch) = events
           /\ batch = <<>> => events = {}
<1> DEFINE n == Cardinality(events)
<1>1. n \in Nat
  BY FS_CardinalityType
<1>2. batch \in [1 .. n -> events] /\ \A i, j \in 1 .. n : i # j => batch[i] # batch[j]
  BY DEF Batches, SetToSeqs
<1>3. batch \in Injection(1 .. n, events)
  BY <1>2 DEF Injection, IsInjective
<1>4. IsFiniteSet(1 .. n) /\ Cardinality(1 .. n) = n
  BY <1>1, FS_Interval
<1>5. batch \in Surjection(1 .. n, events)
  BY <1>3, <1>4, FS_Injection
<1>6. \A e \in events : \E i \in 1 .. n : batch[i] = e
  BY <1>5 DEF Surjection
<1>7. ToSet(batch) = events
  BY <1>2, <1>6 DEF ToSet
<1>8. batch = <<>> => events = {}
  BY <1>2, <1>6
<1> QED BY <1>1, <1>2, <1>6, <1>7, <1>8

LEMMA EventsAreFinite ==
    ASSUME NEW enter, NEW seen, NEW f \in Z!Frames, NEW ts \in Int,
           \A t \in DOMAIN seen : seen[t] \in Int,
           \A k \in DOMAIN enter : k \in Z!Keys /\ Z!Tid(k) \in DOMAIN seen
    PROVE  IsFiniteSet(Z!UpdateEvents(enter, seen, f, ts))
<1> DEFINE events == Z!UpdateEvents(enter, seen, f, ts)
           keys == [ev \in events |-> ev.key]
<1>1. IsFiniteSet(Z!Keys)
  BY EngineAssumption, FS_Product DEF Z!Keys
<1>2. \A k \in f.present : k \in Z!Keys
  BY DEF Z!Frames
<1>3. /\ \A ev \in events : ev.key \in f.present \union DOMAIN enter
      /\ \A ev, other \in events : ev.key = other.key => ev = other
  BY StaysAfter DEF EventsTell
<1> HIDE DEF events
<1>4. keys \in Injection(events, Z!Keys)
  BY <1>2, <1>3 DEF Injection, IsInjective
<1>5. IsFiniteSet(events)
  BY <1>1, <1>4, FS_Injection
<1> QED BY <1>5 DEF events

---------------------------------------------------------------------------
(* Induction, of a set that holds the numbers for which a claim is true.   *)
LEMMA Induction ==
    ASSUME NEW S, 0 \in S, \A m \in Nat : m \in S => m + 1 \in S
    PROVE  \A m \in Nat : m \in S
<1> DEFINE Less == {pair \in Nat \X Nat : pair[1] < pair[2]}
           rest == Nat \ S
<1>1. IsWellFoundedOn(Less, Nat)
  BY NatLessThanWellFounded DEF OpToRel
<1>2. \A m, n \in Nat : m < n => <<m, n>> \in Less
  OBVIOUS
<1> HIDE DEF Less
<1>3. rest = {}
  <2> SUFFICES ASSUME rest # {} PROVE FALSE
    OBVIOUS
  <2>1. PICK m \in rest : \A n \in rest : ~(<<n, m>> \in Less)
    BY <1>1, WFMin
  <2>2. m \in Nat /\ m - 1 \in Nat /\ m - 1 < m
    BY <2>1
  <2>3. <<m - 1, m>> \in Less
    BY <1>2, <2>2
  <2>4. m - 1 \notin rest
    BY <2>1, <2>3
  <2> QED BY <2>1, <2>2, <2>4
<1> QED BY <1>3

(* A handler called for every event of a batch: q[i] is who is in the      *)
(* queue after the first i, of whom in[j] come and out[j] go with the j-th.*)
(* As nobody does both, the order does not matter.                         *)
LEMMA RunOfSets ==
    ASSUME NEW n \in Nat, NEW q, NEW in, NEW out,
           \A i \in 1 .. n : \A p : p \in q[i] <=> p \in in[i] \/ (p \in q[i - 1] /\ p \notin out[i]),
           \A p : \A i, j \in 1 .. n : ~(p \in in[i] /\ p \in out[j])
    PROVE  \A p : p \in q[n] <=>
               \/ \E i \in 1 .. n : p \in in[i]
               \/ p \in q[0] /\ \A i \in 1 .. n : p \notin out[i]
<1> SUFFICES ASSUME NEW p
             PROVE  p \in q[n] <=>
                        \/ \E i \in 1 .. n : p \in in[i]
                        \/ p \in q[0] /\ \A i \in 1 .. n : p \notin out[i]
  OBVIOUS
<1> DEFINE Right(m) == p \in q[m] <=> \/ \E i \in 1 .. m : p \in in[i]
                                      \/ p \in q[0] /\ \A i \in 1 .. m : p \notin out[i]
<1>1. Right(0)
  OBVIOUS
<1>2. ASSUME NEW m \in 1 .. n, Right(m - 1) PROVE Right(m)
  <2>1. p \in q[m] <=> p \in in[m] \/ (p \in q[m - 1] /\ p \notin out[m])
    OBVIOUS
  <2>2. \A i \in 1 .. m : i = m \/ i \in 1 .. m - 1
    OBVIOUS
  <2>3. m \in 1 .. m /\ \A i \in 1 .. m - 1 : i \in 1 .. m /\ i \in 1 .. n
    OBVIOUS
  <2>4. (\E i \in 1 .. m : p \in in[i]) <=> p \in in[m] \/ \E i \in 1 .. m - 1 : p \in in[i]
    BY <2>2, <2>3
  <2>5. (\A i \in 1 .. m : p \notin out[i]) <=> p \notin out[m] /\ \A i \in 1 .. m - 1 : p \notin out[i]
    BY <2>2, <2>3
  <2>6. (\E i \in 1 .. m - 1 : p \in in[i]) => p \notin out[m]
    BY <2>3
  <2> QED BY <1>2, <2>1, <2>4, <2>5, <2>6
<1> DEFINE right == {m \in Nat : m <= n => Right(m)}
<1> HIDE DEF Right
<1>3. \A m \in Nat : m \in right
  <2>1. 0 \in right
    BY <1>1
  <2>2. ASSUME NEW m \in Nat, m \in right PROVE m + 1 \in right
    <3> SUFFICES ASSUME m + 1 <= n PROVE Right(m + 1)
      OBVIOUS
    <3>1. m + 1 \in 1 .. n /\ (m + 1) - 1 = m /\ Right(m)
      BY <2>2
    <3> QED BY <1>2, <3>1
  <2> HIDE DEF right
  <2> QED BY <2>1, <2>2, Induction
<1>4. Right(n)
  BY <1>3
<1> QED BY <1>4 DEF Right

(* What the fold of WaitAfter computes, event by event. *)
Step(c, st, e) == W!OnZoneEvent(st, WaitEvent(c, e))

LEMMA MaxOfInterval ==
    ASSUME NEW n \in Nat \ {0}, NEW s \in SUBSET (1 .. n), n \in s
    PROVE  Max(s) = n
<1>1. \A i \in s : n >= i
  OBVIOUS
<1>2. \A i \in s : i \in Int
  OBVIOUS
<1>3. ASSUME NEW x \in s, \A y \in s : x >= y PROVE x = n
  BY <1>1, <1>2, <1>3
<1>4. Max(s) \in s /\ \A y \in s : Max(s) >= y
  BY <1>1 DEF Max
<1> QED BY <1>3, <1>4

IsRun(c, batch, st, n, it) ==
    it = [s \in SUBSET (1 .. n) |->
             IF s = {} THEN st ELSE Step(c, it[s \ {Max(s)}], batch[Max(s)])]

LEMMA RunsExist ==
    ASSUME NEW c, NEW batch, NEW st, NEW n \in Nat
    PROVE  \E it : IsRun(c, batch, st, n, it)
<1> DEFINE with == {m \in Nat : \E it : IsRun(c, batch, st, m, it)}
<1>1. \E it : IsRun(c, batch, st, 0, it)
  <2> DEFINE it == [s \in SUBSET (1 .. 0) |-> st]
  <2>1. \A s \in SUBSET (1 .. 0) : s = {}
    OBVIOUS
  <2>2. it = [s \in SUBSET (1 .. 0) |->
                 IF s = {} THEN st ELSE Step(c, it[s \ {Max(s)}], batch[Max(s)])]
    BY <2>1
  <2> QED BY <2>2 DEF IsRun
<1>2. ASSUME NEW m \in Nat, NEW g, IsRun(c, batch, st, m, g)
      PROVE  \E it : IsRun(c, batch, st, m + 1, it)
  <2> DEFINE it == [s \in SUBSET (1 .. m + 1) |->
                       IF m + 1 \in s THEN Step(c, g[s \ {m + 1}], batch[m + 1]) ELSE g[s]]
  <2>1. ASSUME NEW s \in SUBSET (1 .. m + 1)
        PROVE  it[s] = IF s = {} THEN st ELSE Step(c, it[s \ {Max(s)}], batch[Max(s)])
    <3>1. CASE m + 1 \in s
      <4>1. Max(s) = m + 1
        BY <3>1, MaxOfInterval
      <4>2. it[s \ {m + 1}] = g[s \ {m + 1}]
        OBVIOUS
      <4> QED BY <3>1, <4>1, <4>2
    <3>2. CASE m + 1 \notin s
      <4>1. s \in SUBSET (1 .. m) /\ s \ {Max(s)} \in SUBSET (1 .. m)
        <5>1. \A i \in s : i \in 1 .. m + 1 /\ i # m + 1
          BY <3>2
        <5>2. \A i \in s : i \in 1 .. m
          BY <5>1
        <5> QED BY <5>2
      <4>2. g[s] = IF s = {} THEN st ELSE Step(c, g[s \ {Max(s)}], batch[Max(s)])
        BY <1>2, <4>1 DEF IsRun
      <4>3. it[s] = g[s] /\ it[s \ {Max(s)}] = g[s \ {Max(s)}]
        BY <3>2
      <4> QED BY <4>2, <4>3
    <3> QED BY <3>1, <3>2
  <2>2. it = [s \in SUBSET (1 .. m + 1) |->
                 IF s = {} THEN st ELSE Step(c, it[s \ {Max(s)}], batch[Max(s)])]
    BY <2>1
  <2> QED BY <2>2 DEF IsRun
<1>3. \A m \in Nat : m \in with
  <2>1. 0 \in with
    BY <1>1
  <2>2. \A m \in Nat : m \in with => m + 1 \in with
    BY <1>2
  <2> HIDE DEF with
  <2> QED BY <2>1, <2>2, Induction
<1> QED BY <1>3

Unfolds(c, batch, st, n, q) ==
    /\ q[0] = st
    /\ \A i \in 1 .. n : q[i] = Step(c, q[i - 1], batch[i])
    /\ WaitAfter(c, batch, st) = q[n]

LEMMA WaitAfterUnfolds ==
    ASSUME NEW c, NEW batch, NEW st, NEW n \in Nat, DOMAIN batch = 1 .. n
    PROVE  \E q : Unfolds(c, batch, st, n, q)
<1> DEFINE it == CHOOSE it : IsRun(c, batch, st, n, it)
           q == [i \in 0 .. n |-> it[1 .. i]]
<1>1. WaitAfter(c, batch, st) = it[1 .. n]
  BY Zenon DEF WaitAfter, FoldLeft, MapThenFoldSet, Step, IsRun
<1>2. IsRun(c, batch, st, n, it)
  BY RunsExist
<1> HIDE DEF it
<1>3. \A s \in SUBSET (1 .. n) :
          it[s] = IF s = {} THEN st ELSE Step(c, it[s \ {Max(s)}], batch[Max(s)])
  BY <1>2 DEF IsRun
<1>4. q[0] = st
  <2>1. 1 .. 0 = {} /\ {} \in SUBSET (1 .. n)
    OBVIOUS
  <2>2. it[{}] = st
    BY <1>3, <2>1
  <2>3. q[0] = it[1 .. 0]
    OBVIOUS
  <2> QED BY <2>1, <2>2, <2>3
<1>5. ASSUME NEW i \in 1 .. n PROVE q[i] = Step(c, q[i - 1], batch[i])
  <2>1. i \in Nat \ {0} /\ 1 .. i \in SUBSET (1 .. n) /\ i \in 1 .. i
    OBVIOUS
  <2>2. Max(1 .. i) = i
    BY <2>1, MaxOfInterval
  <2>3. (1 .. i) \ {i} = 1 .. i - 1
    BY <2>1
  <2>4. it[1 .. i] = Step(c, it[1 .. i - 1], batch[i])
    BY <1>3, <2>1, <2>2, <2>3
  <2> QED BY <2>4
<1>6. WaitAfter(c, batch, st) = q[n]
  BY <1>1
<1>7. Unfolds(c, batch, st, n, q)
  BY <1>4, <1>5, <1>6 DEF Unfolds
<1> QED BY <1>7

(* What an event of the camera does to the queue of its location. *)
Comes(c, e, p) == e.type = "enter" /\ e.key[2] = "queue" /\ p = Who(c, e.key)
Goes(c, e, p) == e.type # "enter" /\ e.key[2] = "queue" /\ p = Who(c, e.key)

HasQueue(st) == "inQueue" \in DOMAIN st

LEMMA TrimKeepsQueue ==
    ASSUME NEW st, HasQueue(st), NEW now
    PROVE  HasQueue(W!Trim(st, now)) /\ W!Trim(st, now).inQueue = st.inQueue
BY DEF W!Trim, HasQueue

LEMMA HeardKeepsQueue ==
    ASSUME NEW st, HasQueue(st), NEW now
    PROVE  HasQueue(W!Heard(st, now)) /\ W!Heard(st, now).inQueue = st.inQueue
BY DEF W!Heard, HasQueue

LEMMA StepOfTheQueue ==
    ASSUME NEW c, NEW st, HasQueue(st), NEW e
    PROVE  /\ HasQueue(Step(c, st, e))
           /\ \A p : p \in Step(c, st, e).inQueue <=>
                         Comes(c, e, p) \/ (p \in st.inQueue /\ ~Goes(c, e, p))
<1> DEFINE ev == WaitEvent(c, e)
           heard == W!Heard(st, ev.ts)
           counted == W!Counted(heard, ev)
<1>1. ev.type = e.type /\ ev.zone = e.key[2] /\ ev.who = Who(c, e.key)
  BY DEF WaitEvent
<1>2. HasQueue(heard) /\ heard.inQueue = st.inQueue
  BY HeardKeepsQueue
<1>3. Step(c, st, e) = IF ev.zone = "queue" THEN W!Trim(counted, ev.ts) ELSE heard
  BY DEF Step, W!OnZoneEvent
<1> HIDE DEF ev, heard
<1>4. /\ HasQueue(counted)
      /\ counted.inQueue = IF ev.type = "enter" THEN heard.inQueue \union {ev.who}
                                                ELSE heard.inQueue \ {ev.who}
  BY <1>2 DEF W!Counted, HasQueue
<1> HIDE DEF counted
<1>5. CASE e.key[2] = "queue"
  <2>1. HasQueue(Step(c, st, e)) /\ Step(c, st, e).inQueue = counted.inQueue
    BY <1>1, <1>3, <1>4, <1>5, TrimKeepsQueue
  <2> QED BY <1>1, <1>2, <1>4, <1>5, <2>1 DEF Comes, Goes
<1>6. CASE e.key[2] # "queue"
  BY <1>1, <1>2, <1>3, <1>6 DEF Comes, Goes
<1> QED BY <1>5, <1>6

(* Who is in the queue after a batch: the order inside it does not matter, *)
(* as no key both enters and leaves.                                       *)
LEMMA QueueAfter ==
    ASSUME NEW c, NEW batch, NEW st, NEW n \in Nat, DOMAIN batch = 1 .. n, HasQueue(st),
           \A i, j \in 1 .. n : \A p : ~(Comes(c, batch[i], p) /\ Goes(c, batch[j], p))
    PROVE  /\ HasQueue(WaitAfter(c, batch, st))
           /\ \A p : p \in WaitAfter(c, batch, st).inQueue <=>
                  \/ \E i \in 1 .. n : Comes(c, batch[i], p)
                  \/ p \in st.inQueue /\ \A i \in 1 .. n : ~Goes(c, batch[i], p)
<1>0. PICK q : Unfolds(c, batch, st, n, q)
  BY WaitAfterUnfolds
<1>1. /\ q[0] = st
      /\ \A i \in 1 .. n : q[i] = Step(c, q[i - 1], batch[i])
      /\ WaitAfter(c, batch, st) = q[n]
  BY <1>0 DEF Unfolds
<1>2. \A i \in Nat : i <= n => HasQueue(q[i])
  <2> DEFINE has == {i \in Nat : i <= n => HasQueue(q[i])}
  <2>1. 0 \in has
    BY <1>1
  <2>2. ASSUME NEW i \in Nat, i \in has PROVE i + 1 \in has
    <3> SUFFICES ASSUME i + 1 <= n PROVE HasQueue(q[i + 1])
      OBVIOUS
    <3>1. i + 1 \in 1 .. n /\ (i + 1) - 1 = i /\ HasQueue(q[i])
      BY <2>2
    <3>2. q[i + 1] = Step(c, q[i], batch[i + 1])
      BY <1>1, <3>1
    <3> QED BY <3>1, <3>2, StepOfTheQueue
  <2> HIDE DEF has
  <2>3. \A i \in Nat : i \in has
    BY <2>1, <2>2, Induction
  <2> QED BY <2>3 DEF has
<1> DEFINE people == [i \in 0 .. n |-> q[i].inQueue]
           in == [i \in 1 .. n |-> IF Comes(c, batch[i], Who(c, batch[i].key))
                                      THEN {Who(c, batch[i].key)} ELSE {}]
           out == [i \in 1 .. n |-> IF Goes(c, batch[i], Who(c, batch[i].key))
                                       THEN {Who(c, batch[i].key)} ELSE {}]
<1>3. \A i \in 1 .. n : \A p : /\ p \in in[i] <=> Comes(c, batch[i], p)
                               /\ p \in out[i] <=> Goes(c, batch[i], p)
  BY DEF Comes, Goes
<1>4. \A i \in 0 .. n : people[i] = q[i].inQueue
  OBVIOUS
<1> HIDE DEF people, in, out
<1>5. ASSUME NEW i \in 1 .. n, NEW p
      PROVE  p \in people[i] <=> p \in in[i] \/ (p \in people[i - 1] /\ p \notin out[i])
  <2>1. i \in 0 .. n /\ i - 1 \in 0 .. n
    OBVIOUS
  <2>2. HasQueue(q[i - 1]) /\ q[i] = Step(c, q[i - 1], batch[i])
    BY <1>1, <1>2, <2>1
  <2>3. p \in q[i].inQueue <=>
            Comes(c, batch[i], p) \/ (p \in q[i - 1].inQueue /\ ~Goes(c, batch[i], p))
    BY <2>2, StepOfTheQueue
  <2> QED BY <1>3, <1>4, <2>1, <2>3
<1>6. \A p : \A i, j \in 1 .. n : ~(p \in in[i] /\ p \in out[j])
  BY <1>3
<1>7. \A p : p \in people[n] <=>
          \/ \E i \in 1 .. n : p \in in[i]
          \/ p \in people[0] /\ \A i \in 1 .. n : p \notin out[i]
  BY ONLY n \in Nat, <1>5, <1>6, RunOfSets
<1>8. people[0] = st.inQueue /\ people[n] = WaitAfter(c, batch, st).inQueue
  BY <1>1, <1>4
<1>9. HasQueue(WaitAfter(c, batch, st))
  BY <1>1, <1>2
<1> QED BY <1>3, <1>7, <1>8, <1>9

LEMMA SameCardinality == ASSUME NEW S PROVE W!Cardinality(S) = Cardinality(S)
BY Zenon DEF Cardinality, W!Cardinality

(* An estimate that says vision counts the people in the queue. *)
LEMMA VisionCountsTheQueue ==
    ASSUME NEW st, HasQueue(st), NEW now, W!Estimate(st, now).source = "vision"
    PROVE  W!Estimate(st, now).queueLength = Cardinality(st.inQueue)
<1> DEFINE t == W!Trim(st, now)
           q == Cardinality(t.inQueue)
<1>1. t.inQueue = st.inQueue
  BY TrimKeepsQueue
<1> HIDE DEF t
<1>2. W!PosOnlyEstimate(t, now).source # "vision"
  BY DEF W!PosOnlyEstimate, W!Build, W!Unknown
<1>3. W!VisionEstimate(t).queueLength = q
  <2> DEFINE dwells == [i \in 1 .. Len(t.dwell) |-> t.dwell[i][2]]
             n == Len(dwells)
             pos == W!PosEstimate(t, q)
             enough == n >= MinSamples
             few == n < MinSamples
             some == q > 0
             none == q = 0
             known == pos # Absent
             byDwells == W!Build(q, W!Percentile(dwells, 5), W!Percentile(dwells, 9), "vision", n)
             empty == W!Build(0, <<0, 1>>, <<0, 1>>, "vision", n)
             byOrders == W!Build(q, pos, W!OneAndAHalf(pos), "vision", n)
             unknown == W!Unknown(q, "vision", n)
  <2>1. /\ byDwells.queueLength = q /\ empty.queueLength = 0
        /\ byOrders.queueLength = q /\ unknown.queueLength = q
    BY DEF W!Build, W!Unknown
  <2>2. none => q = 0
    OBVIOUS
  <2>3. W!VisionEstimate(t) = CASE enough -> byDwells
                                [] few /\ none -> empty
                                [] few /\ some /\ known -> byOrders
                                [] OTHER -> unknown
    BY SameCardinality DEF W!VisionEstimate
  <2> HIDE DEF byDwells, empty, byOrders, unknown, enough, few, some, none, known, q
  <2> QED BY <2>1, <2>2, <2>3
<1>4. W!Estimate(st, now) = IF W!VideoOk(t, now) THEN W!VisionEstimate(t)
                                                ELSE W!PosOnlyEstimate(t, now)
  BY DEF W!Estimate, t
<1> QED BY <1>1, <1>2, <1>3, <1>4

---------------------------------------------------------------------------
(* The inductive invariant. *)
IsTask(s) ==
    \/ IsFrameTask(s) /\ "camera" \in DOMAIN s /\ s.camera \in Cameras
    \/ ~IsFrameTask(s) /\ s.account \in Accounts

TypeInv ==
    /\ DOMAIN engine = Cameras /\ DOMAIN film = Cameras /\ DOMAIN lastTs = Cameras
    /\ DOMAIN wait = Locations /\ \A l \in Locations : HasQueue(wait[l])
    /\ DOMAIN published = Accounts
    /\ \A s \in saving : IsTask(s)

SightingsAreShown(c) ==
    \A t \in DOMAIN engine[c].seen :
        LET u == engine[c].seen[t]
        IN  /\ u \in Int /\ u \in DOMAIN film[c]
            /\ t \in film[c][u].visible
            /\ lastTs[c] - u <= MaxSilence

StaysHaveSightings(c) ==
    \A k \in DOMAIN engine[c].enter : k \in Z!Keys /\ Z!Tid(k) \in DOMAIN engine[c].seen

IInv ==
    /\ TypeInv
    /\ \A c \in Cameras : SightingsAreShown(c) /\ StaysHaveSightings(c)
    /\ EventsArePersisted

LEMMA InitIInv == Init => IInv
<1> SUFFICES ASSUME Init PROVE IInv
  OBVIOUS
<1>1. TypeInv
  BY DEF Init, TypeInv, HasQueue, W!EmptyLocation
<1>2. \A c \in Cameras : SightingsAreShown(c) /\ StaysHaveSightings(c)
  BY DEF Init, SightingsAreShown, StaysHaveSightings, NewEngine
<1>3. EventsArePersisted
  BY DEF Init, EventsArePersisted
<1> QED BY <1>1, <1>2, <1>3 DEF IInv

(* What publishing an estimate does: it moves nobody, and tells of the     *)
(* queue it finds.                                                         *)
SameQueues(waits) ==
    /\ DOMAIN wait' = Locations
    /\ \A l \in Locations : HasQueue(wait'[l]) /\ wait'[l].inQueue = waits[l].inQueue

TellsTheQueue(a) ==
    /\ DOMAIN published' = Accounts
    /\ \A b \in Accounts : b # a => published'[b] = published[b]
    /\ published'[a].source = "vision" =>
           published'[a].queueLength = Cardinality(wait'[a[2]].inQueue)

HaveQueues(waits) == DOMAIN waits = Locations /\ \A l \in Locations : HasQueue(waits[l])

LEMMA PublishLemma ==
    ASSUME NEW a \in Accounts, NEW now, NEW waits, HaveQueues(waits),
           DOMAIN published = Accounts, Publish(a, now, waits)
    PROVE  SameQueues(waits) /\ TellsTheQueue(a)
<1> DEFINE l == a[2]
           est == W!Estimate(waits[l], now)
           st == W!Trim(waits[l], now)
<1>1. l \in Locations
  BY DEF Accounts, Locations
<1>2. HasQueue(st) /\ st.inQueue = waits[l].inQueue
  BY <1>1, TrimKeepsQueue DEF HaveQueues
<1>3. est.source = "vision" => est.queueLength = Cardinality(waits[l].inQueue)
  BY <1>1, VisionCountsTheQueue DEF HaveQueues
<1>4. published' = [published EXCEPT ![a] = est] /\ wait' = [waits EXCEPT ![l] = st]
  BY DEF Publish
<1> HIDE DEF est, st, l
<1>5. SameQueues(waits)
  BY <1>1, <1>2, <1>4 DEF SameQueues, HaveQueues
<1>6. published'[a] = est /\ wait'[l].inQueue = waits[l].inQueue
  BY <1>1, <1>4, <1>5 DEF SameQueues
<1>7. TellsTheQueue(a)
  BY <1>3, <1>4, <1>6 DEF TellsTheQueue, l
<1> QED BY <1>5, <1>7

(* What Frame does, in the terms of the lemmas above. *)
FrameEvents(c, f, ts) == Z!UpdateEvents(engine[c].enter, engine[c].seen, f, ts)

Updates(c, f, ts) ==
    /\ DOMAIN engine' = Cameras /\ DOMAIN film' = Cameras /\ DOMAIN lastTs' = Cameras
    /\ \A d \in Cameras :
           d # c => engine'[d] = engine[d] /\ film'[d] = film[d] /\ lastTs'[d] = lastTs[d]
    /\ engine'[c].enter = Z!UpdateEnter(engine[c].enter, engine[c].seen, f, ts)
    /\ engine'[c].seen = Z!UpdateSeen(engine[c].seen, f, ts)
    /\ lastTs'[c] = ts
    /\ DOMAIN film'[c] = DOMAIN film[c] \union {ts}
    /\ film'[c][ts] = f
    /\ \A u \in DOMAIN film[c] : film'[c][u] = film[c][u]

LEMMA FrameUpdates ==
    ASSUME IInv, NEW c \in Cameras, NEW f, NEW ts, Frame(c, f, ts)
    PROVE  Updates(c, f, ts)
<1>1. DOMAIN engine = Cameras /\ DOMAIN film = Cameras /\ DOMAIN lastTs = Cameras
  BY DEF IInv, TypeInv
<1> DEFINE reel == [u \in DOMAIN film[c] \union {ts} |-> IF u = ts THEN f ELSE film[c][u]]
           newEnter == Z!UpdateEnter(engine[c].enter, engine[c].seen, f, ts)
           newSeen == Z!UpdateSeen(engine[c].seen, f, ts)
<1>2. /\ ts \in DOMAIN film[c] => film[c][ts] = f
      /\ film' = [film EXCEPT ![c] = reel]
      /\ lastTs' = [lastTs EXCEPT ![c] = ts]
      /\ engine' = [engine EXCEPT ![c] = [enter |-> newEnter, seen |-> newSeen]]
  BY <1>1 DEF Frame
<1>3. /\ DOMAIN reel = DOMAIN film[c] \union {ts}
      /\ reel[ts] = f
      /\ \A u \in DOMAIN film[c] : reel[u] = film[c][u]
  BY <1>2
<1> HIDE DEF reel, newEnter, newSeen
<1>4. /\ DOMAIN engine' = Cameras /\ DOMAIN film' = Cameras /\ DOMAIN lastTs' = Cameras
      /\ \A d \in Cameras :
             d # c => engine'[d] = engine[d] /\ film'[d] = film[d] /\ lastTs'[d] = lastTs[d]
      /\ engine'[c].enter = newEnter /\ engine'[c].seen = newSeen
      /\ lastTs'[c] = ts /\ film'[c] = reel
  BY <1>1, <1>2
<1> QED BY <1>3, <1>4 DEF Updates, newEnter, newSeen

(* The conditions of the lemmas about update. *)
LEMMA UpdateApplies ==
    ASSUME IInv, NEW c \in Cameras, NEW f \in Z!Frames, NEW ts \in Times
    PROVE  /\ ts \in Int
           /\ \A t \in DOMAIN engine[c].seen : engine[c].seen[t] \in Int
           /\ \A k \in DOMAIN engine[c].enter :
                  k \in Z!Keys /\ Z!Tid(k) \in DOMAIN engine[c].seen
           /\ IsFiniteSet(FrameEvents(c, f, ts))
<1>1. /\ ts \in Int
      /\ \A t \in DOMAIN engine[c].seen : engine[c].seen[t] \in Int
      /\ \A k \in DOMAIN engine[c].enter :
                  k \in Z!Keys /\ Z!Tid(k) \in DOMAIN engine[c].seen
  BY EngineAssumption DEF IInv, SightingsAreShown, StaysHaveSightings
<1> QED BY <1>1, EventsAreFinite DEF FrameEvents

LEMMA FrameKeepsSightings ==
    ASSUME IInv, NEW c \in Cameras, NEW f \in Z!Frames, NEW ts \in Times, Frame(c, f, ts),
           NEW d \in Cameras
    PROVE  (SightingsAreShown(d) /\ StaysHaveSightings(d))'
<1> DEFINE enter == engine[c].enter
           seen == engine[c].seen
           newEnter == Z!UpdateEnter(enter, seen, f, ts)
           newSeen == Z!UpdateSeen(seen, f, ts)
<1>1. /\ SightingsAreShown(d) /\ StaysHaveSightings(d)
      /\ SightingsAreShown(c) /\ StaysHaveSightings(c)
      /\ DOMAIN engine = Cameras /\ DOMAIN film = Cameras /\ DOMAIN lastTs = Cameras
  BY DEF IInv, TypeInv
<1>2. CASE d # c
  <2>1. engine'[d] = engine[d] /\ film'[d] = film[d] /\ lastTs'[d] = lastTs[d]
    BY <1>2, FrameUpdates DEF Updates
  <2> QED BY <1>1, <2>1 DEF SightingsAreShown, StaysHaveSightings
<1>3. CASE d = c
  <2>1. /\ engine'[c].enter = newEnter /\ engine'[c].seen = newSeen
        /\ lastTs'[c] = ts
        /\ DOMAIN film'[c] = DOMAIN film[c] \union {ts}
        /\ film'[c][ts] = f
        /\ \A u \in DOMAIN film[c] : film'[c][u] = film[c][u]
    BY FrameUpdates DEF Updates
  <2>2. /\ ts \in Int
        /\ \A t \in DOMAIN seen : seen[t] \in Int
        /\ \A k \in DOMAIN enter : Z!Tid(k) \in DOMAIN seen
        /\ \A k \in DOMAIN enter : k \in Z!Keys
    BY UpdateApplies
  <2>3. /\ \A t : t \in DOMAIN newSeen <=>
               t \in f.visible \/ (t \in DOMAIN seen /\ ts - seen[t] <= MaxSilence)
        /\ \A t \in DOMAIN newSeen : newSeen[t] = IF t \in f.visible THEN ts ELSE seen[t]
    BY <2>2, SeenAfter
  <2>4. /\ DOMAIN newEnter \subseteq DOMAIN enter \union f.present
        /\ \A k \in DOMAIN newEnter \ f.present :
               Z!Tid(k) \notin f.visible /\ ts - seen[Z!Tid(k)] <= MaxSilence
    BY <2>2, StaysAfter DEF StaysMove
  <2>5. \A k \in f.present : k \in Z!Keys /\ Z!Tid(k) \in f.visible
    BY DEF Z!Frames
  <2>6. ts - ts <= MaxSilence
    BY <2>2, EngineAssumption
  <2>7. ASSUME NEW t \in DOMAIN newSeen
        PROVE  /\ newSeen[t] \in Int /\ newSeen[t] \in DOMAIN film'[c]
               /\ t \in film'[c][newSeen[t]].visible
               /\ ts - newSeen[t] <= MaxSilence
    <3>1. CASE t \in f.visible
      BY <2>1, <2>2, <2>3, <2>6, <3>1
    <3>2. CASE t \notin f.visible
      <4>1. t \in DOMAIN seen /\ newSeen[t] = seen[t] /\ ts - seen[t] <= MaxSilence
        BY <2>3, <3>2
      <4>2. seen[t] \in Int /\ seen[t] \in DOMAIN film[c] /\ t \in film[c][seen[t]].visible
        BY <1>1, <4>1 DEF SightingsAreShown
      <4> QED BY <2>1, <4>1, <4>2
    <3> QED BY <3>1, <3>2
  <2>8. ASSUME NEW k \in DOMAIN newEnter
        PROVE  k \in Z!Keys /\ Z!Tid(k) \in DOMAIN newSeen
    BY <2>2, <2>3, <2>4, <2>5
  <2> HIDE DEF newEnter, newSeen
  <2> QED BY <1>3, <2>1, <2>7, <2>8 DEF SightingsAreShown, StaysHaveSightings
<1> QED BY <1>2, <1>3

(* Where a frame leaves the queue, the requests and the answers.  A frame  *)
(* without events is answered at once, any other awaits its insert.        *)
Reaches(c, events) ==
    /\ DOMAIN wait' = Locations
    /\ \A l \in Locations : HasQueue(wait'[l])
    /\ \A l \in Locations : l # c.location => wait'[l].inQueue = wait[l].inQueue
    /\ \A p : p \in wait'[c.location].inQueue <=>
           \/ \E e \in events : Comes(c, e, p)
           \/ p \in wait[c.location].inQueue /\ \A e \in events : ~Goes(c, e, p)

IsTaskOf(s, c, events) ==
    /\ IsFrameTask(s) /\ IsTask(s) /\ s.camera = c
    /\ TaskRows(s) = {<<c, e>> : e \in events}

Answered(c, events) == events = {} /\ saving' = saving /\ TellsTheQueue(Account(c))

Awaits(c, events) ==
    published' = published /\ \E s : saving' = saving \union {s} /\ IsTaskOf(s, c, events)

LEMMA NobodyComesAndGoes ==
    ASSUME IInv, NEW c \in Cameras, NEW f \in Z!Frames, NEW ts \in Times,
           NEW e \in FrameEvents(c, f, ts), NEW g \in FrameEvents(c, f, ts), NEW p
    PROVE  ~(Comes(c, e, p) /\ Goes(c, g, p))
<1> DEFINE enter == engine[c].enter
           after == DOMAIN Z!UpdateEnter(enter, engine[c].seen, f, ts)
<1> SUFFICES ASSUME Comes(c, e, p), Goes(c, g, p) PROVE FALSE
  OBVIOUS
<1>1. /\ ts \in Int
      /\ \A t \in DOMAIN engine[c].seen : engine[c].seen[t] \in Int
      /\ \A k \in DOMAIN enter : Z!Tid(k) \in DOMAIN engine[c].seen
      /\ \A k \in DOMAIN enter : k \in Z!Keys
  BY UpdateApplies
<1>2. EventsTell(enter, f, FrameEvents(c, f, ts), after)
  BY <1>1, StaysAfter DEF FrameEvents
<1>3. e.key \in f.present \ DOMAIN enter /\ g.key \in DOMAIN enter
  BY <1>2 DEF EventsTell, Comes, Goes
<1>4. e.key \in Trackers \X Kinds /\ g.key \in Trackers \X Kinds
  BY <1>1, <1>3 DEF Z!Keys, Z!Frames
<1>5. e.key[1] = g.key[1] /\ e.key[2] = g.key[2]
  BY DEF Comes, Goes, Who, Z!Tid
<1>6. e.key = g.key
  BY <1>4, <1>5
<1> QED BY <1>3, <1>6

LEMMA BatchReaches ==
    ASSUME IInv, NEW c \in Cameras, NEW f \in Z!Frames, NEW ts \in Times,
           NEW batch \in Batches(FrameEvents(c, f, ts), ts), NEW st, HasQueue(st)
    PROVE  /\ HasQueue(WaitAfter(c, batch, st))
           /\ \A p : p \in WaitAfter(c, batch, st).inQueue <=>
                  \/ \E e \in FrameEvents(c, f, ts) : Comes(c, e, p)
                  \/ p \in st.inQueue /\ \A e \in FrameEvents(c, f, ts) : ~Goes(c, e, p)
<1> DEFINE events == FrameEvents(c, f, ts)
           n == Cardinality(events)
<1>1. IsFiniteSet(events)
  BY UpdateApplies
<1>2. /\ DOMAIN batch = 1 .. n /\ n \in Nat
      /\ \A i \in 1 .. n : batch[i] \in events
      /\ \A e \in events : \E i \in 1 .. n : batch[i] = e
  BY <1>1, BatchesHoldTheEvents
<1>3. \A i, j \in 1 .. n : \A p : ~(Comes(c, batch[i], p) /\ Goes(c, batch[j], p))
  BY <1>2, NobodyComesAndGoes
<1> HIDE DEF n, events
<1>4. /\ HasQueue(WaitAfter(c, batch, st))
      /\ \A p : p \in WaitAfter(c, batch, st).inQueue <=>
             \/ \E i \in 1 .. n : Comes(c, batch[i], p)
             \/ p \in st.inQueue /\ \A i \in 1 .. n : ~Goes(c, batch[i], p)
  BY <1>2, <1>3, QueueAfter
<1>5. \A p : /\ (\E i \in 1 .. n : Comes(c, batch[i], p)) <=> \E e \in events : Comes(c, e, p)
             /\ (\A i \in 1 .. n : ~Goes(c, batch[i], p)) <=> \A e \in events : ~Goes(c, e, p)
  BY <1>2
<1>6. \A p : p \in WaitAfter(c, batch, st).inQueue <=>
             \/ \E e \in events : Comes(c, e, p)
             \/ p \in st.inQueue /\ \A e \in events : ~Goes(c, e, p)
  BY <1>4, <1>5
<1> QED BY <1>4, <1>6 DEF events

LEMMA FrameReaches ==
    ASSUME IInv, NEW c \in Cameras, NEW f \in Z!Frames, NEW ts \in Times, Frame(c, f, ts)
    PROVE  /\ Reaches(c, FrameEvents(c, f, ts))
           /\ Answered(c, FrameEvents(c, f, ts)) \/ Awaits(c, FrameEvents(c, f, ts))
<1> DEFINE events == FrameEvents(c, f, ts)
           l == c.location
           Waits(batch) == [wait EXCEPT ![l] = WaitAfter(c, batch, W!Heard(wait[l], ts))]
           Task(batch) == [camera |-> c, ts |-> ts, batch |-> batch, held |-> Absent]
<1>1. /\ l \in Locations /\ Account(c) \in Accounts
      /\ DOMAIN wait = Locations /\ \A m \in Locations : HasQueue(wait[m])
      /\ DOMAIN published = Accounts
  BY DEF Locations, Accounts, Account, IInv, TypeInv
<1>2. PICK batch \in Batches(events, ts) :
          IF batch = <<>>
            THEN Publish(Account(c), ts, Waits(batch)) /\ saving' = saving
            ELSE /\ wait' = Waits(batch) /\ published' = published
                 /\ saving' = saving \union {Task(batch)}
  BY <1>1 DEF Frame, FrameEvents, Finish, outputs
<1> DEFINE waits == Waits(batch)
           st == W!Heard(wait[l], ts)
           after == WaitAfter(c, batch, st)
<1>3. HasQueue(st) /\ st.inQueue = wait[l].inQueue
  BY <1>1, HeardKeepsQueue
<1>4. /\ HasQueue(after)
      /\ \A p : p \in after.inQueue <=>
             \/ \E e \in events : Comes(c, e, p)
             \/ p \in wait[l].inQueue /\ \A e \in events : ~Goes(c, e, p)
  <2> HIDE DEF st
  <2>1. /\ HasQueue(after)
        /\ \A p : p \in after.inQueue <=>
             \/ \E e \in events : Comes(c, e, p)
             \/ p \in st.inQueue /\ \A e \in events : ~Goes(c, e, p)
    BY <1>3, BatchReaches
  <2> QED BY <1>3, <2>1
<1>5. /\ DOMAIN waits = Locations /\ waits[l] = after
      /\ \A m \in Locations : m # l => waits[m] = wait[m]
  BY <1>1
<1> HIDE DEF waits, after, events
<1>6. HaveQueues(waits)
  BY <1>1, <1>4, <1>5 DEF HaveQueues
<1>7. IsFiniteSet(events)
  BY UpdateApplies DEF events
<1>8. CASE batch = <<>>
  <2>1. Publish(Account(c), ts, waits) /\ saving' = saving
    BY <1>2, <1>8 DEF waits
  <2>2. SameQueues(waits) /\ TellsTheQueue(Account(c))
    BY <1>1, <1>6, <2>1, PublishLemma
  <2>3. events = {}
    BY <1>7, <1>8, BatchesHoldTheEvents
  <2>4. Reaches(c, events)
    BY <1>1, <1>4, <1>5, <2>2 DEF Reaches, SameQueues
  <2> QED BY <2>1, <2>2, <2>3, <2>4 DEF Answered, events
<1>9. CASE batch # <<>>
  <2>1. wait' = waits /\ published' = published /\ saving' = saving \union {Task(batch)}
    BY <1>2, <1>9 DEF waits
  <2>2. Reaches(c, events)
    BY <1>1, <1>4, <1>5, <1>6, <2>1 DEF Reaches, HaveQueues
  <2>3. ToSet(batch) = events
    BY <1>7, BatchesHoldTheEvents
  <2>4. /\ "batch" \in DOMAIN Task(batch) /\ "camera" \in DOMAIN Task(batch)
        /\ Task(batch).camera = c /\ Task(batch).batch = batch
    OBVIOUS
  <2> HIDE DEF Task
  <2>5. IsTaskOf(Task(batch), c, events)
    BY <2>3, <2>4 DEF IsTaskOf, IsFrameTask, IsTask, TaskRows
  <2> QED BY <2>1, <2>2, <2>5 DEF Awaits, events
<1> QED BY <1>8, <1>9

---------------------------------------------------------------------------
(* Each action keeps the invariant. *)
LEMMA FrameKeeps ==
    ASSUME IInv, NEW c \in Cameras, NEW f \in Z!Frames, NEW ts \in Times, Frame(c, f, ts)
    PROVE  IInv'
<1> DEFINE events == FrameEvents(c, f, ts)
<1>1. Reaches(c, events) /\ (Answered(c, events) \/ Awaits(c, events))
  BY FrameReaches
<1>2. Updates(c, f, ts)
  BY FrameUpdates
<1>3. /\ emitted' = emitted \union {<<c, e>> : e \in events}
      /\ zoneRows' = zoneRows /\ refused' = refused
  BY DEF Frame, FrameEvents, rows
<1> HIDE DEF events
<1>4. /\ saving \subseteq saving' /\ DOMAIN published' = Accounts
      /\ \A s \in saving' : IsTask(s)
      /\ \A e \in events : \E s \in saving' : IsFrameTask(s) /\ <<c, e>> \in TaskRows(s)
  <2>1. CASE Answered(c, events)
    BY <2>1 DEF Answered, TellsTheQueue, IInv, TypeInv
  <2>2. CASE Awaits(c, events)
    <3>1. published' = published
      BY <2>2 DEF Awaits
    <3>2. PICK s : saving' = saving \union {s} /\ IsTaskOf(s, c, events)
      BY <2>2 DEF Awaits
    <3>3. IsFrameTask(s) /\ IsTask(s) /\ \A e \in events : <<c, e>> \in TaskRows(s)
      BY <3>2 DEF IsTaskOf
    <3> QED BY <3>1, <3>2, <3>3 DEF IInv, TypeInv
  <2> QED BY <1>1, <2>1, <2>2
<1>5. TypeInv'
  BY <1>1, <1>2, <1>4 DEF TypeInv, Reaches, Updates
<1>6. \A d \in Cameras : (SightingsAreShown(d) /\ StaysHaveSightings(d))'
  BY FrameKeepsSightings
<1>7. EventsArePersisted'
  <2> SUFFICES ASSUME NEW r \in emitted'
               PROVE  \/ r \in zoneRows'
                      \/ \E s \in saving' \union refused' : IsFrameTask(s) /\ r \in TaskRows(s)
    BY DEF EventsArePersisted
  <2>1. CASE r \in emitted
    BY <1>3, <1>4, <2>1 DEF IInv, EventsArePersisted
  <2>2. CASE r \in {<<c, e>> : e \in events}
    BY <1>4, <2>2
  <2> QED BY <1>3, <2>1, <2>2
<1> QED BY <1>5, <1>6, <1>7 DEF IInv

(* The steps of which the engines know nothing. *)
LEMMA EnginesKeep ==
    ASSUME IInv, UNCHANGED <<engine, film, lastTs>>,
           DOMAIN wait' = Locations, \A l \in Locations : HasQueue(wait'[l]),
           DOMAIN published' = Accounts, \A s \in saving' : IsTask(s),
           EventsArePersisted'
    PROVE  IInv'
<1>1. TypeInv'
  BY DEF IInv, TypeInv
<1>2. \A c \in Cameras : (SightingsAreShown(c) /\ StaysHaveSightings(c))'
  BY DEF IInv, SightingsAreShown, StaysHaveSightings
<1> QED BY <1>1, <1>2 DEF IInv

LEMMA PublishKeeps ==
    ASSUME IInv, NEW a \in Accounts, NEW now, Publish(a, now, wait)
    PROVE  /\ SameQueues(wait) /\ TellsTheQueue(a)
           /\ DOMAIN wait' = Locations /\ \A l \in Locations : HasQueue(wait'[l])
           /\ DOMAIN published' = Accounts
<1>1. SameQueues(wait) /\ TellsTheQueue(a)
  BY PublishLemma DEF IInv, TypeInv, HaveQueues
<1> QED BY <1>1 DEF SameQueues, TellsTheQueue

LEMMA FrameSavedKeeps ==
    ASSUME IInv, NEW s \in saving, FrameSaved(s)
    PROVE  /\ IInv' /\ s.camera \in Cameras /\ IsFrameTask(s)
           /\ SameQueues(wait) /\ TellsTheQueue(Account(s.camera))
<1>1. /\ IsFrameTask(s) /\ saving' = saving \ {s}
      /\ zoneRows' = zoneRows \union TaskRows(s)
      /\ UNCHANGED <<engine, film, lastTs, emitted, refused>>
  BY DEF FrameSaved, FrameTasks, InsertZoneEvents, history
<1>2. s.camera \in Cameras /\ Account(s.camera) \in Accounts
  BY <1>1 DEF IInv, TypeInv, IsTask, Account, Accounts
<1>3. Publish(Account(s.camera), s.ts, wait)
  BY DEF FrameSaved, Finish
<1>4. /\ SameQueues(wait) /\ TellsTheQueue(Account(s.camera))
      /\ DOMAIN wait' = Locations /\ \A l \in Locations : HasQueue(wait'[l])
      /\ DOMAIN published' = Accounts
  BY <1>2, <1>3, PublishKeeps
<1>5. EventsArePersisted'
  BY <1>1 DEF IInv, EventsArePersisted
<1>6. \A t \in saving' : IsTask(t)
  BY <1>1 DEF IInv, TypeInv
<1> QED BY <1>1, <1>2, <1>4, <1>5, <1>6, EnginesKeep

LEMMA OrderKeeps ==
    ASSUME IInv, NEW a \in Accounts, NEW type, NEW at, Order(a, type, at)
    PROVE  IInv' /\ SameQueues(wait)
<1> DEFINE l == a[2]
           st == W!OnPosEvent(wait[l], type, at)
           task == [account |-> a, type |-> type, at |-> at, number |-> orders]
           told == IF type \in W!OrderTypes
                     THEN [wait[l] EXCEPT !.orders = Append(@, at)] ELSE wait[l]
<1>1. /\ DOMAIN wait = Locations /\ \A m \in Locations : HasQueue(wait[m])
      /\ DOMAIN published = Accounts /\ l \in Locations
  BY DEF IInv, TypeInv, Accounts, Locations
<1>2. HasQueue(told) /\ told.inQueue = wait[l].inQueue
  BY <1>1 DEF HasQueue
<1>3. st = W!Trim(told, at)
  BY DEF W!OnPosEvent
<1>4. HasQueue(st) /\ st.inQueue = wait[l].inQueue
  <2> HIDE DEF told, st
  <2> QED BY <1>2, <1>3, TrimKeepsQueue
<1>5. /\ wait' = [wait EXCEPT ![l] = st]
      /\ saving' = saving \union {task}
      /\ UNCHANGED <<engine, film, lastTs, emitted, refused, zoneRows, published>>
  BY <1>1 DEF Order, outputs, rows, history
<1>6. IsTask(task)
  BY DEF IsTask, IsFrameTask
<1> HIDE DEF st, task
<1>7. SameQueues(wait)
  BY <1>1, <1>4, <1>5 DEF SameQueues
<1>8. EventsArePersisted'
  BY <1>5 DEF IInv, EventsArePersisted
<1>9. \A s \in saving' : IsTask(s)
  BY <1>5, <1>6 DEF IInv, TypeInv
<1> QED BY <1>1, <1>5, <1>7, <1>8, <1>9, EnginesKeep DEF SameQueues

LEMMA OrderSavedKeeps ==
    ASSUME IInv, NEW s \in saving, OrderSaved(s)
    PROVE  /\ IInv' /\ ~IsFrameTask(s) /\ s.account \in Accounts
           /\ SameQueues(wait) /\ TellsTheQueue(s.account)
<1>1. /\ ~IsFrameTask(s) /\ saving' = saving \ {s}
      /\ UNCHANGED <<engine, film, lastTs, emitted, refused, zoneRows>>
  BY DEF OrderSaved, OrderTasks, FrameTasks, history
<1>2. s.account \in Accounts
  BY <1>1 DEF IInv, TypeInv, IsTask
<1>3. Publish(s.account, s.at, wait)
  BY DEF OrderSaved
<1>4. /\ SameQueues(wait) /\ TellsTheQueue(s.account)
      /\ DOMAIN wait' = Locations /\ \A l \in Locations : HasQueue(wait'[l])
      /\ DOMAIN published' = Accounts
  BY <1>2, <1>3, PublishKeeps
<1>5. EventsArePersisted'
  BY <1>1 DEF IInv, EventsArePersisted
<1>6. \A t \in saving' : IsTask(t)
  BY <1>1 DEF IInv, TypeInv
<1> QED BY <1>1, <1>2, <1>4, <1>5, <1>6, EnginesKeep

LEMMA ReadKeeps ==
    ASSUME IInv, NEW a \in Accounts, NEW now, Read(a, now)
    PROVE  IInv' /\ SameQueues(wait) /\ TellsTheQueue(a)
<1>1. UNCHANGED <<engine, film, lastTs, emitted, refused, zoneRows, saving>>
  BY DEF Read, database, rows, history
<1>2. /\ SameQueues(wait) /\ TellsTheQueue(a)
      /\ DOMAIN wait' = Locations /\ \A l \in Locations : HasQueue(wait'[l])
      /\ DOMAIN published' = Accounts
  BY PublishKeeps DEF Read
<1>3. EventsArePersisted'
  BY <1>1 DEF IInv, EventsArePersisted
<1>4. \A t \in saving' : IsTask(t)
  BY <1>1 DEF IInv, TypeInv
<1> QED BY <1>1, <1>2, <1>3, <1>4, EnginesKeep

LEMMA SaveFailsKeeps ==
    ASSUME IInv, NEW s \in saving, SaveFails(s)
    PROVE  IInv'
<1>1. /\ saving' = saving \ {s} /\ refused' = refused \union {s}
      /\ UNCHANGED <<engine, film, lastTs, emitted, zoneRows, wait, published>>
  BY DEF SaveFails, services, outputs, rows
<1>2. EventsArePersisted'
  BY <1>1 DEF IInv, EventsArePersisted
<1>3. /\ \A t \in saving' : IsTask(t)
      /\ DOMAIN wait' = Locations /\ \A l \in Locations : HasQueue(wait'[l])
      /\ DOMAIN published' = Accounts
  BY <1>1 DEF IInv, TypeInv
<1> QED BY <1>1, <1>2, <1>3, EnginesKeep

(* The requests of a camera that is registered again hold the engine they  *)
(* had, and insert what they would have inserted.                          *)
LEMMA HeldLemma ==
    ASSUME IInv, NEW c \in Cameras, RegisterAgain(c)
    PROVE  /\ \A s \in saving : \E t \in saving' :
                  /\ IsFrameTask(s) <=> IsFrameTask(t)
                  /\ IsFrameTask(s) => TaskRows(s) = TaskRows(t) /\ s.camera = t.camera
           /\ \A t \in saving' : IsTask(t)
<1> DEFINE Hold(s) == IF s \in FrameTasks /\ s.camera = c /\ s.held = Absent
                        THEN [s EXCEPT !.held = engine[c].enter] ELSE s
<1>1. saving' = {Hold(s) : s \in saving}
  BY DEF RegisterAgain
<1>2. ASSUME NEW s \in saving
      PROVE  /\ IsFrameTask(s) <=> IsFrameTask(Hold(s))
             /\ IsFrameTask(s) => TaskRows(s) = TaskRows(Hold(s)) /\ s.camera = Hold(s).camera
             /\ IsTask(Hold(s))
  <2>1. IsTask(s)
    BY DEF IInv, TypeInv
  <2>2. CASE IsFrameTask(s)
    <3>1. /\ DOMAIN Hold(s) = DOMAIN s
          /\ Hold(s).camera = s.camera /\ Hold(s).batch = s.batch
      BY <2>1, <2>2 DEF IsTask, IsFrameTask
    <3> HIDE DEF Hold
    <3> QED BY <2>1, <2>2, <3>1 DEF IsTask, IsFrameTask, TaskRows
  <2>3. CASE ~IsFrameTask(s)
    BY <2>1, <2>3 DEF FrameTasks
  <2> QED BY <2>2, <2>3
<1> HIDE DEF Hold
<1> QED BY <1>1, <1>2

LEMMA RegisterKeeps ==
    ASSUME IInv, NEW c \in Cameras, RegisterAgain(c)
    PROVE  IInv'
<1>1. /\ engine' = [engine EXCEPT ![c] = NewEngine]
      /\ UNCHANGED <<wait, published, zoneRows, emitted, film, lastTs, refused>>
  BY DEF RegisterAgain, outputs, rows
<1>2. TypeInv'
  BY <1>1, HeldLemma DEF IInv, TypeInv
<1>3. ASSUME NEW d \in Cameras PROVE (SightingsAreShown(d) /\ StaysHaveSightings(d))'
  <2>1. DOMAIN engine = Cameras
    BY DEF IInv, TypeInv
  <2>2. CASE d = c
    <3>1. DOMAIN engine'[d].enter = {} /\ DOMAIN engine'[d].seen = {}
      BY <1>1, <2>1, <2>2 DEF NewEngine
    <3> QED BY <3>1 DEF SightingsAreShown, StaysHaveSightings
  <2>3. CASE d # c
    <3>1. engine'[d] = engine[d] /\ film' = film /\ lastTs' = lastTs
      BY <1>1, <2>1, <2>3
    <3> QED BY <3>1 DEF IInv, SightingsAreShown, StaysHaveSightings
  <2> QED BY <2>2, <2>3
<1>4. EventsArePersisted'
  <2> SUFFICES ASSUME NEW r \in emitted
               PROVE  \/ r \in zoneRows
                      \/ \E s \in saving' \union refused : IsFrameTask(s) /\ r \in TaskRows(s)
    BY <1>1 DEF EventsArePersisted
  <2>1. CASE r \in zoneRows
    BY <2>1
  <2>2. CASE \E s \in saving \union refused : IsFrameTask(s) /\ r \in TaskRows(s)
    BY <2>2, HeldLemma
  <2> QED BY <2>1, <2>2 DEF IInv, EventsArePersisted
<1> QED BY <1>2, <1>3, <1>4 DEF IInv

LEMMA NextIInv == IInv /\ [Next]_vars => IInv'
<1> SUFFICES ASSUME IInv, [Next]_vars PROVE IInv'
  OBVIOUS
<1>1. CASE \E c \in Cameras, f \in Z!Frames, ts \in Times : Frame(c, f, ts)
  BY <1>1, FrameKeeps
<1>2. CASE \E s \in saving : FrameSaved(s) \/ OrderSaved(s) \/ SaveFails(s)
  BY <1>2, FrameSavedKeeps, OrderSavedKeeps, SaveFailsKeeps
<1>3. CASE \E a \in Accounts, type \in OrderEvents, at \in Times : Order(a, type, at)
  BY <1>3, OrderKeeps
<1>4. CASE \E a \in Accounts, now \in Times : Read(a, now)
  BY <1>4, ReadKeeps
<1>5. CASE \E c \in Cameras : RegisterAgain(c)
  BY <1>5, RegisterKeeps
<1>6. CASE UNCHANGED vars
  BY <1>6 DEF vars, services, outputs, database, rows, requests, history, IInv, TypeInv,
              SightingsAreShown, StaysHaveSightings, EventsArePersisted
<1> QED BY <1>1, <1>2, <1>3, <1>4, <1>5, <1>6 DEF Next

---------------------------------------------------------------------------
(* Requests, engines and the database stay together in every interleaving. *)
THEOREM InvariantHolds == Spec => []IInv
BY InitIInv, NextIInv, PTL DEF Spec

(* Every event an engine returned is in the table, in a request that       *)
(* awaits its insert, or in one whose insert was refused.                  *)
THEOREM EventsArePersistedHolds == Spec => []EventsArePersisted
<1>1. IInv => EventsArePersisted
  BY DEF IInv
<1> QED BY <1>1, InvariantHolds, PTL

---------------------------------------------------------------------------
(* Queues and published estimates are kept by location, so what follows    *)
(* is about locations of one tenant: two tenants that name a location      *)
(* alike share its queue, and each is told of it by its own requests.      *)
OneTenantPerLocation ==
    \A c, d \in Cameras : c.location = d.location => c.tenant = d.tenant

LEMMA AccountsApart ==
    ASSUME OneTenantPerLocation, NEW a \in Accounts, NEW b \in Accounts, a[2] = b[2]
    PROVE  a = b
BY DEF OneTenantPerLocation, Accounts

LEMMA CamerasApart ==
    ASSUME OneTenantPerLocation, NEW c \in Cameras, NEW d \in Cameras,
           c.location = d.location, c.id = d.id
    PROVE  c = d
BY CamerasAssumption DEF OneTenantPerLocation

At(l) == {d \in Cameras : d.location = l}

LEMMA InQueueLemma ==
    ASSUME NEW c, NEW p
    PROVE  p \in InQueue(c) <=>
               \E k \in DOMAIN engine[c].enter : k[2] = "queue" /\ p = Who(c, k)
BY DEF InQueue

(* The engine's queue follows its events. *)
LEMMA EngineFollows ==
    ASSUME IInv, NEW c \in Cameras, NEW f \in Z!Frames, NEW ts \in Times, Frame(c, f, ts),
           NEW p
    PROVE  p \in InQueue(c)' <=>
               \/ \E e \in FrameEvents(c, f, ts) : Comes(c, e, p)
               \/ p \in InQueue(c) /\ \A e \in FrameEvents(c, f, ts) : ~Goes(c, e, p)
<1> DEFINE enter == engine[c].enter
           after == DOMAIN Z!UpdateEnter(enter, engine[c].seen, f, ts)
           events == FrameEvents(c, f, ts)
           Of(k) == k[2] = "queue" /\ p = Who(c, k)
<1>1. /\ ts \in Int
      /\ \A t \in DOMAIN engine[c].seen : engine[c].seen[t] \in Int
      /\ \A k \in DOMAIN enter : Z!Tid(k) \in DOMAIN engine[c].seen
      /\ \A k \in DOMAIN enter : k \in Z!Keys
  BY UpdateApplies
<1>2. StaysMove(enter, engine[c].seen, f, ts, after) /\ EventsTell(enter, f, events, after)
  BY <1>1, StaysAfter DEF FrameEvents
<1>3. DOMAIN engine'[c].enter = after
  BY FrameUpdates DEF Updates
<1>4. /\ p \in InQueue(c)' <=> \E k \in after : Of(k)
      /\ p \in InQueue(c) <=> \E k \in DOMAIN enter : Of(k)
  BY <1>3, InQueueLemma DEF InQueue
<1>5. /\ f.present \subseteq after /\ after \subseteq DOMAIN enter \union f.present
      /\ \A e \in events : \/ e.type = "enter" /\ e.key \in f.present \ DOMAIN enter
                           \/ e.type = "exit" /\ e.key \in DOMAIN enter \ after
      /\ \A k \in f.present \ DOMAIN enter : \E e \in events : e.type = "enter" /\ e.key = k
      /\ \A k \in DOMAIN enter \ after : \E e \in events : e.type = "exit" /\ e.key = k
  BY <1>2 DEF StaysMove, EventsTell
<1>6. \A k \in after \union DOMAIN enter : k \in Trackers \X Kinds
  BY <1>1, <1>5 DEF Z!Keys, Z!Frames
<1>7. ASSUME NEW k \in after \union DOMAIN enter, NEW j \in after \union DOMAIN enter,
             Of(k), Of(j)
      PROVE  k = j
  <2>1. k[1] = j[1] /\ k[2] = j[2]
    BY <1>7 DEF Who, Z!Tid
  <2>2. k \in Trackers \X Kinds /\ j \in Trackers \X Kinds
    BY <1>6
  <2> QED BY <2>1, <2>2
<1>8. \A e : /\ Comes(c, e, p) <=> e.type = "enter" /\ Of(e.key)
             /\ Goes(c, e, p) <=> e.type # "enter" /\ Of(e.key)
  BY DEF Comes, Goes
<1> HIDE DEF enter, after, events, Of
<1>9. (\E e \in events : Comes(c, e, p)) <=> \E k \in f.present \ DOMAIN enter : Of(k)
  BY <1>5, <1>8
<1>10. (\E e \in events : Goes(c, e, p)) <=> \E k \in DOMAIN enter \ after : Of(k)
  BY <1>5, <1>8
<1>11. (\E k \in after : Of(k)) <=>
          \/ \E k \in f.present \ DOMAIN enter : Of(k)
          \/ (\E k \in DOMAIN enter : Of(k)) /\ ~ \E k \in DOMAIN enter \ after : Of(k)
  BY <1>5, <1>7
<1> QED BY <1>4, <1>9, <1>10, <1>11 DEF events

(* Everybody whose engine was not replaced is in the queue of the location *)
(* exactly if some camera of it has them there.                            *)
Counted(l, p) == p \in orphans \/ (p \in wait[l].inQueue <=> \E d \in At(l) : p \in InQueue(d))

LEMMA SameBut ==
    ASSUME NEW A, NEW B, NEW O
    PROVE  A \ O = B \ O <=> \A p : p \in O \/ (p \in A <=> p \in B)
<1>1. ASSUME A \ O = B \ O, NEW p PROVE p \in O \/ (p \in A <=> p \in B)
  <2>1. p \in A \ O <=> p \in B \ O
    BY <1>1
  <2> QED BY <2>1
<1>2. ASSUME \A p : p \in O \/ (p \in A <=> p \in B) PROVE A \ O = B \ O
  BY <1>2
<1> QED BY <1>1, <1>2

LEMMA CountedNow ==
    ASSUME LiveCountAgrees, NEW l \in Locations, NEW p
    PROVE  Counted(l, p)
<1> DEFINE there == UNION {InQueue(c) : c \in {d \in Cameras : d.location = l}}
<1>1. wait[l].inQueue \ orphans = there \ orphans
  BY DEF LiveCountAgrees
<1>2. p \in there <=> \E d \in At(l) : p \in InQueue(d)
  BY DEF At
<1> HIDE DEF there
<1>3. p \in orphans \/ (p \in wait[l].inQueue <=> p \in there)
  BY <1>1, SameBut
<1> QED BY <1>2, <1>3 DEF Counted

LEMMA CountedNext ==
    ASSUME \A l \in Locations : \A p : Counted(l, p)'
    PROVE  LiveCountAgrees'
<1> SUFFICES ASSUME NEW l \in Locations
             PROVE  wait'[l].inQueue \ orphans' =
                      (UNION {InQueue(c)' : c \in {d \in Cameras : d.location = l}}) \ orphans'
  BY DEF LiveCountAgrees
<1> DEFINE there == UNION {InQueue(c)' : c \in {d \in Cameras : d.location = l}}
<1>1. ASSUME NEW p PROVE p \in orphans' \/ (p \in wait'[l].inQueue <=> p \in there)
  <2>1. p \in there <=> \E d \in At(l) : p \in InQueue(d)'
    BY DEF At
  <2>2. p \in orphans' \/ (p \in wait'[l].inQueue <=> \E d \in At(l) : p \in InQueue(d)')
    BY DEF Counted, At
  <2> QED BY <2>1, <2>2
<1> HIDE DEF there
<1>2. wait'[l].inQueue \ orphans' = there \ orphans'
  BY <1>1, SameBut
<1> QED BY <1>2 DEF there

LEMMA FrameCounts ==
    ASSUME OneTenantPerLocation, IInv, LiveCountAgrees,
           NEW c \in Cameras, NEW f \in Z!Frames, NEW ts \in Times, Frame(c, f, ts)
    PROVE  LiveCountAgrees'
<1> DEFINE events == FrameEvents(c, f, ts)
<1>1. Reaches(c, events)
  BY FrameReaches
<1>2. \A d \in Cameras : d # c => InQueue(d)' = InQueue(d)
  BY FrameUpdates DEF Updates, InQueue
<1>3. orphans' = orphans
  BY DEF Frame
<1>4. \A p : p \in InQueue(c)' <=>
               \/ \E e \in events : Comes(c, e, p)
               \/ p \in InQueue(c) /\ \A e \in events : ~Goes(c, e, p)
  BY EngineFollows
<1> HIDE DEF events
<1>5. ASSUME NEW l \in Locations, NEW p PROVE Counted(l, p)'
  <2>1. Counted(l, p)
    BY CountedNow
  <2>2. CASE l # c.location
    <3>1. wait'[l].inQueue = wait[l].inQueue
      BY <1>1, <2>2 DEF Reaches
    <3>2. \A d \in At(l) : InQueue(d)' = InQueue(d)
      BY <1>2, <2>2 DEF At
    <3> QED BY <1>3, <2>1, <3>1, <3>2 DEF Counted, At
  <2>3. CASE l = c.location
    <3>1. p \in wait'[l].inQueue <=>
             \/ \E e \in events : Comes(c, e, p)
             \/ p \in wait[l].inQueue /\ \A e \in events : ~Goes(c, e, p)
      BY <1>1, <2>3 DEF Reaches
    <3>2. c \in At(l) /\ \A d \in At(l) : d = c \/ InQueue(d)' = InQueue(d)
      BY <1>2, <2>3 DEF At
    <3>3. ASSUME NEW d \in At(l), d # c, p \in InQueue(d), NEW e \in events
          PROVE  ~Goes(c, e, p)
      <4>1. d.id # c.id
        BY <2>3, <3>3, CamerasApart DEF At
      <4>2. p[1] = d.id
        BY <3>3 DEF InQueue, Who
      <4>3. Goes(c, e, p) => p[1] = c.id
        BY DEF Goes, Who
      <4> QED BY <4>1, <4>2, <4>3
    <3>4. (\E d \in At(l) : p \in InQueue(d)') <=>
             \/ \E e \in events : Comes(c, e, p)
             \/ (\E d \in At(l) : p \in InQueue(d)) /\ \A e \in events : ~Goes(c, e, p)
      BY <1>4, <3>2, <3>3
    <3>5. Counted(l, p)' <=>
             p \in orphans \/ (p \in wait'[l].inQueue <=> \E d \in At(l) : p \in InQueue(d)')
      BY <1>3 DEF Counted, At
    <3> QED BY <2>1, <3>1, <3>4, <3>5 DEF Counted
  <2> QED BY <2>2, <2>3
<1> QED BY <1>5, CountedNext

LEMMA CountsKeep ==
    ASSUME LiveCountAgrees, UNCHANGED <<engine, orphans>>, SameQueues(wait)
    PROVE  LiveCountAgrees'
<1>1. ASSUME NEW l \in Locations, NEW p PROVE Counted(l, p)'
  <2>1. Counted(l, p)
    BY CountedNow
  <2>2. wait'[l].inQueue = wait[l].inQueue
    BY DEF SameQueues
  <2> QED BY <2>1, <2>2 DEF Counted, At, InQueue
<1> QED BY <1>1, CountedNext

LEMMA RegisterCounts ==
    ASSUME IInv, LiveCountAgrees, NEW c \in Cameras, RegisterAgain(c)
    PROVE  LiveCountAgrees'
<1>1. /\ engine' = [engine EXCEPT ![c] = NewEngine] /\ wait' = wait
      /\ orphans' = orphans \union InQueue(c)
      /\ DOMAIN engine = Cameras
  BY DEF RegisterAgain, IInv, TypeInv
<1>2. InQueue(c)' = {}
  <2>1. DOMAIN engine'[c].enter = {}
    BY <1>1 DEF NewEngine
  <2> QED BY <2>1 DEF InQueue
<1>3. ASSUME NEW d \in Cameras, d # c PROVE InQueue(d)' = InQueue(d)
  <2>1. engine'[d] = engine[d]
    BY <1>1, <1>3
  <2> QED BY <2>1 DEF InQueue
<1>4. ASSUME NEW l \in Locations, NEW p PROVE Counted(l, p)'
  <2>1. Counted(l, p)
    BY CountedNow
  <2>2. CASE p \in orphans'
    BY <2>2 DEF Counted
  <2>3. CASE p \notin orphans'
    <3>1. \A d \in At(l) : p \in InQueue(d)' <=> p \in InQueue(d)
      BY <1>1, <1>2, <1>3, <2>3 DEF At
    <3> QED BY <1>1, <2>1, <2>3, <3>1 DEF Counted, At
  <2> QED BY <2>2, <2>3
<1> QED BY <1>4, CountedNext

(* The answers. *)
Quiet(a) == \A s \in saving \union refused : IsFrameTask(s) => s.camera.location # a[2]

Fresh(a) ==
    published[a] # Absent /\ published[a].source = "vision" /\ Quiet(a)
        => published[a].queueLength = Cardinality(wait[a[2]].inQueue)

LEMMA FreshLemma == AnswersAreFresh <=> \A a \in Accounts : Fresh(a)
BY DEF AnswersAreFresh, Fresh, Quiet

LEMMA FreshNext ==
    ASSUME \A a \in Accounts : Fresh(a)'
    PROVE  AnswersAreFresh'
BY DEF AnswersAreFresh, Fresh, Quiet

(* An account that is told nothing, and of whose queue nothing is taken.   *)
LEMMA StaysFresh ==
    ASSUME AnswersAreFresh, NEW a \in Accounts, published'[a] = published[a],
           Quiet(a)' => Quiet(a) /\ wait'[a[2]].inQueue = wait[a[2]].inQueue
    PROVE  Fresh(a)'
<1>1. Fresh(a)
  BY FreshLemma
<1> QED BY <1>1 DEF Fresh

LEMMA ToldIsFresh ==
    ASSUME AnswersAreFresh, SameQueues(wait), NEW a \in Accounts, TellsTheQueue(a),
           \A b \in Accounts : b # a => (Quiet(b)' => Quiet(b))
    PROVE  AnswersAreFresh'
<1>1. ASSUME NEW b \in Accounts PROVE Fresh(b)'
  <2>1. CASE b = a
    BY <2>1 DEF Fresh, TellsTheQueue
  <2>2. CASE b # a
    <3>1. b[2] \in Locations
      BY DEF Accounts, Locations
    <3>2. published'[b] = published[b] /\ wait'[b[2]].inQueue = wait[b[2]].inQueue
      BY <2>2, <3>1 DEF TellsTheQueue, SameQueues
    <3> QED BY <2>2, <3>2, StaysFresh
  <2> QED BY <2>1, <2>2
<1> QED BY <1>1, FreshNext

LEMMA FrameFresh ==
    ASSUME OneTenantPerLocation, IInv, AnswersAreFresh,
           NEW c \in Cameras, NEW f \in Z!Frames, NEW ts \in Times, Frame(c, f, ts)
    PROVE  AnswersAreFresh'
<1> DEFINE events == FrameEvents(c, f, ts)
<1>1. Reaches(c, events) /\ (Answered(c, events) \/ Awaits(c, events))
  BY FrameReaches
<1>2. refused' = refused
  BY DEF Frame
<1>3. Account(c) \in Accounts /\ Account(c)[2] = c.location
  BY DEF Account, Accounts
<1> HIDE DEF events
<1>4. ASSUME NEW a \in Accounts PROVE Fresh(a)'
  <2>1. a[2] \in Locations
    BY DEF Accounts, Locations
  <2>2. a[2] # c.location => wait'[a[2]].inQueue = wait[a[2]].inQueue
    BY <1>1, <2>1 DEF Reaches
  <2>3. CASE Answered(c, events) /\ a = Account(c)
    BY <2>3 DEF Answered, TellsTheQueue, Fresh
  <2>4. CASE Answered(c, events) /\ a # Account(c)
    <3>1. a[2] # c.location
      BY <1>3, <2>4, AccountsApart
    <3>2. published'[a] = published[a] /\ saving' = saving
      BY <2>4 DEF Answered, TellsTheQueue
    <3> QED BY <1>2, <2>2, <3>1, <3>2, StaysFresh DEF Quiet
  <2>5. CASE Awaits(c, events)
    <3>1. PICK s : saving' = saving \union {s} /\ IsTaskOf(s, c, events)
      BY <2>5 DEF Awaits
    <3>2. Quiet(a)' => Quiet(a) /\ a[2] # c.location
      BY <1>2, <3>1 DEF Quiet, IsTaskOf
    <3>3. published'[a] = published[a]
      BY <2>5 DEF Awaits
    <3> QED BY <2>2, <3>2, <3>3, StaysFresh
  <2> QED BY <1>1, <2>3, <2>4, <2>5
<1> QED BY <1>4, FreshNext

LEMMA FrameSavedFresh ==
    ASSUME OneTenantPerLocation, IInv, AnswersAreFresh, NEW s \in saving, FrameSaved(s)
    PROVE  AnswersAreFresh'
<1> DEFINE a == Account(s.camera)
<1>1. /\ s.camera \in Cameras /\ SameQueues(wait) /\ TellsTheQueue(a)
  BY FrameSavedKeeps
<1>2. a \in Accounts /\ a[2] = s.camera.location
  BY <1>1 DEF Account, Accounts
<1>3. saving' = saving \ {s} /\ refused' = refused
  BY DEF FrameSaved, history
<1>4. ASSUME NEW b \in Accounts, b # a, Quiet(b)' PROVE Quiet(b)
  <2>1. b[2] # s.camera.location
    BY <1>2, <1>4, AccountsApart
  <2> QED BY <1>3, <1>4, <2>1 DEF Quiet
<1> HIDE DEF a
<1> QED BY <1>1, <1>2, <1>4, ToldIsFresh

LEMMA OrderFresh ==
    ASSUME IInv, AnswersAreFresh, NEW a \in Accounts, NEW type, NEW at, Order(a, type, at)
    PROVE  AnswersAreFresh'
<1>1. SameQueues(wait)
  BY OrderKeeps
<1>2. saving \subseteq saving' /\ refused' = refused /\ published' = published
  BY DEF Order, history, outputs
<1>3. ASSUME NEW b \in Accounts PROVE Fresh(b)'
  <2>1. b[2] \in Locations
    BY DEF Accounts, Locations
  <2>2. wait'[b[2]].inQueue = wait[b[2]].inQueue
    BY <1>1, <2>1 DEF SameQueues
  <2>3. Quiet(b)' => Quiet(b)
    BY <1>2 DEF Quiet
  <2> QED BY <1>2, <2>2, <2>3, StaysFresh
<1> QED BY <1>3, FreshNext

LEMMA OrderSavedFresh ==
    ASSUME IInv, AnswersAreFresh, NEW s \in saving, OrderSaved(s)
    PROVE  AnswersAreFresh'
<1>1. /\ ~IsFrameTask(s) /\ s.account \in Accounts
      /\ SameQueues(wait) /\ TellsTheQueue(s.account)
  BY OrderSavedKeeps
<1>2. saving' = saving \ {s} /\ refused' = refused
  BY DEF OrderSaved, history
<1>3. \A b \in Accounts : Quiet(b)' => Quiet(b)
  BY <1>1, <1>2 DEF Quiet
<1> QED BY <1>1, <1>3, ToldIsFresh

LEMMA ReadFresh ==
    ASSUME IInv, AnswersAreFresh, NEW a \in Accounts, NEW now, Read(a, now)
    PROVE  AnswersAreFresh'
<1>1. SameQueues(wait) /\ TellsTheQueue(a)
  BY ReadKeeps
<1>2. saving' = saving /\ refused' = refused
  BY DEF Read, database, history
<1>3. \A b \in Accounts : Quiet(b)' => Quiet(b)
  BY <1>2 DEF Quiet
<1> QED BY <1>1, <1>3, ToldIsFresh

(* A refused request is still not quiet, a held one is one of its camera.  *)
LEMMA MishapFresh ==
    ASSUME IInv, AnswersAreFresh,
           (\E s \in saving : SaveFails(s)) \/ (\E c \in Cameras : RegisterAgain(c))
    PROVE  AnswersAreFresh'
<1>1. wait' = wait /\ published' = published
  BY DEF SaveFails, RegisterAgain, services, outputs
<1>2. \A b \in Accounts : Quiet(b)' => Quiet(b)
  <2>1. CASE \E s \in saving : SaveFails(s)
    <3>1. saving \union refused \subseteq saving' \union refused'
      BY <2>1 DEF SaveFails
    <3> QED BY <3>1 DEF Quiet
  <2>2. CASE \E c \in Cameras : RegisterAgain(c)
    <3>1. refused' = refused
      BY <2>2 DEF RegisterAgain
    <3>2. \A s \in saving : IsFrameTask(s) =>
              \E t \in saving' : IsFrameTask(t) /\ s.camera = t.camera
      BY <2>2, HeldLemma
    <3> QED BY <3>1, <3>2 DEF Quiet
  <2> QED BY <2>1, <2>2
<1>3. \A b \in Accounts : Fresh(b)'
  BY <1>1, <1>2, StaysFresh
<1> QED BY <1>3, FreshNext

(* The invariant of what is shared. *)
SharedInv == IInv /\ LiveCountAgrees /\ AnswersAreFresh

LEMMA InitSharedInv == Init => SharedInv
<1> SUFFICES ASSUME Init PROVE SharedInv
  OBVIOUS
<1>1. \A c \in Cameras : InQueue(c) = {}
  BY DEF Init, InQueue, NewEngine
<1>2. \A l \in Locations : wait[l].inQueue = {}
  BY DEF Init, W!EmptyLocation
<1>3. LiveCountAgrees
  BY <1>1, <1>2 DEF LiveCountAgrees
<1>4. AnswersAreFresh
  BY DEF Init, AnswersAreFresh
<1> QED BY <1>3, <1>4, InitIInv DEF SharedInv

LEMMA NextSharedInv ==
    ASSUME OneTenantPerLocation
    PROVE  SharedInv /\ [Next]_vars => SharedInv'
<1> SUFFICES ASSUME SharedInv, [Next]_vars PROVE SharedInv'
  OBVIOUS
<1>1. IInv' /\ IInv /\ LiveCountAgrees /\ AnswersAreFresh
  BY NextIInv DEF SharedInv
<1>2. wait' = wait => SameQueues(wait)
  BY <1>1 DEF SameQueues, IInv, TypeInv
<1>3. CASE \E c \in Cameras, f \in Z!Frames, ts \in Times : Frame(c, f, ts)
  BY <1>1, <1>3, FrameCounts, FrameFresh DEF SharedInv
<1>4. CASE \E s \in saving : FrameSaved(s)
  <2>1. PICK s \in saving : FrameSaved(s)
    BY <1>4
  <2>2. SameQueues(wait) /\ UNCHANGED <<engine, orphans>>
    BY <1>1, <2>1, FrameSavedKeeps DEF FrameSaved, history
  <2> QED BY <1>1, <2>1, <2>2, CountsKeep, FrameSavedFresh DEF SharedInv
<1>5. CASE \E s \in saving : OrderSaved(s)
  <2>1. PICK s \in saving : OrderSaved(s)
    BY <1>5
  <2>2. SameQueues(wait) /\ UNCHANGED <<engine, orphans>>
    BY <1>1, <2>1, OrderSavedKeeps DEF OrderSaved, history
  <2> QED BY <1>1, <2>1, <2>2, CountsKeep, OrderSavedFresh DEF SharedInv
<1>6. CASE \E s \in saving : SaveFails(s)
  <2>1. SameQueues(wait) /\ UNCHANGED <<engine, orphans>>
    BY <1>2, <1>6 DEF SaveFails, services
  <2> QED BY <1>1, <1>6, <2>1, CountsKeep, MishapFresh DEF SharedInv
<1>7. CASE \E a \in Accounts, type \in OrderEvents, at \in Times : Order(a, type, at)
  <2>1. PICK a \in Accounts, type \in OrderEvents, at \in Times : Order(a, type, at)
    BY <1>7
  <2>2. SameQueues(wait) /\ UNCHANGED <<engine, orphans>>
    BY <1>1, <2>1, OrderKeeps DEF Order, history
  <2> QED BY <1>1, <2>1, <2>2, CountsKeep, OrderFresh DEF SharedInv
<1>8. CASE \E a \in Accounts, now \in Times : Read(a, now)
  <2>1. PICK a \in Accounts, now \in Times : Read(a, now)
    BY <1>8
  <2>2. SameQueues(wait) /\ UNCHANGED <<engine, orphans>>
    BY <1>1, <2>1, ReadKeeps DEF Read, history
  <2> QED BY <1>1, <2>1, <2>2, CountsKeep, ReadFresh DEF SharedInv
<1>9. CASE \E c \in Cameras : RegisterAgain(c)
  BY <1>1, <1>9, RegisterCounts, MishapFresh DEF SharedInv
<1>10. CASE UNCHANGED vars
  <2>1. /\ SameQueues(wait) /\ UNCHANGED <<engine, orphans>>
        /\ UNCHANGED <<wait, published, saving, refused>>
    BY <1>2, <1>10 DEF vars, services, outputs, database, history
  <2>2. AnswersAreFresh'
    BY <1>1, <2>1 DEF AnswersAreFresh
  <2> QED BY <1>1, <2>1, <2>2, CountsKeep DEF SharedInv
<1> QED BY <1>3, <1>4, <1>5, <1>6, <1>7, <1>8, <1>9, <1>10 DEF Next

LEMMA SharedInvariantHolds ==
    ASSUME OneTenantPerLocation
    PROVE  Spec => []SharedInv
<1>1. Init => SharedInv
  BY InitSharedInv
<1>2. SharedInv /\ [Next]_vars => SharedInv'
  BY NextSharedInv
<1> QED BY <1>1, <1>2, PTL DEF Spec

(* ingest_frame moves people in the zone engine and in the wait engine     *)
(* together: the two agree in every interleaving of frames, orders, reads, *)
(* refused inserts and registrations.                                      *)
THEOREM LiveCountAgreesHolds ==
    ASSUME OneTenantPerLocation
    PROVE  Spec => []LiveCountAgrees
<1>1. Spec => []SharedInv
  BY SharedInvariantHolds
<1>2. SharedInv => LiveCountAgrees
  BY DEF SharedInv
<1> QED BY <1>1, <1>2, PTL

(* When no frame of an account is under way, _publish_estimate has told it *)
(* of the queue as it is now.                                              *)
THEOREM AnswersAreFreshHolds ==
    ASSUME OneTenantPerLocation
    PROVE  Spec => []AnswersAreFresh
<1>1. Spec => []SharedInv
  BY SharedInvariantHolds
<1>2. SharedInv => AnswersAreFresh
  BY DEF SharedInv
<1> QED BY <1>1, <1>2, PTL

(* Who is counted in a queue was shown by the camera at most max_silence_s *)
(* before its latest frame, through every delay and repetition of frames.  *)
THEOREM VanishedHaveExitedHolds ==
    ASSUME OneTenantPerLocation
    PROVE  Spec => []VanishedHaveExited
<1>1. Spec => []SharedInv
  BY SharedInvariantHolds
<1>2. ASSUME SharedInv PROVE VanishedHaveExited
  <2> SUFFICES ASSUME NEW c \in Cameras, NEW t \in Trackers,
                      <<c.id, t>> \in wait[c.location].inQueue \ orphans
               PROVE  \E u \in DOMAIN film[c] :
                          t \in film[c][u].visible /\ lastTs[c] - u <= MaxSilence
    BY DEF VanishedHaveExited
  <2>1. c.location \in Locations
    BY DEF Locations
  <2>2. Counted(c.location, <<c.id, t>>)
    BY <1>2, <2>1, CountedNow DEF SharedInv
  <2>3. PICK d \in At(c.location) : <<c.id, t>> \in InQueue(d)
    BY <2>2 DEF Counted
  <2>4. PICK k \in DOMAIN engine[d].enter : <<c.id, t>> = Who(d, k)
    BY <2>3 DEF InQueue
  <2>5. d \in Cameras /\ d.location = c.location /\ d.id = c.id /\ Z!Tid(k) = t
    BY <2>4 DEF Who, At
  <2>6. d = c
    BY <2>5, CamerasApart
  <2>7. SightingsAreShown(c) /\ StaysHaveSightings(c)
    BY <1>2 DEF SharedInv, IInv
  <2>8. t \in DOMAIN engine[c].seen
    BY <2>4, <2>5, <2>6, <2>7 DEF StaysHaveSightings
  <2> QED BY <2>7, <2>8 DEF SightingsAreShown
<1> QED BY <1>1, <1>2, PTL
=============================================================================
