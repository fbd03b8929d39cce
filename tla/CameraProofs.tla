---------------------------- MODULE CameraProofs ----------------------------
(***************************************************************************)
(* The safety properties of ZoneEngine hold for every set of trackers,     *)
(* zone kinds and timestamps and every silence limit, and those of         *)
(* EdgeCamera for every buffer and threshold of the tracker, boxes, zones  *)
(* and frame rates.                                                        *)
(*                                                                         *)
(* Four lemmas say what ZoneEngine.update does to a key and to a track,    *)
(* without the intermediate dictionaries.  The inductive invariant of      *)
(* ZoneEngine adds to its properties that every recorded time is the time  *)
(* of a frame that shows what was recorded, and that the state has settled *)
(* after the latest frame: processing it again would find nothing left to  *)
(* do.  That of EdgeCamera is about two clocks, the frames a track has     *)
(* missed and the seconds it was not seen.                                 *)
(***************************************************************************)
EXTENDS ZoneEngine, EdgeCamera, FiniteSetTheorems, WellFoundedInduction, TLAPS

---------------------------------------------------------------------------
(* What update leaves in _last_seen: the tracks of the frame, and those    *)
(* that have not been silent for too long.                                 *)
LEMMA UpdateSeenLemma ==
    ASSUME NEW seen, NEW f, NEW ts \in Int,
           \A t \in DOMAIN seen : seen[t] \in Int
    PROVE  /\ \A t : t \in DOMAIN UpdateSeen(seen, f, ts) <=>
                  t \in f.visible \/ (t \in DOMAIN seen /\ ts - seen[t] <= MaxSilence)
           /\ \A t \in DOMAIN UpdateSeen(seen, f, ts) :
                  UpdateSeen(seen, f, ts)[t] = IF t \in f.visible THEN ts ELSE seen[t]
BY MaxSilenceAssumption DEF UpdateSeen, SeenAfterExpire, SeenNow, Silent

(* What update leaves in _enter_ts: the keys the frame shows inside, and   *)
(* the open ones whose track it does not show and that are not silent for  *)
(* too long.  The time of entry of a key that was open does not change.    *)
LEMMA UpdateEnterLemma ==
    ASSUME NEW enter, NEW seen, NEW f, \A k \in f.present : Tid(k) \in f.visible,
           NEW ts \in Int,
           \A t \in DOMAIN seen : seen[t] \in Int,
           \A k \in DOMAIN enter : Tid(k) \in DOMAIN seen
    PROVE  /\ \A k : k \in DOMAIN UpdateEnter(enter, seen, f, ts) <=>
                  \/ k \in f.present
                  \/ /\ k \in DOMAIN enter
                     /\ Tid(k) \notin f.visible
                     /\ seen[Tid(k)] # ts
                     /\ ts - seen[Tid(k)] <= MaxSilence
           /\ \A k \in DOMAIN UpdateEnter(enter, seen, f, ts) :
                  UpdateEnter(enter, seen, f, ts)[k] =
                      IF k \in DOMAIN enter THEN enter[k] ELSE ts
<1> DEFINE s == SeenNow(seen, f, ts)
           e == EnterNow(enter, f, ts)
           closed == LeftKeys(e, s, f, ts) \union ExpiredKeys(e, s, ts)
<1>1. /\ DOMAIN e = DOMAIN enter \union f.present
      /\ \A k \in DOMAIN e : e[k] = IF k \in DOMAIN enter THEN enter[k] ELSE ts
      /\ \A k \in DOMAIN e : Tid(k) \in DOMAIN s
      /\ \A k \in DOMAIN e : s[Tid(k)] = IF Tid(k) \in f.visible THEN ts ELSE seen[Tid(k)]
  BY DEF EnterNow, SeenNow
<1>2. UpdateEnter(enter, seen, f, ts) = [k \in DOMAIN e \ closed |-> e[k]]
  BY DEF UpdateEnter, Without
<1>3. ASSUME NEW k \in DOMAIN e
      PROVE  k \in closed <=>
                \/ k \notin f.present /\ s[Tid(k)] = ts
                \/ ts - s[Tid(k)] > MaxSilence
  BY <1>1 DEF LeftKeys, ExpiredKeys, Silent
<1>4. ASSUME NEW k \in f.present
      PROVE  k \in DOMAIN e /\ k \notin closed
  <2>1. Tid(k) \in f.visible
    OBVIOUS
  <2> QED BY <2>1, <1>1, <1>3, MaxSilenceAssumption
<1>5. ASSUME NEW k \in DOMAIN e, k \notin f.present, Tid(k) \in f.visible
      PROVE  k \in closed
  BY <1>1, <1>3, <1>5
<1>6. ASSUME NEW k \in DOMAIN e, k \notin f.present, Tid(k) \notin f.visible
      PROVE  /\ k \in DOMAIN enter
             /\ k \notin closed <=> seen[Tid(k)] # ts /\ ts - seen[Tid(k)] <= MaxSilence
  BY <1>1, <1>3, <1>6, MaxSilenceAssumption
<1>7. ASSUME NEW k
      PROVE  k \in DOMAIN e \ closed <=>
                  \/ k \in f.present
                  \/ /\ k \in DOMAIN enter
                     /\ Tid(k) \notin f.visible
                     /\ seen[Tid(k)] # ts
                     /\ ts - seen[Tid(k)] <= MaxSilence
  BY <1>1, <1>4, <1>5, <1>6
<1> QED BY <1>1, <1>2, <1>7

(* The events update returns: an enter for each key that opens, an exit    *)
(* for each open key that closes, at ts if the track was seen at ts and    *)
(* at the time it was last seen if it went silent.                         *)
LEMMA UpdateEventsLemma ==
    ASSUME NEW enter, NEW seen, NEW f \in Frames, NEW ts \in Int,
           \A t \in DOMAIN seen : seen[t] \in Int,
           \A k \in DOMAIN enter : Tid(k) \in DOMAIN seen,
           NEW ev \in UpdateEvents(enter, seen, f, ts)
    PROVE  \/ /\ ev.key \in f.present \ DOMAIN enter
              /\ ev = EnterEvent(ev.key, ts)
           \/ /\ ev.key \in DOMAIN enter \ f.present
              /\ Tid(ev.key) \in f.visible \/ seen[Tid(ev.key)] = ts
              /\ ev = ExitEvent(enter, ev.key, ts)
           \/ /\ ev.key \in DOMAIN enter \ f.present
              /\ Tid(ev.key) \notin f.visible
              /\ ts - seen[Tid(ev.key)] > MaxSilence
              /\ ev = ExitEvent(enter, ev.key, seen[Tid(ev.key)])
<1> DEFINE s == SeenNow(seen, f, ts)
           e == EnterNow(enter, f, ts)
           gone == LeftKeys(e, s, f, ts)
<1>1. /\ DOMAIN e = DOMAIN enter \union f.present
      /\ \A k \in DOMAIN e : e[k] = IF k \in DOMAIN enter THEN enter[k] ELSE ts
      /\ \A k \in DOMAIN e : Tid(k) \in DOMAIN s
      /\ \A k \in DOMAIN e : s[Tid(k)] = IF Tid(k) \in f.visible THEN ts ELSE seen[Tid(k)]
  BY DEF EnterNow, SeenNow, Frames
<1>2. CASE \E k \in EnteredKeys(enter, f) : ev = EnterEvent(k, ts)
  BY <1>2 DEF EnteredKeys, EnterEvent
<1>3. CASE \E k \in gone : ev = ExitEvent(e, k, ts)
  BY <1>1, <1>3 DEF LeftKeys, ExitEvent
<1>4. CASE ev \in ExpireEvents(Without(e, gone), s, ts)
  <2>1. PICK k \in DOMAIN e \ gone :
            Silent(s, Tid(k), ts) /\ ev = ExitEvent(Without(e, gone), k, s[Tid(k)])
    BY <1>4 DEF ExpireEvents, ExpiredKeys, Without
  <2>2. Tid(k) \notin f.visible
    BY <1>1, <2>1, MaxSilenceAssumption DEF Silent
  <2>3. k \in DOMAIN enter \ f.present
    BY <1>1, <2>1, <2>2 DEF Frames
  <2>4. ts - seen[Tid(k)] > MaxSilence /\ ev = ExitEvent(enter, k, seen[Tid(k)])
    BY <1>1, <2>1, <2>2, <2>3 DEF Silent, ExitEvent, Without
  <2> QED BY <2>2, <2>3, <2>4 DEF ExitEvent
<1> QED BY <1>2, <1>3, <1>4 DEF UpdateEvents

(* The keys of the events: the enters are the keys that open, the exits    *)
(* the keys that update closes, each of them once.                         *)
LEMMA EventKeysLemma ==
    ASSUME NEW enter, NEW seen, NEW f, NEW ts
    PROVE  /\ KeysEntered(UpdateEvents(enter, seen, f, ts)) = f.present \ DOMAIN enter
           /\ KeysLeft(UpdateEvents(enter, seen, f, ts))
                = (DOMAIN enter \union f.present) \ DOMAIN UpdateEnter(enter, seen, f, ts)
<1> DEFINE s == SeenNow(seen, f, ts)
           e == EnterNow(enter, f, ts)
           gone == LeftKeys(e, s, f, ts)
           silent == ExpiredKeys(Without(e, gone), s, ts)
           ins == {EnterEvent(k, ts) : k \in EnteredKeys(enter, f)}
           outs == {ExitEvent(e, k, ts) : k \in gone}
           late == {ExitEvent(Without(e, gone), k, s[Tid(k)]) : k \in silent}
           events == UpdateEvents(enter, seen, f, ts)
<1>1. events = ins \union outs \union late
  BY DEF UpdateEvents, ExpireEvents
<1>2. \A x \in ins : x.type = "enter" /\ x.key \in EnteredKeys(enter, f)
  BY DEF EnterEvent
<1>3. \A x \in outs : x.type = "exit" /\ x.key \in gone
  BY DEF ExitEvent
<1>4. \A x \in late : x.type = "exit" /\ x.key \in silent
  BY DEF ExitEvent
<1>5. {x \in events : x.type = "enter"} = ins
  BY <1>1, <1>2, <1>3, <1>4
<1>6. {x \in events : x.type = "exit"} = outs \union late
  BY <1>1, <1>2, <1>3, <1>4
<1>7. {x.key : x \in ins} = EnteredKeys(enter, f)
  <2>1. ASSUME NEW k \in EnteredKeys(enter, f) PROVE k \in {x.key : x \in ins}
    <3>1. EnterEvent(k, ts) \in ins /\ EnterEvent(k, ts).key = k
      BY DEF EnterEvent
    <3> QED BY <3>1
  <2> QED BY <1>2, <2>1
<1>8. {x.key : x \in outs \union late} = gone \union silent
  <2>1. ASSUME NEW k \in gone PROVE k \in {x.key : x \in outs \union late}
    <3>1. ExitEvent(e, k, ts) \in outs /\ ExitEvent(e, k, ts).key = k
      BY DEF ExitEvent
    <3> QED BY <3>1
  <2>2. ASSUME NEW k \in silent PROVE k \in {x.key : x \in outs \union late}
    <3> DEFINE ev == ExitEvent(Without(e, gone), k, s[Tid(k)])
    <3>1. ev \in late /\ ev.key = k
      BY DEF ExitEvent
    <3> QED BY <3>1
  <2> QED BY <1>3, <1>4, <2>1, <2>2
<1>9. gone \union silent = DOMAIN e \ DOMAIN UpdateEnter(enter, seen, f, ts)
  BY DEF UpdateEnter, Without, LeftKeys, ExpiredKeys
<1>10. DOMAIN e = DOMAIN enter \union f.present
  BY DEF EnterNow
<1> QED BY <1>5, <1>6, <1>7, <1>8, <1>9, <1>10 DEF EnteredKeys, KeysEntered, KeysLeft

---------------------------------------------------------------------------
(* Every recorded time is the time of a processed frame: an open key's of  *)
(* a frame that shows it inside, a track's of a frame that shows it, and   *)
(* shows it inside what is open.                                           *)
RecordsAreFrames ==
    /\ \A k \in DOMAIN enterTs :
           enterTs[k] \in DOMAIN film /\ k \in film[enterTs[k]].present
    /\ \A t \in DOMAIN lastSeen :
           lastSeen[t] \in DOMAIN film /\ t \in film[lastSeen[t]].visible
    /\ \A k \in DOMAIN enterTs : k \in film[lastSeen[Tid(k)]].present

(* The latest frame has been applied in full. *)
Settled ==
    /\ lastTs = Absent => DOMAIN enterTs = {} /\ DOMAIN lastSeen = {}
    /\ lastTs # Absent =>
           /\ lastTs \in DOMAIN film
           /\ film[lastTs].present \subseteq DOMAIN enterTs
           /\ \A t \in film[lastTs].visible : t \in DOMAIN lastSeen /\ lastSeen[t] = lastTs
           /\ \A t \in DOMAIN lastSeen : lastTs - lastSeen[t] <= MaxSilence
           /\ \A k \in DOMAIN enterTs :
                  k \notin film[lastTs].present => lastSeen[Tid(k)] # lastTs

IInv ==
    /\ TypeOK
    /\ OpenKeysCanClose
    /\ OpenMeansLastShownInside
    /\ StaysAreWitnessed
    /\ RecordsAreFrames
    /\ Settled

LEMMA InitLemma == Init => IInv
BY DEF Init, IInv, TypeOK, OpenKeysCanClose, OpenMeansLastShownInside, StaysAreWitnessed,
       RecordsAreFrames, Settled, EmptyFunction, Stamps

(* What a frame does to the state, in the terms of the lemmas above. *)
LEMMA StepFacts ==
    ASSUME TypeOK, OpenKeysCanClose,
           NEW f \in Frames, NEW ts \in Times, Update(f, ts)
    PROVE  /\ \A t : t \in DOMAIN lastSeen' <=>
                  t \in f.visible \/ (t \in DOMAIN lastSeen /\ ts - lastSeen[t] <= MaxSilence)
           /\ \A t \in DOMAIN lastSeen' :
                  lastSeen'[t] = IF t \in f.visible THEN ts ELSE lastSeen[t]
           /\ \A k : k \in DOMAIN enterTs' <=>
                  \/ k \in f.present
                  \/ /\ k \in DOMAIN enterTs
                     /\ Tid(k) \notin f.visible
                     /\ lastSeen[Tid(k)] # ts
                     /\ ts - lastSeen[Tid(k)] <= MaxSilence
           /\ \A k \in DOMAIN enterTs' :
                  enterTs'[k] = IF k \in DOMAIN enterTs THEN enterTs[k] ELSE ts
           /\ \A ev \in emitted' :
                  \/ /\ ev.key \in f.present \ DOMAIN enterTs
                     /\ ev = EnterEvent(ev.key, ts)
                  \/ /\ ev.key \in DOMAIN enterTs \ f.present
                     /\ Tid(ev.key) \in f.visible \/ lastSeen[Tid(ev.key)] = ts
                     /\ ev = ExitEvent(enterTs, ev.key, ts)
                  \/ /\ ev.key \in DOMAIN enterTs \ f.present
                     /\ Tid(ev.key) \notin f.visible
                     /\ ts - lastSeen[Tid(ev.key)] > MaxSilence
                     /\ ev = ExitEvent(enterTs, ev.key, lastSeen[Tid(ev.key)])
<1>1. ts \in Int /\ \A t \in DOMAIN lastSeen : lastSeen[t] \in Int
  BY TimesAssumption DEF TypeOK
<1>2. \A k \in DOMAIN enterTs : Tid(k) \in DOMAIN lastSeen
  BY DEF OpenKeysCanClose
<1>3. lastSeen' = UpdateSeen(lastSeen, f, ts) /\ enterTs' = UpdateEnter(enterTs, lastSeen, f, ts)
  BY DEF Update
<1>4. \A ev \in emitted' : ev \in UpdateEvents(enterTs, lastSeen, f, ts)
  BY DEF Update
<1>5. /\ \A t : t \in DOMAIN lastSeen' <=>
             t \in f.visible \/ (t \in DOMAIN lastSeen /\ ts - lastSeen[t] <= MaxSilence)
      /\ \A t \in DOMAIN lastSeen' :
             lastSeen'[t] = IF t \in f.visible THEN ts ELSE lastSeen[t]
  BY <1>1, <1>3, UpdateSeenLemma
<1>6. \A k \in f.present : Tid(k) \in f.visible
  BY DEF Frames
<1>7. /\ \A k : k \in DOMAIN enterTs' <=>
             \/ k \in f.present
             \/ /\ k \in DOMAIN enterTs
                /\ Tid(k) \notin f.visible
                /\ lastSeen[Tid(k)] # ts
                /\ ts - lastSeen[Tid(k)] <= MaxSilence
      /\ \A k \in DOMAIN enterTs' :
             enterTs'[k] = IF k \in DOMAIN enterTs THEN enterTs[k] ELSE ts
  BY <1>1, <1>2, <1>3, <1>6, UpdateEnterLemma
<1> QED BY <1>1, <1>2, <1>4, <1>5, <1>7, UpdateEventsLemma

(* What every stay that a frame closes has behind it. *)
LEMMA UpdateWitnessed ==
    ASSUME IInv, NEW f \in Frames, NEW ts \in Times, Update(f, ts)
    PROVE  StaysAreWitnessed'
<1> USE DEF IInv
<1>1. /\ DOMAIN film' = DOMAIN film \union {ts}
      /\ film'[ts] = f
      /\ \A u \in DOMAIN film : film'[u] = film[u]
  BY DEF Update
<1> SUFFICES ASSUME NEW ev \in emitted', ev.type = "exit"
             PROVE  /\ ev.ts \in DOMAIN film'
                    /\ Tid(ev.key) \in film'[ev.ts].visible
                    /\ ev.dwell > 0 => /\ ev.ts - ev.dwell \in DOMAIN film'
                                       /\ ev.key \in film'[ev.ts - ev.dwell].present
  BY DEF StaysAreWitnessed
<1> DEFINE k == ev.key
<1>2. PICK at \in Times :
          /\ k \in DOMAIN enterTs
          /\ ev = ExitEvent(enterTs, k, at)
          /\ at \in DOMAIN film'
          /\ Tid(k) \in film'[at].visible
  <2>1. k \in DOMAIN enterTs
    BY StepFacts DEF EnterEvent
  <2>2. Tid(k) \in DOMAIN lastSeen /\ lastSeen[Tid(k)] \in Times
    BY <2>1 DEF OpenKeysCanClose, TypeOK
  <2>3. CASE (Tid(k) \in f.visible \/ lastSeen[Tid(k)] = ts) /\ ev = ExitEvent(enterTs, k, ts)
    <3>1. Tid(k) \in film'[ts].visible
      BY <1>1, <2>2, <2>3 DEF RecordsAreFrames
    <3> QED BY <1>1, <2>1, <2>3, <3>1
  <2>4. CASE ev = ExitEvent(enterTs, k, lastSeen[Tid(k)])
    BY <1>1, <2>1, <2>2, <2>4 DEF RecordsAreFrames
  <2> QED BY <2>3, <2>4, StepFacts DEF EnterEvent
<1>3. ev.ts = at /\ ev.dwell = Dwell(enterTs[k], at)
  BY <1>2 DEF ExitEvent
<1>4. enterTs[k] \in Int /\ at \in Int
  BY <1>2, TimesAssumption DEF TypeOK
<1>5. ev.dwell > 0 => ev.ts - ev.dwell = enterTs[k]
  BY <1>3, <1>4 DEF Dwell
<1>6. enterTs[k] \in DOMAIN film /\ k \in film[enterTs[k]].present
  BY <1>2 DEF RecordsAreFrames
<1> QED BY <1>1, <1>2, <1>3, <1>5, <1>6

LEMMA UpdateTypes ==
    ASSUME IInv, NEW f \in Frames, NEW ts \in Times, Update(f, ts)
    PROVE  TypeOK'
<1> USE DEF IInv
<1>1. enterTs' \in [DOMAIN enterTs' -> Times] /\ DOMAIN enterTs' \subseteq Keys
  <2>1. enterTs' = [k \in DOMAIN enterTs' |-> enterTs'[k]]
    BY DEF Update, UpdateEnter, Without
  <2>2. DOMAIN enterTs' \subseteq Keys /\ \A k \in DOMAIN enterTs' : enterTs'[k] \in Times
    BY StepFacts DEF TypeOK, Frames
  <2> QED BY <2>1, <2>2
<1>2. lastSeen' \in [DOMAIN lastSeen' -> Times] /\ DOMAIN lastSeen' \subseteq Trackers
  <2>1. lastSeen' = [t \in DOMAIN lastSeen' |-> lastSeen'[t]]
    BY DEF Update, UpdateSeen, SeenAfterExpire
  <2>2. DOMAIN lastSeen' \subseteq Trackers /\ \A t \in DOMAIN lastSeen' : lastSeen'[t] \in Times
    BY StepFacts DEF TypeOK, Frames
  <2> QED BY <2>1, <2>2
<1>3. emitted' \subseteq ZoneEvents(Times)
  <2> SUFFICES ASSUME NEW ev \in emitted' PROVE ev \in ZoneEvents(Times)
    OBVIOUS
  <2>1. ev.key \in Keys
    BY StepFacts DEF TypeOK, Frames
  <2>2. CASE ev = EnterEvent(ev.key, ts)
    BY <2>1, <2>2 DEF EnterEvent, ZoneEvents
  <2>3. ASSUME NEW at \in Times, ev.key \in DOMAIN enterTs, ev = ExitEvent(enterTs, ev.key, at)
        PROVE  ev \in ZoneEvents(Times)
    <3>1. enterTs[ev.key] \in Int /\ at \in Int
      BY <2>3, TimesAssumption DEF TypeOK
    <3>2. Dwell(enterTs[ev.key], at) \in Nat
      BY <3>1 DEF Dwell
    <3> QED BY <2>1, <2>3, <3>2 DEF ExitEvent, ZoneEvents
  <2>4. ev.key \in DOMAIN enterTs => lastSeen[Tid(ev.key)] \in Times
    BY DEF OpenKeysCanClose, TypeOK
  <2> QED BY <2>2, <2>3, <2>4, StepFacts
<1>4. /\ lastTs' \in Stamps
      /\ film' \in [DOMAIN film' -> Frames] /\ DOMAIN film' \subseteq Times
  BY DEF Update, TypeOK, Stamps
<1>5. shown' \in [Trackers -> SUBSET Keys]
  <2>1. f.present \subseteq Keys
    BY DEF Frames
  <2> QED BY <2>1 DEF Update, TypeOK
<1>6. ordered' \in BOOLEAN
  BY DEF Update, InOrder, TypeOK
<1> QED BY <1>1, <1>2, <1>3, <1>4, <1>5, <1>6 DEF TypeOK

LEMMA UpdateRecords ==
    ASSUME IInv, NEW f \in Frames, NEW ts \in Times, Update(f, ts)
    PROVE  /\ OpenKeysCanClose'
           /\ OpenMeansLastShownInside'
           /\ RecordsAreFrames'
           /\ Settled'
<1> USE DEF IInv
<1>1. /\ DOMAIN film' = DOMAIN film \union {ts}
      /\ film'[ts] = f
      /\ \A u \in DOMAIN film : film'[u] = film[u]
      /\ lastTs' = ts
  BY DEF Update
<1>2. OpenKeysCanClose'
  <2> SUFFICES ASSUME NEW k \in DOMAIN enterTs' PROVE Tid(k) \in DOMAIN lastSeen'
    BY DEF OpenKeysCanClose
  <2>1. CASE k \in f.present
    BY <2>1, StepFacts DEF Frames
  <2>2. CASE k \in DOMAIN enterTs /\ ts - lastSeen[Tid(k)] <= MaxSilence
    BY <2>2, StepFacts DEF OpenKeysCanClose
  <2> QED BY <2>1, <2>2, StepFacts
<1>3. OpenMeansLastShownInside'
  <2> SUFFICES ASSUME NEW k \in DOMAIN enterTs' PROVE k \in shown'[Tid(k)]
    BY DEF OpenMeansLastShownInside
  <2>1. k \in Keys /\ Tid(k) \in Trackers
    BY UpdateTypes DEF TypeOK, Keys, Tid
  <2>2. CASE k \in f.present
    BY <2>1, <2>2 DEF Update, Frames
  <2>3. CASE k \in DOMAIN enterTs /\ Tid(k) \notin f.visible
    BY <2>1, <2>3 DEF Update, OpenMeansLastShownInside
  <2> QED BY <2>2, <2>3, StepFacts
<1>4. RecordsAreFrames'
  <2>1. ASSUME NEW k \in DOMAIN enterTs'
        PROVE  enterTs'[k] \in DOMAIN film' /\ k \in film'[enterTs'[k]].present
    <3>1. CASE k \in DOMAIN enterTs
      <4>1. enterTs[k] \in DOMAIN film /\ k \in film[enterTs[k]].present
        BY <3>1 DEF RecordsAreFrames
      <4>2. enterTs'[k] = enterTs[k]
        BY <2>1, <3>1, StepFacts
      <4> QED BY <1>1, <4>1, <4>2
    <3>2. CASE k \notin DOMAIN enterTs
      BY <1>1, <2>1, <3>2, StepFacts
    <3> QED BY <3>1, <3>2
  <2>2. ASSUME NEW t \in DOMAIN lastSeen'
        PROVE  lastSeen'[t] \in DOMAIN film' /\ t \in film'[lastSeen'[t]].visible
    <3>1. CASE t \in f.visible
      BY <1>1, <2>2, <3>1, StepFacts
    <3>2. CASE t \notin f.visible
      <4>1. t \in DOMAIN lastSeen /\ lastSeen'[t] = lastSeen[t]
        BY <2>2, <3>2, StepFacts
      <4>2. lastSeen[t] \in DOMAIN film /\ t \in film[lastSeen[t]].visible
        BY <4>1 DEF RecordsAreFrames
      <4> QED BY <1>1, <4>1, <4>2
    <3> QED BY <3>1, <3>2
  <2>3. ASSUME NEW k \in DOMAIN enterTs' PROVE k \in film'[lastSeen'[Tid(k)]].present
    <3>0. Tid(k) \in DOMAIN lastSeen'
      BY <1>2, <2>3 DEF OpenKeysCanClose
    <3>1. CASE k \in f.present
      <4>1. Tid(k) \in f.visible
        BY <3>1 DEF Frames
      <4> QED BY <1>1, <3>0, <3>1, <4>1, StepFacts
    <3>2. CASE k \in DOMAIN enterTs /\ Tid(k) \notin f.visible
      <4>1. lastSeen'[Tid(k)] = lastSeen[Tid(k)]
        BY <3>0, <3>2, StepFacts
      <4>2. lastSeen[Tid(k)] \in DOMAIN film /\ k \in film[lastSeen[Tid(k)]].present
        BY <3>2 DEF RecordsAreFrames, OpenKeysCanClose
      <4> QED BY <1>1, <4>1, <4>2
    <3> QED BY <2>3, <3>1, <3>2, StepFacts
  <2> QED BY <2>1, <2>2, <2>3 DEF RecordsAreFrames
<1>5. Settled'
  <2>1. lastTs' # Absent
    BY <1>1, TimesAssumption, AbsentAssumption
  <2>2. ts \in Int /\ \A t \in DOMAIN lastSeen : lastSeen[t] \in Int
    BY TimesAssumption DEF TypeOK
  <2>3. f.present \subseteq DOMAIN enterTs'
    BY StepFacts
  <2>4. \A t \in f.visible : t \in DOMAIN lastSeen' /\ lastSeen'[t] = ts
    BY StepFacts
  <2>5. \A t \in DOMAIN lastSeen' : ts - lastSeen'[t] <= MaxSilence
    BY <2>2, StepFacts, MaxSilenceAssumption
  <2>6. \A k \in DOMAIN enterTs' : k \notin f.present => lastSeen'[Tid(k)] # ts
    BY <1>2, StepFacts DEF OpenKeysCanClose
  <2> QED BY <1>1, <2>1, <2>3, <2>4, <2>5, <2>6 DEF Settled
<1> QED BY <1>2, <1>3, <1>4, <1>5

LEMMA StepLemma == IInv /\ [Next]_vars => IInv'
<1> SUFFICES ASSUME IInv, [Next]_vars PROVE IInv'
  OBVIOUS
<1>1. CASE Next
  BY <1>1, UpdateTypes, UpdateRecords, UpdateWitnessed DEF Next, IInv
<1>2. CASE UNCHANGED vars
  BY <1>2 DEF vars, IInv, TypeOK, OpenKeysCanClose, OpenMeansLastShownInside,
              StaysAreWitnessed, RecordsAreFrames, Settled
<1> QED BY <1>1, <1>2

LEMMA InvariantHolds == Spec => []IInv
BY InitLemma, StepLemma, PTL DEF Spec

---------------------------------------------------------------------------
(* ZoneEngine.update keeps the types of its dictionaries and its events,   *)
(* and no dwell it reports is negative.                                    *)
THEOREM TypeCorrect == Spec => []TypeOK
BY InvariantHolds, PTL DEF IInv

(* A person counted in a zone can always be closed by expire: the two      *)
(* loops of expire (zones.py:95-102) never drop the track first.           *)
THEOREM OpenKeysCanCloseHolds == Spec => []OpenKeysCanClose
BY InvariantHolds, PTL DEF IInv

(* In every order of delivery, a processed frame leaves nobody counted who *)
(* has been silent for more than MaxSilence before it.                     *)
THEOREM BoundedSilenceHolds == Spec => []BoundedSilence
<1>1. IInv => BoundedSilence
  BY DEF IInv, Settled, BoundedSilence
<1> QED BY <1>1, InvariantHolds, PTL

(* In every order of delivery, nobody is counted in a zone that the latest *)
(* processed frame with them shows them outside of.                        *)
THEOREM OpenMeansLastShownInsideHolds == Spec => []OpenMeansLastShownInside
BY InvariantHolds, PTL DEF IInv

(* In every order of delivery, an exit begins and ends at frames that show *)
(* the person: expire closes at the last sighting and bills no silence.    *)
THEOREM StaysAreWitnessedHolds == Spec => []StaysAreWitnessed
BY InvariantHolds, PTL DEF IInv

(* Whatever the uplink replays, repeats or loses, what it does to the      *)
(* zones is over when newer frames come: those of the latest frame are     *)
(* where it shows them, and of the others nobody is counted but whom a     *)
(* frame of the last MaxSilence shows inside.                              *)
THEOREM ReplaysHealHolds == Spec => []ReplaysHeal
<1>1. IInv => ReplaysHeal
  <2> SUFFICES ASSUME IInv, lastTs # Absent, NEW k \in Keys
               PROVE  /\ Tid(k) \in film[lastTs].visible =>
                             (k \in DOMAIN enterTs <=> k \in film[lastTs].present)
                      /\ k \in DOMAIN enterTs =>
                             \E u \in DOMAIN film :
                                 k \in film[u].present /\ lastTs - u <= MaxSilence
    BY DEF ReplaysHeal
  <2>1. /\ film[lastTs].present \subseteq DOMAIN enterTs
        /\ \A t \in film[lastTs].visible : t \in DOMAIN lastSeen /\ lastSeen[t] = lastTs
        /\ \A t \in DOMAIN lastSeen : lastTs - lastSeen[t] <= MaxSilence
        /\ \A t \in DOMAIN lastSeen : lastSeen[t] \in DOMAIN film
        /\ \A h \in DOMAIN enterTs : Tid(h) \in DOMAIN lastSeen
        /\ \A h \in DOMAIN enterTs : h \in film[lastSeen[Tid(h)]].present
    BY DEF IInv, Settled, OpenKeysCanClose, RecordsAreFrames
  <2> QED BY <2>1
<1> QED BY <1>1, InvariantHolds, PTL

(* The engine implements the presence contract its consumers rely on: every *)
(* enter is for somebody outside the zone, every exit for somebody inside,  *)
(* and the people inside are those who entered and have not left.           *)
THEOREM EngineKeepsContract == Spec => ContractSpec
<1> DEFINE entered == KeysEntered(emitted)
           left == KeysLeft(emitted)
<1>1. Init => Contract!Init
  BY DEF Init, Contract!Init, EmptyFunction, KeysEntered, KeysLeft
<1>2. IInv /\ [Next]_vars => [Contract!Next]_(Contract!vars)
  <2> SUFFICES ASSUME IInv, [Next]_vars PROVE [Contract!Next]_(Contract!vars)
    OBVIOUS
  <2> USE DEF IInv
  <2>1. CASE Next
    <3>1. PICK f \in Frames, ts \in Times : Update(f, ts)
      BY <2>1 DEF Next
    <3>2. ts \in Int
      BY TimesAssumption
    <3>3. /\ emitted' = UpdateEvents(enterTs, lastSeen, f, ts)
          /\ enterTs' = UpdateEnter(enterTs, lastSeen, f, ts)
      BY <3>1 DEF Update
    <3>4. /\ entered' = f.present \ DOMAIN enterTs
          /\ left' = (DOMAIN enterTs \union f.present) \ DOMAIN enterTs'
      BY <3>3, EventKeysLemma
    <3>5. f.present \subseteq DOMAIN enterTs'
      BY <3>1, StepFacts
    <3>6. DOMAIN enterTs' \subseteq DOMAIN enterTs \union f.present
      BY <3>1, StepFacts
    <3>7. entered' \subseteq Keys /\ left' \subseteq Keys
      BY <3>4 DEF Frames, TypeOK
    <3>8. left' \subseteq DOMAIN enterTs
      BY <3>4, <3>5
    <3>9. DOMAIN enterTs' = (DOMAIN enterTs \union entered') \ left'
      BY <3>4, <3>6
    <3> QED BY <3>4, <3>7, <3>8, <3>9 DEF Contract!Next, Contract!Batch
  <2>2. CASE UNCHANGED vars
    BY <2>2 DEF vars, Contract!vars
  <2> QED BY <2>1, <2>2
<1> QED BY <1>1, <1>2, InvariantHolds, PTL DEF Spec, ContractSpec, Contract!Spec

---------------------------------------------------------------------------
(* While the uplink never fails.  A track is remembered exactly while its  *)
(* latest sighting is recent, and a key is open exactly when that sighting *)
(* shows it inside; then the two in-order properties follow.               *)
LatestSightings ==
    /\ \A u \in DOMAIN film : lastTs # Absent /\ u <= lastTs
    /\ \A t \in DOMAIN lastSeen, w \in DOMAIN film :
           w > lastSeen[t] => t \notin film[w].visible
    /\ \A u \in DOMAIN film : \A t \in film[u].visible :
           lastTs - u <= MaxSilence => t \in DOMAIN lastSeen
    /\ \A k \in Keys :
           k \in DOMAIN enterTs <=>
               Tid(k) \in DOMAIN lastSeen /\ k \in film[lastSeen[Tid(k)]].present

UnbrokenStays ==
    \A k \in DOMAIN enterTs :
        /\ enterTs[k] \in DOMAIN film
        /\ k \in film[enterTs[k]].present
        /\ \A u \in DOMAIN film :
               u >= enterTs[k] /\ Tid(k) \in film[u].visible => k \in film[u].present

OrderInv == IInv /\ LatestSightings /\ UnbrokenStays

LEMMA OrderStep ==
    ASSUME OrderInv, IInv', NEW f \in Frames, NEW ts \in Times, InOrder(ts), Update(f, ts)
    PROVE  OrderInv'
<1> USE DEF OrderInv, IInv
<1>1. /\ DOMAIN film' = DOMAIN film \union {ts}
      /\ film'[ts] = f
      /\ \A u \in DOMAIN film : film'[u] = film[u]
      /\ lastTs' = ts
      /\ lastTs' # Absent
  BY TimesAssumption, AbsentAssumption DEF Update
<1>2. /\ ts \in Int
      /\ \A u \in DOMAIN film : u \in Int
      /\ \A t \in DOMAIN lastSeen : lastSeen[t] \in Int
      /\ \A k \in DOMAIN enterTs : enterTs[k] \in Int
  BY TimesAssumption DEF TypeOK
<1>3. \A u \in DOMAIN film : u <= ts /\ lastTs \in Int /\ u <= lastTs /\ lastTs <= ts
  <2>1. \A u \in DOMAIN film : lastTs # Absent /\ u <= lastTs
    BY DEF LatestSightings
  <2>2. lastTs # Absent => lastTs \in Int /\ ts >= lastTs
    BY TimesAssumption DEF TypeOK, Stamps, InOrder
  <2> QED BY <1>2, <2>1, <2>2
<1>4. \A u \in DOMAIN film' : u <= ts
  BY <1>1, <1>2, <1>3
<1>5. \A t \in DOMAIN lastSeen', w \in DOMAIN film' :
          w > lastSeen'[t] => t \notin film'[w].visible
  <2> SUFFICES ASSUME NEW t \in DOMAIN lastSeen', NEW w \in DOMAIN film', w > lastSeen'[t]
               PROVE  t \notin film'[w].visible
    OBVIOUS
  <2>1. t \notin f.visible
    BY <1>1, <1>2, <1>4, StepFacts
  <2>2. t \in DOMAIN lastSeen /\ lastSeen'[t] = lastSeen[t]
    BY <2>1, StepFacts
  <2>3. CASE w = ts
    BY <1>1, <2>1, <2>3
  <2>4. CASE w # ts
    BY <1>1, <2>2, <2>4 DEF LatestSightings
  <2> QED BY <2>3, <2>4
<1>6. \A u \in DOMAIN film' : \A t \in film'[u].visible :
          ts - u <= MaxSilence => t \in DOMAIN lastSeen'
  <2> SUFFICES ASSUME NEW u \in DOMAIN film', NEW t \in film'[u].visible, ts - u <= MaxSilence,
                      t \notin f.visible
               PROVE  t \in DOMAIN lastSeen'
    BY StepFacts
  <2>1. u \in DOMAIN film /\ t \in film[u].visible
    BY <1>1
  <2>2. lastTs - u <= MaxSilence
    BY <1>2, <1>3, <2>1, MaxSilenceAssumption
  <2>3. t \in DOMAIN lastSeen
    BY <2>1, <2>2 DEF LatestSightings
  <2>4. ~(u > lastSeen[t])
    BY <2>1, <2>3 DEF LatestSightings
  <2>5. ts - lastSeen[t] <= MaxSilence
    BY <1>2, <2>1, <2>3, <2>4, MaxSilenceAssumption
  <2> QED BY <2>3, <2>5, StepFacts
<1>7. \A k \in Keys :
          k \in DOMAIN enterTs' <=>
              Tid(k) \in DOMAIN lastSeen' /\ k \in film'[lastSeen'[Tid(k)]].present
  <2> SUFFICES ASSUME NEW k \in Keys
               PROVE  k \in DOMAIN enterTs' <=>
                          Tid(k) \in DOMAIN lastSeen' /\ k \in film'[lastSeen'[Tid(k)]].present
    OBVIOUS
  <2>1. CASE Tid(k) \in f.visible
    BY <1>1, <2>1, StepFacts
  <2>2. CASE Tid(k) \notin f.visible
    <3>1. k \notin f.present
      BY <2>2 DEF Frames
    <3>2. Tid(k) \in DOMAIN lastSeen' <=>
              Tid(k) \in DOMAIN lastSeen /\ ts - lastSeen[Tid(k)] <= MaxSilence
      BY <2>2, StepFacts
    <3>3. Tid(k) \in DOMAIN lastSeen' => lastSeen'[Tid(k)] = lastSeen[Tid(k)]
      BY <2>2, StepFacts
    <3>4. Tid(k) \in DOMAIN lastSeen =>
              /\ lastSeen[Tid(k)] # ts
              /\ film'[lastSeen[Tid(k)]] = film[lastSeen[Tid(k)]]
      <4>1. Tid(k) \in DOMAIN lastSeen =>
                /\ lastSeen[Tid(k)] \in DOMAIN film
                /\ Tid(k) \in film[lastSeen[Tid(k)]].visible
        BY DEF RecordsAreFrames
      <4> QED BY <1>1, <2>2, <4>1 DEF Update
    <3>5. k \in DOMAIN enterTs <=>
              Tid(k) \in DOMAIN lastSeen /\ k \in film[lastSeen[Tid(k)]].present
      BY DEF LatestSightings
    <3> QED BY <2>2, <3>1, <3>2, <3>3, <3>4, <3>5, StepFacts
  <2> QED BY <2>1, <2>2
<1>8. LatestSightings'
  BY <1>1, <1>4, <1>5, <1>6, <1>7 DEF LatestSightings
<1>9. UnbrokenStays'
  <2> SUFFICES ASSUME NEW k \in DOMAIN enterTs'
               PROVE  \A u \in DOMAIN film' :
                          u >= enterTs'[k] /\ Tid(k) \in film'[u].visible => k \in film'[u].present
    BY DEF UnbrokenStays, RecordsAreFrames
  <2> TAKE u \in DOMAIN film'
  <2> HAVE u >= enterTs'[k] /\ Tid(k) \in film'[u].visible
  <2>1. CASE u = ts
    BY <1>1, <2>1, StepFacts
  <2>2. CASE u # ts /\ k \in DOMAIN enterTs
    BY <1>1, <2>2, StepFacts DEF UnbrokenStays
  <2>3. CASE u # ts /\ k \notin DOMAIN enterTs
    BY <1>1, <1>2, <1>3, <2>3, StepFacts
  <2> QED BY <2>1, <2>2, <2>3
<1> QED BY <1>8, <1>9

LEMMA OrderInvariantHolds == Spec => [](ordered => OrderInv)
<1>1. Init => OrderInv
  BY InitLemma DEF Init, OrderInv, LatestSightings, UnbrokenStays, EmptyFunction
<1>2. (ordered => OrderInv) /\ IInv' /\ [Next]_vars => (ordered' => OrderInv')
  <2> SUFFICES ASSUME ordered => OrderInv, IInv', [Next]_vars, ordered' PROVE OrderInv'
    OBVIOUS
  <2>1. CASE Next
    <3>1. PICK f \in Frames, ts \in Times : Update(f, ts)
      BY <2>1 DEF Next
    <3>2. ordered /\ InOrder(ts)
      BY <3>1 DEF Update
    <3> QED BY <3>1, <3>2, OrderStep
  <2>2. CASE UNCHANGED vars
    BY <2>2 DEF vars, OrderInv, LatestSightings, UnbrokenStays
  <2> QED BY <2>1, <2>2
<1> QED BY <1>1, <1>2, InvariantHolds, PTL DEF Spec

(* In order, occupancy is a function of the frames: a person is counted in *)
(* a zone exactly when the latest frame with them, no older than           *)
(* MaxSilence, shows them inside it.                                       *)
THEOREM OccupancyIsExactHolds == Spec => []OccupancyIsExact
<1>1. (ordered => OrderInv) => OccupancyIsExact
  <2> SUFFICES ASSUME OrderInv, NEW k \in Keys
               PROVE  k \in DOMAIN enterTs <=>
                          \E u \in DOMAIN film :
                              /\ k \in film[u].present
                              /\ lastTs - u <= MaxSilence
                              /\ \A w \in DOMAIN film : w > u => Tid(k) \notin film[w].visible
    BY DEF OccupancyIsExact
  <2> USE DEF OrderInv, IInv
  <2>1. \A t \in DOMAIN lastSeen : lastTs - lastSeen[t] <= MaxSilence
    BY DEF Settled
  <2>2. ASSUME k \in DOMAIN enterTs
        PROVE  \E u \in DOMAIN film :
                   /\ k \in film[u].present
                   /\ lastTs - u <= MaxSilence
                   /\ \A w \in DOMAIN film : w > u => Tid(k) \notin film[w].visible
    <3>1. Tid(k) \in DOMAIN lastSeen /\ k \in film[lastSeen[Tid(k)]].present
      BY <2>2 DEF LatestSightings
    <3>2. lastSeen[Tid(k)] \in DOMAIN film
      BY <3>1 DEF RecordsAreFrames
    <3> QED BY <2>1, <3>1, <3>2 DEF LatestSightings
  <2>3. ASSUME NEW u \in DOMAIN film,
               k \in film[u].present,
               lastTs - u <= MaxSilence,
               \A w \in DOMAIN film : w > u => Tid(k) \notin film[w].visible
        PROVE  k \in DOMAIN enterTs
    <3>1. Tid(k) \in film[u].visible
      BY <2>3 DEF TypeOK, Frames
    <3>2. Tid(k) \in DOMAIN lastSeen
      BY <2>3, <3>1 DEF LatestSightings
    <3>3. lastSeen[Tid(k)] \in DOMAIN film /\ Tid(k) \in film[lastSeen[Tid(k)]].visible
      BY <3>2 DEF RecordsAreFrames
    <3>4. ~(u > lastSeen[Tid(k)]) /\ ~(lastSeen[Tid(k)] > u)
      BY <2>3, <3>1, <3>2, <3>3 DEF LatestSightings
    <3>5. u = lastSeen[Tid(k)]
      BY <3>3, <3>4, TimesAssumption DEF TypeOK
    <3> QED BY <2>3, <3>2, <3>5 DEF LatestSightings
  <2> QED BY <2>2, <2>3
<1> QED BY <1>1, OrderInvariantHolds, PTL

(* In order, an open stay is one visit: no frame since it began shows the  *)
(* person outside.                                                         *)
THEOREM OpenStayIsUnbrokenHolds == Spec => []OpenStayIsUnbroken
<1>1. (ordered => OrderInv) => OpenStayIsUnbroken
  BY DEF OrderInv, UnbrokenStays, OpenStayIsUnbroken
<1> QED BY <1>1, OrderInvariantHolds, PTL

---------------------------------------------------------------------------
(* About finite sets. *)
(* Induction, of a set that holds the numbers for which a claim is true.   *)
LEMMA Induction ==
    ASSUME NEW S, 0 \in S, \A m \in Nat : m \in S => m + 1 \in S
    PROVE  \A m \in Nat : m \in S
<1> DEFINE Less == {pair \in Nat \X Nat : pair[1] < pair[2]}
           rest == Nat \ S
<1>1. IsWellFoundedOn(Less, Nat)
  BY NatLessThanWellFounded DEF OpToRel
<1>2. \A m, n \in Nat : m < n => <<m, n>> \in Less
  OBVIOUS
<1> HIDE DEF Less
<1>3. rest = {}
  <2> SUFFICES ASSUME rest # {} PROVE FALSE
    OBVIOUS
  <2>1. PICK m \in rest : \A n \in rest : ~(<<n, m>> \in Less)
    BY <1>1, WFMin
  <2>2. m \in Nat /\ m - 1 \in Nat /\ m - 1 < m
    BY <2>1
  <2>3. <<m - 1, m>> \in Less
    BY <1>2, <2>2
  <2>4. m - 1 \notin rest
    BY <2>1, <2>3
  <2> QED BY <2>1, <2>2, <2>4
<1> QED BY <1>3

LEMMA Counting ==
    ASSUME NEW D, IsFiniteSet(D), NEW P \in SUBSET D, NEW Q \in SUBSET P
    PROVE  /\ Cardinality(P) \in Nat /\ Cardinality(P) <= Cardinality(D)
           /\ Cardinality(Q) \in Nat /\ Cardinality(Q) <= Cardinality(P)
           /\ Cardinality(P) = Cardinality(Q) => P = Q
           /\ Cardinality(D) \in Nat
<1>1. IsFiniteSet(P) /\ Cardinality(P) <= Cardinality(D)
  BY FS_Subset
<1>2. IsFiniteSet(Q) /\ Cardinality(Q) <= Cardinality(P) /\ (Cardinality(P) = Cardinality(Q) => P = Q)
  BY <1>1, FS_Subset
<1> QED BY <1>1, <1>2, FS_CardinalityType

LEMMA MaxOfInterval ==
    ASSUME NEW n \in Nat \ {0}, NEW s \in SUBSET (1 .. n), n \in s
    PROVE  Max(s) = n
<1>1. \A i \in s : n >= i
  OBVIOUS
<1>2. \A i \in s : i \in Int
  OBVIOUS
<1>3. ASSUME NEW x \in s, \A y \in s : x >= y PROVE x = n
  BY <1>1, <1>2, <1>3
<1>4. Max(s) \in s /\ \A y \in s : Max(s) >= y
  BY <1>1 DEF Max
<1> QED BY <1>3, <1>4

---------------------------------------------------------------------------
(* The order in which the tracker takes pairs: a strict total order.       *)
Rectangles == {b \in Int \X Int : b[1] < b[2]}
Scores == Nat \X (Nat \ {0})

LEMMA ScoreLemma ==
    ASSUME NEW a \in Rectangles, NEW b \in Rectangles
    PROVE  <<Inter(a, b), Outer(a, b)>> \in Scores
<1>1. /\ a[1] \in Int /\ a[2] \in Int /\ a[1] < a[2]
      /\ b[1] \in Int /\ b[2] \in Int /\ b[1] < b[2]
  BY DEF Rectangles
<1> DEFINE i == Inter(a, b)
<1>2. i \in Nat /\ i <= a[2] - a[1] /\ i <= b[2] - b[1]
  BY <1>1 DEF Inter, Smaller, Larger
<1> HIDE DEF i
<1>3. Outer(a, b) = (a[2] - a[1]) + (b[2] - b[1]) - i
  BY DEF Outer, i
<1>4. Outer(a, b) \in Nat \ {0}
  BY <1>1, <1>2, <1>3
<1> QED BY <1>2, <1>4 DEF Scores, i

LEMMA ExceedsLemma ==
    ASSUME NEW r \in Scores, NEW s \in Scores, NEW t \in Scores
    PROVE  /\ ~Exceeds(r, r)
           /\ Exceeds(r, s) => ~Exceeds(s, r)
           /\ ~Exceeds(s, r) /\ ~Exceeds(t, s) => ~Exceeds(t, r)
<1>1. /\ r[1] \in Nat /\ r[2] \in Nat \ {0} /\ s[1] \in Nat /\ s[2] \in Nat \ {0}
      /\ t[1] \in Nat /\ t[2] \in Nat \ {0}
  BY DEF Scores
<1>2. \A a, b \in Nat : a * b \in Nat
  OBVIOUS
<1>3. ~Exceeds(r, r) /\ (Exceeds(r, s) => ~Exceeds(s, r))
  <2>1. r[1] * s[2] \in Nat /\ s[1] * r[2] \in Nat /\ r[1] * r[2] \in Nat
    BY <1>1, <1>2
  <2> QED BY <2>1 DEF Exceeds
<1>4. ASSUME ~Exceeds(s, r), ~Exceeds(t, s) PROVE ~Exceeds(t, r)
  <2> DEFINE a == r[1]
             b == r[2]
             c == s[1]
             d == s[2]
             e == t[1]
             f == t[2]
  <2>1. /\ a \in Nat /\ b \in Nat /\ c \in Nat /\ d \in Nat \ {0} /\ e \in Nat /\ f \in Nat
        /\ ~(c * b > a * d) /\ ~(e * d > c * f)
    BY <1>1, <1>4 DEF Exceeds
  <2>2. Exceeds(t, r) <=> e * b > a * f
    BY DEF Exceeds
  <2> HIDE DEF a, b, c, d, e, f
  <2>3. c * b <= a * d /\ e * d <= c * f
    <3>1. c * b \in Nat /\ a * d \in Nat /\ e * d \in Nat /\ c * f \in Nat
      BY <1>2, <2>1
    <3> QED BY <2>1, <3>1
  <2>4. \A x, y, z \in Nat : x <= y => x * z <= y * z
    OBVIOUS
  <2>5. (c * b) * f <= (a * d) * f /\ (e * d) * b <= (c * f) * b
    <3>1. c * b \in Nat /\ a * d \in Nat /\ e * d \in Nat /\ c * f \in Nat
      BY <1>2, <2>1
    <3> QED BY <2>1, <2>3, <2>4, <3>1
  <2>6. /\ (c * b) * f = (c * f) * b
        /\ (a * d) * f = (a * f) * d
        /\ (e * d) * b = (e * b) * d
    BY <2>1
  <2>7. (e * b) * d <= (a * f) * d
    <3>1. /\ (e * d) * b \in Nat /\ (c * f) * b \in Nat /\ (a * d) * f \in Nat
      BY <1>2, <2>1
    <3>2. (e * d) * b <= (a * d) * f
      BY <2>5, <2>6, <3>1
    <3> QED BY <2>6, <3>2
  <2>8. \A x, y \in Nat, z \in Nat \ {0} : x > y => x * z > y * z
    OBVIOUS
  <2>9. e * b \in Nat /\ a * f \in Nat
    BY <1>2, <2>1
  <2>10. ~(e * b > a * f)
    <3>1. ASSUME e * b > a * f PROVE FALSE
      <4>1. (e * b) * d > (a * f) * d
        BY <2>1, <2>8, <2>9, <3>1
      <4>2. (e * b) * d \in Nat /\ (a * f) * d \in Nat
        BY <1>2, <2>1, <2>9
      <4> QED BY <2>7, <4>1, <4>2
    <3> QED BY <3>1
  <2> QED BY <2>2, <2>10
<1> QED BY <1>3, <1>4

(* Tracks and detections the tracker meets. *)
Tracked(trk, dets) ==
    /\ DOMAIN trk \in SUBSET Nat /\ IsFiniteSet(DOMAIN trk)
    /\ \A t \in DOMAIN trk : trk[t].bbox \in Rectangles
    /\ dets \in Seq(Rectangles)

LEMMA BeforeLemma ==
    ASSUME NEW trk, NEW dets, Tracked(trk, dets)
    PROVE  LET C == Candidates(trk, dets)
               B(p, q) == Before(trk, dets, p, q)
           IN  /\ \A p \in C : ~B(p, p) /\ p[1] \in Nat /\ p[2] \in DOMAIN dets
                                /\ Score(trk, dets, p) \in Scores
               /\ \A p, q \in C : p = q \/ B(p, q) \/ B(q, p)
               /\ \A p, q, u \in C : B(p, q) /\ B(q, u) => B(p, u)
               /\ \A p, q \in C : B(p, q) => ~Exceeds(Score(trk, dets, q), Score(trk, dets, p))
<1> DEFINE C == Candidates(trk, dets)
           S(p) == Score(trk, dets, p)
           Lex(p, q) == p[1] > q[1] \/ (p[1] = q[1] /\ p[2] > q[2])
           B(p, q) == Before(trk, dets, p, q)
<1>1. /\ DOMAIN trk \in SUBSET Nat /\ \A t \in DOMAIN trk : trk[t].bbox \in Rectangles
      /\ dets \in Seq(Rectangles) /\ DOMAIN dets \in SUBSET Nat
      /\ \A i \in DOMAIN dets : dets[i] \in Rectangles
  BY DEF Tracked
<1>2. \A p \in C : p \in (DOMAIN trk) \X (DOMAIN dets)
  BY DEF Candidates, Pairs
<1>3. \A p \in C : p[1] \in DOMAIN trk /\ p[2] \in DOMAIN dets /\ p[1] \in Nat /\ p[2] \in Nat
                   /\ p = <<p[1], p[2]>>
  BY <1>1, <1>2
<1> HIDE DEF C
<1>4. \A p \in C : S(p) \in Scores
  <2> SUFFICES ASSUME NEW p \in C PROVE S(p) \in Scores
    OBVIOUS
  <2>1. trk[p[1]].bbox \in Rectangles /\ dets[p[2]] \in Rectangles
    BY <1>1, <1>3
  <2> QED BY <2>1, ScoreLemma DEF Score
<1>5. \A p, q : B(p, q) <=> Exceeds(S(p), S(q)) \/ (~Exceeds(S(q), S(p)) /\ Lex(p, q))
  BY DEF Before
<1>6. /\ \A p \in C : ~Lex(p, p)
      /\ \A p, q \in C : p = q \/ Lex(p, q) \/ Lex(q, p)
      /\ \A p, q, u \in C : Lex(p, q) /\ Lex(q, u) => Lex(p, u)
  <2>1. \A p, q \in C : p[1] = q[1] /\ p[2] = q[2] => p = q
    BY <1>3
  <2> QED BY <1>3, <2>1
<1> HIDE DEF S, Lex, B
<1>7. \A p, q, u \in C :
          /\ ~Exceeds(S(p), S(p))
          /\ Exceeds(S(p), S(q)) => ~Exceeds(S(q), S(p))
          /\ ~Exceeds(S(q), S(p)) /\ ~Exceeds(S(u), S(q)) => ~Exceeds(S(u), S(p))
  BY <1>4, ExceedsLemma
<1>8. \A p \in C : ~B(p, p)
  BY <1>5, <1>6, <1>7
<1>9. ASSUME NEW p \in C, NEW q \in C PROVE p = q \/ B(p, q) \/ B(q, p)
  <2>1. p = q \/ Lex(p, q) \/ Lex(q, p)
    BY <1>6
  <2>2. Exceeds(S(p), S(q)) => ~Exceeds(S(q), S(p))
    BY <1>7
  <2> QED BY <1>5, <2>1, <2>2
<1>10. \A p, q \in C : B(p, q) => ~Exceeds(S(q), S(p))
  BY <1>5, <1>7
<1>11. \A p, q, u \in C : B(p, q) /\ B(q, u) => B(p, u)
  BY <1>5, <1>6, <1>7
<1> QED BY <1>3, <1>4, <1>8, <1>9, <1>10, <1>11 DEF S, B, C

(* The pairs as the loop takes them: each candidate once, in the order.    *)
InTurn(trk, dets, seq, n) ==
    /\ n \in Nat /\ DOMAIN seq = 1 .. n
    /\ \A k \in 1 .. n : seq[k] \in Candidates(trk, dets)
    /\ \A p \in Candidates(trk, dets) : \E k \in 1 .. n : seq[k] = p
    /\ \A k, l \in 1 .. n : k < l => Before(trk, dets, seq[k], seq[l])

LEMMA FiniteCandidates ==
    ASSUME NEW trk, NEW dets, Tracked(trk, dets)
    PROVE  IsFiniteSet(Candidates(trk, dets)) /\ Cardinality(Candidates(trk, dets)) \in Nat
<1>1. IsFiniteSet(DOMAIN trk) /\ dets \in Seq(Rectangles)
  BY DEF Tracked
<1>2. IsFiniteSet(DOMAIN dets)
  <2>1. Len(dets) \in Nat /\ DOMAIN dets = 1 .. Len(dets)
    BY <1>1
  <2> QED BY <2>1, FS_Interval
<1>3. IsFiniteSet(Pairs(trk, dets))
  BY <1>1, <1>2, FS_Product DEF Pairs
<1>4. Candidates(trk, dets) \in SUBSET Pairs(trk, dets)
  BY DEF Candidates
<1> QED BY <1>3, <1>4, FS_Subset, FS_CardinalityType

LEMMA SortedInTurn ==
    ASSUME NEW trk, NEW dets, Tracked(trk, dets)
    PROVE  InTurn(trk, dets, Sorted(trk, dets), Cardinality(Candidates(trk, dets)))
<1> DEFINE C == Candidates(trk, dets)
           n == Cardinality(C)
           B(p, q) == Before(trk, dets, p, q)
           Ahd(p) == {q \in C : B(q, p)}
           Place(p) == 1 + Cardinality(Ahd(p))
           place == [p \in C |-> Place(p)]
           placed == {<<Place(p), p>> : p \in C}
           At(k) == CHOOSE p \in C : <<k, p>> \in placed
           seq == Sorted(trk, dets)
<1>1. seq = [k \in 1 .. n |-> At(k)]
  BY DEF Sorted
<1>2. IsFiniteSet(C) /\ n \in Nat
  BY FiniteCandidates
<1>3. /\ \A p \in C : ~B(p, p)
      /\ \A p, q \in C : p = q \/ B(p, q) \/ B(q, p)
      /\ \A p, q, u \in C : B(p, q) /\ B(q, u) => B(p, u)
  BY BeforeLemma
<1> HIDE DEF C, B
<1>4. \A p \in C : /\ Ahd(p) \in SUBSET (C \ {p}) /\ Ahd(p) \in SUBSET C
                   /\ \A q \in C : B(q, p) => Ahd(q) \in SUBSET Ahd(p) /\ q \in Ahd(p) /\ q \notin Ahd(q)
  BY <1>3
<1> HIDE DEF Ahd
<1>5. ASSUME NEW p \in C PROVE Cardinality(Ahd(p)) \in Nat /\ Cardinality(Ahd(p)) <= n - 1
  <2>1. IsFiniteSet(C \ {p}) /\ Cardinality(C \ {p}) = n - 1
    BY <1>2, FS_RemoveElement
  <2> QED BY <1>4, <2>1, Counting
<1>6. ASSUME NEW p \in C, NEW q \in C, B(q, p) PROVE Place(q) < Place(p)
  <2>1. Ahd(q) \in SUBSET Ahd(p) /\ Ahd(p) # Ahd(q) /\ Ahd(p) \in SUBSET C
    BY <1>4, <1>6
  <2>2. /\ Cardinality(Ahd(q)) <= Cardinality(Ahd(p))
        /\ Cardinality(Ahd(p)) # Cardinality(Ahd(q))
    BY <1>2, <2>1, Counting
  <2> QED BY <1>5, <2>2
<1>7. \A p \in C : Place(p) \in 1 .. n /\ Place(p) \in Int
  <2> SUFFICES ASSUME NEW p \in C PROVE Place(p) \in 1 .. n /\ Place(p) \in Int
    OBVIOUS
  <2> HIDE DEF n
  <2> QED BY <1>2, <1>5
<1>8. \A p, q \in C : Place(p) = Place(q) => p = q
  <2> SUFFICES ASSUME NEW p \in C, NEW q \in C, Place(p) = Place(q), p # q PROVE FALSE
    OBVIOUS
  <2>1. Place(p) < Place(q) \/ Place(q) < Place(p)
    BY <1>3, <1>6
  <2> QED BY <1>7, <2>1
<1> HIDE DEF Place
<1>9. place \in Injection(C, 1 .. n)
  BY <1>7, <1>8 DEF Injection, IsInjective
<1>10. place \in Surjection(C, 1 .. n)
  <2>1. IsFiniteSet(1 .. n) /\ Cardinality(C) = Cardinality(1 .. n)
    BY <1>2, FS_Interval
  <2> HIDE DEF place
  <2> QED BY <1>2, <1>9, <2>1, FS_Injection
<1>11. \A k \in 1 .. n : \E p \in C : Place(p) = k
  BY <1>10 DEF Surjection
<1>12. \A k, p : <<k, p>> \in placed <=> p \in C /\ k = Place(p)
  OBVIOUS
<1> HIDE DEF placed
<1>13. \A k \in 1 .. n : At(k) \in C /\ Place(At(k)) = k
  BY <1>11, <1>12
<1>14. \A p \in C : At(Place(p)) = p
  BY <1>7, <1>8, <1>13
<1> HIDE DEF At
<1>15. DOMAIN seq = 1 .. n /\ \A k \in 1 .. n : seq[k] = At(k)
  BY <1>1
<1> HIDE DEF seq, n
<1>16. \A k \in 1 .. n : seq[k] \in C
  BY <1>13, <1>15
<1>17. \A p \in C : \E k \in 1 .. n : seq[k] = p
  BY <1>7, <1>14, <1>15
<1>18. ASSUME NEW k \in 1 .. n, NEW l \in 1 .. n, k < l PROVE B(seq[k], seq[l])
  <2>1. At(k) \in C /\ At(l) \in C /\ Place(At(k)) = k /\ Place(At(l)) = l
    BY <1>13
  <2>2. At(k) # At(l)
    BY <1>18, <2>1
  <2>3. ASSUME B(At(l), At(k)) PROVE FALSE
    <3>1. l < k
      BY <1>6, <2>1, <2>3
    <3> QED BY <1>18, <3>1
  <2> QED BY <1>3, <1>15, <2>1, <2>2, <2>3
<1> QED BY <1>2, <1>15, <1>16, <1>17, <1>18 DEF InTurn, C, B, seq, n

(* What the loop does with a pair. *)
Take(m, p) == IF \E q \in m : q[1] = p[1] \/ q[2] = p[2] THEN m ELSE m \union {p}

TakeRun(seq, n, it) ==
    it = [s \in SUBSET (1 .. n) |->
             IF s = {} THEN {} ELSE Take(it[s \ {Max(s)}], seq[Max(s)])]

LEMMA TakeRunsExist ==
    ASSUME NEW seq, NEW n \in Nat
    PROVE  \E it : TakeRun(seq, n, it)
<1> DEFINE with == {m \in Nat : \E it : TakeRun(seq, m, it)}
<1>1. \E it : TakeRun(seq, 0, it)
  <2> DEFINE it == [s \in SUBSET (1 .. 0) |-> {}]
  <2>1. \A s \in SUBSET (1 .. 0) : s = {}
    OBVIOUS
  <2>2. it = [s \in SUBSET (1 .. 0) |->
                 IF s = {} THEN {} ELSE Take(it[s \ {Max(s)}], seq[Max(s)])]
    BY <2>1
  <2> QED BY <2>2 DEF TakeRun
<1>2. ASSUME NEW m \in Nat, NEW g, TakeRun(seq, m, g)
      PROVE  \E it : TakeRun(seq, m + 1, it)
  <2> DEFINE it == [s \in SUBSET (1 .. m + 1) |->
                       IF m + 1 \in s THEN Take(g[s \ {m + 1}], seq[m + 1]) ELSE g[s]]
  <2>1. ASSUME NEW s \in SUBSET (1 .. m + 1)
        PROVE  it[s] = IF s = {} THEN {} ELSE Take(it[s \ {Max(s)}], seq[Max(s)])
    <3>1. CASE m + 1 \in s
      <4>1. Max(s) = m + 1
        BY <3>1, MaxOfInterval
      <4>2. it[s \ {m + 1}] = g[s \ {m + 1}]
        OBVIOUS
      <4> QED BY <3>1, <4>1, <4>2
    <3>2. CASE m + 1 \notin s
      <4>1. s \in SUBSET (1 .. m) /\ s \ {Max(s)} \in SUBSET (1 .. m)
        <5>1. \A i \in s : i \in 1 .. m + 1 /\ i # m + 1
          BY <3>2
        <5>2. \A i \in s : i \in 1 .. m
          BY <5>1
        <5> QED BY <5>2
      <4>2. g[s] = IF s = {} THEN {} ELSE Take(g[s \ {Max(s)}], seq[Max(s)])
        BY <1>2, <4>1 DEF TakeRun
      <4>3. it[s] = g[s] /\ it[s \ {Max(s)}] = g[s \ {Max(s)}]
        BY <3>2
      <4> QED BY <4>2, <4>3
    <3> QED BY <3>1, <3>2
  <2>2. it = [s \in SUBSET (1 .. m + 1) |->
                 IF s = {} THEN {} ELSE Take(it[s \ {Max(s)}], seq[Max(s)])]
    BY <2>1
  <2> QED BY <2>2 DEF TakeRun
<1>3. \A m \in Nat : m \in with
  <2>1. 0 \in with
    BY <1>1
  <2>2. \A m \in Nat : m \in with => m + 1 \in with
    BY <1>2
  <2> HIDE DEF with
  <2> QED BY <2>1, <2>2, Induction
<1> QED BY <1>3

TakeUnfolds(seq, n, m) ==
    /\ m[0] = {}
    /\ \A i \in 1 .. n : m[i] = Take(m[i - 1], seq[i])

LEMMA MatchingUnfolds ==
    ASSUME NEW trk, NEW dets, NEW n \in Nat, DOMAIN Sorted(trk, dets) = 1 .. n
    PROVE  \E m : TakeUnfolds(Sorted(trk, dets), n, m) /\ Matching(trk, dets) = m[n]
<1> DEFINE seq == Sorted(trk, dets)
           it == CHOOSE it : TakeRun(seq, n, it)
           m == [i \in 0 .. n |-> it[1 .. i]]
<1>1. Matching(trk, dets) = it[1 .. n]
  BY Zenon DEF Matching, FoldLeft, MapThenFoldSet, Take, TakeRun
<1>2. TakeRun(seq, n, it)
  BY TakeRunsExist
<1> HIDE DEF it, seq
<1>3. \A s \in SUBSET (1 .. n) :
          it[s] = IF s = {} THEN {} ELSE Take(it[s \ {Max(s)}], seq[Max(s)])
  BY <1>2 DEF TakeRun
<1>4. m[0] = {}
  <2>1. 1 .. 0 = {} /\ {} \in SUBSET (1 .. n)
    OBVIOUS
  <2>2. it[{}] = {}
    BY <1>3, <2>1
  <2>3. m[0] = it[1 .. 0]
    OBVIOUS
  <2> QED BY <2>1, <2>2, <2>3
<1>5. ASSUME NEW i \in 1 .. n PROVE m[i] = Take(m[i - 1], seq[i])
  <2>1. i \in Nat \ {0} /\ 1 .. i \in SUBSET (1 .. n) /\ i \in 1 .. i
    OBVIOUS
  <2>2. Max(1 .. i) = i
    BY <2>1, MaxOfInterval
  <2>3. (1 .. i) \ {i} = 1 .. i - 1
    BY <2>1
  <2>4. it[1 .. i] = Take(it[1 .. i - 1], seq[i])
    BY <1>3, <2>1, <2>2, <2>3
  <2> QED BY <2>4
<1>6. Matching(trk, dets) = m[n]
  BY <1>1
<1>7. TakeUnfolds(seq, n, m)
  BY <1>4, <1>5 DEF TakeUnfolds
<1> QED BY <1>6, <1>7 DEF seq

(* The association: one to one, and stable. *)
OneToOne(m) == \A p, q \in m : p[1] = q[1] \/ p[2] = q[2] => p = q

Stable(trk, dets, m, p) ==
    \E q \in m : /\ q[1] = p[1] \/ q[2] = p[2]
                 /\ ~Exceeds(Score(trk, dets, p), Score(trk, dets, q))

Taken(trk, dets, seq, k, m) ==
    /\ \A p \in m : \E j \in 1 .. k : p = seq[j]
    /\ OneToOne(m)
    /\ \A j \in 1 .. k : Stable(trk, dets, m, seq[j])

LEMMA TakeKeeps ==
    ASSUME NEW trk, NEW dets, Tracked(trk, dets), NEW seq, NEW n \in Nat,
           InTurn(trk, dets, seq, n), NEW k \in Nat, k < n, NEW m, Taken(trk, dets, seq, k, m)
    PROVE  Taken(trk, dets, seq, k + 1, Take(m, seq[k + 1]))
<1> DEFINE p == seq[k + 1]
           r == Take(m, p)
           C == Candidates(trk, dets)
           S(x) == Score(trk, dets, x)
<1>1. /\ k + 1 \in 1 .. n
      /\ \A j \in 1 .. k : j \in 1 .. n /\ j \in 1 .. k + 1 /\ j < k + 1
      /\ \A j \in 1 .. k + 1 : j \in 1 .. k \/ j = k + 1
      /\ k + 1 \in 1 .. k + 1
  OBVIOUS
<1>2. /\ \A j \in 1 .. n : seq[j] \in C
      /\ \A j, l \in 1 .. n : j < l => Before(trk, dets, seq[j], seq[l])
  BY DEF InTurn
<1>3. /\ \A x \in m : \E j \in 1 .. k : x = seq[j]
      /\ OneToOne(m)
      /\ \A j \in 1 .. k : Stable(trk, dets, m, seq[j])
  BY DEF Taken
<1>4. p \in C /\ S(p) \in Scores
  BY <1>1, <1>2, BeforeLemma
<1>5. \A q \in m : q \in C /\ Before(trk, dets, q, p)
  BY <1>1, <1>2, <1>3
<1>6. \A q \in m : ~Exceeds(S(p), S(q))
  BY <1>4, <1>5, BeforeLemma
<1>7. ~Exceeds(S(p), S(p))
  BY <1>4, ExceedsLemma
<1>8. m \in SUBSET r
  BY DEF Take
<1>9. \A j \in 1 .. k : Stable(trk, dets, r, seq[j])
  <2> HIDE DEF r
  <2> QED BY <1>3, <1>8 DEF Stable
<1> HIDE DEF p, C
<1>10. CASE \E q \in m : q[1] = p[1] \/ q[2] = p[2]
  <2>1. r = m
    BY <1>10 DEF Take
  <2>2. Stable(trk, dets, m, p)
    BY <1>6, <1>10 DEF Stable
  <2>3. \A j \in 1 .. k + 1 : Stable(trk, dets, m, seq[j])
    BY <1>1, <1>3, <2>2 DEF p
  <2>4. \A x \in m : \E j \in 1 .. k + 1 : x = seq[j]
    BY <1>1, <1>3
  <2> QED BY <1>3, <2>1, <2>3, <2>4 DEF Taken, p
<1>11. CASE ~\E q \in m : q[1] = p[1] \/ q[2] = p[2]
  <2>1. r = m \union {p}
    BY <1>11 DEF Take
  <2>2. OneToOne(r)
    BY <1>3, <1>11, <2>1 DEF OneToOne
  <2>3. Stable(trk, dets, r, p)
    BY <1>7, <2>1 DEF Stable
  <2>4. \A j \in 1 .. k + 1 : Stable(trk, dets, r, seq[j])
    BY <1>1, <1>9, <2>3 DEF p
  <2>5. \A x \in r : \E j \in 1 .. k + 1 : x = seq[j]
    BY <1>1, <1>3, <2>1 DEF p
  <2> HIDE DEF r
  <2> QED BY <2>2, <2>4, <2>5 DEF Taken, r, p
<1> QED BY <1>10, <1>11

LEMMA MatchingLemma ==
    ASSUME NEW trk, NEW dets, Tracked(trk, dets)
    PROVE  LET m == Matching(trk, dets)
           IN  /\ m \in SUBSET Candidates(trk, dets)
               /\ OneToOne(m)
               /\ \A p \in Candidates(trk, dets) : Stable(trk, dets, m, p)
<1> DEFINE C == Candidates(trk, dets)
           n == Cardinality(C)
           seq == Sorted(trk, dets)
<1>1. InTurn(trk, dets, seq, n)
  BY SortedInTurn
<1> HIDE DEF seq, n
<1>2. n \in Nat /\ DOMAIN seq = 1 .. n
  BY <1>1 DEF InTurn
<1>3. PICK m : TakeUnfolds(seq, n, m) /\ Matching(trk, dets) = m[n]
  BY <1>2, MatchingUnfolds DEF seq
<1> DEFINE S == {k \in Nat : k <= n => Taken(trk, dets, seq, k, m[k])}
<1>4. 0 \in S
  <2>1. m[0] = {} /\ 1 .. 0 = {}
    BY <1>3 DEF TakeUnfolds
  <2>2. Taken(trk, dets, seq, 0, {})
    BY <2>1 DEF Taken, OneToOne
  <2> QED BY <2>1, <2>2
<1>5. ASSUME NEW k \in Nat, k \in S PROVE k + 1 \in S
  <2> SUFFICES ASSUME k + 1 <= n PROVE Taken(trk, dets, seq, k + 1, m[k + 1])
    OBVIOUS
  <2>1. k < n /\ k <= n /\ k + 1 \in 1 .. n /\ (k + 1) - 1 = k
    BY <1>2
  <2>2. Taken(trk, dets, seq, k, m[k])
    BY <1>5, <2>1
  <2>3. m[k + 1] = Take(m[(k + 1) - 1], seq[k + 1])
    BY <1>3, <2>1 DEF TakeUnfolds
  <2> QED BY <1>1, <1>2, <2>1, <2>2, <2>3, TakeKeeps
<1>6. n \in S
  <2> HIDE DEF S
  <2> QED BY <1>2, <1>4, <1>5, Induction
<1>7. n <= n
  BY <1>2
<1>8. Taken(trk, dets, seq, n, m[n])
  BY <1>6, <1>7
<1> DEFINE r == Matching(trk, dets)
<1>9. Taken(trk, dets, seq, n, r)
  BY <1>3, <1>8
<1> HIDE DEF r
<1>10. r \in SUBSET C
  BY <1>1, <1>9 DEF Taken, InTurn
<1>11. \A p \in C : Stable(trk, dets, r, p)
  BY <1>1, <1>9 DEF Taken, InTurn
<1>12. OneToOne(r)
  BY <1>9 DEF Taken
<1> QED BY <1>10, <1>11, <1>12 DEF r

(* The ids of a frame: old ones of live tracks that overlap enough, new *)
(* ones in a row.                                                       *)
GivenIds(trk, nx, dets, ids, after) ==
    /\ after \in Nat /\ nx <= after
    /\ DOMAIN ids = DOMAIN dets
    /\ \A di \in DOMAIN dets : ids[di] \in Nat /\ ids[di] < after
    /\ \A di \in DOMAIN dets : ids[di] \in DOMAIN trk \/ nx <= ids[di]
    /\ \A di \in DOMAIN dets :
           ids[di] < nx => Associates(Score(trk, dets, <<ids[di], di>>))
    /\ \A di, dj \in DOMAIN dets : ids[di] = ids[dj] => di = dj

(* A detection that is not matched gets the next free id. *)
LEMMA NewIdsInARow ==
    ASSUME NEW n \in Nat, NEW M \in SUBSET (1 .. n)
    PROVE  LET c(d) == Cardinality((1 .. d - 1) \ M)
               F == (1 .. n) \ M
           IN  /\ \A d \in F : c(d) \in Nat /\ c(d) < Cardinality(F)
               /\ \A d, e \in F : c(d) = c(e) => d = e
               /\ Cardinality(F) \in Nat /\ Cardinality(F) = n - Cardinality(M)
               /\ Cardinality(M) \in Nat
<1> DEFINE c(d) == Cardinality((1 .. d - 1) \ M)
           F == (1 .. n) \ M
<1>1. IsFiniteSet(1 .. n) /\ Cardinality(1 .. n) = n
  BY FS_Interval
<1>2. Cardinality(M) \in Nat
  BY <1>1, FS_Subset, FS_CardinalityType
<1>3. IsFiniteSet(F) /\ Cardinality(F) \in Nat /\ Cardinality(F) = n - Cardinality(M)
  <2>1. IsFiniteSet(F) /\ Cardinality(F) = Cardinality(1 .. n) - Cardinality((1 .. n) \cap M)
    BY <1>1, FS_Difference
  <2>2. (1 .. n) \cap M = M
    OBVIOUS
  <2> QED BY <1>1, <2>1, <2>2, FS_CardinalityType
<1>4. ASSUME NEW d \in F PROVE c(d) \in Nat /\ c(d) < Cardinality(F)
  <2> DEFINE G == (1 .. d - 1) \ M
  <2>1. G \in SUBSET F /\ d \notin G
    OBVIOUS
  <2> HIDE DEF G, F
  <2>2. /\ Cardinality(G) \in Nat /\ Cardinality(G) <= Cardinality(F)
        /\ Cardinality(F) = Cardinality(G) => F = G
    BY <1>3, <2>1, Counting
  <2>3. Cardinality(G) \in Nat /\ Cardinality(G) < Cardinality(F)
    BY <1>3, <1>4, <2>1, <2>2
  <2> QED BY <2>3 DEF G
<1>5. ASSUME NEW d \in F, NEW e \in F, d < e PROVE c(d) # c(e)
  <2> DEFINE G == (1 .. d - 1) \ M
             H == (1 .. e - 1) \ M
  <2>1. G \in SUBSET H /\ H \in SUBSET F /\ d \in H /\ d \notin G
    BY <1>5
  <2> HIDE DEF G, H, F
  <2>2. Cardinality(H) = Cardinality(G) => H = G
    BY <1>3, <2>1, Counting
  <2> QED BY <2>1, <2>2 DEF G, H
<1>6. ASSUME NEW d \in F, NEW e \in F, c(d) = c(e) PROVE d = e
  <2>1. d \in Int /\ e \in Int
    OBVIOUS
  <2> HIDE DEF c, F
  <2>2. d < e \/ e < d \/ d = e
    BY <2>1
  <2> QED BY <1>5, <1>6, <2>2
<1> QED BY <1>2, <1>3, <1>4, <1>6

LEMMA IdsLemma ==
    ASSUME NEW trk, NEW dets, Tracked(trk, dets), NEW nx \in Nat, \A t \in DOMAIN trk : t < nx
    PROVE  LET m == Matching(trk, dets)
               ids == TrackerIds(trk, nx, dets, m)
           IN  /\ GivenIds(trk, nx, dets, ids, NextIdAfter(nx, dets, m))
               /\ \A p \in m : ids[p[2]] = p[1]
<1> DEFINE m == Matching(trk, dets)
           M == MatchedDets(m)
           n == Len(dets)
           F == (1 .. n) \ M
           c(d) == Cardinality((1 .. d - 1) \ M)
           ids == TrackerIds(trk, nx, dets, m)
           after == NextIdAfter(nx, dets, m)
<1>1. n \in Nat /\ DOMAIN dets = 1 .. n /\ DOMAIN trk \in SUBSET Nat
  BY DEF Tracked
<1>2. m \in SUBSET Candidates(trk, dets) /\ OneToOne(m)
  BY MatchingLemma
<1>3. \A p \in m : p[1] \in DOMAIN trk /\ p[2] \in 1 .. n
  BY <1>1, <1>2 DEF Candidates, Pairs
<1>4. M \in SUBSET (1 .. n) /\ \A d : d \in M <=> \E p \in m : p[2] = d
  BY <1>3 DEF MatchedDets
<1>5. \A p, q \in m : p[1] = q[1] \/ p[2] = q[2] => p = q
  BY <1>2 DEF OneToOne
<1>6. IsFiniteSet(m) /\ Cardinality(m) = Cardinality(M)
  <2>1. IsFiniteSet(m)
    BY <1>2, FiniteCandidates, FS_Subset
  <2> DEFINE f == [p \in m |-> p[2]]
  <2>2. f \in Bijection(m, M)
    <3> HIDE DEF m, M
    <3>1. f \in [m -> M]
      BY <1>4
    <3>2. \A p, q \in m : f[p] = f[q] => p = q
      BY <1>5
    <3>3. \A d \in M : \E p \in m : f[p] = d
      BY <1>4
    <3> QED BY <3>1, <3>2, <3>3 DEF Bijection, Injection, Surjection, IsInjective
  <2> HIDE DEF f, m, M
  <2> QED BY <2>1, <2>2, FS_Bijection DEF ExistsBijection
<1>7. DOMAIN ids = DOMAIN dets
  BY DEF TrackerIds
<1>8. \A d \in F : ids[d] = nx + c(d)
  BY <1>1 DEF TrackerIds, NewId
<1>9. ASSUME NEW p \in m PROVE ids[p[2]] = p[1]
  <2>1. p[2] \in M /\ p[2] \in DOMAIN dets
    BY <1>1, <1>3, <1>4
  <2>2. ids[p[2]] = (CHOOSE q \in m : q[2] = p[2])[1]
    BY <2>1 DEF TrackerIds
  <2>3. (CHOOSE q \in m : q[2] = p[2]) = p
    <3> HIDE DEF m
    <3> QED BY <1>5, <1>9
  <2> QED BY <2>2, <2>3
<1>10. after = nx + n - Cardinality(m)
  BY DEF NextIdAfter
<1> HIDE DEF m, M, ids, after, n
<1>11. /\ \A d \in F : c(d) \in Nat /\ c(d) < Cardinality(F)
       /\ \A d, e \in F : c(d) = c(e) => d = e
       /\ Cardinality(F) \in Nat /\ Cardinality(F) = n - Cardinality(M)
       /\ Cardinality(M) \in Nat
  BY <1>1, <1>4, NewIdsInARow
<1> HIDE DEF c
<1>12. after = nx + Cardinality(F) /\ after \in Nat /\ nx <= after
  BY <1>1, <1>6, <1>10, <1>11
<1>13. ASSUME NEW d \in F PROVE ids[d] \in Nat /\ nx <= ids[d] /\ ids[d] < after
  <2>1. ids[d] = nx + c(d) /\ c(d) \in Nat /\ c(d) < Cardinality(F)
    BY <1>8, <1>11
  <2> HIDE DEF F
  <2>2. Cardinality(F) \in Nat /\ after = nx + Cardinality(F)
    BY <1>11, <1>12
  <2> QED BY <2>1, <2>2
<1>14. ASSUME NEW d \in M
       PROVE  ids[d] \in DOMAIN trk /\ ids[d] \in Nat /\ ids[d] < nx /\ <<ids[d], d>> \in m
  <2>1. PICK p \in m : p[2] = d
    BY <1>4
  <2>2. ids[d] = p[1] /\ p[1] \in DOMAIN trk
    BY <1>3, <1>9, <2>1
  <2>3. p = <<p[1], p[2]>>
    BY <1>2 DEF Candidates, Pairs
  <2> QED BY <1>1, <2>1, <2>2, <2>3
<1>15. ASSUME NEW d \in 1 .. n PROVE d \in F \/ d \in M
  OBVIOUS
<1>16. ASSUME NEW d \in 1 .. n, NEW e \in 1 .. n, ids[d] = ids[e] PROVE d = e
  <2>1. CASE d \in F /\ e \in F
    <3>1. c(d) \in Nat /\ c(e) \in Nat /\ nx + c(d) = nx + c(e)
      BY <1>8, <1>11, <1>16, <2>1
    <3>2. c(d) = c(e)
      BY <3>1
    <3> QED BY <1>11, <2>1, <3>2
  <2>2. CASE d \in M /\ e \in M
    <3>1. <<ids[d], d>> \in m /\ <<ids[e], e>> \in m
      BY <1>14, <2>2
    <3>2. <<ids[d], d>> = <<ids[e], e>>
      BY <1>5, <1>16, <3>1
    <3> QED BY <3>2
  <2>3. ~(d \in F /\ e \in M) /\ ~(d \in M /\ e \in F)
    <3> HIDE DEF F
    <3>1. \A i \in F : nx <= ids[i] /\ ids[i] \in Nat
      BY <1>13
    <3>2. \A i \in M : ids[i] < nx /\ ids[i] \in Nat
      BY <1>14
    <3> QED BY <1>16, <3>1, <3>2
  <2> QED BY <1>15, <2>1, <2>2, <2>3
<1>17. \A d \in 1 .. n : ids[d] \in Nat /\ ids[d] < after /\ (ids[d] \in DOMAIN trk \/ nx <= ids[d])
  <2> SUFFICES ASSUME NEW d \in 1 .. n
               PROVE  ids[d] \in Nat /\ ids[d] < after /\ (ids[d] \in DOMAIN trk \/ nx <= ids[d])
    OBVIOUS
  <2>1. CASE d \in F
    BY <1>13, <2>1
  <2>2. CASE d \in M
    <3>1. ids[d] \in DOMAIN trk /\ ids[d] \in Nat /\ ids[d] < nx
      BY <1>14, <2>2
    <3> QED BY <1>12, <3>1
  <2> QED BY <1>15, <2>1, <2>2
<1>18. \A d \in 1 .. n : ids[d] < nx => Associates(Score(trk, dets, <<ids[d], d>>))
  <2>0. SUFFICES ASSUME NEW d \in 1 .. n, ids[d] < nx
               PROVE  Associates(Score(trk, dets, <<ids[d], d>>))
    OBVIOUS
  <2>1. d \in M
    <3> HIDE DEF F
    <3>1. \A i \in F : nx <= ids[i] /\ ids[i] \in Nat
      BY <1>13
    <3> QED BY <1>15, <2>0, <3>1
  <2> QED BY <1>2, <1>14, <2>1 DEF Candidates
<1>19. GivenIds(trk, nx, dets, ids, after)
  BY <1>1, <1>7, <1>12, <1>16, <1>17, <1>18 DEF GivenIds
<1> QED BY <1>9, <1>19 DEF m, ids, after

---------------------------------------------------------------------------
(* The longest a track that has missed j frames can have been unseen while *)
(* the camera does not stall: the camera is idle only after IdleAfter      *)
(* frames without anybody.                                                 *)
Elapsed(j) == Smaller(j, IdleAfter) * Active + Larger(j - IdleAfter, 0) * Idle

LEMMA ElapsedSplits ==
    ASSUME NEW j \in Int, NEW a \in Int, NEW b \in Int,
           Smaller(j, IdleAfter) = a, Larger(j - IdleAfter, 0) = b
    PROVE  Elapsed(j) = a * Active + b * Idle
<1>1. Elapsed(j) = Smaller(j, IdleAfter) * Active + Larger(j - IdleAfter, 0) * Idle
  BY DEF Elapsed
<1> QED BY <1>1

LEMMA ElapsedLemma ==
    /\ \A j \in Nat : Elapsed(j) \in Int
    /\ Elapsed(0) = 0
    /\ \A j \in Nat : Elapsed(j) + Active <= Elapsed(j + 1)
    /\ \A j \in Nat : IdleAfter <= j => Elapsed(j) + Idle <= Elapsed(j + 1)
<1>1. /\ Active \in Nat /\ Idle \in Nat /\ Active <= Idle /\ IdleAfter \in Nat \ {0}
  BY RateAssumption
<1>2. Elapsed(0) = 0
  <2>1. Smaller(0, IdleAfter) = 0 /\ Larger(0 - IdleAfter, 0) = 0
    BY <1>1 DEF Smaller, Larger
  <2> QED BY <1>1, <2>1 DEF Elapsed
<1>3. ASSUME NEW j \in Nat
      PROVE  /\ Elapsed(j) \in Int
             /\ Elapsed(j) + Active <= Elapsed(j + 1)
             /\ IdleAfter <= j => Elapsed(j) + Idle <= Elapsed(j + 1)
  <2>1. CASE j < IdleAfter
    <3>1. /\ Smaller(j, IdleAfter) = j /\ Smaller(j + 1, IdleAfter) = j + 1
          /\ Larger(j - IdleAfter, 0) = 0 /\ Larger(j + 1 - IdleAfter, 0) = 0
      BY <1>1, <2>1 DEF Smaller, Larger
    <3>2. Elapsed(j) = j * Active + 0 * Idle /\ Elapsed(j + 1) = (j + 1) * Active + 0 * Idle
      BY <1>1, <3>1, ElapsedSplits
    <3>3. \A a \in Nat : (j + 1) * a = j * a + a /\ 0 * a = 0 /\ j * a \in Nat
      OBVIOUS
    <3>4. (j + 1) * Active = j * Active + Active /\ 0 * Idle = 0 /\ j * Active \in Nat
      BY <1>1, <3>3
    <3> QED BY <1>1, <2>1, <3>2, <3>4
  <2>2. CASE IdleAfter <= j
    <3> DEFINE r == j - IdleAfter
    <3>1. r \in Nat
      BY <1>1, <2>2
    <3>2. /\ Smaller(j, IdleAfter) = IdleAfter /\ Smaller(j + 1, IdleAfter) = IdleAfter
          /\ Larger(j - IdleAfter, 0) = r /\ Larger(j + 1 - IdleAfter, 0) = r + 1
      BY <1>1, <2>2 DEF Smaller, Larger
    <3> HIDE DEF r
    <3>3. /\ Elapsed(j) = IdleAfter * Active + r * Idle
          /\ Elapsed(j + 1) = IdleAfter * Active + (r + 1) * Idle
      BY <1>1, <3>1, <3>2, ElapsedSplits
    <3>4. /\ \A a \in Nat : (r + 1) * a = r * a + a /\ r * a \in Nat
          /\ \A a, b \in Nat : a * b \in Nat
      BY <3>1
    <3>5. (r + 1) * Idle = r * Idle + Idle /\ r * Idle \in Nat /\ IdleAfter * Active \in Nat
      BY <1>1, <3>4
    <3> QED BY <1>1, <3>3, <3>5
  <2> QED BY <1>1, <2>1, <2>2
<1> QED BY <1>2, <1>3

LEMMA ElapsedGrows ==
    ASSUME NEW n \in Nat
    PROVE  \A j \in 0 .. n : Elapsed(j) <= Elapsed(n)
<1> DEFINE S == {m \in Nat : \A j \in 0 .. m : Elapsed(j) <= Elapsed(m)}
<1>1. 0 \in S
  <2>1. \A j \in 0 .. 0 : j = 0
    OBVIOUS
  <2> QED BY <2>1, ElapsedLemma
<1>2. ASSUME NEW m \in Nat, m \in S PROVE m + 1 \in S
  <2>1. Elapsed(m) <= Elapsed(m + 1) /\ Elapsed(m) \in Int /\ Elapsed(m + 1) \in Int
    BY ElapsedLemma, RateAssumption
  <2>2. ASSUME NEW j \in 0 .. m + 1 PROVE Elapsed(j) <= Elapsed(m + 1)
    <3>1. CASE j = m + 1
      BY <2>1, <3>1
    <3>2. CASE j # m + 1
      <4>1. j \in 0 .. m /\ j \in Nat
        BY <3>2
      <4>2. Elapsed(j) <= Elapsed(m) /\ Elapsed(j) \in Int
        BY <1>2, <4>1, ElapsedLemma
      <4> QED BY <2>1, <4>2
    <3> QED BY <3>1, <3>2
  <2> QED BY <2>2
<1>3. n \in S
  <2> HIDE DEF S
  <2> QED BY <1>1, <1>2, Induction
<1> QED BY <1>3

---------------------------------------------------------------------------
Tracks == [bbox : Rectangles, misses : Nat]
Stories == [missed : Nat, box : Rectangles, inside : SUBSET DOMAIN Zones, stalled : BOOLEAN]

(* Ids are below the next one, and the zone engine knows whom it counts. *)
CameraTypes ==
    /\ nextId \in Nat /\ now \in Int
    /\ streak \in 0 .. IdleAfter /\ period = SuggestedPeriod(streak)
    /\ \A t \in DOMAIN tracks : t \in Nat /\ t < nextId /\ tracks[t] \in Tracks
    /\ \A t \in DOMAIN story : t \in Nat /\ t < nextId /\ story[t] \in Stories
    /\ \A t \in DOMAIN edgeLastSeen : edgeLastSeen[t] \in Int /\ edgeLastSeen[t] <= now
    /\ \A k \in DOMAIN edgeEnterTs : Tid(k) \in DOMAIN edgeLastSeen

(* Whoever is lost, with no stall since, was seen not longer ago than the  *)
(* frames missed account for.                                              *)
Remembered(t) ==
    /\ streak <= story[t].missed
    /\ t \in DOMAIN edgeLastSeen
    /\ now - edgeLastSeen[t] <= Elapsed(story[t].missed)
    /\ \A kind \in story[t].inside : <<t, kind>> \in DOMAIN edgeEnterTs

Paced ==
    \A t \in DOMAIN story :
        ~story[t].stalled /\ story[t].missed <= LostTrackBuffer => Remembered(t)

(* A live track is that of the box its id was shown with last. *)
Living ==
    \A t \in DOMAIN tracks :
        /\ t \in DOMAIN story
        /\ story[t].missed = tracks[t].misses /\ tracks[t].misses <= LostTrackBuffer
        /\ story[t].box = tracks[t].bbox

CameraInv == CameraTypes /\ Paced /\ Living

LEMMA CameraInitInv == CameraInit => CameraInv
BY RateAssumption
   DEF CameraInit, CameraInv, CameraTypes, Paced, Living, Nothing, SuggestedPeriod

(* The box that the frame shows under the id t. *)
Place(dets, ids, t) == dets[CHOOSE di \in DOMAIN ids : ids[di] = t]

(* What a frame is, and what the tracker makes of it. *)
Framed(dets, ids, ts) ==
    /\ Tracked(tracks, dets)
    /\ \A di \in DOMAIN dets : dets[di] \in Boxes
    /\ ids = TrackerIds(tracks, nextId, dets, Matching(tracks, dets))
    /\ GivenIds(tracks, nextId, dets, ids, nextId')
    /\ out' = [dets |-> dets, ids |-> ids]
    /\ tracks' = TracksAfter(tracks, dets, ids)
    /\ ts \in Int /\ now' = ts
    /\ streak' = StreakAfter(dets) /\ period' = SuggestedPeriod(streak')
    /\ edgeEnterTs' = UpdateEnter(edgeEnterTs, edgeLastSeen, ZoneFrame(dets, ids), ts)
    /\ edgeLastSeen' = UpdateSeen(edgeLastSeen, ZoneFrame(dets, ids), ts)

LEMMA TurnFramed ==
    ASSUME CameraTypes, NEW dets \in Detections, NEW stall \in {0, MaxSilence}, Turn(dets, stall)
    PROVE  \E ids : /\ Framed(dets, ids, now + period + stall)
                    /\ story' = StoryAfter(dets, ids, stall > 0)
<1> DEFINE m == Matching(tracks, dets)
           ids == TrackerIds(tracks, nextId, dets, m)
           ts == now + period + stall
<1>1. dets \in Seq(Boxes) /\ \A di \in DOMAIN dets : dets[di] \in Boxes
  <2>1. PICK n \in 0 .. MaxPeople : dets \in [1 .. n -> Boxes]
    BY DEF Detections, SeqOf
  <2>2. n \in Nat
    BY BoxesAssumption
  <2> QED BY <2>1, <2>2
<1>2. Boxes \subseteq Rectangles
  BY BoxesAssumption DEF Rectangles
<1>3. dets \in Seq(Rectangles)
  BY <1>1, <1>2
<1>4. DOMAIN tracks \in SUBSET Nat /\ IsFiniteSet(DOMAIN tracks)
  <2>1. nextId \in Nat /\ \A t \in DOMAIN tracks : t \in Nat /\ t < nextId
    BY DEF CameraTypes
  <2>2. IsFiniteSet(0 .. nextId)
    BY <2>1, FS_Interval
  <2>3. DOMAIN tracks \in SUBSET (0 .. nextId)
    BY <2>1
  <2> QED BY <2>1, <2>2, <2>3, FS_Subset
<1>5. Tracked(tracks, dets)
  BY <1>3, <1>4 DEF Tracked, CameraTypes, Tracks
<1>6. GivenIds(tracks, nextId, dets, ids, NextIdAfter(nextId, dets, m))
  <2>1. nextId \in Nat /\ \A t \in DOMAIN tracks : t < nextId
    BY DEF CameraTypes
  <2> HIDE DEF ids, m
  <2> QED BY <1>5, <2>1, IdsLemma DEF ids, m
<1>7. ts \in Int
  BY MaxSilenceAssumption, RateAssumption DEF CameraTypes, SuggestedPeriod
<1>8. /\ tracks' = TracksAfter(tracks, dets, ids)
      /\ nextId' = NextIdAfter(nextId, dets, m)
      /\ edgeEnterTs' = UpdateEnter(edgeEnterTs, edgeLastSeen, ZoneFrame(dets, ids), ts)
      /\ edgeLastSeen' = UpdateSeen(edgeLastSeen, ZoneFrame(dets, ids), ts)
      /\ streak' = StreakAfter(dets) /\ period' = SuggestedPeriod(streak')
      /\ out' = [dets |-> dets, ids |-> ids]
      /\ now' = ts
      /\ story' = StoryAfter(dets, out'.ids, stall > 0)
  BY Zenon DEF Turn, Process
<1>9. story' = StoryAfter(dets, ids, stall > 0)
  <2> HIDE DEF ids
  <2>1. out'.ids = ids
    BY <1>8
  <2> QED BY <1>8, <2>1
<1> HIDE DEF ts, ids
<1>10. Framed(dets, ids, ts)
  BY <1>1, <1>5, <1>6, <1>7, <1>8 DEF Framed, ids
<1> QED BY <1>9, <1>10 DEF ts

(* What a frame shows to the zone engine. *)
LEMMA FrameShows ==
    ASSUME NEW dets, NEW ids
    PROVE  LET f == ZoneFrame(dets, ids)
           IN  /\ \A t : t \in f.visible <=> \E di \in DOMAIN ids : ids[di] = t
               /\ \A k : k \in f.present <=>
                      \E di \in DOMAIN ids, z \in DOMAIN Zones :
                          ZoneContains(Zones[z], dets[di], Foot) /\ k = <<ids[di], z>>
               /\ \A k \in f.present : Tid(k) \in f.visible
               /\ f.visible = Shown(ids) /\ f.present = ShownInside(dets, ids)
<1> DEFINE f == ZoneFrame(dets, ids)
<1>1. f.visible = Shown(ids) /\ f.present = ShownInside(dets, ids)
  BY DEF ZoneFrame
<1>2. \A t : t \in Shown(ids) <=> \E di \in DOMAIN ids : ids[di] = t
  BY DEF Shown
<1>3. \A k : k \in ShownInside(dets, ids) <=>
          \E di \in DOMAIN ids, z \in DOMAIN Zones :
              ZoneContains(Zones[z], dets[di], Foot) /\ k = <<ids[di], z>>
  BY DEF ShownInside
<1>4. \A k \in ShownInside(dets, ids) : Tid(k) \in Shown(ids)
  BY <1>2, <1>3 DEF Tid
<1> HIDE DEF f
<1> QED BY <1>1, <1>2, <1>3, <1>4 DEF f

(* What a frame does to the stays and the sightings of the edge. *)
LEMMA StaysFollow ==
    ASSUME CameraTypes, NEW dets, NEW ids, NEW ts, Framed(dets, ids, ts)
    PROVE  LET f == ZoneFrame(dets, ids)
           IN  /\ \A t : t \in DOMAIN edgeLastSeen' <=>
                      \/ t \in f.visible
                      \/ t \in DOMAIN edgeLastSeen /\ ts - edgeLastSeen[t] <= MaxSilence
               /\ \A t \in DOMAIN edgeLastSeen' :
                      edgeLastSeen'[t] = IF t \in f.visible THEN ts ELSE edgeLastSeen[t]
               /\ \A k : k \in DOMAIN edgeEnterTs' <=>
                      \/ k \in f.present
                      \/ /\ k \in DOMAIN edgeEnterTs
                         /\ Tid(k) \notin f.visible
                         /\ edgeLastSeen[Tid(k)] # ts
                         /\ ts - edgeLastSeen[Tid(k)] <= MaxSilence
<1> DEFINE f == ZoneFrame(dets, ids)
<1>1. /\ ts \in Int
      /\ edgeEnterTs' = UpdateEnter(edgeEnterTs, edgeLastSeen, f, ts)
      /\ edgeLastSeen' = UpdateSeen(edgeLastSeen, f, ts)
  BY DEF Framed
<1>2. \A k \in f.present : Tid(k) \in f.visible
  BY FrameShows
<1>3. /\ \A t \in DOMAIN edgeLastSeen : edgeLastSeen[t] \in Int
      /\ \A k \in DOMAIN edgeEnterTs : Tid(k) \in DOMAIN edgeLastSeen
  BY DEF CameraTypes
<1> HIDE DEF f
<1>4. /\ \A t : t \in DOMAIN edgeLastSeen' <=>
             t \in f.visible \/ (t \in DOMAIN edgeLastSeen /\ ts - edgeLastSeen[t] <= MaxSilence)
      /\ \A t \in DOMAIN edgeLastSeen' :
             edgeLastSeen'[t] = IF t \in f.visible THEN ts ELSE edgeLastSeen[t]
  BY <1>1, <1>3, UpdateSeenLemma
<1>5. \A k : k \in DOMAIN edgeEnterTs' <=>
          \/ k \in f.present
          \/ /\ k \in DOMAIN edgeEnterTs
             /\ Tid(k) \notin f.visible
             /\ edgeLastSeen[Tid(k)] # ts
             /\ ts - edgeLastSeen[Tid(k)] <= MaxSilence
  BY <1>1, <1>2, <1>3, UpdateEnterLemma
<1> QED BY <1>4, <1>5 DEF f

LEMMA StoryFollows ==
    ASSUME CameraTypes, NEW dets \in Seq(Rectangles), NEW ids, DOMAIN ids = DOMAIN dets, NEW stall,
           story' = StoryAfter(dets, ids, stall > 0)
    PROVE  /\ \A t : t \in DOMAIN story' <=> t \in DOMAIN story \/ t \in Shown(ids)
           /\ \A t \in Shown(ids) :
                  /\ story'[t].missed = 0
                  /\ story'[t].box = Place(dets, ids, t)
                  /\ \A kind \in story'[t].inside : <<t, kind>> \in ShownInside(dets, ids)
           /\ \A t \in DOMAIN story' : story'[t] \in Stories
           /\ \A t \in DOMAIN story \ Shown(ids) :
                  /\ story'[t].missed = Smaller(story[t].missed + 1, LostTrackBuffer + 1)
                  /\ ~story'[t].stalled => ~story[t].stalled /\ ~(stall > 0)
                  /\ story'[t].inside = story[t].inside /\ story'[t].box = story[t].box
<1> DEFINE v == Shown(ids)
           p == ShownInside(dets, ids)
           late == stall > 0
           place(t) == Place(dets, ids, t)
<1>1. story' = [t \in DOMAIN story \union v |->
                    IF t \in v
                      THEN [missed |-> 0, stalled |-> FALSE, box |-> place(t),
                            inside |-> {k[2] : k \in {s \in p : s[1] = t}}]
                      ELSE [story[t] EXCEPT !.missed = Smaller(@ + 1, LostTrackBuffer + 1),
                                            !.stalled = @ \/ late]]
  BY Zenon DEF StoryAfter, Place
<1>2. \A k \in p : k = <<k[1], k[2]>> /\ k[2] \in DOMAIN Zones
  BY FrameShows
<1>0. ASSUME NEW t \in v PROVE place(t) \in Rectangles
  <2>1. \E di \in DOMAIN ids : ids[di] = t
    BY DEF Shown
  <2>2. (CHOOSE di \in DOMAIN ids : ids[di] = t) \in DOMAIN dets
    BY <2>1
  <2> QED BY <2>2 DEF Place
<1> HIDE DEF v, p, late, place
<1>3. DOMAIN story' = DOMAIN story \union v
  BY <1>1
<1>4. ASSUME NEW t \in v
      PROVE  /\ story'[t].missed = 0 /\ story'[t].box = place(t)
             /\ \A kind \in story'[t].inside : <<t, kind>> \in p
             /\ story'[t] \in Stories
  <2>1. story'[t] = [missed |-> 0, stalled |-> FALSE, box |-> place(t),
                     inside |-> {k[2] : k \in {s \in p : s[1] = t}}]
    BY <1>1
  <2>2. /\ story'[t].missed = 0 /\ story'[t].box = place(t)
        /\ story'[t].inside = {k[2] : k \in {s \in p : s[1] = t}}
    BY <2>1
  <2>3. \A kind \in story'[t].inside : <<t, kind>> \in p
    BY <1>2, <2>2
  <2> DEFINE q == {k[2] : k \in {s \in p : s[1] = t}}
  <2>4. q \in SUBSET DOMAIN Zones
    BY <1>2
  <2>5. story'[t] = [missed |-> 0, stalled |-> FALSE, box |-> place(t), inside |-> q]
    BY <2>1
  <2> HIDE DEF q
  <2>6. story'[t] \in Stories
    <3>1. \A s \in SUBSET DOMAIN Zones, b \in Rectangles :
              [missed |-> 0, stalled |-> FALSE, box |-> b, inside |-> s] \in Stories
      BY DEF Stories
    <3> QED BY <1>0, <2>4, <2>5, <3>1
  <2> QED BY <2>2, <2>3, <2>6
<1>5. ASSUME NEW t \in DOMAIN story \ v
      PROVE  /\ story'[t].missed = Smaller(story[t].missed + 1, LostTrackBuffer + 1)
             /\ ~story'[t].stalled => ~story[t].stalled /\ ~late
             /\ story'[t].inside = story[t].inside /\ story'[t].box = story[t].box
             /\ story'[t] \in Stories
  <2>1. story'[t] = [story[t] EXCEPT !.missed = Smaller(@ + 1, LostTrackBuffer + 1),
                                     !.stalled = @ \/ late]
    BY <1>1
  <2>2. story[t] \in [missed : Nat, box : Rectangles, inside : SUBSET DOMAIN Zones,
                      stalled : BOOLEAN]
    BY DEF CameraTypes, Stories
  <2>3. Smaller(story[t].missed + 1, LostTrackBuffer + 1) \in Nat
    BY <2>2, LostTrackBufferAssumption DEF Smaller
  <2> QED BY <2>1, <2>2, <2>3 DEF Stories
<1> QED BY <1>3, <1>4, <1>5 DEF v, p, late, place

LEMMA TracksFollow ==
    ASSUME CameraTypes, NEW dets, NEW ids, NEW ts, Framed(dets, ids, ts)
    PROVE  /\ \A t \in DOMAIN tracks' : t \in Nat /\ t < nextId' /\ tracks'[t] \in Tracks
           /\ \A t \in DOMAIN tracks' :
                  \/ /\ t \in Shown(ids) /\ tracks'[t].misses = 0
                     /\ tracks'[t].bbox = Place(dets, ids, t)
                  \/ /\ t \in DOMAIN tracks \ Shown(ids)
                     /\ tracks'[t].misses = tracks[t].misses + 1
                     /\ tracks[t].misses + 1 <= LostTrackBuffer
                     /\ tracks'[t].bbox = tracks[t].bbox
<1> DEFINE given == {ids[di] : di \in DOMAIN ids}
           survivors == {t \in DOMAIN tracks : tracks[t].misses + 1 <= LostTrackBuffer}
           box(t) == Place(dets, ids, t)
<1>1. tracks' = [t \in given \union survivors |->
                    IF t \in given THEN [bbox |-> box(t), misses |-> 0]
                                   ELSE [tracks[t] EXCEPT !.misses = @ + 1]]
  BY Zenon DEF Framed, TracksAfter, Place
<1>2. dets \in Seq(Rectangles) /\ GivenIds(tracks, nextId, dets, ids, nextId')
  BY DEF Framed, Tracked
<1>3. /\ DOMAIN ids = DOMAIN dets /\ nextId <= nextId' /\ nextId' \in Nat
      /\ \A di \in DOMAIN dets : ids[di] \in Nat /\ ids[di] < nextId'
  BY <1>2 DEF GivenIds
<1>4. ASSUME NEW t \in given PROVE box(t) \in Rectangles
  <2>1. \E di \in DOMAIN ids : ids[di] = t
    OBVIOUS
  <2>2. (CHOOSE di \in DOMAIN ids : ids[di] = t) \in DOMAIN ids
    BY <2>1
  <2> QED BY <1>2, <1>3, <2>2 DEF Place
<1> HIDE DEF box
<1>5. ASSUME NEW t \in given
      PROVE  /\ t \in Nat /\ t < nextId' /\ tracks'[t] \in Tracks
             /\ tracks'[t].misses = 0 /\ tracks'[t].bbox = box(t)
  <2>1. t \in Nat /\ t < nextId'
    BY <1>3
  <2>2. box(t) \in Rectangles /\ tracks'[t] = [bbox |-> box(t), misses |-> 0]
    BY <1>1, <1>4
  <2> QED BY <2>1, <2>2 DEF Tracks
<1>6. ASSUME NEW t \in survivors, t \notin given
      PROVE  /\ t \in Nat /\ t < nextId' /\ tracks'[t] \in Tracks
             /\ tracks'[t].misses = tracks[t].misses + 1 /\ tracks'[t].bbox = tracks[t].bbox
  <2>1. t \in Nat /\ t < nextId /\ nextId \in Nat /\ tracks[t] \in [bbox : Rectangles, misses : Nat]
    BY DEF CameraTypes, Tracks
  <2>2. tracks'[t] = [tracks[t] EXCEPT !.misses = @ + 1]
    BY <1>1, <1>6
  <2>3. /\ tracks'[t] \in Tracks
        /\ tracks'[t].misses = tracks[t].misses + 1 /\ tracks'[t].bbox = tracks[t].bbox
    BY <2>1, <2>2 DEF Tracks
  <2> QED BY <1>3, <2>1, <2>3
<1>7. DOMAIN tracks' = given \union survivors
  BY <1>1
<1>8. Shown(ids) = given /\ \A t \in survivors : t \in DOMAIN tracks /\ tracks[t].misses + 1 <= LostTrackBuffer
  BY DEF Shown
<1> HIDE DEF given, survivors
<1> QED BY <1>5, <1>6, <1>7, <1>8 DEF box

LEMMA TurnKeepsTypes ==
    ASSUME CameraTypes, NEW dets, NEW ids, NEW stall \in {0, MaxSilence},
           Framed(dets, ids, now + period + stall), story' = StoryAfter(dets, ids, stall > 0)
    PROVE  CameraTypes'
<1> DEFINE ts == now + period + stall
           f == ZoneFrame(dets, ids)
<1>1. now \in Int /\ period \in Nat \ {0} /\ stall \in Nat /\ now' = ts
  BY MaxSilenceAssumption, RateAssumption DEF CameraTypes, SuggestedPeriod, Framed
<1>2. ts \in Int /\ now < ts
  BY <1>1
<1> HIDE DEF ts
<1>3. /\ GivenIds(tracks, nextId, dets, ids, nextId')
      /\ streak' = StreakAfter(dets) /\ period' = SuggestedPeriod(streak')
  BY DEF Framed
<1>4. /\ nextId' \in Nat /\ nextId <= nextId' /\ DOMAIN ids = DOMAIN dets
      /\ \A di \in DOMAIN dets : ids[di] \in Nat /\ ids[di] < nextId'
  BY <1>3 DEF GivenIds
<1>5. streak' \in 0 .. IdleAfter
  BY <1>3, RateAssumption DEF StreakAfter, CameraTypes, Smaller
<1>6. \A t \in DOMAIN tracks' : t \in Nat /\ t < nextId' /\ tracks'[t] \in Tracks
  BY TracksFollow
<1>7. \A t \in DOMAIN story' : t \in Nat /\ t < nextId' /\ story'[t] \in Stories
  <2>1. /\ \A t : t \in DOMAIN story' <=> t \in DOMAIN story \/ t \in Shown(ids)
        /\ \A t \in DOMAIN story' : story'[t] \in Stories
    BY <1>4, StoryFollows DEF Framed, Tracked
  <2>2. \A t \in DOMAIN story : t \in Nat /\ t < nextId /\ nextId \in Nat
    BY DEF CameraTypes
  <2>3. \A t \in Shown(ids) : t \in Nat /\ t < nextId'
    BY <1>4 DEF Shown
  <2> QED BY <1>4, <2>1, <2>2, <2>3
<1>8. Framed(dets, ids, ts)
  BY DEF ts
<1>9. /\ \A t : t \in DOMAIN edgeLastSeen' <=>
             \/ t \in f.visible
             \/ t \in DOMAIN edgeLastSeen /\ ts - edgeLastSeen[t] <= MaxSilence
      /\ \A t \in DOMAIN edgeLastSeen' :
             edgeLastSeen'[t] = IF t \in f.visible THEN ts ELSE edgeLastSeen[t]
      /\ \A k : k \in DOMAIN edgeEnterTs' <=>
             \/ k \in f.present
             \/ /\ k \in DOMAIN edgeEnterTs
                /\ Tid(k) \notin f.visible
                /\ edgeLastSeen[Tid(k)] # ts
                /\ ts - edgeLastSeen[Tid(k)] <= MaxSilence
  BY <1>8, StaysFollow
<1>10. \A k \in f.present : Tid(k) \in f.visible
  BY FrameShows
<1> HIDE DEF f
<1>11. /\ \A t \in DOMAIN edgeLastSeen : edgeLastSeen[t] \in Int /\ edgeLastSeen[t] <= now
       /\ \A k \in DOMAIN edgeEnterTs : Tid(k) \in DOMAIN edgeLastSeen
  BY DEF CameraTypes
<1>12. \A t \in DOMAIN edgeLastSeen' : edgeLastSeen'[t] \in Int /\ edgeLastSeen'[t] <= now'
  BY <1>1, <1>2, <1>9, <1>11
<1>13. \A k \in DOMAIN edgeEnterTs' : Tid(k) \in DOMAIN edgeLastSeen'
  BY <1>9, <1>10, <1>11
<1> QED BY <1>1, <1>2, <1>3, <1>4, <1>5, <1>6, <1>7, <1>12, <1>13 DEF CameraTypes

LEMMA TurnKeepsPace ==
    ASSUME CameraInv, NEW dets, NEW ids, NEW stall \in {0, MaxSilence},
           Framed(dets, ids, now + period + stall), story' = StoryAfter(dets, ids, stall > 0)
    PROVE  Paced'
<1> DEFINE ts == now + period + stall
           f == ZoneFrame(dets, ids)
<1>1. CameraTypes /\ Paced
  BY DEF CameraInv
<1>2. /\ now \in Int /\ now' = ts /\ stall \in Nat /\ period \in Nat \ {0}
      /\ streak \in 0 .. IdleAfter /\ period = SuggestedPeriod(streak)
  BY <1>1, MaxSilenceAssumption, RateAssumption DEF CameraTypes, SuggestedPeriod, Framed
<1>3. /\ ts \in Int /\ now < ts /\ (~(stall > 0) => ts = now + period)
  BY <1>2
<1>4. /\ DOMAIN ids = DOMAIN dets /\ streak' = StreakAfter(dets)
  BY DEF Framed, GivenIds
<1> HIDE DEF ts
<1>5. Framed(dets, ids, ts)
  BY DEF ts
<1>6. /\ \A t : t \in DOMAIN edgeLastSeen' <=>
             \/ t \in f.visible
             \/ t \in DOMAIN edgeLastSeen /\ ts - edgeLastSeen[t] <= MaxSilence
      /\ \A t \in DOMAIN edgeLastSeen' :
             edgeLastSeen'[t] = IF t \in f.visible THEN ts ELSE edgeLastSeen[t]
      /\ \A k : k \in DOMAIN edgeEnterTs' <=>
             \/ k \in f.present
             \/ /\ k \in DOMAIN edgeEnterTs
                /\ Tid(k) \notin f.visible
                /\ edgeLastSeen[Tid(k)] # ts
                /\ ts - edgeLastSeen[Tid(k)] <= MaxSilence
  BY <1>1, <1>5, StaysFollow
<1>7. f.visible = Shown(ids) /\ f.present = ShownInside(dets, ids)
  BY FrameShows
<1> HIDE DEF f
<1>8. /\ \A t : t \in DOMAIN story' <=> t \in DOMAIN story \/ t \in Shown(ids)
      /\ \A t \in Shown(ids) :
             /\ story'[t].missed = 0
             /\ \A kind \in story'[t].inside : <<t, kind>> \in ShownInside(dets, ids)
      /\ \A t \in DOMAIN story \ Shown(ids) :
             /\ story'[t].missed = Smaller(story[t].missed + 1, LostTrackBuffer + 1)
             /\ ~story'[t].stalled => ~story[t].stalled /\ ~(stall > 0)
             /\ story'[t].inside = story[t].inside
  BY <1>1, <1>4, StoryFollows DEF Framed, Tracked
<1>9. ASSUME NEW t \in Shown(ids) PROVE Remembered(t)'
  <2>1. streak' = 0
    <3>1. dets # <<>>
      BY <1>4 DEF Shown
    <3> QED BY <1>4, <3>1 DEF StreakAfter
  <2>2. t \in DOMAIN edgeLastSeen' /\ edgeLastSeen'[t] = ts
    BY <1>6, <1>7
  <2>3. \A kind \in story'[t].inside : <<t, kind>> \in DOMAIN edgeEnterTs'
    BY <1>6, <1>7, <1>8
  <2>4. story'[t].missed = 0 /\ Elapsed(0) = 0 /\ now' - edgeLastSeen'[t] = 0
    BY <1>2, <1>3, <1>8, <2>2, ElapsedLemma
  <2>5. now' - edgeLastSeen'[t] <= Elapsed(story'[t].missed)
    BY <2>4
  <2> QED BY <2>1, <2>2, <2>3, <2>4, <2>5 DEF Remembered, Elapsed
<1>10. ASSUME NEW t \in DOMAIN story \ Shown(ids),
              ~story'[t].stalled, story'[t].missed <= LostTrackBuffer
       PROVE  Remembered(t)'
  <2> DEFINE j == story[t].missed
  <2>1. j \in Nat
    BY <1>1 DEF CameraTypes, Stories
  <2>2. /\ story'[t].missed = Smaller(j + 1, LostTrackBuffer + 1)
        /\ ~story[t].stalled /\ ~(stall > 0) /\ story'[t].inside = story[t].inside
    BY <1>8, <1>10
  <2> HIDE DEF j
  <2>3. story'[t].missed = j + 1 /\ j + 1 <= LostTrackBuffer /\ j <= LostTrackBuffer
    BY <1>10, <2>1, <2>2, LostTrackBufferAssumption DEF Smaller
  <2>4. Remembered(t)
    BY <1>1, <2>2, <2>3 DEF Paced, j
  <2>5. /\ streak <= j /\ t \in DOMAIN edgeLastSeen /\ now - edgeLastSeen[t] <= Elapsed(j)
        /\ \A kind \in story[t].inside : <<t, kind>> \in DOMAIN edgeEnterTs
    BY <2>4 DEF Remembered, j
  <2>6. edgeLastSeen[t] \in Int /\ edgeLastSeen[t] <= now
    BY <1>1, <2>5 DEF CameraTypes
  <2>7. Elapsed(j) + period <= Elapsed(j + 1) /\ Elapsed(j) \in Int /\ Elapsed(j + 1) \in Int
    <3>1. /\ Elapsed(j) \in Int /\ Elapsed(j + 1) \in Int
          /\ Elapsed(j) + Active <= Elapsed(j + 1)
          /\ IdleAfter <= j => Elapsed(j) + Idle <= Elapsed(j + 1)
      BY <2>1, ElapsedLemma
    <3>2. IdleAfter \in Nat
      BY RateAssumption
    <3>3. CASE streak >= IdleAfter
      <4>1. IdleAfter <= j /\ period = Idle
        BY <1>2, <2>1, <2>5, <3>2, <3>3 DEF SuggestedPeriod
      <4> QED BY <3>1, <4>1
    <3>4. CASE ~(streak >= IdleAfter)
      <4>1. period = Active
        BY <1>2, <3>4 DEF SuggestedPeriod
      <4> QED BY <3>1, <4>1
    <3> QED BY <3>3, <3>4
  <2>8. ts - edgeLastSeen[t] <= Elapsed(j + 1)
    BY <1>2, <1>3, <2>2, <2>5, <2>6, <2>7
  <2>9. Elapsed(j + 1) <= MaxSilence
    <3>1. Elapsed(j + 1) <= Elapsed(LostTrackBuffer)
      BY <2>1, <2>3, ElapsedGrows, LostTrackBufferAssumption
    <3>2. Elapsed(LostTrackBuffer) <= MaxSilence /\ Elapsed(LostTrackBuffer) \in Int
      BY SilenceAssumption, LostTrackBufferAssumption, ElapsedLemma DEF Elapsed
    <3> QED BY <2>7, <3>1, <3>2, MaxSilenceAssumption
  <2>10. ts - edgeLastSeen[t] <= MaxSilence /\ edgeLastSeen[t] # ts
    BY <1>2, <1>3, <2>6, <2>7, <2>8, <2>9, MaxSilenceAssumption
  <2>11. t \in DOMAIN edgeLastSeen' /\ edgeLastSeen'[t] = edgeLastSeen[t]
    BY <1>6, <1>7, <1>10, <2>5, <2>10
  <2>12. \A kind \in story'[t].inside : <<t, kind>> \in DOMAIN edgeEnterTs'
    <3>1. \A kind : Tid(<<t, kind>>) = t
      BY DEF Tid
    <3> QED BY <1>6, <1>7, <1>10, <2>2, <2>5, <2>10, <3>1
  <2>13. streak' <= story'[t].missed
    <3>1. streak' = 0 \/ streak' = Smaller(streak + 1, IdleAfter)
      BY <1>4 DEF StreakAfter
    <3> QED BY <1>2, <2>1, <2>3, <2>5, <3>1, RateAssumption DEF Smaller
  <2>14. now' - edgeLastSeen'[t] <= Elapsed(story'[t].missed)
    BY <1>2, <2>3, <2>8, <2>11
  <2> QED BY <2>11, <2>12, <2>13, <2>14 DEF Remembered, Elapsed
<1> SUFFICES ASSUME NEW t \in DOMAIN story', ~story'[t].stalled, story'[t].missed <= LostTrackBuffer
             PROVE  Remembered(t)'
  BY DEF Paced
<1> QED BY <1>8, <1>9, <1>10

LEMMA TurnKeepsLiving ==
    ASSUME CameraInv, NEW dets, NEW ids, NEW stall \in {0, MaxSilence}, NEW ts,
           Framed(dets, ids, ts), story' = StoryAfter(dets, ids, stall > 0)
    PROVE  Living'
<1>1. CameraTypes /\ Living /\ dets \in Seq(Rectangles) /\ DOMAIN ids = DOMAIN dets
  BY DEF CameraInv, Framed, Tracked, GivenIds
<1>2. /\ \A t : t \in DOMAIN story' <=> t \in DOMAIN story \/ t \in Shown(ids)
      /\ \A t \in Shown(ids) :
             /\ story'[t].missed = 0
             /\ story'[t].box = Place(dets, ids, t)
      /\ \A t \in DOMAIN story \ Shown(ids) :
             /\ story'[t].missed = Smaller(story[t].missed + 1, LostTrackBuffer + 1)
             /\ story'[t].box = story[t].box
  BY <1>1, StoryFollows
<1>3. \A t \in DOMAIN tracks' :
          \/ /\ t \in Shown(ids) /\ tracks'[t].misses = 0
             /\ tracks'[t].bbox = Place(dets, ids, t)
          \/ /\ t \in DOMAIN tracks \ Shown(ids)
             /\ tracks'[t].misses = tracks[t].misses + 1
             /\ tracks[t].misses + 1 <= LostTrackBuffer
             /\ tracks'[t].bbox = tracks[t].bbox
  BY <1>1, TracksFollow
<1>4. SUFFICES ASSUME NEW t \in DOMAIN tracks'
               PROVE  /\ t \in DOMAIN story'
                      /\ story'[t].missed = tracks'[t].misses
                      /\ tracks'[t].misses <= LostTrackBuffer
                      /\ story'[t].box = tracks'[t].bbox
  BY DEF Living
<1>5. CASE t \in Shown(ids)
  BY <1>2, <1>3, <1>5, LostTrackBufferAssumption
<1>6. CASE t \notin Shown(ids)
  <2>1. /\ t \in DOMAIN tracks /\ tracks'[t].misses = tracks[t].misses + 1
        /\ tracks[t].misses + 1 <= LostTrackBuffer /\ tracks'[t].bbox = tracks[t].bbox
    BY <1>3, <1>6
  <2>2. /\ t \in DOMAIN story /\ story[t].missed = tracks[t].misses
        /\ story[t].box = tracks[t].bbox /\ tracks[t].misses \in Nat
    BY <1>1, <2>1 DEF Living, CameraTypes, Tracks
  <2>3. Smaller(story[t].missed + 1, LostTrackBuffer + 1) = tracks[t].misses + 1
    BY <2>1, <2>2, LostTrackBufferAssumption DEF Smaller
  <2> QED BY <1>2, <1>6, <2>1, <2>2, <2>3
<1> QED BY <1>5, <1>6

LEMMA CameraNextInv == CameraInv /\ [CameraNext]_cameraVars => CameraInv'
<1> SUFFICES ASSUME CameraInv, [CameraNext]_cameraVars PROVE CameraInv'
  OBVIOUS
<1>1. CASE UNCHANGED cameraVars
  BY <1>1 DEF cameraVars, pipeline, CameraInv, CameraTypes, Paced, Remembered, Living
<1>2. ASSUME NEW dets \in Detections, NEW stall \in {0, MaxSilence}, Turn(dets, stall)
      PROVE  CameraInv'
  <2>1. PICK ids : /\ Framed(dets, ids, now + period + stall)
                   /\ story' = StoryAfter(dets, ids, stall > 0)
    BY <1>2, TurnFramed DEF CameraInv
  <2>2. CameraTypes'
    BY <2>1, TurnKeepsTypes DEF CameraInv
  <2>3. Paced'
    BY <2>1, TurnKeepsPace
  <2>4. Living'
    BY <2>1, TurnKeepsLiving
  <2> QED BY <2>2, <2>3, <2>4 DEF CameraInv
<1> QED BY <1>1, <1>2 DEF CameraNext

(* The tracker, the zone engine and the clock of a camera stay in step. *)
THEOREM CameraInvariantHolds == CameraSpec => []CameraInv
BY CameraInitInv, CameraNextInv, PTL DEF CameraSpec

(* A lost person found again under the same id is still in their stay: the *)
(* buffer of the tracker, in frames, ends before the silence of the zone   *)
(* engine, in seconds, whatever the camera's rate does meanwhile.          *)
THEOREM MissedPeopleKeepTheirStayHolds == CameraSpec => []MissedPeopleKeepTheirStay
<1>1. CameraInv => MissedPeopleKeepTheirStay
  BY DEF CameraInv, Paced, Remembered, MissedPeopleKeepTheirStay
<1> QED BY <1>1, CameraInvariantHolds, PTL

---------------------------------------------------------------------------
(* The association of a frame, as the property states it. *)
AssociatesBest ==
    LET dets == out'.dets
        mate == {p \in Pairs(tracks, dets) : out'.ids[p[2]] = p[1]}
    IN  \A p \in Pairs(tracks, dets) :
            Associates(Score(tracks, dets, p))
              => \E q \in mate : /\ q[1] = p[1] \/ q[2] = p[2]
                                 /\ ~Exceeds(Score(tracks, dets, p), Score(tracks, dets, q))

LEMMA FrameAssociatesBest ==
    ASSUME CameraInv, NEW dets, NEW ids, NEW ts, Framed(dets, ids, ts)
    PROVE  AssociatesBest
<1> DEFINE m == Matching(tracks, dets)
           mate == {p \in Pairs(tracks, dets) : ids[p[2]] = p[1]}
           Rival(p, q) == /\ q[1] = p[1] \/ q[2] = p[2]
                          /\ ~Exceeds(Score(tracks, dets, p), Score(tracks, dets, q))
<1>1. /\ out'.dets = dets /\ out'.ids = ids /\ Tracked(tracks, dets)
      /\ ids = TrackerIds(tracks, nextId, dets, m)
  BY DEF Framed
<1>2. nextId \in Nat /\ \A t \in DOMAIN tracks : t < nextId
  BY DEF CameraInv, CameraTypes
<1>3. /\ m \in SUBSET Candidates(tracks, dets)
      /\ \A p \in Candidates(tracks, dets) : Stable(tracks, dets, m, p)
  BY <1>1, MatchingLemma
<1>4. \A p \in m : ids[p[2]] = p[1]
  BY <1>1, <1>2, IdsLemma
<1>5. m \in SUBSET mate
  BY <1>3, <1>4 DEF Candidates
<1>6. ASSUME NEW p \in Pairs(tracks, dets), Associates(Score(tracks, dets, p))
      PROVE  \E q \in mate : Rival(p, q)
  <2>1. p \in Candidates(tracks, dets)
    BY <1>6 DEF Candidates
  <2>2. \E q \in m : Rival(p, q)
    BY <1>3, <2>1 DEF Stable
  <2> HIDE DEF mate, Rival, m
  <2> QED BY <1>5, <2>2
<1> QED BY <1>1, <1>6, Zenon DEF AssociatesBest

(* Every frame associates the best pairs first. *)
THEOREM AssociationIsStableHolds == CameraSpec => AssociationIsStable
<1>1. CameraInv /\ [CameraNext]_cameraVars => [AssociatesBest]_<<frames>>
  <2> SUFFICES ASSUME CameraInv, [CameraNext]_cameraVars PROVE [AssociatesBest]_<<frames>>
    OBVIOUS
  <2>1. CASE UNCHANGED cameraVars
    BY <2>1 DEF cameraVars
  <2>2. ASSUME NEW dets \in Detections, NEW stall \in {0, MaxSilence}, Turn(dets, stall)
        PROVE  AssociatesBest
    <3>1. PICK ids : Framed(dets, ids, now + period + stall)
      BY <2>2, TurnFramed DEF CameraInv
    <3> QED BY <3>1, FrameAssociatesBest
  <2> QED BY <2>1, <2>2 DEF CameraNext
<1> QED BY <1>1, CameraInvariantHolds, PTL DEF CameraSpec, AssociationIsStable, AssociatesBest

(* The ids of a frame, as the property states them. *)
IdsHaveTheirPlace ==
    /\ \A di \in DOMAIN out'.ids :
           out'.ids[di] \in DOMAIN story =>
               LET last == story[out'.ids[di]]
                   box == out'.dets[di]
               IN  /\ last.missed <= LostTrackBuffer
                   /\ Associates(<<Inter(last.box, box), Outer(last.box, box)>>)
    /\ Cardinality(Shown(out'.ids)) = Len(out'.ids)

LEMMA AsManyIds ==
    ASSUME NEW n \in Nat, NEW ids, DOMAIN ids = 1 .. n,
           \A di, dj \in 1 .. n : ids[di] = ids[dj] => di = dj
    PROVE  Cardinality(Shown(ids)) = n
<1> DEFINE f == [di \in 1 .. n |-> ids[di]]
           T == Shown(ids)
<1>1. \A t : t \in T <=> \E di \in 1 .. n : ids[di] = t
  BY DEF Shown
<1> HIDE DEF T
<1>2. f \in Bijection(1 .. n, T)
  BY <1>1 DEF Bijection, Injection, Surjection, IsInjective
<1> HIDE DEF f
<1>3. IsFiniteSet(1 .. n) /\ Cardinality(1 .. n) = n
  BY FS_Interval
<1> QED BY <1>2, <1>3, FS_Bijection DEF ExistsBijection, T

LEMMA FrameKeepsPlaces ==
    ASSUME CameraInv, NEW dets, NEW ids, NEW ts, Framed(dets, ids, ts)
    PROVE  IdsHaveTheirPlace
<1>1. /\ out'.ids = ids /\ out'.dets = dets /\ dets \in Seq(Rectangles)
      /\ GivenIds(tracks, nextId, dets, ids, nextId')
  BY DEF Framed, Tracked
<1>2. /\ DOMAIN ids = DOMAIN dets
      /\ \A di \in DOMAIN dets : ids[di] \in Nat
      /\ \A di \in DOMAIN dets : ids[di] \in DOMAIN tracks \/ nextId <= ids[di]
      /\ \A di \in DOMAIN dets :
             ids[di] < nextId => Associates(Score(tracks, dets, <<ids[di], di>>))
      /\ \A di, dj \in DOMAIN dets : ids[di] = ids[dj] => di = dj
  BY <1>1 DEF GivenIds
<1>3. nextId \in Nat /\ \A t \in DOMAIN story : t \in Nat /\ t < nextId
  BY DEF CameraInv, CameraTypes
<1>4. ASSUME NEW di \in DOMAIN ids, ids[di] \in DOMAIN story
      PROVE  /\ story[ids[di]].missed <= LostTrackBuffer
             /\ Associates(<<Inter(story[ids[di]].box, dets[di]), Outer(story[ids[di]].box, dets[di])>>)
  <2>1. ids[di] < nextId /\ ids[di] \in DOMAIN tracks
    BY <1>2, <1>3, <1>4
  <2>2. /\ story[ids[di]].missed <= LostTrackBuffer
        /\ story[ids[di]].box = tracks[ids[di]].bbox
    BY <2>1 DEF CameraInv, Living
  <2>3. Score(tracks, dets, <<ids[di], di>>)
          = <<Inter(tracks[ids[di]].bbox, dets[di]), Outer(tracks[ids[di]].bbox, dets[di])>>
    BY DEF Score
  <2> QED BY <1>2, <2>1, <2>2, <2>3
<1>5. Len(dets) \in Nat /\ DOMAIN dets = 1 .. Len(dets)
  BY <1>1
<1>6. Cardinality(Shown(ids)) = Len(dets)
  BY <1>2, <1>5, AsManyIds
<1>7. Len(ids) = Len(dets)
  BY <1>2, <1>5
<1> QED BY <1>1, <1>4, <1>6, <1>7 DEF IdsHaveTheirPlace

(* In one life of the tracker, IouTracker.update gives a box the id of     *)
(* another frame only if that id was shown at most LostTrackBuffer frames  *)
(* ago, with a box that overlaps this one enough; and no id to two boxes.  *)
THEOREM IdsStayWithTheirPlaceHolds == CameraSpec => IdsStayWithTheirPlace
<1>1. CameraInv /\ [CameraNext]_cameraVars => [IdsHaveTheirPlace]_<<frames>>
  <2> SUFFICES ASSUME CameraInv, [CameraNext]_cameraVars PROVE [IdsHaveTheirPlace]_<<frames>>
    OBVIOUS
  <2>1. CASE UNCHANGED cameraVars
    BY <2>1 DEF cameraVars
  <2>2. ASSUME NEW dets \in Detections, NEW stall \in {0, MaxSilence}, Turn(dets, stall)
        PROVE  IdsHaveTheirPlace
    <3>1. PICK ids : Framed(dets, ids, now + period + stall)
      BY <2>2, TurnFramed DEF CameraInv
    <3> QED BY <3>1, FrameKeepsPlaces
  <2> QED BY <2>1, <2>2 DEF CameraNext
<1> QED BY <1>1, CameraInvariantHolds, PTL
        DEF CameraSpec, IdsStayWithTheirPlace, IdsHaveTheirPlace

---------------------------------------------------------------------------
(* Zones that overlap count a person once each; what follows is about      *)
(* zones of which no box stands in two.  That the hit test has this for    *)
(* zones that only share a border is checked for the zones of the run.     *)
ZonesAreDisjoint ==
    \A b \in Boxes : \A y, z \in DOMAIN Zones :
        ZoneContains(Zones[y], b, Foot) /\ ZoneContains(Zones[z], b, Foot) => y = z

(* Keys are pairs, and no two open ones are of one person. *)
CountedOnce ==
    /\ \A k \in DOMAIN edgeEnterTs : k = <<k[1], k[2]>>
    /\ NobodyIsCountedTwice

LEMMA FrameCountsOnce ==
    ASSUME ZonesAreDisjoint, CameraInv, CountedOnce,
           NEW dets, NEW ids, NEW ts, Framed(dets, ids, ts)
    PROVE  CountedOnce'
<1> DEFINE f == ZoneFrame(dets, ids)
<1>1. /\ DOMAIN ids = DOMAIN dets /\ \A di \in DOMAIN dets : dets[di] \in Boxes
      /\ \A di, dj \in DOMAIN dets : ids[di] = ids[dj] => di = dj
  BY DEF Framed, GivenIds
<1>2. /\ \A k : k \in f.present <=>
             \E di \in DOMAIN ids, z \in DOMAIN Zones :
                 ZoneContains(Zones[z], dets[di], Foot) /\ k = <<ids[di], z>>
      /\ \A k \in f.present : Tid(k) \in f.visible
  BY FrameShows
<1>3. \A k \in DOMAIN edgeEnterTs' :
          k \in f.present \/ (k \in DOMAIN edgeEnterTs /\ Tid(k) \notin f.visible)
  BY StaysFollow DEF CameraInv
<1> HIDE DEF f
<1>4. ASSUME NEW k \in f.present, NEW l \in f.present, k[1] = l[1] PROVE k = l
  <2>1. PICK di \in DOMAIN ids, y \in DOMAIN Zones :
            ZoneContains(Zones[y], dets[di], Foot) /\ k = <<ids[di], y>>
    BY <1>2
  <2>2. PICK dj \in DOMAIN ids, z \in DOMAIN Zones :
            ZoneContains(Zones[z], dets[dj], Foot) /\ l = <<ids[dj], z>>
    BY <1>2
  <2>3. di = dj
    BY <1>1, <1>4, <2>1, <2>2
  <2>4. y = z
    BY <1>1, <2>1, <2>2, <2>3 DEF ZonesAreDisjoint
  <2> QED BY <2>1, <2>2, <2>3, <2>4
<1>5. \A k \in f.present : k = <<k[1], k[2]>>
  BY <1>2
<1>6. \A k : Tid(k) = k[1]
  BY DEF Tid
<1>7. /\ \A k \in DOMAIN edgeEnterTs : k = <<k[1], k[2]>>
      /\ \A k, l \in DOMAIN edgeEnterTs : k[1] = l[1] => k = l
  BY DEF CountedOnce, NobodyIsCountedTwice
<1>8. \A k \in DOMAIN edgeEnterTs' : k = <<k[1], k[2]>>
  BY <1>3, <1>5, <1>7
<1>9. ASSUME NEW k \in DOMAIN edgeEnterTs', NEW l \in DOMAIN edgeEnterTs', k[1] = l[1]
      PROVE  k = l
  <2>1. CASE k \in f.present
    BY <1>2, <1>3, <1>4, <1>6, <1>9, <2>1
  <2>2. CASE k \notin f.present
    BY <1>2, <1>3, <1>6, <1>7, <1>9, <2>2
  <2> QED BY <2>1, <2>2
<1> QED BY <1>8, <1>9 DEF CountedOnce, NobodyIsCountedTwice

(* Nobody is counted in two zones at once: the frame that shows a person   *)
(* in one zone closes the stay in the other, and no other frame opens one. *)
THEOREM NobodyIsCountedTwiceHolds == ZonesAreDisjoint => (CameraSpec => []NobodyIsCountedTwice)
<1> SUFFICES ASSUME ZonesAreDisjoint PROVE CameraSpec => []NobodyIsCountedTwice
  OBVIOUS
<1>1. CameraInit => CountedOnce
  BY DEF CameraInit, CountedOnce, NobodyIsCountedTwice, Nothing
<1>2. CameraInv /\ CountedOnce /\ [CameraNext]_cameraVars => CountedOnce'
  <2> SUFFICES ASSUME CameraInv, CountedOnce, [CameraNext]_cameraVars PROVE CountedOnce'
    OBVIOUS
  <2>1. CASE UNCHANGED cameraVars
    BY <2>1 DEF cameraVars, pipeline, CountedOnce, NobodyIsCountedTwice
  <2>2. ASSUME NEW dets \in Detections, NEW stall \in {0, MaxSilence}, Turn(dets, stall)
        PROVE  CountedOnce'
    <3>1. PICK ids : Framed(dets, ids, now + period + stall)
      BY <2>2, TurnFramed DEF CameraInv
    <3> QED BY <3>1, FrameCountsOnce
  <2> QED BY <2>1, <2>2 DEF CameraNext
<1>3. CountedOnce => NobodyIsCountedTwice
  BY DEF CountedOnce
<1> QED BY <1>1, <1>2, <1>3, CameraInvariantHolds, PTL DEF CameraSpec
=============================================================================
