----------------------------- MODULE EdgeCamera -----------------------------
(***************************************************************************)
(* One camera at the edge: the loop of the agent samples frames at the     *)
(* rate that the pipeline suggested last (src/wte/edge/agent.py, run), and *)
(* the pipeline detects, tracks and feeds its zone engine                  *)
(* (src/wte/vision/pipeline.py, CameraPipeline.process).                   *)
(*                                                                         *)
(* The detector misses people and finds them again.  Lost tracks are       *)
(* counted in frames, silent stays in seconds, and the frame rate changes  *)
(* with what is seen.                                                      *)
(***************************************************************************)
EXTENDS IouTracker, ZoneTracking, Polygon

CONSTANTS
    Boxes,        \* boxes the detector finds
    MaxPeople,    \* bound of the runs: boxes in a frame
    Foot,         \* the lower edge of all of them
    Zones,        \* the polygons of the camera's zones, by kind
    Active,       \* seconds between frames at fps_active
    Idle,         \* and at fps_idle
    IdleAfter,    \* idle_after_empty_frames
    MaxFrames     \* bound of the runs: frames

ASSUME RateAssumption ==
    /\ Active \in Nat \ {0} /\ Idle \in Nat /\ Active <= Idle /\ IdleAfter \in Nat \ {0}

(* The defaults have this room: a track that is lost for as long as its    *)
(* buffer, the camera turning idle meanwhile, is gone before its stay is:  *)
(* of 60 frames (settings.py:30) 30 at 10 a second and 30 at 3 take 13 s,  *)
(* and zones.py:58 has 15.                                                 *)
ASSUME SilenceAssumption ==
    Smaller(LostTrackBuffer, IdleAfter) * Active + Larger(LostTrackBuffer - IdleAfter, 0) * Idle
      <= MaxSilence

ASSUME BoxesAssumption == Boxes \subseteq {b \in Int \X Int : b[1] < b[2]} /\ MaxPeople \in Nat

VARIABLES
    tracks,        \* IouTracker._tracks
    nextId,        \* IouTracker._next_id
    streak,        \* CameraPipeline._empty_streak
    period,        \* 1 / target_fps
    edgeEnterTs,   \* _enter_ts of the edge's zone engine
    edgeLastSeen,  \* _last_seen of the edge's zone engine
    now,           \* the time of the latest frame
    frames,        \* frames processed
    out,           \* the latest detections and their tracker ids
    story          \* history: for each id, [missed, box, inside, stalled]:
                   \*   the frames since it was shown, the box and the zones
                   \*   it was then in, and whether the camera stalled since

pipeline == <<tracks, nextId, streak, edgeEnterTs, edgeLastSeen>>
cameraVars == <<pipeline, period, now, frames, out, story>>

Nothing == [x \in {} |-> x]

CameraInit ==
    /\ tracks = Nothing /\ nextId = 1 /\ streak = 0 /\ period = Active
    /\ edgeEnterTs = Nothing /\ edgeLastSeen = Nothing
    /\ now = 0 /\ frames = 0
    /\ out = [dets |-> <<>>, ids |-> <<>>] /\ story = Nothing

Shown(ids) == {ids[di] : di \in DOMAIN ids}
(* The detections of a frame, tested against every zone. *)
ShownInside(dets, ids) ==
    UNION {{<<ids[di], kind>> : kind \in {z \in DOMAIN Zones : ZoneContains(Zones[z], dets[di], Foot)}}
           : di \in DOMAIN ids}

ZoneFrame(dets, ids) == [visible |-> Shown(ids), present |-> ShownInside(dets, ids)]

\* mutant: the streak is not reset when somebody appears
StreakNeverReset(dets) == IF dets = <<>> THEN Smaller(streak + 1, IdleAfter) ELSE streak

(* _empty_streak; only whether it has reached IdleAfter matters. *)
StreakAfter(dets) == IF dets = <<>> THEN Smaller(streak + 1, IdleAfter) ELSE 0

SuggestedPeriod(n) == IF n >= IdleAfter THEN Idle ELSE Active

StoryAfter(dets, ids, stalled) ==
    [t \in DOMAIN story \union Shown(ids) |->
        IF t \in Shown(ids)
          THEN [missed |-> 0, stalled |-> FALSE,
                box |-> dets[CHOOSE di \in DOMAIN ids : ids[di] = t],
                inside |-> {k[2] : k \in {s \in ShownInside(dets, ids) : s[1] = t}}]
          ELSE [story[t] EXCEPT !.missed = Smaller(@ + 1, LostTrackBuffer + 1),
                                !.stalled = @ \/ stalled]]

(* CameraPipeline.process(frame, ts) *)
Process(dets, ts) ==
    LET m == Matching(tracks, dets)
        ids == TrackerIds(tracks, nextId, dets, m)
        f == ZoneFrame(dets, ids)
    IN  /\ tracks' = TracksAfter(tracks, dets, ids)
        /\ nextId' = NextIdAfter(nextId, dets, m)
        /\ edgeEnterTs' = UpdateEnter(edgeEnterTs, edgeLastSeen, f, ts)
        /\ edgeLastSeen' = UpdateSeen(edgeLastSeen, f, ts)
        /\ streak' = StreakAfter(dets)
        /\ period' = SuggestedPeriod(streak')
        /\ out' = [dets |-> dets, ids |-> ids]

(* One turn of the loop of run: the next frame at the suggested rate, or   *)
(* later when the stream has to be opened again or the box is slow.        *)
Turn(dets, stall) ==
    LET ts == now + period + stall
    IN  /\ frames < MaxFrames
        /\ Process(dets, ts)
        /\ now' = ts /\ frames' = frames + 1
        /\ story' = StoryAfter(dets, out'.ids, stall > 0)

(* The detector suppresses all but one of boxes that coincide. *)
Detections ==
    {d \in SeqOf(Boxes, MaxPeople) : \A i, j \in DOMAIN d : d[i] = d[j] => i = j}

CameraNext == \E dets \in Detections, stall \in {0, MaxSilence} : Turn(dets, stall)

CameraSpec == CameraInit /\ [][CameraNext]_cameraVars

---------------------------------------------------------------------------
(* The association is stable: a track and a detection that overlap enough  *)
(* and are not associated have one of the two associated at least as well. *)
(* In particular nobody takes the track of a person who has not moved.     *)
AssociationIsStable ==
    [][LET dets == out'.dets
           mate == {p \in Pairs(tracks, dets) : out'.ids[p[2]] = p[1]}
       IN  \A p \in Pairs(tracks, dets) :
               Associates(Score(tracks, dets, p))
                 => \E q \in mate : /\ q[1] = p[1] \/ q[2] = p[2]
                                    /\ ~Exceeds(Score(tracks, dets, p), Score(tracks, dets, q))
      ]_<<frames>>

(* Two detections of a frame have different ids, and each id is new or     *)
(* that of a box which this one overlaps enough and which was shown no     *)
(* more than LostTrackBuffer frames ago: in one life of the tracker nobody *)
(* takes over the id, and with it the stay, of somebody who was lost at    *)
(* another place or longer ago.  Who stands where somebody was lost a      *)
(* moment ago does take over both; and an agent that is started again      *)
(* counts from 1, while the server's zone engine of the camera lives on.   *)
IdsStayWithTheirPlace ==
    [][/\ \A di \in DOMAIN out'.ids :
              out'.ids[di] \in DOMAIN story =>
                  LET last == story[out'.ids[di]]
                      box == out'.dets[di]
                  IN  /\ last.missed <= LostTrackBuffer
                      /\ Associates(<<Inter(last.box, box), Outer(last.box, box)>>)
       /\ Cardinality(Shown(out'.ids)) = Len(out'.ids)
      ]_<<frames>>

(* Zones that share a border count a person once: whoever stands on it,    *)
(* walks across it, or is lost on one side and found on the other, is      *)
(* counted in one of the two at every moment, for the rays of a point on a *)
(* border leave it with one of the zones, and the frame that enters a      *)
(* person in one zone closes the stay in the other.                        *)
NobodyIsCountedTwice == \A k, l \in DOMAIN edgeEnterTs : k[1] = l[1] => k = l

(* Frames and seconds agree: a person in a zone whom the detector loses    *)
(* and finds again under the same id is still in the stay they were in,    *)
(* unless the camera stalled; the stay is not split in two short ones.     *)
MissedPeopleKeepTheirStay ==
    \A t \in DOMAIN story :
        ~story[t].stalled /\ story[t].missed <= LostTrackBuffer
          => \A kind \in story[t].inside : <<t, kind>> \in DOMAIN edgeEnterTs
=============================================================================
