----------------------------- MODULE Matching -----------------------------
(***************************************************************************)
(* Pairing check_open events with queue exits                              *)
(* (src/wte/connectors/matcher.py, class VisionPosMatcher), as operators   *)
(* on the two deques of one location:                                      *)
(*                                                                         *)
(*   exits   : _exits, unmatched queue exits, records with a time ts       *)
(*   pending : _pending_pos, unmatched check_opens, records with a time ts *)
(*             (their received_at)                                         *)
(*                                                                         *)
(* An operation returns the deques and the set of the pairs it made, which *)
(* has at most one.                                                        *)
(***************************************************************************)
EXTENDS Integers, Sequences, SequencesExt

CONSTANTS
    Tolerance,   \* VisionPosMatcher.tolerance
    Keep         \* keep

ASSUME MatchingAssumption == Tolerance \in Nat /\ Keep \in Nat

EmptyMatcher == [exits |-> <<>>, pending |-> <<>>]

Apart(x, y) == IF x.ts >= y.ts THEN x.ts - y.ts ELSE y.ts - x.ts

Pair(pos, exit) == [pos |-> pos, exit |-> exit]

\* mutant: entries are kept for the tolerance only
TrimStoresEarly(m, now) ==
    LET From(q) == SelectInSeq(q, LAMBDA x : now - x.ts <= Tolerance)
        Trimmed(q) == IF From(q) = 0 THEN <<>> ELSE SubSeq(q, From(q), Len(q))
    IN  [exits |-> Trimmed(m.exits), pending |-> Trimmed(m.pending)]

(* _trim: both deques lose their old heads. *)
TrimStores(m, now) ==
    LET From(q) == SelectInSeq(q, LAMBDA x : now - x.ts <= Keep)
        Trimmed(q) == IF From(q) = 0 THEN <<>> ELSE SubSeq(q, From(q), Len(q))
    IN  [exits |-> Trimmed(m.exits), pending |-> Trimmed(m.pending)]

\* mutant: the pending check_open is not removed when it is paired
MatchExitKeepsPending(m, ev) ==
    LET t == TrimStores([m EXCEPT !.exits = Append(@, ev)], ev.ts)
        i == SelectInSeq(t.pending, LAMBDA pos : Apart(pos, ev) <= Tolerance)
    IN  IF i = 0 THEN [stores |-> t, pairs |-> {}]
        ELSE [stores |-> [t EXCEPT !.exits = RemoveFirst(@, ev)],
              pairs  |-> {Pair(t.pending[i], ev)}]

(* on_zone_event, for a queue exit: the oldest pending check_open within   *)
(* the tolerance is paired with it.                                        *)
MatchExit(m, ev) ==
    LET t == TrimStores([m EXCEPT !.exits = Append(@, ev)], ev.ts)
        i == SelectInSeq(t.pending, LAMBDA pos : Apart(pos, ev) <= Tolerance)
    IN  IF i = 0 THEN [stores |-> t, pairs |-> {}]
        ELSE [stores |-> [exits |-> RemoveFirst(t.exits, ev), pending |-> RemoveAt(t.pending, i)],
              pairs  |-> {Pair(t.pending[i], ev)}]

(* on_pos_event, for a check_open: the closest unmatched exit within the   *)
(* tolerance, the first of those equally close, is paired with it.         *)
IsClosest(exits, pos, i) ==
    /\ Apart(exits[i], pos) <= Tolerance
    /\ \A j \in 1 .. Len(exits) : Apart(exits[j], pos) >= Apart(exits[i], pos)
    /\ \A j \in 1 .. i - 1 : Apart(exits[j], pos) > Apart(exits[i], pos)

MatchPos(m, pos) ==
    LET t == TrimStores(m, pos.ts)
        closest == {i \in 1 .. Len(t.exits) : IsClosest(t.exits, pos, i)}
    IN  IF closest = {} THEN [stores |-> [t EXCEPT !.pending = Append(@, pos)], pairs |-> {}]
        ELSE LET i == CHOOSE i \in closest : TRUE
             IN  [stores |-> [t EXCEPT !.exits = RemoveAt(@, i)],
                  pairs  |-> {Pair(pos, t.exits[i])}]
===========================================================================
