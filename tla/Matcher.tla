------------------------------ MODULE Matcher ------------------------------
(***************************************************************************)
(* The vision-POS matcher of one location.  The server stamps a check_open *)
(* on arrival with its own clock; a queue exit carries the edge's time,    *)
(* and reaches the matcher late: a stay that expires ends max_silence_s    *)
(* before the frame that ends it, and a frame may be delayed.              *)
(***************************************************************************)
EXTENDS Matching, FiniteSets

CONSTANTS
    MaxTime,     \* bound of the runs: the server's clock
    MaxLag,      \* how far behind the server's clock an exit may be
    MaxAhead,    \* how far ahead of it the edge's clock may run
    MaxExits,    \* bound of the runs: exits
    MaxOpens     \* bound of the runs: check_opens

(* What _trim forgets cannot be needed any more. *)
ASSUME RetentionAssumption ==
    /\ {MaxTime, MaxLag, MaxAhead} \subseteq Nat
    /\ MaxLag + MaxAhead + Tolerance <= Keep

VARIABLES
    clock,    \* the server's clock
    matcher,  \* the matcher's deques
    exited,   \* history: the queue exits that arrived
    opened,   \* history: the check_opens that arrived
    pairs     \* history: the pairs made

matcherVars == <<clock, matcher, exited, opened, pairs>>

MatcherInit ==
    /\ clock = 0
    /\ matcher = EmptyMatcher
    /\ exited = {}
    /\ opened = {}
    /\ pairs = {}

Record(result) ==
    /\ matcher' = result.stores
    /\ pairs' = pairs \union result.pairs

QueueExit(ts) ==
    LET ev == [id |-> Cardinality(exited) + 1, ts |-> ts]
    IN  /\ Cardinality(exited) < MaxExits
        /\ ts >= clock - MaxLag /\ ts <= clock + MaxAhead
        /\ Record(MatchExit(matcher, ev))
        /\ exited' = exited \union {ev}
        /\ UNCHANGED <<clock, opened>>

CheckOpen ==
    LET pos == [id |-> Cardinality(opened) + 1, ts |-> clock]
    IN  /\ Cardinality(opened) < MaxOpens
        /\ Record(MatchPos(matcher, pos))
        /\ opened' = opened \union {pos}
        /\ UNCHANGED <<clock, exited>>

Tick == clock < MaxTime /\ clock' = clock + 1 /\ UNCHANGED <<matcher, exited, opened, pairs>>

MatcherNext == CheckOpen \/ Tick \/ \E ts \in -MaxLag .. MaxTime + MaxAhead : QueueExit(ts)

MatcherSpec == MatcherInit /\ [][MatcherNext]_matcherVars

---------------------------------------------------------------------------
(* The pairs are a maximal matching of what arrived, although both deques  *)
(* forget old entries and each side is trimmed by the clock of the other:  *)
(* nobody is served twice, what is paired is no longer in the deques, and  *)
(* of a check_open and an exit within the tolerance at least one is        *)
(* paired, whichever came first.  It rests on the lag and the clock skew   *)
(* staying within Keep less the tolerance.                                 *)
PairingIsMaximal ==
    /\ \A p, q \in pairs : p.pos = q.pos \/ p.exit = q.exit => p = q
    /\ \A p \in pairs : /\ p.pos \notin ToSet(matcher.pending) /\ p.exit \notin ToSet(matcher.exits)
                        /\ Apart(p.pos, p.exit) <= Tolerance
    /\ \A pos \in opened, ev \in exited :
           Apart(pos, ev) <= Tolerance => \E p \in pairs : p.pos = pos \/ p.exit = ev
===========================================================================
