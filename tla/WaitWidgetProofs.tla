-------------------------- MODULE WaitWidgetProofs --------------------------
(***************************************************************************)
(* No broadcast passes a client by, and an element has one socket or timer *)
(* for each time it was attached, for any number of sockets, broadcasts,   *)
(* states of the location and attachments.                                 *)
(*                                                                         *)
(* NobodyIsPassedBy is not inductive: while a broadcast is under way the   *)
(* clients it has not come to have been sent nothing yet.  The inductive   *)
(* invariant says of every broadcast and every open socket that the socket *)
(* is still to be sent to, or was or will be sent something as new; for    *)
(* that every open socket must be among the subscribers and none of those  *)
(* a broadcast found dead, and a greeting, computed on accepting, must be  *)
(* as new as any broadcast begun before.                                   *)
(***************************************************************************)
EXTENDS WaitWidget, FiniteSetTheorems, TLAPS

Casts == [est : Nat, left : SUBSET Sockets, dead : SUBSET Sockets]

WellTyped ==
    /\ current \in Nat
    /\ subs \subseteq Sockets
    /\ cast \in [Broadcasts -> Casts]
    /\ conn \in [Sockets -> {"open", "shut"}]
    /\ handler \in [Sockets -> {"none", "greet", "receive"}]
    /\ greeting \in [Sockets -> Nat]
    /\ newest \in [Sockets -> Nat]
    /\ done \in Nat
    /\ attaches \in Nat /\ timers \in Nat /\ usable \in BOOLEAN
    /\ ws \in Sockets \union {NoSocket}

NothingIsNewer ==
    /\ done <= current
    /\ \A b \in Broadcasts : cast[b].est <= current

OpenAreServed ==
    \A s \in Sockets :
        conn[s] = "open" =>
            /\ s \in subs
            /\ handler[s] \in {"greet", "receive"}
            /\ \A b \in Broadcasts : s \notin cast[b].dead

(* What s was sent, or will be as its greeting, is as new as est. *)
Served(s, est) == newest[s] >= est \/ (handler[s] = "greet" /\ greeting[s] >= est)

OpenAreReached ==
    \A s \in Sockets :
        conn[s] = "open" =>
            /\ Served(s, done)
            /\ \A b \in Broadcasts : s \in cast[b].left \/ Served(s, cast[b].est)

Open == {s \in Sockets : conn[s] = "open"}

IInv == WellTyped /\ NothingIsNewer /\ OpenAreServed /\ OpenAreReached /\ OneSocketPerAttachment

LEMMA InitLemma == Init => IInv
<1> SUFFICES ASSUME Init PROVE IInv
  OBVIOUS
<1>1. WellTyped /\ NothingIsNewer /\ OpenAreServed /\ OpenAreReached
  BY DEF Init, HubInit, Idle, WellTyped, Casts, NothingIsNewer, OpenAreServed, OpenAreReached
<1>2. Open = {}
  BY DEF Init, HubInit, Open
<1>3. OneSocketPerAttachment
  BY <1>2, FS_EmptySet DEF OneSocketPerAttachment, Open, Init
<1> QED BY <1>1, <1>3 DEF IInv

(* Opening a socket that was shut makes one more, shutting one one less.   *)
LEMMA OpenLemma ==
    ASSUME WellTyped, NEW s \in Sockets
    PROVE  /\ Cardinality(Open) \in Nat
           /\ conn[s] = "shut" /\ conn' = [conn EXCEPT ![s] = "open"] =>
                  Cardinality(Open') = Cardinality(Open) + 1
           /\ conn[s] = "open" /\ conn' = [conn EXCEPT ![s] = "shut"] =>
                  Cardinality(Open') = Cardinality(Open) - 1
<1>1. IsFiniteSet(Open)
  <2>1. IsFiniteSet(Sockets)
    BY MaxSocketsAssumption, FS_Interval DEF Sockets
  <2> QED BY <2>1, FS_Subset DEF Open
<1>2. ASSUME conn[s] = "shut", conn' = [conn EXCEPT ![s] = "open"]
      PROVE  Open' = Open \union {s} /\ s \notin Open
  BY <1>2 DEF Open, WellTyped
<1>3. ASSUME conn[s] = "open", conn' = [conn EXCEPT ![s] = "shut"]
      PROVE  Open' = Open \ {s} /\ s \in Open
  BY <1>3 DEF Open, WellTyped
<1> QED BY <1>1, <1>2, <1>3, FS_AddElement, FS_RemoveElement, FS_CardinalityType

(* The steps that leave the sockets as they are leave their number. *)
LEMMA SocketsKept ==
    ASSUME OneSocketPerAttachment, UNCHANGED <<conn, timers, attaches, usable>>
    PROVE  OneSocketPerAttachment'
BY DEF OneSocketPerAttachment

---------------------------------------------------------------------------
LEMMA ConnectKeeps ==
    ASSUME IInv, NEW s \in Sockets, Connect(s), ws' = s
    PROVE  /\ current' = current /\ subs' \subseteq Sockets /\ cast' = cast /\ done' = done
           /\ NothingIsNewer' /\ OpenAreServed' /\ OpenAreReached'
           /\ conn' \in [Sockets -> {"open", "shut"}]
           /\ handler' \in [Sockets -> {"none", "greet", "receive"}]
           /\ greeting' \in [Sockets -> Nat]
           /\ newest' \in [Sockets -> Nat]
           /\ ws' \in Sockets
           /\ Cardinality(Open) \in Nat
           /\ Cardinality(Open') = Cardinality(Open) + 1
<1> USE DEF IInv, Connect, Free
<1>1. NothingIsNewer'
  BY DEF NothingIsNewer, WellTyped
<1>2. OpenAreServed'
  BY DEF OpenAreServed, WellTyped
<1>3. OpenAreReached'
  <2>1. \A r \in Sockets, est \in Nat :
            r # s => (Served(r, est) <=> Served(r, est)')
    BY DEF Served, WellTyped
  <2>2. \A est \in Nat : est <= current => Served(s, est)'
    BY DEF Served, WellTyped
  <2> QED BY <2>1, <2>2 DEF OpenAreReached, NothingIsNewer, WellTyped, Casts
<1>4. Cardinality(Open) \in Nat /\ Cardinality(Open') = Cardinality(Open) + 1
  BY OpenLemma
<1> QED BY <1>1, <1>2, <1>3, <1>4 DEF WellTyped

(* Whatever a client is sent does not make it served worse. *)
LEMMA ServedLemma ==
    ASSUME WellTyped, UNCHANGED <<handler, greeting>>, newest' \in [Sockets -> Nat],
           NEW s \in Sockets, newest'[s] >= newest[s], NEW est \in Nat, Served(s, est)
    PROVE  Served(s, est)'
BY DEF Served, WellTyped

(* A broadcast comes to its next step or ends. *)
LEMMA ProgressKeeps ==
    ASSUME IInv, NEW b \in Broadcasts, NEW est \in Nat, est <= current,
           NEW left \in SUBSET Sockets, NEW dead \in SUBSET Sockets,
           Progress(b, est, left, dead),
           UNCHANGED <<current, conn, handler, greeting, attaches, usable, timers, ws>>,
           newest' \in [Sockets -> Nat],
           \A r \in Sockets : newest'[r] >= newest[r],
           \A r \in Sockets : conn[r] = "open" =>
               r \notin dead /\ (r \in left \/ Served(r, est)')
    PROVE  IInv'
<1> USE DEF IInv
<1>1. /\ cast' \in [Broadcasts -> Casts]
      /\ \A c \in Broadcasts : c # b => cast'[c] = cast[c]
      /\ left = {} => cast'[b] = Idle /\ done' = Newer(done, est) /\ subs' = subs \ dead
      /\ left # {} => /\ cast'[b].est = est /\ cast'[b].left = left /\ cast'[b].dead = dead
                      /\ done' = done /\ subs' = subs
  BY DEF Progress, WellTyped, Casts, Idle
<1>2. /\ Idle.est = 0 /\ Idle.left = {} /\ Idle.dead = {}
  BY DEF Idle
<1>3. WellTyped'
  BY <1>1 DEF WellTyped, Newer
<1>4. NothingIsNewer'
  BY <1>1, <1>2 DEF NothingIsNewer, WellTyped, Newer
<1>5. OpenAreServed'
  BY <1>1, <1>2 DEF OpenAreServed
<1>6. OpenAreReached'
  <2> SUFFICES ASSUME NEW s \in Sockets, conn[s] = "open"
               PROVE  /\ Served(s, done)'
                      /\ \A c \in Broadcasts : s \in cast'[c].left \/ Served(s, cast[c].est)'
    BY DEF OpenAreReached
  <2>1. \A e \in Nat : Served(s, e) => Served(s, e)'
    BY ServedLemma
  <2>2. Served(s, done)'
    <3>1. CASE left = {}
      BY <1>1, <2>1, <3>1 DEF OpenAreReached, WellTyped, Newer, Served
    <3>2. CASE left # {}
      BY <1>1, <2>1, <3>2 DEF OpenAreReached, WellTyped, Served
    <3> QED BY <3>1, <3>2
  <2>3. ASSUME NEW c \in Broadcasts PROVE s \in cast'[c].left \/ Served(s, cast[c].est)'
    <3>1. CASE c # b
      BY <1>1, <2>1, <3>1 DEF OpenAreReached, WellTyped, Casts, Served
    <3>2. CASE c = b /\ left # {}
      BY <1>1, <3>2 DEF Served
    <3>3. CASE c = b /\ left = {}
      BY <1>1, <1>2, <3>3 DEF Served, WellTyped
    <3> QED BY <3>1, <3>2, <3>3
  <2> QED BY <2>2, <2>3
<1>7. OneSocketPerAttachment'
  BY SocketsKept
<1> QED BY <1>3, <1>4, <1>5, <1>6, <1>7

LEMMA PublishKeeps ==
    ASSUME IInv, NEW b \in Broadcasts, Publish(b), UNCHANGED browser
    PROVE  IInv'
<1>1. /\ current \in Nat /\ current <= current /\ subs \in SUBSET Sockets /\ {} \in SUBSET Sockets
      /\ newest \in [Sockets -> Nat]
      /\ \A r \in Sockets : newest[r] >= newest[r]
  BY DEF IInv, WellTyped
<1>2. \A r \in Sockets : conn[r] = "open" => r \in subs
  BY DEF IInv, OpenAreServed
<1>3. UNCHANGED <<current, conn, handler, greeting, attaches, usable, timers, ws, newest>>
  BY DEF Publish, sockets, browser
<1> QED BY <1>1, <1>2, <1>3, ProgressKeeps DEF Publish

LEMMA SendKeeps ==
    ASSUME IInv, NEW b \in Broadcasts, NEW s \in Sockets, Send(b, s), UNCHANGED browser
    PROVE  IInv'
<1>1. PICK est \in Nat, left \in SUBSET Sockets, dead \in SUBSET Sockets :
          est = cast[b].est /\ left = cast[b].left \ {s} /\ dead = cast[b].dead
  BY DEF IInv, WellTyped, Casts
<1>2. est <= current
  BY <1>1 DEF IInv, NothingIsNewer
<1>3. /\ newest' \in [Sockets -> Nat]
      /\ newest'[s] >= est
      /\ \A r \in Sockets : newest'[r] >= newest[r]
  BY <1>1 DEF IInv, WellTyped, Send, Deliver, Newer
<1>4. /\ Progress(b, est, left, dead)
      /\ UNCHANGED <<current, conn, handler, greeting, attaches, usable, timers, ws>>
  BY <1>1 DEF Send, browser
<1>5. ASSUME NEW r \in Sockets, conn[r] = "open"
      PROVE  r \notin dead /\ (r \in left \/ Served(r, est)')
  <2>1. r \notin dead /\ (r \in left \/ r = s \/ Served(r, est))
    BY <1>1, <1>5 DEF IInv, OpenAreServed, OpenAreReached
  <2>2. CASE r = s
    BY <1>3, <2>1, <2>2 DEF Served
  <2>3. CASE Served(r, est)
    BY <1>3, <1>4, <2>1, <2>3, ServedLemma DEF IInv
  <2> QED BY <2>1, <2>2, <2>3
<1> QED BY <1>2, <1>3, <1>4, <1>5, ProgressKeeps

LEMMA SendShutKeeps ==
    ASSUME IInv, NEW b \in Broadcasts, NEW s \in Sockets, SendShut(b, s), UNCHANGED browser
    PROVE  IInv'
<1>1. PICK gone \in {{}, {s}} :
          Progress(b, cast[b].est, cast[b].left \ {s}, cast[b].dead \union gone)
  BY DEF SendShut
<1>2. PICK est \in Nat, left \in SUBSET Sockets, dead \in SUBSET Sockets :
          est = cast[b].est /\ left = cast[b].left \ {s} /\ dead = cast[b].dead \union gone
  BY DEF IInv, WellTyped, Casts
<1>3. est <= current /\ Progress(b, est, left, dead)
  BY <1>1, <1>2 DEF IInv, NothingIsNewer
<1>4. /\ UNCHANGED <<current, conn, handler, greeting, attaches, usable, timers, ws, newest>>
      /\ conn[s] = "shut"
  BY DEF SendShut, sockets, browser
<1>5. /\ newest' \in [Sockets -> Nat] /\ \A r \in Sockets : newest'[r] >= newest[r]
  BY <1>4 DEF IInv, WellTyped
<1>6. ASSUME NEW r \in Sockets, conn[r] = "open"
      PROVE  r \notin dead /\ (r \in left \/ Served(r, est)')
  <2>1. r \notin dead /\ (r \in left \/ Served(r, est))
    BY <1>2, <1>4, <1>6 DEF IInv, OpenAreServed, OpenAreReached
  <2>2. Served(r, est) => Served(r, est)'
    BY <1>4 DEF Served
  <2> QED BY <2>1, <2>2
<1> QED BY <1>3, <1>4, <1>5, <1>6, ProgressKeeps

LEMMA GreetKeeps == ASSUME IInv, NEW s \in Sockets, Greet(s), UNCHANGED browser PROVE IInv'
<1> USE DEF IInv, Greet, Deliver, hub, browser
<1>1. WellTyped' /\ NothingIsNewer' /\ OpenAreServed'
  BY DEF WellTyped, NothingIsNewer, OpenAreServed, Newer
<1>2. \A r \in Sockets, est \in Nat : Served(r, est) => Served(r, est)'
  BY DEF Served, WellTyped, Newer
<1>3. OpenAreReached'
  BY <1>2 DEF OpenAreReached, WellTyped, Casts, Served
<1>4. OneSocketPerAttachment'
  BY SocketsKept
<1> QED BY <1>1, <1>3, <1>4

LEMMA HandlerEndsKeeps ==
    ASSUME IInv, NEW s \in Sockets, HandlerEnds(s), UNCHANGED browser
    PROVE  IInv'
<1> USE DEF IInv, HandlerEnds, browser
<1>1. WellTyped' /\ NothingIsNewer' /\ OpenAreServed'
  BY DEF WellTyped, NothingIsNewer, OpenAreServed
<1>2. OpenAreReached'
  BY DEF OpenAreReached, WellTyped, Served
<1>3. OneSocketPerAttachment'
  BY SocketsKept
<1> QED BY <1>1, <1>2, <1>3

(* A socket that is shut needs nothing more. *)
LEMMA ShutKeeps ==
    ASSUME IInv, usable, NEW s \in Sockets, Shut(s), timers' = timers + 1, UNCHANGED <<attaches, usable, ws>>
    PROVE  IInv'
<1> USE DEF IInv, Shut, hub
<1>1. WellTyped' /\ NothingIsNewer' /\ OpenAreServed'
  BY DEF WellTyped, NothingIsNewer, OpenAreServed
<1>2. OpenAreReached'
  BY DEF OpenAreReached, WellTyped, Served
<1>3. OneSocketPerAttachment'
  <2>1. Cardinality(Open) \in Nat /\ Cardinality(Open') = Cardinality(Open) - 1
    BY OpenLemma
  <2> QED BY <2>1 DEF OneSocketPerAttachment, Open, WellTyped
<1> QED BY <1>1, <1>2, <1>3

(* Where the browser does not take the address there are no sockets, and   *)
(* no timers to open one.                                                  *)
LEMMA UnusableLemma ==
    ASSUME IInv
    PROVE  /\ ~usable => Cardinality(Open) = 0 /\ timers = 0
           /\ ~usable => \A s \in Sockets : conn[s] # "open"
<1>1. IsFiniteSet(Open)
  <2>1. IsFiniteSet(Sockets)
    BY MaxSocketsAssumption, FS_Interval DEF Sockets
  <2> QED BY <2>1, FS_Subset DEF Open
<1>2. Cardinality(Open) \in Nat
  BY <1>1, FS_CardinalityType
<1>3. ~usable => Cardinality(Open) = 0 /\ timers = 0
  BY <1>2 DEF IInv, WellTyped, OneSocketPerAttachment, Open
<1> QED BY <1>1, <1>3, FS_EmptySet DEF Open

LEMMA ConnectedKeeps == ASSUME IInv, Connected PROVE IInv'
<1>1. attaches' = attaches + 1 /\ timers' = timers /\ usable' = usable
  BY DEF Connected
<1>2. CASE ~usable
  <2>1. UNCHANGED <<current, hub, sockets, done, ws>>
    BY <1>2 DEF Connected, OpenSocket, hubVars
  <2>2. WellTyped'
    BY <1>1, <2>1 DEF hub, sockets, IInv, WellTyped
  <2>3. NothingIsNewer' /\ OpenAreServed' /\ OpenAreReached'
    BY <2>1 DEF hub, sockets, IInv, NothingIsNewer, OpenAreServed, OpenAreReached, Served
  <2>4. OneSocketPerAttachment'
    BY <1>1, <1>2, <2>1, UnusableLemma DEF sockets, IInv, OneSocketPerAttachment, Open
  <2> QED BY <2>2, <2>3, <2>4 DEF IInv
<1>3. CASE usable
  <2>1. PICK s \in Sockets : Connect(s) /\ ws' = s
    BY <1>3 DEF Connected, OpenSocket
  <2>2. /\ WellTyped' /\ NothingIsNewer' /\ OpenAreServed' /\ OpenAreReached'
        /\ Cardinality(Open) \in Nat
        /\ Cardinality(Open') = Cardinality(Open) + 1
    BY <1>1, <2>1, ConnectKeeps DEF IInv, WellTyped
  <2>3. OneSocketPerAttachment'
    BY <1>1, <1>3, <2>2 DEF IInv, WellTyped, OneSocketPerAttachment, Open
  <2> QED BY <2>2, <2>3 DEF IInv
<1> QED BY <1>2, <1>3 DEF IInv, WellTyped

LEMMA ReconnectKeeps == ASSUME IInv, Reconnect PROVE IInv'
<1>1. attaches' = attaches /\ timers > 0 /\ timers' = timers - 1 /\ usable' = usable
  BY DEF Reconnect
<1>2. CASE ~usable
  <2>1. UNCHANGED <<current, hub, sockets, done, ws>>
    BY <1>2 DEF Reconnect, OpenSocket, hubVars
  <2>2. WellTyped'
    BY <1>1, <2>1 DEF hub, sockets, IInv, WellTyped
  <2>3. NothingIsNewer' /\ OpenAreServed' /\ OpenAreReached'
    BY <2>1 DEF hub, sockets, IInv, NothingIsNewer, OpenAreServed, OpenAreReached, Served
  <2>4. OneSocketPerAttachment'
    BY <1>1, <1>2, <2>1, UnusableLemma DEF sockets, IInv, OneSocketPerAttachment, Open
  <2> QED BY <2>2, <2>3, <2>4 DEF IInv
<1>3. CASE usable
  <2>1. PICK s \in Sockets : Connect(s) /\ ws' = s
    BY <1>3 DEF Reconnect, OpenSocket
  <2>2. /\ WellTyped' /\ NothingIsNewer' /\ OpenAreServed' /\ OpenAreReached'
        /\ Cardinality(Open) \in Nat
        /\ Cardinality(Open') = Cardinality(Open) + 1
    BY <1>1, <2>1, ConnectKeeps DEF IInv, WellTyped
  <2>3. OneSocketPerAttachment'
    BY <1>1, <1>3, <2>2 DEF IInv, WellTyped, OneSocketPerAttachment, Open
  <2> QED BY <2>2, <2>3 DEF IInv
<1> QED BY <1>2, <1>3 DEF IInv, WellTyped

LEMMA DisconnectedKeeps == ASSUME IInv, Disconnected PROVE IInv'
<1>1. CASE ws # NoSocket /\ conn[ws] = "open"
  <2>1. ws \in Sockets /\ Shut(ws) /\ timers' = timers + 1 /\ UNCHANGED <<attaches, usable, ws>>
    BY <1>1 DEF Disconnected, IInv, WellTyped
  <2>2. usable
    BY <1>1, <2>1, UnusableLemma
  <2> QED BY <2>1, <2>2, ShutKeeps
<1>2. CASE ~(ws # NoSocket /\ conn[ws] = "open")
  BY <1>2 DEF Disconnected, hubVars, hub, sockets, IInv, WellTyped, NothingIsNewer,
              OpenAreServed, OpenAreReached, Served, OneSocketPerAttachment
<1> QED BY <1>1, <1>2

---------------------------------------------------------------------------
LEMMA StepLemma == ASSUME IInv, [Next]_vars PROVE IInv'
<1>1. CASE Server /\ UNCHANGED browser
  BY <1>1, PublishKeeps, SendKeeps, SendShutKeeps, GreetKeeps, HandlerEndsKeeps DEF Server
<1>2. CASE Connected
  BY <1>2, ConnectedKeeps
<1>3. CASE Disconnected
  BY <1>3, DisconnectedKeeps
<1>4. CASE Reconnect
  BY <1>4, ReconnectKeeps
<1>5. CASE \E s \in Sockets : Closed(s)
  <2>1. PICK s \in Sockets : Closed(s)
    BY <1>5
  <2>2. usable
    BY <2>1, UnusableLemma DEF Closed, Shut
  <2> QED BY <2>1, <2>2, ShutKeeps DEF Closed
<1>6. CASE (Change /\ UNCHANGED browser) \/ Poll \/ RenderAnswer \/ UNCHANGED vars
  <2>1. /\ current' \in {current, current + 1}
        /\ UNCHANGED <<hub, sockets, done, browser>>
    BY <1>6 DEF Change, Poll, RenderAnswer, vars, hubVars
  <2>2. WellTyped' /\ OpenAreServed'
    BY <2>1 DEF hub, sockets, browser, IInv, WellTyped, OpenAreServed
  <2>3. NothingIsNewer'
    BY <2>1 DEF hub, IInv, WellTyped, Casts, NothingIsNewer
  <2>4. OpenAreReached'
    BY <2>1 DEF hub, sockets, IInv, OpenAreReached, Served
  <2>5. OneSocketPerAttachment'
    BY <2>1, SocketsKept DEF sockets, browser, IInv
  <2> QED BY <2>2, <2>3, <2>4, <2>5 DEF IInv
<1> QED BY <1>1, <1>2, <1>3, <1>4, <1>5, <1>6 DEF Next

(* The inductive invariant holds throughout. *)
THEOREM InvariantHolds == Spec => []IInv
<1>1. Init => IInv
  BY InitLemma
<1>2. IInv /\ [Next]_vars => IInv'
  BY StepLemma
<1> QED BY <1>1, <1>2, PTL DEF Spec

(* WsHub.broadcast passes nobody by: whoever joins, leaves or dies between *)
(* two of its awaited sends, and however many broadcasts run at a time, a  *)
(* greeted client that is still there was sent something at least as new   *)
(* as the newest broadcast that has ended.                                 *)
THEOREM NobodyIsPassedByHolds == Spec => []NobodyIsPassedBy
<1>1. IInv => NobodyIsPassedBy
  BY DEF IInv, OpenAreReached, Served, NobodyIsPassedBy
<1> QED BY <1>1, InvariantHolds, PTL

(* The reconnects of the widget neither multiply its connections nor lose  *)
(* one: a socket or a timer for each time the element was attached, whoever*)
(* closes which socket when, and none where openSocket's constructor throws*)
THEOREM OneSocketPerAttachmentHolds == Spec => []OneSocketPerAttachment
<1>1. IInv => OneSocketPerAttachment
  BY DEF IInv
<1> QED BY <1>1, InvariantHolds, PTL
============================================================================
