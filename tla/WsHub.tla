------------------------------- MODULE WsHub -------------------------------
(***************************************************************************)
(* Live push for one location: the hub that fans estimates out to sockets, *)
(* and the handler of a socket (src/wte/api/state.py, class WsHub;         *)
(* src/wte/api/main.py, ws_location).  An estimate is the number of the    *)
(* state of the location it was computed from.                             *)
(*                                                                         *)
(* Every send is awaited, so broadcasts, greetings and the ends of         *)
(* connections interleave at each of them.  A socket that is shut at its   *)
(* client takes messages to nowhere until a send to it raises or its       *)
(* handler is told.                                                        *)
(***************************************************************************)
EXTENDS Naturals

CONSTANTS
    MaxSockets,    \* bound of the runs: connections somebody holds at a time
    MaxCurrent,    \* bound of the runs: states of the location
    MaxPublished   \* bound of the runs: estimates broadcast

ASSUME MaxSocketsAssumption == MaxSockets \in Nat
ASSUME MaxPublishedAssumption == MaxPublished \in Nat

Sockets == 1 .. MaxSockets
Broadcasts == 1 .. MaxPublished

VARIABLES
    current,    \* the state of the location
    subs,       \* WsHub._subs of the location
    cast,       \* the broadcasts, [est, left, dead]
    published,  \* how many have begun
    conn,       \* at the client, a socket is open or shut
    handler,    \* ws_location: none, greet or receive
    greeting,   \* the estimate a handler greets with
    shown,      \* the estimate the client rendered last, 0 before the first
    newest,     \* history: the newest estimate sent over a connection
    done        \* history: the newest estimate whose broadcast has ended

hub == <<subs, cast, published>>
sockets == <<conn, handler, greeting, newest>>
hubVars == <<current, hub, sockets, shown, done>>

Idle == [est |-> 0, left |-> {}, dead |-> {}]

Estimates == 0 .. MaxCurrent

HubInit ==
    /\ current = 1
    /\ subs = {} /\ cast = [b \in Broadcasts |-> Idle] /\ published = 0
    /\ conn = [s \in Sockets |-> "shut"]
    /\ handler = [s \in Sockets |-> "none"]
    /\ greeting = [s \in Sockets |-> 0]
    /\ newest = [s \in Sockets |-> 0]
    /\ shown = 0 /\ done = 0

Newer(a, b) == IF a > b THEN a ELSE b

(* Nobody holds the socket any more. *)
Free(s) ==
    /\ conn[s] = "shut" /\ handler[s] = "none" /\ s \notin subs
    /\ \A b \in Broadcasts : s \notin cast[b].left \union cast[b].dead

(* Events, or the passing of time, change what an estimate would say. *)
Change ==
    /\ current < MaxCurrent
    /\ current' = current + 1
    /\ UNCHANGED <<hub, sockets, shown, done>>

(* broadcast has sent to all but left, to those in dead in vain: when it *)
(* has sent to everybody it removes the dead.                            *)
Progress(b, est, left, dead) ==
    /\ cast' = [cast EXCEPT ![b] = IF left = {} THEN Idle
                                   ELSE [est |-> est, left |-> left, dead |-> dead]]
    /\ subs' = IF left = {} THEN subs \ dead ELSE subs
    /\ done' = IF left = {} THEN Newer(done, est) ELSE done

(* broadcast begins with a copy of the set of sockets ... *)
Publish(b) ==
    /\ b = published + 1
    /\ published' = b
    /\ Progress(b, current, subs, {})
    /\ UNCHANGED <<current, sockets, shown>>

(* The time a message takes is part of the send; the client renders it. *)
Deliver(s, est) ==
    /\ shown' = est
    /\ newest' = [newest EXCEPT ![s] = Newer(@, est)]

(* ... sends to one socket after the other ... *)
Send(b, s) ==
    /\ s \in cast[b].left /\ conn[s] = "open"
    /\ Deliver(s, cast[b].est)
    /\ Progress(b, cast[b].est, cast[b].left \ {s}, cast[b].dead)
    /\ UNCHANGED <<current, published, conn, handler, greeting>>

\* mutant: an exception of a send ends the broadcast
SendShutGivesUp(b, s) ==
    /\ s \in cast[b].left /\ conn[s] = "shut"
    /\ Progress(b, cast[b].est, {}, {s})
    /\ UNCHANGED <<current, published, sockets, shown>>

(* ... and to those that are shut: that raises, or does not yet. *)
SendShut(b, s) ==
    /\ s \in cast[b].left /\ conn[s] = "shut"
    /\ \E gone \in {{}, {s}} :
           Progress(b, cast[b].est, cast[b].left \ {s}, cast[b].dead \union gone)
    /\ UNCHANGED <<current, published, sockets, shown>>

(* The greeting is sent; from then on the handler waits for the client. *)
Greet(s) ==
    /\ handler[s] = "greet" /\ conn[s] = "open"
    /\ handler' = [handler EXCEPT ![s] = "receive"]
    /\ Deliver(s, greeting[s])
    /\ greeting' = [greeting EXCEPT ![s] = 0]
    /\ UNCHANGED <<current, hub, conn, done>>

\* mutant: the handler does not remove its socket
HandlerEndsSilently(s) ==
    /\ handler[s] # "none" /\ conn[s] = "shut"
    /\ handler' = [handler EXCEPT ![s] = "none"]
    /\ UNCHANGED <<current, hub, conn, greeting, newest, shown, done>>

(* The handler learns that the client is gone, and removes its socket. *)
HandlerEnds(s) ==
    /\ handler[s] # "none" /\ conn[s] = "shut"
    /\ handler' = [handler EXCEPT ![s] = "none"]
    /\ subs' = subs \ {s}
    /\ UNCHANGED <<current, cast, published, conn, greeting, newest, shown, done>>

Server ==
    \/ \E b \in Broadcasts : Publish(b)
    \/ \E b \in Broadcasts, s \in Sockets : Send(b, s) \/ SendShut(b, s)
    \/ \E s \in Sockets : Greet(s) \/ HandlerEnds(s)

(* A client connects, and ws_location accepts: it adds the socket and *)
(* computes the estimate of the greeting at once.                     *)
Connect(s) ==
    /\ Free(s) /\ \A r \in Sockets : Free(r) => s <= r
    /\ conn' = [conn EXCEPT ![s] = "open"]
    /\ handler' = [handler EXCEPT ![s] = "greet"]
    /\ subs' = subs \union {s}
    /\ greeting' = [greeting EXCEPT ![s] = current]
    /\ UNCHANGED <<current, cast, published, newest, shown, done>>

(* A connection ends at the client. *)
Shut(s) ==
    /\ conn[s] = "open"
    /\ conn' = [conn EXCEPT ![s] = "shut"]
    /\ greeting' = [greeting EXCEPT ![s] = 0]
    /\ newest' = [newest EXCEPT ![s] = 0]
    /\ UNCHANGED <<current, hub, handler, shown, done>>

---------------------------------------------------------------------------
(* No broadcast passes anybody by: a client that has been greeted and is   *)
(* still there was sent something at least as new as the newest broadcast  *)
(* that has ended, whoever came or went while it was under way.            *)
NobodyIsPassedBy ==
    \A s \in Sockets :
        conn[s] = "open" /\ handler[s] = "receive" => newest[s] >= done

(* A socket that is gone is not sent to for ever. *)
GoneAreDropped == \A s \in Sockets : conn[s] = "shut" ~> s \notin subs

FairServer ==
    \A s \in Sockets :
        /\ WF_hubVars(\E b \in Broadcasts : Send(b, s) \/ SendShut(b, s))
        /\ WF_hubVars(Greet(s))
        /\ WF_hubVars(HandlerEnds(s))
===========================================================================
