----------------------------- MODULE WaitWidget -----------------------------
(***************************************************************************)
(* One <wte-wait-widget> (web/widget/wait-widget.js) with the server of    *)
(* module WsHub: it shows what it hears last, over its sockets or from the *)
(* poll of GET /wait, whose answers overtake each other and the messages.  *)
(*                                                                         *)
(* The page may take the element out of the document and put it back.      *)
(* Every socket that closes is opened again after five seconds, the one    *)
(* that disconnectedCallback closes included.  Its attributes stay what    *)
(* they are: the browser takes the address in them, or never does.         *)
(***************************************************************************)
EXTENDS WsHub, FiniteSets

CONSTANTS
    MaxAttached    \* bound of the runs: how often the element is put in

NoSocket == 0

VARIABLES
    attached,   \* whether the element is in the document
    attaches,   \* history: how often it was put in
    usable,     \* whether the browser makes sockets to this.api
    ws,         \* this.ws
    timers,     \* reconnects that setTimeout will run
    answers     \* answers of GET /wait on the way

browser == <<attached, attaches, usable, ws, timers>>
vars == <<hubVars, browser, answers>>

Init ==
    /\ HubInit
    /\ attached = FALSE /\ attaches = 0 /\ ws = NoSocket /\ timers = 0
    /\ usable \in BOOLEAN
    /\ answers = {}

(* openSocket: the constructor throws for an address the browser does not *)
(* take; then nothing is opened, and nothing will be.                      *)
OpenSocket ==
    IF usable THEN \E s \in Sockets : Connect(s) /\ ws' = s
              ELSE UNCHANGED <<hubVars, ws>>

(* fetchWait: get_wait computes an estimate of its own.  A fetch that fails *)
(* leaves the element as it is.                                             *)
FetchWait == answers' = answers \union {current}

(* connectedCallback *)
Connected ==
    /\ ~attached /\ attaches < MaxAttached
    /\ attached' = TRUE /\ attaches' = attaches + 1
    /\ FetchWait \/ UNCHANGED answers
    /\ OpenSocket
    /\ UNCHANGED <<usable, timers>>

(* disconnectedCallback: the close of the latest socket starts a timer *)
(* like every other close.                                             *)
Disconnected ==
    /\ attached
    /\ attached' = FALSE
    /\ IF ws # NoSocket /\ conn[ws] = "open"
         THEN Shut(ws) /\ timers' = timers + 1
         ELSE UNCHANGED <<hubVars, timers>>
    /\ UNCHANGED <<attaches, usable, ws, answers>>

(* The network or the server ends a connection: onclose. *)
Closed(s) ==
    /\ Shut(s)
    /\ timers' = timers + 1
    /\ UNCHANGED <<attached, attaches, usable, ws, answers>>

\* mutant: the reconnect is an interval, not a timeout
ReconnectRepeats ==
    /\ timers > 0
    /\ OpenSocket
    /\ UNCHANGED <<attached, attaches, usable, timers, answers>>

Reconnect ==
    /\ timers > 0
    /\ timers' = timers - 1
    /\ OpenSocket
    /\ UNCHANGED <<attached, attaches, usable, answers>>

\* mutant: no poll while a socket is open
PollWithoutSocket ==
    /\ attached /\ \A s \in Sockets : conn[s] = "shut"
    /\ FetchWait
    /\ UNCHANGED <<hubVars, browser>>

(* The interval timer calls fetchWait. *)
Poll ==
    /\ attached
    /\ FetchWait
    /\ UNCHANGED <<hubVars, browser>>

(* render, of an answer *)
RenderAnswer ==
    \E est \in answers :
        /\ answers' = answers \ {est}
        /\ shown' = est
        /\ UNCHANGED <<current, hub, sockets, done, browser>>

Next ==
    \/ Server /\ UNCHANGED <<browser, answers>>
    \/ Change /\ UNCHANGED <<browser, answers>>
    \/ Connected \/ Disconnected \/ Reconnect
    \/ \E s \in Sockets : Closed(s)
    \/ Poll \/ RenderAnswer

(* The event loop runs what is ready, the browser its timers and events.   *)
(* Of the polls repeated for ever, some are answered.                      *)
Spec ==
    /\ Init /\ [][Next]_vars
    /\ FairServer
    /\ WF_vars(Poll) /\ WF_vars(RenderAnswer)

---------------------------------------------------------------------------
(* Connections neither multiply nor get lost: at every moment there is one *)
(* socket, or one timer that will open one, for each time the element was  *)
(* put into the document, and none where the browser does not take the     *)
(* address.  (Not one per element: none ends when it is taken out.)        *)
OneSocketPerAttachment ==
    Cardinality({s \in Sockets : conn[s] = "open"}) + timers = IF usable THEN attaches ELSE 0

(* "Live updates via WebSocket, REST fallback" (wait-widget.js:10): once   *)
(* the wait stops changing, an element that stays in the document comes to *)
(* show it, although messages overtake each other, and some changes are    *)
(* broadcast by nobody.                                                    *)
ShowsTheCurrentWait == <>[]attached => <>[](shown = current)
=============================================================================
