----------------------------- MODULE Networking -----------------------------
(***************************************************************************)
(* The connection with the remote control app (Networking.c, wifi_cb of    *)
(* WiFi_P2P.c and task_send_status of freertos_tasks.h): five sockets, the *)
(* events that open, use and close them in task_winc, and the task that    *)
(* sends the status.                                                       *)
(*                                                                         *)
(* An action of task_winc is one event, with every call that its handler   *)
(* makes, up to the points where the order of its steps and those of       *)
(* task_send_status makes a difference: the flag network_is_connected,     *)
(* udp_status_socket and the UDP handles of the socket layer.  pc and      *)
(* statusPc name those points.                                             *)
(*                                                                         *)
(* The Wi-Fi module and the app are external: the link comes up and goes   *)
(* down, a request is answered with success or an error or, once the link  *)
(* is lost, with an error or never, and an accepted connection has a       *)
(* handle that is not in use.  A request may fail before it reaches the    *)
(* module; the program looks at the result of connect() only.              *)
(***************************************************************************)
EXTENDS Sockets

CONSTANTS
  MaxStale,   \* bound: the replies owed from sessions or links that are over, and
              \* with one owed, the handles in silent
  MaxSilent   \* bound: the handles with a request that failed, but for SENDTO

ASSUME NetworkingAssumption == MaxStale \in Nat /\ MaxSilent \in Nat

VARIABLES
  link,        \* the module: "down", "joined" and asked for an address, "up"
  leaving,     \* m2m_wifi_disconnect was called
  connected,   \* network_is_connected
  named,       \* the name queue has an item
  est,         \* tcp_connection_est_socket
  command,     \* udp_command_socket
  listening,   \* tcp_settings_listen_socket
  data,        \* tcp_settings_data_socket
  status,      \* udp_status_socket
  pc,          \* where the handler of task_winc is
  hand,        \* the UDP handle that it opens or closes
  statusPc,    \* where task_send_status is
  statusHand,  \* the UDP handle that it opens
  sliced       \* history: a task was preempted inside socket() or close() by the
               \* other one's socket() or close()

linkVars == <<link, leaving>>
tcpVars == <<est, listening, data>>
sharedVars == <<connected, named, command, status>>
wincVars == <<pc, hand>>
statusVars == <<statusPc, statusHand>>
vars == <<socketVars, linkVars, tcpVars, sharedVars, wincVars, statusVars>>
historyVars == <<vars, sliced>>

Init ==
  /\ InitSockets
  /\ link = "down" /\ leaving = FALSE
  /\ connected = FALSE /\ named \in BOOLEAN
  /\ est = None /\ command = None /\ listening = None /\ data = None /\ status = None
  /\ pc = "idle" /\ hand = None
  /\ statusPc = "delay" /\ statusHand = None
  /\ sliced = FALSE

Goto(here, there) == pc = here /\ pc' = there

Stale == {r \in replies : r.session # "live"}
FewStale == Stale = {} \/ Cardinality(Stale) + Cardinality(silent) <= MaxStale

\* Whether a request reaches the module.
Sent == IF Cardinality(silent) + Cardinality(Stale) < MaxSilent THEN BOOLEAN ELSE {TRUE}

-----------------------------------------------------------------------------
(* The events of the link (wifi_cb). *)

\* M2M_WIFI_CONNECTED: m2m_wifi_request_dhcp_client is called.
LinkJoined ==
  /\ pc = "idle"
  /\ link = "down"
  /\ link' = "joined"
  /\ leaving' = FALSE
  /\ UNCHANGED <<socketVars, tcpVars, sharedVars, wincVars, statusVars>>

\* M2M_WIFI_REQ_DHCP_CONF and network_establish_connection.  When no handle is
\* free or the request fails, connect() fails at once and the link is given up.
AddressReceived ==
  /\ pc = "idle"
  /\ link = "joined"
  /\ link' = "up"
  /\ IF est # None THEN UNCHANGED <<socketVars, est, leaving>>
     ELSE LET h == Free(Now, Tcp) IN
          \/ /\ h # None
             /\ est' = h
             /\ Become(Asked(Opened(Now, h), "connect", h, TRUE))
             /\ leaving' = leaving
          \/ /\ est' = None
             /\ Become(Closed(Opened(Now, h), h))
             /\ leaving' = TRUE
  /\ UNCHANGED <<listening, data, sharedVars, wincVars, statusVars>>

\* The comparisons of network_disconnected.
IsOpen(sock) == sock > 0

\* Mutant: network_is_connected stays up.
LostButConnected ==
  /\ Goto("idle", "closeSettings")
  /\ ~IsOpen(command)
  /\ link # "down"
  /\ link' = "down"
  /\ leaving' = FALSE
  /\ UNCHANGED <<socketVars, tcpVars, sharedVars, hand, statusVars>>

\* M2M_WIFI_DISCONNECTED and network_disconnected, up to the command socket.
\* The module answers no request with success any more.
LinkLost ==
  /\ Goto("idle", IF IsOpen(command) THEN "wipeCommand" ELSE "closeSettings")
  /\ link # "down"
  /\ link' = "down"
  /\ leaving' = FALSE
  /\ connected' = FALSE
  /\ LET lost == [Now EXCEPT !.replies =
                    {IF r.session = "live" THEN [r EXCEPT !.session = "lost"] ELSE r : r \in @}]
         closed == IF IsOpen(est) THEN Closed(lost, est) ELSE lost
     IN  Become(IF IsOpen(command) THEN Unmarked(closed, command) ELSE closed)
  /\ est' = IF IsOpen(est) THEN None ELSE est
  /\ hand' = IF IsOpen(command) THEN command ELSE None
  /\ UNCHANGED <<listening, data, named, command, status, statusVars>>

WipeCommand ==
  /\ Goto("wipeCommand", "closeSettings")
  /\ Become(Wiped(Now, hand))
  /\ command' = None
  /\ hand' = None
  /\ UNCHANGED <<linkVars, tcpVars, connected, named, status, statusVars>>

CloseSettings ==
  /\ Goto("closeSettings", "idle")
  /\ LET closed == IF IsOpen(listening) THEN Closed(Now, listening) ELSE Now
     IN  Become(IF IsOpen(data) THEN Closed(closed, data) ELSE closed)
  /\ listening' = IF IsOpen(listening) THEN None ELSE listening
  /\ data' = IF IsOpen(data) THEN None ELSE data
  /\ UNCHANGED <<linkVars, est, sharedVars, hand, statusVars>>

-----------------------------------------------------------------------------
(* The events of the sockets (m2m_ip_cb and socket_event_handler_cb). *)

\* The branch of the handler that an event of handle h takes.
Owner(h) ==
  IF h = est THEN "est"
  ELSE IF h = command THEN "command"
  ELSE IF h = listening THEN "listening"
  ELSE IF h = data THEN "data"
  ELSE IF h = status THEN "status" ELSE "none"

\* The events that a branch acts upon.
Understood(owner) ==
  CASE owner = "est" -> {"connect", "recv"}
    [] owner = "command" -> {"bind", "recv"}
    [] owner = "listening" -> {"bind", "listen", "accept"}
    [] owner = "data" -> {"recv"}
    [] owner = "status" -> {"sendto"}
    [] owner = "none" -> {}

\* The reply r arrives, and the branch of its owner runs.
Event(r, owner, op) ==
  /\ pc = "idle"
  /\ r.op = op
  /\ Owner(r.sock) = owner
  /\ SessionHolds(r)

\* Once the link is lost the module reports errors.
MaySucceed(r) == r.session # "lost"

\* The ports and the settings are sent, and the port of the app is awaited.
Connected(r) ==
  /\ Event(r, "est", "connect")
  /\ MaySucceed(r)
  /\ \E sent \in Sent : Become(Receiving(Arrived(Now, r), est, sent))
  /\ UNCHANGED <<linkVars, tcpVars, sharedVars, wincVars, statusVars>>

\* Mutant: the variable keeps the closed handle.
EstablishForgets(r) ==
  /\ \E op \in {"connect", "recv"} : Event(r, "est", op)
  /\ Become(Closed(Arrived(Now, r), est))
  /\ leaving' = (link # "down")
  /\ UNCHANGED <<link, tcpVars, sharedVars, wincVars, statusVars>>

\* Mutant: the link is not taken down.
EstablishGivesUp(r) ==
  /\ \E op \in {"connect", "recv"} : Event(r, "est", op)
  /\ Become(Closed(Arrived(Now, r), est))
  /\ est' = None
  /\ UNCHANGED <<linkVars, listening, data, sharedVars, wincVars, statusVars>>

EstablishFails(r) ==
  /\ \E op \in {"connect", "recv"} : Event(r, "est", op)
  /\ Become(Closed(Arrived(Now, r), est))
  /\ est' = None
  /\ leaving' = (link # "down")
  /\ UNCHANGED <<link, listening, data, sharedVars, wincVars, statusVars>>

\* The port of the app has arrived; network_connected goes on.
Established(r) ==
  /\ Event(r, "est", "recv")
  /\ MaySucceed(r)
  /\ Become(Closed(Arrived(Now, r), est))
  /\ est' = None
  /\ connected' = TRUE
  /\ pc' = "openCommand"
  /\ UNCHANGED <<linkVars, listening, data, named, command, status, hand, statusVars>>

\* Mutant: the command socket is closed when the bind fails.
CommandBindCloses(r) ==
  /\ \E op \in Understood("command") : Event(r, "command", op)
  /\ \E sent \in Sent :
       Become(IF r.op = "bind" THEN Closed(Arrived(Now, r), command)
              ELSE Receiving(Arrived(Now, r), command, sent))
  /\ UNCHANGED <<linkVars, tcpVars, sharedVars, wincVars, statusVars>>

\* Mutant: only a bound socket receives.
CommandReceivesOnce(r) ==
  /\ \E op \in Understood("command") : Event(r, "command", op)
  /\ \E sent \in Sent :
       Become(IF r.op = "bind" THEN Receiving(Arrived(Now, r), command, sent) ELSE Arrived(Now, r))
  /\ UNCHANGED <<linkVars, tcpVars, sharedVars, wincVars, statusVars>>

\* Whatever the event, the command socket receives again.
CommandEvent(r) ==
  /\ \E op \in Understood("command") : Event(r, "command", op)
  /\ \E sent \in Sent : Become(Receiving(Arrived(Now, r), command, sent))
  /\ UNCHANGED <<linkVars, tcpVars, sharedVars, wincVars, statusVars>>

Bound(r) ==
  /\ Event(r, "listening", "bind")
  /\ MaySucceed(r)
  /\ \E sent \in Sent : Become(Asked(Arrived(Now, r), "listen", listening, sent))
  /\ UNCHANGED <<linkVars, tcpVars, sharedVars, wincVars, statusVars>>

BindFails(r) ==
  /\ Event(r, "listening", "bind")
  /\ Become(Closed(Arrived(Now, r), listening))
  /\ listening' = None
  /\ UNCHANGED <<linkVars, est, data, sharedVars, wincVars, statusVars>>

\* accept() asks the module for nothing: it accepts once it listens.
Listens(r) ==
  /\ Event(r, "listening", "listen")
  /\ MaySucceed(r)
  /\ Become(Asked(Arrived(Now, r), "accept", listening, TRUE))
  /\ UNCHANGED <<linkVars, tcpVars, sharedVars, wincVars, statusVars>>

\* network_listen_for_settings
OpenListening(s) ==
  LET h == Free(s, Tcp)
  IN  /\ listening' = h
      /\ \E sent \in Sent : Become(Asked(Opened(s, h), "bind", h, sent))

ListenFails(r) ==
  /\ Event(r, "listening", "listen")
  /\ OpenListening(Closed(Arrived(Now, r), listening))
  /\ UNCHANGED <<linkVars, est, data, sharedVars, wincVars, statusVars>>

\* m2m_ip_cb marks the handle of the new connection before the handler runs;
\* a negative one stands for an error.
NewConnections == (Tcp \ used) \cup {None}

Accepted(r) ==
  /\ Event(r, "listening", "accept")
  /\ MaySucceed(r)
  /\ data' \in NewConnections
  /\ \E sent \in Sent : Become(Receiving(Marked(Arrived(Now, r), data'), data', sent))
  /\ UNCHANGED <<linkVars, est, listening, sharedVars, wincVars, statusVars>>

\* Mutant: the connection is not closed.
TransferredStaysOpen(r) ==
  /\ Event(r, "data", "recv")
  /\ MaySucceed(r)
  /\ Become(Arrived(Now, r))
  /\ data' = None
  /\ named' \in {named, TRUE}
  /\ UNCHANGED <<linkVars, est, listening, connected, command, status, wincVars, statusVars>>

\* The settings are handled and answered, and may have brought a name.
Transferred(r) ==
  /\ Event(r, "data", "recv")
  /\ MaySucceed(r)
  /\ Become(Closed(Arrived(Now, r), data))
  /\ data' = None
  /\ named' \in {named, TRUE}
  /\ UNCHANGED <<linkVars, est, listening, connected, command, status, wincVars, statusVars>>

TransferFails(r) ==
  /\ Event(r, "data", "recv")
  /\ Become(Arrived(Now, r))
  /\ UNCHANGED <<linkVars, tcpVars, sharedVars, wincVars, statusVars>>

StatusSent(r) ==
  /\ Event(r, "status", "sendto")
  /\ Become(Arrived(Now, r))
  /\ pc' = "closeStatus"
  /\ UNCHANGED <<linkVars, tcpVars, sharedVars, hand, statusVars>>

\* The session is over or no branch acts upon the event; a connection that was
\* accepted is marked all the same.
Ignored(r) ==
  /\ pc = "idle"
  /\ ~SessionHolds(r) \/ r.op \notin Understood(Owner(r.sock))
  /\ IF r.op = "accept" THEN \E h \in NewConnections : Become(Marked(Arrived(Now, r), h))
     ELSE Become(Arrived(Now, r))
  /\ UNCHANGED <<linkVars, tcpVars, sharedVars, wincVars, statusVars>>

\* The module may never answer a request that outlived its link or its socket.
Forgotten(r) ==
  /\ r.session # "live"
  /\ replies' = replies \ {r}
  /\ silent' = silent \cup {h \in {r.sock} : r.session = "lost" /\ r.op \notin {"accept", "sendto"}}
  /\ UNCHANGED <<used, receiving, linkVars, tcpVars, sharedVars, wincVars, statusVars>>

SocketEvent(r) ==
  \/ Connected(r) \/ EstablishFails(r) \/ Established(r)
  \/ CommandEvent(r)
  \/ Bound(r) \/ BindFails(r) \/ Listens(r) \/ ListenFails(r) \/ Accepted(r)
  \/ Transferred(r) \/ TransferFails(r)
  \/ StatusSent(r) \/ Ignored(r)

-----------------------------------------------------------------------------
(* The rest of the handlers: network_listen_for_commands, after it            *)
(* network_listen_for_settings, and the end of a status.                      *)

OpenCommand ==
  /\ Goto("openCommand", "markCommand")
  /\ hand' = Free(Now, Udp)
  /\ UNCHANGED <<socketVars, linkVars, tcpVars, sharedVars, statusVars>>

MarkCommand ==
  /\ Goto("markCommand", "openSettings")
  /\ \E sent \in Sent : Become(Asked(Opened(Now, hand), "bind", hand, sent))
  /\ command' = hand
  /\ hand' = None
  /\ UNCHANGED <<linkVars, tcpVars, connected, named, status, statusVars>>

OpenSettings ==
  /\ Goto("openSettings", "idle")
  /\ OpenListening(Now)
  /\ UNCHANGED <<linkVars, est, data, sharedVars, hand, statusVars>>

\* The handler reads udp_status_socket again.
CloseStatus ==
  /\ Goto("closeStatus", IF IsOpen(status) THEN "wipeStatus" ELSE "idle")
  /\ IF IsOpen(status) THEN Become(Unmarked(Now, status)) ELSE UNCHANGED socketVars
  /\ hand' = IF IsOpen(status) THEN status ELSE None
  /\ UNCHANGED <<linkVars, tcpVars, sharedVars, statusVars>>

WipeStatus ==
  /\ Goto("wipeStatus", "clearStatus")
  /\ Become(Wiped(Now, hand))
  /\ hand' = None
  /\ UNCHANGED <<linkVars, tcpVars, sharedVars, statusVars>>

ClearStatus ==
  /\ Goto("clearStatus", "idle")
  /\ status' = None
  /\ UNCHANGED <<socketVars, linkVars, tcpVars, connected, named, command, hand, statusVars>>

WincStep ==
  \/ WipeCommand \/ CloseSettings \/ OpenCommand \/ MarkCommand \/ OpenSettings
  \/ CloseStatus \/ WipeStatus \/ ClearStatus

-----------------------------------------------------------------------------
(* task_send_status and network_send_status. *)

StatusGoto(here, there) == statusPc = here /\ statusPc' = there

\* The delay is over; nothing is sent without a connection or without a name.
StatusDue ==
  /\ StatusGoto("delay", "open")
  /\ connected
  /\ named
  /\ UNCHANGED <<socketVars, linkVars, tcpVars, sharedVars, wincVars, statusHand>>

OpenStatus ==
  /\ StatusGoto("open", "mark")
  /\ statusHand' = Free(Now, Udp)
  /\ UNCHANGED <<socketVars, linkVars, tcpVars, sharedVars, wincVars>>

MarkStatus ==
  /\ StatusGoto("mark", "assign")
  /\ Become(Opened(Now, statusHand))
  /\ UNCHANGED <<linkVars, tcpVars, sharedVars, wincVars, statusHand>>

AssignStatus ==
  /\ StatusGoto("assign", "send")
  /\ status' = statusHand
  /\ statusHand' = None
  /\ UNCHANGED <<socketVars, linkVars, tcpVars, connected, named, command, wincVars>>

\* sendto reads udp_status_socket again.  It may fail; nothing waits for its reply.
SendStatus ==
  /\ StatusGoto("send", "delay")
  /\ \/ Become(Asked(Now, "sendto", status, TRUE))
     \/ UNCHANGED socketVars
  /\ UNCHANGED <<linkVars, tcpVars, sharedVars, wincVars, statusHand>>

StatusStep == StatusDue \/ OpenStatus \/ MarkStatus \/ AssignStatus \/ SendStatus

-----------------------------------------------------------------------------
\* A task enters socket() or close() for a UDP handle while the other one is
\* inside.
WincInside == pc \in {"markCommand", "wipeCommand", "wipeStatus"}
StatusInside == statusPc = "mark"
Slice ==
  \/ ~WincInside /\ WincInside' /\ StatusInside
  \/ ~StatusInside /\ StatusInside' /\ WincInside

Step ==
  \/ /\ FewStale
     /\ \/ LinkJoined \/ AddressReceived \/ LinkLost
        \/ \E r \in replies : SocketEvent(r)
        \/ WincStep
        \/ StatusStep
  \/ \E r \in replies : Forgotten(r)

Next == Step /\ sliced' = (sliced \/ Slice)

Spec == Init /\ [][Next]_historyVars

-----------------------------------------------------------------------------
(* Properties. *)

\* network_is_connected is up only on a link (Networking.c:319-349): task_send_status
\* takes the flag for the link.
ConnectedOnLink == connected => link = "up"

\* The TCP sockets that the program holds are open, and are three different ones
\* (Networking.c:14-17).
TcpSocketsAreOpen ==
  /\ {est, listening, data} \ {None} \subseteq used
  /\ est # None => est \notin {listening, data}
  /\ listening # None => listening # data

\* A link is in use, being established or being taken down, and while a connection
\* is being established the answer is on its way, unless the request failed or was
\* lost with an earlier link (Networking.c:67-72, 86-91, 239-254, 329-333).
LinkIsUsed ==
  /\ link = "up" => connected \/ leaving \/ est # None
  /\ est # None /\ est \notin silent =>
       \E r \in replies :
         r.sock = est /\ r.session # "closed" /\ r.op \in {"connect", "recv"}

\* If no task was preempted inside socket() or close(), the command socket has a
\* handle of its own and is open until it is being closed, and the robot hears
\* commands: the socket is being bound or waits for one, unless a request to bind
\* it or to receive failed (Networking.c:98-127, 267, 273, 302).
CommandIsHeard ==
  ~sliced /\ command # None =>
    /\ pc # "wipeCommand" => command \in used /\ command # status
    /\ pc = "idle" /\ command \notin silent =>
         \E r \in replies : r.sock = command /\ r.session = "live" /\ r.op \in {"bind", "recv"}

\* Handles in use that no variable of the program holds.
Orphans == used \ {est, listening, data, command, status, hand, statusHand}

\* The program drops a handle without a close() in four ways only: a connection is
\* accepted while the one before is still open (Networking.c:172); the listening
\* socket is handle 0, which network_disconnected took for none (284, 339); a
\* status overwrites the handle of the one before, whose SENDTO event has not come
\* or will not come (302-315); the end of a status clears the handle of the next
\* one (211-221).
OrphansAreKnown ==
  [][\A h \in (Orphans' \ Orphans) \cap used :
       \/ h = data /\ \E r \in replies : Accepted(r)
       \/ h = 0 /\ h = listening /\ pc = "openSettings"
       \/ h = status /\ (statusPc = "assign" \/ pc = "clearStatus")]_historyVars

\* The command socket is closed by a disconnection only, as long as
\* udp_status_socket is another handle (Networking.c:94-128, 211-221, 334-338).
CommandSocketStays ==
  [][(command \in used /\ command \notin used') =>
       ~connected' \/ command = status \/ command = hand]_vars

=============================================================================
