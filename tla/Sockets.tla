------------------------------ MODULE Sockets ------------------------------
(***************************************************************************)
(* The socket layer of the Wi-Fi driver (socket.c): the table gastrSockets *)
(* of the handles in use, and the replies that the Wi-Fi module still owes.*)
(*                                                                         *)
(* A request is kept as the reply it asks for.  The session number of a    *)
(* request is abstracted to what the driver can tell from it:              *)
(*   live    the handle has the session that the request was made in       *)
(*   lost    so it has, but the link was lost since                        *)
(*   closed  the handle was closed or opened again since                   *)
(* A request that fails (hif_send) did not reach the module and is owed no *)
(* reply.  The requests whose replies the program ignores (SEND, CLOSE)    *)
(* are left out, and two equal replies of closed sessions are one.         *)
(***************************************************************************)
EXTENDS Integers, FiniteSets

CONSTANTS
  TcpSockets,   \* TCP_SOCK_MAX
  UdpSockets    \* UDP_SOCK_MAX

ASSUME SocketsAssumption ==
  /\ TcpSockets \in Nat \ {0}
  /\ UdpSockets \in Nat \ {0}

Tcp == 0 .. TcpSockets - 1
Udp == TcpSockets .. TcpSockets + UdpSockets - 1

\* The value of a socket variable without a handle.
None == -1

\* A reply that the module owes.  The link of the request is up ("live"), was
\* lost, or the handle was closed since.
Live(op, h) == [op |-> op, sock |-> h, session |-> "live"]

VARIABLES
  used,        \* the handles with bIsUsed
  receiving,   \* the handles with bIsRecvPending
  replies,     \* the replies owed by the module
  silent       \* history: the handles with a BIND, LISTEN, CONNECT or RECV that no reply
               \* comes for: it did not reach the module, or was lost with the link

socketVars == <<used, receiving, replies, silent>>

InitSockets == used = {} /\ receiving = {} /\ replies = {} /\ silent = {}

-----------------------------------------------------------------------------
(* The four variables as one value, for a handler that calls several        *)
(* functions of the socket layer one after the other.                        *)

Now == [used |-> used, receiving |-> receiving, replies |-> replies, silent |-> silent]

Become(s) ==
  /\ used' = s.used /\ receiving' = s.receiving
  /\ replies' = s.replies /\ silent' = s.silent

\* The session of handle h is over.
Ended(rs, h) == {IF r.sock = h THEN [r EXCEPT !.session = "closed"] ELSE r : r \in rs}

\* The handle that socket() takes from those of its kind: the first free one.
Free(s, kind) ==
  LET free == kind \ s.used
  IN  IF free = {} THEN None ELSE CHOOSE h \in free : \A g \in free : h <= g

\* socket(): the entry is cleared, marked and given a new session.
Opened(s, h) ==
  IF h = None THEN s
  ELSE [used |-> s.used \cup {h}, receiving |-> s.receiving \ {h},
        replies |-> Ended(s.replies, h), silent |-> s.silent \ {h}]

\* m2m_ip_cb marks the handle of an accepted connection and gives it a session,
\* without clearing the entry.
Marked(s, h) == [Opened(s, h) EXCEPT !.receiving = s.receiving]

\* close(): the mark is taken away first, then the request is sent, and then
\* the entry is cleared.
Unmarked(s, h) == [s EXCEPT !.used = @ \ {h}, !.replies = Ended(@, h)]
Wiped(s, h) ==
  [s EXCEPT !.used = @ \ {h}, !.receiving = @ \ {h}, !.replies = Ended(@, h), !.silent = @ \ {h}]
Closed(s, h) == IF h \in s.used THEN Wiped(s, h) ELSE s

\* bind(), listen(), connect(), sendto(): sent is FALSE when the request failed.
Asked(s, op, h, sent) ==
  IF h \notin s.used THEN s
  ELSE IF sent THEN [s EXCEPT !.replies = @ \cup {Live(op, h)}]
  ELSE [s EXCEPT !.silent = @ \cup {h}]

\* recv() and recvfrom(): the request is sent unless one is pending.  It counts as
\* pending even if it failed.
Receiving(s, h, sent) ==
  IF h \in s.used /\ h \notin s.receiving
  THEN [Asked(s, "recv", h, sent) EXCEPT !.receiving = @ \cup {h}]
  ELSE s

\* m2m_ip_cb: the reply has arrived.  A listening socket goes on accepting, and
\* a RECV clears the flag of its handle whatever its session.
Arrived(s, r) ==
  [s EXCEPT !.replies = IF r.op = "accept" /\ r.session = "live" THEN @ ELSE @ \ {r},
            !.receiving = IF r.op = "recv" THEN @ \ {r.sock} ELSE @]

\* m2m_ip_cb: only a RECV and a SENDTO are held against the session.
SessionHolds(r) == r.op \in {"recv", "sendto"} => r.session # "closed"
=============================================================================
