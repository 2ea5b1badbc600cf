-------------------------- MODULE NetworkingProofs --------------------------
(* Properties of Networking, for tables of any size: the TCP sockets that    *)
(* the program holds, the connection that it establishes, the command        *)
(* socket, and the handles that are lost.                                    *)
EXTENDS Networking, TLAPS, WellFoundedInduction

USE SocketsAssumption, NetworkingAssumption

-----------------------------------------------------------------------------
(* What the socket layer holds. *)

Handle == Tcp \cup Udp

Request == {"connect", "bind", "listen", "accept", "recv", "sendto"}

Reply == [op : Request, sock : Handle, session : {"live", "lost", "closed"}]

(* The requests by name.                                                     *)
LEMMA Requests ==
  /\ "connect" \in Request /\ "bind" \in Request /\ "listen" \in Request
  /\ "accept" \in Request /\ "recv" \in Request /\ "sendto" \in Request
BY DEF Request

SocketState == [used : SUBSET Handle, receiving : SUBSET Handle, replies : SUBSET Reply,
                silent : SUBSET Handle]

(* Handle 0 is one of TCP, and no handle is None (socket.c:478).             *)
LEMMA Handles ==
  /\ Handle \subseteq Nat /\ None \notin Handle
  /\ Tcp \cap Udp = {} /\ 0 \in Tcp
BY DEF Handle, Tcp, Udp, None

(* socket() returns a free handle of its kind or none (socket.c:510).        *)
LEMMA FreeHandles ==
  ASSUME NEW s \in SocketState, NEW kind \in {Tcp, Udp}
  PROVE  Free(s, kind) \in (kind \ s.used) \cup {None}
<1> DEFINE free == kind \ s.used
<1>1. CASE free = {}
  BY <1>1 DEF Free
<1>2. CASE free # {}
  <2>1. free \subseteq Nat
    BY Handles DEF Handle
  <2>2. \E h \in free : \A g \in free : <<g, h>> \notin OpToRel(<, Nat)
    BY <1>2, <2>1, WFMin, NatLessThanWellFounded
  <2>3. PICK h \in free : \A g \in free : <<g, h>> \notin OpToRel(<, Nat)
    BY <2>2
  <2>4. ASSUME NEW g \in free PROVE h <= g
    <3> SUFFICES ASSUME g < h PROVE FALSE
      BY <2>1
    <3>1. <<g, h>> \in Nat \X Nat /\ <<g, h>>[1] < <<g, h>>[2]
      BY <2>1
    <3> QED
      BY <2>3, <3>1 DEF OpToRel
  <2> QED
    BY <1>2, <2>4 DEF Free
<1> QED
  BY <1>1, <1>2

(* The end of a session changes the replies of its handle, and no others.    *)
LEMMA EndedReplies ==
  ASSUME NEW rs \in SUBSET Reply, NEW h
  PROVE  /\ Ended(rs, h) \in SUBSET Reply
         /\ \A r \in Reply : r.sock # h => (r \in Ended(rs, h) <=> r \in rs)
         /\ \A r \in Ended(rs, h) : r.sock = h =>
              r.session = "closed" /\ \E q \in rs : q.sock = h /\ q.op = r.op
<1>1. \A q \in Reply : /\ [q EXCEPT !.session = "closed"] \in Reply
                       /\ [q EXCEPT !.session = "closed"].sock = q.sock
                       /\ [q EXCEPT !.session = "closed"].op = q.op
                       /\ [q EXCEPT !.session = "closed"].session = "closed"
  BY DEF Reply
<1>2. \A r : r \in Ended(rs, h) <=>
        \E q \in rs : r = IF q.sock = h THEN [q EXCEPT !.session = "closed"] ELSE q
  BY DEF Ended
<1>3. Ended(rs, h) \in SUBSET Reply
  BY <1>1, <1>2
<1>4. \A r \in Reply : r.sock # h => (r \in Ended(rs, h) <=> r \in rs)
  BY <1>1, <1>2
<1>5. \A r \in Ended(rs, h) : r.sock = h =>
        r.session = "closed" /\ \E q \in rs : q.sock = h /\ q.op = r.op
  <2> SUFFICES ASSUME NEW r \in Ended(rs, h), r.sock = h
               PROVE  r.session = "closed" /\ \E q \in rs : q.sock = h /\ q.op = r.op
    OBVIOUS
  <2>1. PICK q \in rs : r = IF q.sock = h THEN [q EXCEPT !.session = "closed"] ELSE q
    BY <1>2
  <2>2. q.sock = h /\ q \in Reply /\ r = [q EXCEPT !.session = "closed"]
    BY <1>1, <2>1
  <2> QED
    BY <1>1, <2>2
<1> QED
  BY <1>3, <1>4, <1>5

(* The functions of the socket layer, each on one handle.                    *)
LEMMA SocketTypes ==
  ASSUME NEW s \in SocketState, NEW h \in Handle \cup {None}
  PROVE  /\ Opened(s, h) \in SocketState /\ s.used \subseteq Opened(s, h).used
         /\ h # None => h \in Opened(s, h).used
         /\ Marked(s, h) \in SocketState /\ s.used \subseteq Marked(s, h).used
         /\ h # None => h \in Marked(s, h).used
         /\ Unmarked(s, h) \in SocketState /\ s.used \ {h} \subseteq Unmarked(s, h).used
         /\ Wiped(s, h) \in SocketState /\ s.used \ {h} \subseteq Wiped(s, h).used
         /\ Closed(s, h) \in SocketState /\ s.used \ {h} \subseteq Closed(s, h).used
<1>1. Ended(s.replies, h) \in SUBSET Reply
  BY EndedReplies DEF SocketState
<1>3. /\ Opened(s, h) \in SocketState /\ s.used \subseteq Opened(s, h).used
      /\ h # None => h \in Opened(s, h).used
  BY <1>1 DEF Opened, SocketState
<1>4. /\ Marked(s, h) \in SocketState /\ s.used \subseteq Marked(s, h).used
      /\ h # None => h \in Marked(s, h).used
  BY <1>1, <1>3 DEF Marked, SocketState
<1>5. /\ Unmarked(s, h) \in SocketState /\ s.used \ {h} \subseteq Unmarked(s, h).used
      /\ Wiped(s, h) \in SocketState /\ s.used \ {h} \subseteq Wiped(s, h).used
  BY <1>1 DEF Unmarked, Wiped, SocketState
<1>6. Closed(s, h) \in SocketState /\ s.used \ {h} \subseteq Closed(s, h).used
  BY <1>5 DEF Closed
<1> QED
  BY <1>3, <1>4, <1>5, <1>6

(* A request, and a RECV.                                                    *)
LEMMA AskedTypes ==
  ASSUME NEW s \in SocketState, NEW h, NEW sent \in BOOLEAN, NEW op \in Request
  PROVE  Asked(s, op, h, sent) \in SocketState /\ Asked(s, op, h, sent).used = s.used
<1>1. h \in s.used => Live(op, h) \in Reply
  BY DEF Live, Reply, Request, SocketState
<1> QED
  BY <1>1 DEF Asked, SocketState

LEMMA ReceivingTypes ==
  ASSUME NEW s \in SocketState, NEW h \in Handle \cup {None}, NEW sent \in BOOLEAN
  PROVE  Receiving(s, h, sent) \in SocketState /\ Receiving(s, h, sent).used = s.used
<1>1. Asked(s, "recv", h, sent) \in SocketState /\ Asked(s, "recv", h, sent).used = s.used
  BY AskedTypes, Requests
<1> QED
  BY <1>1 DEF Receiving, SocketState

LEMMA ArrivedType ==
  ASSUME NEW s \in SocketState, NEW r \in Reply
  PROVE  Arrived(s, r) \in SocketState /\ Arrived(s, r).used = s.used
BY DEF Arrived, SocketState

-----------------------------------------------------------------------------
(***************************************************************************)
(* The inductive invariant.                                                *)
(***************************************************************************)

NetworkingType ==
  /\ Now \in SocketState
  /\ link \in {"down", "joined", "up"}
  /\ {est, listening, data} \subseteq Tcp \cup {None}
  /\ {command, status, hand, statusHand} \subseteq Udp \cup {None}

\* A link that is not up is not in use, and only handle 0 outlives one.
LinkInv ==
  /\ connected => link = "up"
  /\ link = "up" => connected \/ leaving \/ est # None
  /\ link # "up" => est \in {None, 0}

Establishing(r) == r.op \in {"connect", "recv"}

\* Handle 0, which network_disconnected does not close, is not taken for connected
\* by a late answer: its requests are known to be over.
AtZero(op, r) == r.op = op /\ r.sock = 0

ZeroInv ==
  /\ \A r \in replies : AtZero("connect", r) => est = 0 /\ r.session # "closed"
  /\ \A r, q \in replies : AtZero("connect", r) /\ AtZero("connect", q) => r = q
  /\ \A r, q \in replies : AtZero("connect", r) /\ AtZero("recv", q) => q.session = "closed"
  /\ est = 0 /\ link # "up" =>
       \A r \in replies : AtZero("connect", r) \/ AtZero("recv", r) => r.session # "live"

\* The connection that is being established has an answer to come, unless a request
\* of it is known to have none.
Answering(r) == r.sock = est /\ r.session # "closed" /\ Establishing(r)

AnswerInv ==
  est # None /\ est \notin silent =>
    /\ \E r \in replies : Answering(r)
    /\ est \in receiving => \E r \in replies : Answering(r) /\ r.op = "recv"

NetInv == NetworkingType /\ TcpSocketsAreOpen /\ LinkInv /\ ZeroInv /\ AnswerInv

-----------------------------------------------------------------------------
(***************************************************************************)
(* Keeps(s, t): on the way from s to t nothing happened to the connection  *)
(* that is being established.                                              *)
(***************************************************************************)

Keeps(s, t) ==
  /\ (\E r \in t.replies : AtZero("connect", r)) => \E r \in s.replies : AtZero("connect", r)
  /\ est = 0 => \A r \in t.replies : AtZero("connect", r) \/ AtZero("recv", r) => r \in s.replies
  /\ est # None =>
       /\ \A r \in s.replies : Answering(r) => r \in t.replies
       /\ est \in t.receiving => est \in s.receiving
       /\ est \in s.silent => est \in t.silent

LEMMA KeepsTrans ==
  ASSUME NEW s, NEW t, NEW u, Keeps(s, t), Keeps(t, u)
  PROVE  Keeps(s, u)
BY DEF Keeps

(* The functions of the socket layer on any other handle.                    *)
LEMMA OthersKeep ==
  ASSUME NEW s \in SocketState, NEW h \in Handle \cup {None}, h # est \/ h = None,
         est \in Tcp \cup {None}
  PROVE  /\ Keeps(s, Opened(s, h)) /\ Keeps(s, Marked(s, h))
         /\ Keeps(s, Unmarked(s, h)) /\ Keeps(s, Wiped(s, h)) /\ Keeps(s, Closed(s, h))
<1>1. est \in Int /\ h \in Int /\ (est # None => h # est) /\ (est = 0 => est # None)
  BY Handles DEF Handle, None
<1>2. ASSUME NEW t \in SocketState, t.replies = Ended(s.replies, h),
             t.receiving \subseteq s.receiving, s.silent \ {h} \subseteq t.silent
      PROVE  Keeps(s, t)
  <2>1. s.replies \in SUBSET Reply /\ t.replies \in SUBSET Reply
    BY <1>2 DEF SocketState
  <2>2. (\E r \in t.replies : AtZero("connect", r)) => \E r \in s.replies : AtZero("connect", r)
    BY <1>2, <2>1, EndedReplies DEF AtZero
  <2>3. est = 0 => \A r \in t.replies : AtZero("connect", r) \/ AtZero("recv", r) => r \in s.replies
    BY <1>1, <1>2, <2>1, EndedReplies DEF AtZero
  <2>4. est # None => \A r \in s.replies : r.sock = est => r \in t.replies
    BY <1>1, <1>2, <2>1, EndedReplies
  <2> QED
    BY <1>1, <1>2, <2>2, <2>3, <2>4 DEF Keeps, Answering
<1>3. Keeps(s, s)
  BY DEF Keeps
<1>4. Keeps(s, Opened(s, h)) /\ Keeps(s, Marked(s, h))
  <2>1. Opened(s, h) \in SocketState /\ Marked(s, h) \in SocketState
    BY SocketTypes
  <2>2. CASE h = None
    BY <1>3, <2>2 DEF Opened, Marked, SocketState
  <2>3. CASE h # None
    BY <1>2, <2>1, <2>3 DEF Opened, Marked
  <2> QED
    BY <2>2, <2>3
<1>5. Keeps(s, Unmarked(s, h)) /\ Keeps(s, Wiped(s, h))
  <2>1. Unmarked(s, h) \in SocketState /\ Wiped(s, h) \in SocketState
    BY SocketTypes
  <2>2. /\ Unmarked(s, h).replies = Ended(s.replies, h)
        /\ Unmarked(s, h).receiving = s.receiving
        /\ Wiped(s, h).replies = Ended(s.replies, h)
        /\ Wiped(s, h).receiving = s.receiving \ {h}
        /\ Unmarked(s, h).silent = s.silent /\ Wiped(s, h).silent = s.silent \ {h}
    BY DEF Unmarked, Wiped, SocketState
  <2> QED
    BY <1>2, <2>1, <2>2
<1>6. Keeps(s, Closed(s, h))
  BY <1>3, <1>5 DEF Closed
<1> QED
  BY <1>4, <1>5, <1>6

LEMMA AskedKeeps ==
  ASSUME NEW s \in SocketState, NEW h \in Handle \cup {None}, h # est \/ h = None,
         NEW sent \in BOOLEAN, NEW op \in {"bind", "listen", "accept", "recv", "sendto"}
  PROVE  Keeps(s, Asked(s, op, h, sent))
<1>1. s.used \subseteq Handle /\ None \notin Handle
  BY Handles DEF SocketState
<1>2. CASE h \notin s.used
  BY <1>2 DEF Asked, Keeps
<1>3. CASE h \in s.used
  <2>1. h # est
    BY <1>1, <1>3
  <2>2. Live(op, h).sock = h /\ Live(op, h).op = op
    BY DEF Live
  <2>3. CASE sent
    <3>1. /\ Asked(s, op, h, sent).replies = s.replies \cup {Live(op, h)}
          /\ Asked(s, op, h, sent).receiving = s.receiving
          /\ Asked(s, op, h, sent).silent = s.silent
      BY <1>3, <2>3 DEF Asked, SocketState
    <3> QED
      BY <2>1, <2>2, <3>1 DEF Keeps, AtZero
  <2>4. CASE ~sent
    <3>1. /\ Asked(s, op, h, sent).replies = s.replies
          /\ Asked(s, op, h, sent).receiving = s.receiving
          /\ Asked(s, op, h, sent).silent = s.silent \cup {h}
      BY <1>3, <2>4 DEF Asked, SocketState
    <3> QED
      BY <3>1 DEF Keeps
  <2> QED
    BY <2>3, <2>4
<1> QED
  BY <1>2, <1>3

LEMMA ReceivingKeeps ==
  ASSUME NEW s \in SocketState, NEW h \in Handle \cup {None}, h # est \/ h = None,
         NEW sent \in BOOLEAN
  PROVE  Keeps(s, Receiving(s, h, sent))
<1> DEFINE a == Asked(s, "recv", h, sent)
<1>1. Keeps(s, a)
  BY AskedKeeps
<1>2. CASE h \in s.used /\ h \notin s.receiving
  <2>1. h # est /\ a \in SocketState /\ a.receiving = s.receiving
    BY <1>2, Handles, AskedTypes, Requests DEF SocketState, Asked
  <2>2. Receiving(s, h, sent) = [a EXCEPT !.receiving = @ \cup {h}]
    BY <1>2 DEF Receiving
  <2> HIDE DEF a
  <2> QED
    BY <1>1, <2>1, <2>2 DEF Keeps, SocketState
<1>3. CASE ~(h \in s.used /\ h \notin s.receiving)
  BY <1>3 DEF Receiving, Keeps
<1> QED
  BY <1>2, <1>3

(* A reply that is not the one the connection waits for.                     *)
LEMMA ArrivedKeeps ==
  ASSUME NEW s \in SocketState, NEW r \in Reply,
         ~Answering(r)
  PROVE  Keeps(s, Arrived(s, r))
BY DEF Arrived, Keeps, SocketState, Answering, Establishing

(* What the invariants of the replies need.                                  *)
LEMMA KeptReplies ==
  ASSUME ZeroInv, AnswerInv, NetworkingType, NEW s \in SocketState, Keeps(Now, s), Become(s),
         est' = est, link' = link \/ (link # "up" /\ link' # "up")
  PROVE  ZeroInv' /\ AnswerInv'
<1>1. /\ used' = s.used /\ receiving' = s.receiving /\ replies' = s.replies
      /\ silent' = s.silent
      /\ Now.replies = replies /\ Now.receiving = receiving /\ Now.silent = silent
  BY DEF Become, Now
<1>2. replies \in SUBSET Reply /\ replies' \in SUBSET Reply
  BY <1>1 DEF NetworkingType, SocketState
<1>3. \A r \in replies' : AtZero("connect", r) => est = 0
  BY <1>1 DEF Keeps, ZeroInv
<1>4. est = 0 => \A r \in replies' : AtZero("connect", r) \/ AtZero("recv", r) => r \in replies
  BY <1>1 DEF Keeps
<1>5. ZeroInv'
  BY <1>3, <1>4 DEF ZeroInv, AtZero
<1>6. AnswerInv'
  <2>1. \A r : Answering(r)' <=> Answering(r)
    BY DEF Answering, Establishing
  <2> QED
    BY <1>1, <2>1 DEF AnswerInv, Keeps
<1> QED
  BY <1>5, <1>6

(* A step that only touches handles of UDP leaves the connections alone.     *)
LEMMA OtherStep ==
  ASSUME NetInv, NEW s \in SocketState, Keeps(Now, s), Become(s),
         used \cap Tcp \subseteq s.used,
         UNCHANGED <<est, listening, data>>,
         link' \in {"down", "joined", "up"},
         link' = link \/ (link # "up" /\ link' # "up"),
         connected' = connected,
         leaving' = leaving \/ link' # "up",
         {command', status', hand', statusHand'} \subseteq Udp \cup {None}
  PROVE  NetInv'
<1>1. /\ used' = s.used /\ Now' = s
      /\ NetworkingType /\ TcpSocketsAreOpen /\ LinkInv /\ ZeroInv /\ AnswerInv
  BY DEF Become, Now, NetInv, SocketState
<1>2. NetworkingType'
  BY <1>1 DEF NetworkingType
<1>3. TcpSocketsAreOpen'
  BY <1>1 DEF NetworkingType, TcpSocketsAreOpen
<1>4. LinkInv'
  BY <1>1 DEF LinkInv
<1>5. ZeroInv' /\ AnswerInv'
  BY <1>1, KeptReplies
<1> QED
  BY <1>2, <1>3, <1>4, <1>5 DEF NetInv

-----------------------------------------------------------------------------
(* The steps, first those that touch no handle of TCP. *)

LEMMA OwnerOf ==
  ASSUME NEW h
  PROVE  /\ Owner(h) = "est" => h = est
         /\ Owner(h) = "command" => h = command /\ h # est
         /\ Owner(h) = "listening" => h = listening /\ h # est
         /\ Owner(h) = "data" => h = data /\ h # est
         /\ Owner(h) = "status" => h = status /\ h # est
         /\ Owner(h) = "none" => h # est
         /\ h = est => Owner(h) = "est"
BY DEF Owner

LEMMA UdpHandles ==
  ASSUME NetworkingType, NEW h \in Udp \cup {None}, NEW s \in SocketState
  PROVE  /\ h \in Handle \cup {None} /\ est \in Tcp \cup {None}
         /\ h # est \/ h = None
         /\ s.used \cap Tcp \subseteq s.used \ {h}
BY Handles DEF Handle, NetworkingType

(* A request reaches the module or not.                                      *)
LEMMA SentOrNot == Sent \subseteq BOOLEAN
BY DEF Sent

(* The socket layer did not change.                                          *)
LEMMA SameSockets ==
  /\ Keeps(Now, Now)
  /\ UNCHANGED socketVars => Become(Now)
  /\ used \cap Tcp \subseteq Now.used
BY DEF Keeps, Become, Now, socketVars

LEMMA UdpSteps ==
  ASSUME NetInv,
         \/ LinkJoined \/ \E r \in replies : CommandEvent(r) \/ StatusSent(r)
         \/ WipeCommand \/ OpenCommand \/ MarkCommand
         \/ CloseStatus \/ WipeStatus \/ ClearStatus \/ StatusStep
  PROVE  NetInv'
<1>1. NetworkingType /\ Now \in SocketState /\ Now.used = used
      /\ {command, status, hand, statusHand} \subseteq Udp \cup {None}
      /\ link \in {"down", "joined", "up"}
  BY DEF NetInv, NetworkingType, Now
<1>2. \A kind \in {Tcp, Udp} : Free(Now, kind) \in kind \cup {None}
  BY <1>1, FreeHandles
<1> USE DEF linkVars, tcpVars, sharedVars, wincVars, statusVars, Goto, StatusGoto
<1>3. ASSUME UNCHANGED socketVars,
             LinkJoined \/ OpenCommand \/ ClearStatus \/ StatusDue \/ OpenStatus
               \/ AssignStatus \/ (CloseStatus /\ ~IsOpen(status)) \/ SendStatus
      PROVE  NetInv'
  <2>1. /\ UNCHANGED <<est, listening, data, connected>>
        /\ link' \in {"down", "joined", "up"}
        /\ link' = link \/ (link # "up" /\ link' # "up")
        /\ leaving' = leaving \/ link' # "up"
        /\ {command', status', hand', statusHand'} \subseteq Udp \cup {None}
    BY <1>1, <1>2, <1>3 DEF LinkJoined, OpenCommand, ClearStatus, StatusDue, OpenStatus,
      AssignStatus, CloseStatus, SendStatus
  <2> QED
    BY <1>1, <1>3, <2>1, SameSockets, OtherStep
<1>4. ASSUME NEW h \in Udp \cup {None}, NEW s \in SocketState, Become(s), Keeps(Now, s),
             used \ {h} \subseteq s.used,
             UNCHANGED <<linkVars, tcpVars, connected>>,
             {command', status', hand', statusHand'} \subseteq Udp \cup {None}
      PROVE  NetInv'
  <2>1. used \cap Tcp \subseteq s.used
    BY <1>1, <1>4, UdpHandles
  <2> QED
    BY <1>1, <1>4, <2>1, OtherStep
<1>5. ASSUME NEW h \in Udp \cup {None}
      PROVE  /\ h \in Handle \cup {None} /\ (h # est \/ h = None) /\ est \in Tcp \cup {None}
  BY <1>1, UdpHandles
<1>6. ASSUME NEW r \in replies, CommandEvent(r) PROVE NetInv'
  <2> DEFINE a == Arrived(Now, r)
  <2>1. r \in Reply /\ r.sock # est
    BY <1>1, <1>6, OwnerOf DEF CommandEvent, Event, SocketState, Now
  <2>2. a \in SocketState /\ Keeps(Now, a) /\ a.used = used
    BY <1>1, <2>1, ArrivedType, ArrivedKeeps DEF Answering
  <2>0. PICK sent \in BOOLEAN : Become(Receiving(a, command, sent))
    BY <1>6, SentOrNot DEF CommandEvent
  <2> DEFINE s == Receiving(a, command, sent)
  <2>3. s \in SocketState /\ Keeps(a, s) /\ s.used = used
    BY <1>1, <1>5, <2>2, ReceivingKeeps, ReceivingTypes
  <2> QED
    BY <1>1, <1>4, <1>6, <2>0, <2>2, <2>3, KeepsTrans DEF CommandEvent
<1>7. ASSUME NEW r \in replies, StatusSent(r) PROVE NetInv'
  <2>1. r \in Reply /\ r.sock # est
    BY <1>1, <1>7, OwnerOf DEF StatusSent, Event, SocketState, Now
  <2>2. Arrived(Now, r) \in SocketState /\ Keeps(Now, Arrived(Now, r)) /\ Arrived(Now, r).used = used
    BY <1>1, <2>1, ArrivedType, ArrivedKeeps DEF Answering
  <2> QED
    BY <1>1, <1>4, <1>7, <2>2 DEF StatusSent
<1>8. ASSUME WipeCommand \/ WipeStatus PROVE NetInv'
  <2>1. Wiped(Now, hand) \in SocketState /\ Keeps(Now, Wiped(Now, hand))
        /\ used \ {hand} \subseteq Wiped(Now, hand).used
    BY <1>1, <1>5, OthersKeep, SocketTypes
  <2> QED
    BY <1>1, <1>4, <1>8, <2>1 DEF WipeCommand, WipeStatus
<1>9. ASSUME MarkCommand PROVE NetInv'
  <2> DEFINE o == Opened(Now, hand)
  <2>1. o \in SocketState /\ Keeps(Now, o) /\ used \subseteq o.used
    BY <1>1, <1>5, OthersKeep, SocketTypes
  <2>0. PICK sent \in BOOLEAN : Become(Asked(o, "bind", hand, sent))
    BY <1>9, SentOrNot DEF MarkCommand
  <2> DEFINE s == Asked(o, "bind", hand, sent)
  <2>2. s \in SocketState /\ Keeps(o, s) /\ s.used = o.used
    BY <1>1, <1>5, <2>1, AskedKeeps, AskedTypes, Requests
  <2> QED
    BY <1>1, <1>4, <1>9, <2>0, <2>1, <2>2, KeepsTrans DEF MarkCommand
<1>10. ASSUME CloseStatus, IsOpen(status) PROVE NetInv'
  <2>1. Unmarked(Now, status) \in SocketState /\ Keeps(Now, Unmarked(Now, status))
        /\ used \ {status} \subseteq Unmarked(Now, status).used
    BY <1>1, <1>5, OthersKeep, SocketTypes
  <2> QED
    BY <1>1, <1>4, <1>10, <2>1 DEF CloseStatus
<1>11. ASSUME MarkStatus PROVE NetInv'
  <2>1. Opened(Now, statusHand) \in SocketState /\ Keeps(Now, Opened(Now, statusHand))
        /\ used \subseteq Opened(Now, statusHand).used
    BY <1>1, <1>5, OthersKeep, SocketTypes
  <2> QED
    BY <1>1, <1>4, <1>11, <2>1 DEF MarkStatus
<1>12. ASSUME SendStatus PROVE NetInv'
  <2>1. CASE UNCHANGED socketVars
    BY <1>3, <1>12, <2>1
  <2>2. CASE Become(Asked(Now, "sendto", status, TRUE))
    <3>1. /\ Asked(Now, "sendto", status, TRUE) \in SocketState
          /\ Keeps(Now, Asked(Now, "sendto", status, TRUE))
          /\ Asked(Now, "sendto", status, TRUE).used = used
      BY <1>1, <1>5, AskedKeeps, AskedTypes, Requests
    <3> QED
      BY <1>1, <1>4, <1>12, <2>2, <3>1 DEF SendStatus
  <2> QED
    BY <1>12, <2>1, <2>2 DEF SendStatus
<1>13. ASSUME LinkJoined \/ OpenCommand \/ ClearStatus \/ StatusDue \/ OpenStatus \/ AssignStatus
               \/ (CloseStatus /\ ~IsOpen(status))
      PROVE  UNCHANGED socketVars
  BY <1>13 DEF LinkJoined, OpenCommand, ClearStatus, StatusDue, OpenStatus, AssignStatus,
    CloseStatus
<1> QED
  BY <1>3, <1>6, <1>7, <1>8, <1>9, <1>10, <1>11, <1>12, <1>13 DEF StatusStep

-----------------------------------------------------------------------------
(* The steps of the two sockets for settings, and of nobody's events.        *)

LEMMA TcpStep ==
  ASSUME NetInv, NEW s \in SocketState, Keeps(Now, s), Become(s), TcpSocketsAreOpen',
         UNCHANGED <<linkVars, est, connected, command, status, hand, statusHand>>,
         {listening', data'} \subseteq Tcp \cup {None}
  PROVE  NetInv'
<1>1. Now' = s /\ NetworkingType /\ LinkInv /\ ZeroInv /\ AnswerInv
  BY DEF Become, Now, NetInv, SocketState
<1>2. NetworkingType'
  BY <1>1 DEF NetworkingType, linkVars
<1>3. LinkInv'
  BY <1>1 DEF LinkInv, linkVars
<1>4. ZeroInv' /\ AnswerInv'
  BY <1>1, KeptReplies DEF linkVars
<1> QED
  BY <1>2, <1>3, <1>4 DEF NetInv

LEMMA SettingsSteps ==
  ASSUME NetInv,
         \/ \E r \in replies :
              \/ Bound(r) \/ BindFails(r) \/ Listens(r) \/ ListenFails(r) \/ Accepted(r)
              \/ Transferred(r) \/ TransferFails(r) \/ Ignored(r) \/ Forgotten(r)
         \/ CloseSettings \/ OpenSettings
  PROVE  NetInv'
<1>1. /\ NetworkingType /\ Now \in SocketState /\ Now.used = used /\ Now.replies = replies
      /\ {est, listening, data} \subseteq Handle \cup {None} /\ est \in Tcp \cup {None}
      /\ {listening, data} \subseteq Tcp \cup {None}
      /\ TcpSocketsAreOpen
      /\ None \notin Handle /\ Tcp \subseteq Handle /\ None \notin used
  BY Handles DEF NetInv, NetworkingType, Now, Handle, SocketState
<1> USE DEF linkVars, tcpVars, sharedVars, wincVars, statusVars, Goto
<1>2. ASSUME NEW s \in SocketState, Keeps(Now, s), Become(s), TcpSocketsAreOpen',
             UNCHANGED <<linkVars, est, connected, command, status, hand, statusHand>>,
             {listening', data'} \subseteq Tcp \cup {None}
      PROVE  NetInv'
  BY <1>2, TcpStep
<1>3. ASSUME NEW s \in SocketState, Become(s) PROVE used' = s.used
  BY <1>3 DEF Become
<1>4. ASSUME NEW r \in replies, r.sock # est \/ ~Establishing(r) \/ r.session = "closed"
      PROVE  /\ Arrived(Now, r) \in SocketState /\ Keeps(Now, Arrived(Now, r))
             /\ Arrived(Now, r).used = used
  <2>1. r \in Reply
    BY <1>1 DEF SocketState
  <2> QED
    BY <1>1, <1>4, <2>1, ArrivedType, ArrivedKeeps DEF Answering
<1>5. ASSUME NEW s \in SocketState, Keeps(Now, s),
             NEW h \in Handle \cup {None}, h # est \/ h = None
      PROVE  /\ Closed(s, h) \in SocketState /\ Keeps(Now, Closed(s, h))
             /\ s.used \ {h} \subseteq Closed(s, h).used
  BY <1>1, <1>5, SocketTypes, OthersKeep, KeepsTrans
<1>6. ASSUME NEW s \in SocketState, Keeps(Now, s), NEW h, h = Free(s, Tcp),
             est \in s.used \cup {None}, NEW sent \in BOOLEAN
      PROVE  /\ h \in (Tcp \ s.used) \cup {None}
             /\ Asked(Opened(s, h), "bind", h, sent) \in SocketState
             /\ Keeps(Now, Asked(Opened(s, h), "bind", h, sent))
             /\ s.used \subseteq Asked(Opened(s, h), "bind", h, sent).used
             /\ h # None => h \in Asked(Opened(s, h), "bind", h, sent).used
  <2>1. h \in (Tcp \ s.used) \cup {None} /\ h \in Handle \cup {None} /\ (h # est \/ h = None)
    BY <1>1, <1>6, FreeHandles
  <2>2. /\ Opened(s, h) \in SocketState /\ Keeps(Now, Opened(s, h))
        /\ s.used \subseteq Opened(s, h).used /\ (h # None => h \in Opened(s, h).used)
    BY <1>1, <1>6, <2>1, SocketTypes, OthersKeep, KeepsTrans
  <2>3. /\ Asked(Opened(s, h), "bind", h, sent) \in SocketState
        /\ Asked(Opened(s, h), "bind", h, sent).used = Opened(s, h).used
        /\ Keeps(Now, Asked(Opened(s, h), "bind", h, sent))
    <3> DEFINE o == Opened(s, h)
    <3>1. o \in SocketState /\ Keeps(Now, o)
      BY <2>2
    <3> HIDE DEF o
    <3>2. Asked(o, "bind", h, sent) \in SocketState /\ Asked(o, "bind", h, sent).used = o.used
      BY <3>1, AskedTypes, Requests
    <3>3. Keeps(o, Asked(o, "bind", h, sent))
      BY <2>1, <3>1, AskedKeeps
    <3>4. Keeps(Now, Asked(o, "bind", h, sent))
      BY <3>1, <3>3, KeepsTrans
    <3> QED
      BY <3>2, <3>4 DEF o
  <2> QED
    BY <2>1, <2>2, <2>3
<1>7. ASSUME NEW r \in replies, Bound(r) \/ Listens(r) PROVE NetInv'
  <2>1. r.sock # est /\ (listening # est \/ listening = None)
    BY <1>1, <1>7, OwnerOf DEF Bound, Listens, Event
  <2>2. PICK op \in {"listen", "accept"}, sent \in BOOLEAN :
          Become(Asked(Arrived(Now, r), op, listening, sent))
    BY <1>7, SentOrNot DEF Bound, Listens
  <2> DEFINE s == Asked(Arrived(Now, r), op, listening, sent)
  <2>3. s \in SocketState /\ Keeps(Now, s) /\ s.used = used
    <3>1. /\ Arrived(Now, r) \in SocketState /\ Keeps(Now, Arrived(Now, r))
          /\ Arrived(Now, r).used = used /\ listening \in Handle \cup {None}
      BY <1>1, <1>4, <2>1
    <3>2. s \in SocketState /\ s.used = used
      BY <3>1, AskedTypes, Requests
    <3>3. Keeps(Arrived(Now, r), s)
      BY <1>1, <2>1, <3>1, AskedKeeps
    <3> QED
      BY <3>1, <3>2, <3>3, KeepsTrans
  <2>4. UNCHANGED <<linkVars, tcpVars, sharedVars, wincVars, statusVars>>
    BY <1>7 DEF Bound, Listens
  <2>5. TcpSocketsAreOpen'
    BY <1>1, <1>3, <2>2, <2>3, <2>4 DEF TcpSocketsAreOpen
  <2> QED
    BY <1>1, <1>2, <2>2, <2>3, <2>4, <2>5
<1>8. ASSUME NEW r \in replies, BindFails(r) PROVE NetInv'
  <2>1. r.sock # est /\ r.sock = listening
    BY <1>8, OwnerOf DEF BindFails, Event
  <2>2. /\ Arrived(Now, r) \in SocketState /\ Keeps(Now, Arrived(Now, r))
        /\ Arrived(Now, r).used = used
    BY <1>4, <2>1
  <2> DEFINE s == Closed(Arrived(Now, r), listening)
  <2>3. s \in SocketState /\ Keeps(Now, s) /\ used \ {listening} \subseteq s.used
    BY <1>1, <1>5, <2>1, <2>2
  <2>4. Become(s) /\ listening' = None /\ UNCHANGED <<linkVars, est, data, sharedVars, wincVars, statusVars>>
    BY <1>8 DEF BindFails
  <2>5. TcpSocketsAreOpen'
    BY <1>1, <1>3, <2>1, <2>3, <2>4 DEF TcpSocketsAreOpen
  <2> QED
    BY <1>1, <1>2, <2>3, <2>4, <2>5
<1>9. ASSUME NEW r \in replies, ListenFails(r) PROVE NetInv'
  <2>1. r.sock # est /\ r.sock = listening
    BY <1>9, OwnerOf DEF ListenFails, Event
  <2>2. /\ Arrived(Now, r) \in SocketState /\ Keeps(Now, Arrived(Now, r))
        /\ Arrived(Now, r).used = used
    BY <1>4, <2>1
  <2> DEFINE c == Closed(Arrived(Now, r), listening)
             h == Free(c, Tcp)
  <2>0. PICK sent \in BOOLEAN : Become(Asked(Opened(c, h), "bind", h, sent))
    BY <1>9, SentOrNot DEF ListenFails, OpenListening
  <2> DEFINE s == Asked(Opened(c, h), "bind", h, sent)
  <2>3. c \in SocketState /\ Keeps(Now, c) /\ used \ {listening} \subseteq c.used
    BY <1>1, <1>5, <2>1, <2>2
  <2>4. est \in c.used \cup {None}
    BY <1>1, <2>1, <2>3 DEF TcpSocketsAreOpen
  <2>5. /\ h \in (Tcp \ c.used) \cup {None} /\ s \in SocketState /\ Keeps(Now, s)
        /\ c.used \subseteq s.used /\ (h # None => h \in s.used)
    BY <1>6, <2>3, <2>4
  <2>6. Become(s) /\ listening' = h /\ UNCHANGED <<linkVars, est, data, sharedVars, wincVars, statusVars>>
    BY <1>9, <2>0 DEF ListenFails, OpenListening
  <2>7. TcpSocketsAreOpen'
    <3> HIDE DEF c, h, s
    <3> QED
      BY <1>1, <1>3, <2>1, <2>3, <2>5, <2>6 DEF TcpSocketsAreOpen
  <2> QED
    BY <1>1, <1>2, <2>5, <2>6, <2>7
<1>10. ASSUME NEW r \in replies, Accepted(r) PROVE NetInv'
  <2>1. r.sock # est
    BY <1>10, OwnerOf DEF Accepted, Event
  <2>2. /\ Arrived(Now, r) \in SocketState /\ Keeps(Now, Arrived(Now, r))
        /\ Arrived(Now, r).used = used
    BY <1>4, <2>1
  <2>3. PICK h \in (Tcp \ used) \cup {None} : data' = h
    BY <1>10 DEF Accepted, NewConnections
  <2>4. h \in Handle \cup {None} /\ (h # est \/ h = None)
    BY <1>1, <2>3 DEF TcpSocketsAreOpen
  <2> DEFINE m == Marked(Arrived(Now, r), h)
  <2>0. PICK sent \in BOOLEAN : Become(Receiving(m, h, sent))
    BY <1>10, <2>3, SentOrNot DEF Accepted
  <2> DEFINE s == Receiving(m, h, sent)
  <2>5. m \in SocketState /\ Keeps(Now, m) /\ used \subseteq m.used /\ (h # None => h \in m.used)
    BY <1>1, <2>2, <2>4, SocketTypes, OthersKeep, KeepsTrans
  <2>6. s \in SocketState /\ Keeps(Now, s) /\ s.used = m.used
    BY <1>1, <2>4, <2>5, ReceivingTypes, ReceivingKeeps, KeepsTrans
  <2>7. Become(s) /\ UNCHANGED <<linkVars, est, listening, sharedVars, wincVars, statusVars>>
    BY <1>10, <2>0, <2>3 DEF Accepted
  <2>8. TcpSocketsAreOpen'
    <3> HIDE DEF m, s
    <3> QED
      BY <1>1, <1>3, <2>3, <2>5, <2>6, <2>7 DEF TcpSocketsAreOpen
  <2> QED
    BY <1>1, <1>2, <2>3, <2>6, <2>7, <2>8
<1>11. ASSUME NEW r \in replies, Transferred(r) PROVE NetInv'
  <2>1. r.sock # est /\ r.sock = data
    BY <1>11, OwnerOf DEF Transferred, Event
  <2>2. /\ Arrived(Now, r) \in SocketState /\ Keeps(Now, Arrived(Now, r))
        /\ Arrived(Now, r).used = used
    BY <1>4, <2>1
  <2> DEFINE s == Closed(Arrived(Now, r), data)
  <2>3. s \in SocketState /\ Keeps(Now, s) /\ used \ {data} \subseteq s.used
    BY <1>1, <1>5, <2>1, <2>2
  <2>4. /\ Become(s) /\ data' = None
        /\ UNCHANGED <<linkVars, est, listening, connected, command, status, wincVars, statusVars>>
    BY <1>11 DEF Transferred
  <2>5. TcpSocketsAreOpen'
    BY <1>1, <1>3, <2>1, <2>3, <2>4 DEF TcpSocketsAreOpen
  <2> QED
    BY <1>1, <1>2, <2>3, <2>4, <2>5
<1>12. ASSUME NEW r \in replies, TransferFails(r) PROVE NetInv'
  <2>1. r.sock # est
    BY <1>12, OwnerOf DEF TransferFails, Event
  <2>2. /\ Arrived(Now, r) \in SocketState /\ Keeps(Now, Arrived(Now, r))
        /\ Arrived(Now, r).used = used
    BY <1>4, <2>1
  <2>3. /\ Become(Arrived(Now, r))
        /\ UNCHANGED <<linkVars, tcpVars, sharedVars, wincVars, statusVars>>
    BY <1>12 DEF TransferFails
  <2>4. TcpSocketsAreOpen'
    BY <1>1, <1>3, <2>2, <2>3 DEF TcpSocketsAreOpen
  <2> QED
    BY <1>1, <1>2, <2>2, <2>3, <2>4
<1>13. ASSUME NEW r \in replies, Ignored(r) PROVE NetInv'
  <2>1. r.sock # est \/ ~Establishing(r) \/ r.session = "closed"
    BY <1>13, OwnerOf DEF Ignored, SessionHolds, Understood, Establishing
  <2>2. /\ Arrived(Now, r) \in SocketState /\ Keeps(Now, Arrived(Now, r))
        /\ Arrived(Now, r).used = used
    BY <1>4, <2>1
  <2>3. UNCHANGED <<linkVars, tcpVars, sharedVars, wincVars, statusVars>>
    BY <1>13 DEF Ignored
  <2>4. ASSUME NEW s \in SocketState, Keeps(Now, s), used \subseteq s.used, Become(s)
        PROVE  NetInv'
    <3>1. TcpSocketsAreOpen'
      BY <1>1, <1>3, <2>3, <2>4 DEF TcpSocketsAreOpen
    <3> QED
      BY <1>1, <1>2, <2>3, <2>4, <3>1
  <2>5. ASSUME NEW h \in NewConnections
        PROVE  /\ Marked(Arrived(Now, r), h) \in SocketState
               /\ Keeps(Now, Marked(Arrived(Now, r), h))
               /\ used \subseteq Marked(Arrived(Now, r), h).used
    <3>1. h \in Handle \cup {None} /\ (h # est \/ h = None)
      BY <1>1 DEF NewConnections, TcpSocketsAreOpen
    <3> QED
      BY <1>1, <2>2, <3>1, SocketTypes, OthersKeep, KeepsTrans
  <2>6. CASE Become(Arrived(Now, r))
    BY <2>2, <2>4, <2>6
  <2>7. ASSUME NEW h \in NewConnections, Become(Marked(Arrived(Now, r), h)) PROVE NetInv'
    BY <2>4, <2>5, <2>7
  <2> QED
    BY <1>13, <2>6, <2>7 DEF Ignored
<1>14. ASSUME NEW r \in replies, Forgotten(r) PROVE NetInv'
  <2>1. /\ replies' = replies \ {r} /\ r \in Reply
        /\ silent' = silent \cup {h \in {r.sock} : r.session = "lost" /\ r.op \notin {"accept", "sendto"}}
        /\ UNCHANGED <<used, receiving, linkVars, tcpVars, sharedVars, wincVars, statusVars>>
    BY <1>1, <1>14 DEF Forgotten, SocketState
  <2>2. TcpSocketsAreOpen' /\ LinkInv'
    BY <1>1, <2>1 DEF TcpSocketsAreOpen, LinkInv, NetInv
  <2>3. NetworkingType'
    BY <1>1, <2>1 DEF NetworkingType, Now, SocketState, Reply
  <2>4. ZeroInv'
    BY <2>1 DEF NetInv, ZeroInv
  <2>5. est \notin silent' => est \notin silent /\ ~Answering(r)
    BY <1>14, <2>1 DEF Answering, Establishing, Forgotten, Reply
  <2>6. \A q : Answering(q)' <=> Answering(q)
    BY <2>1 DEF Answering, Establishing
  <2>7. AnswerInv'
    BY <2>1, <2>5, <2>6 DEF NetInv, AnswerInv
  <2> QED
    BY <2>2, <2>3, <2>4, <2>7 DEF NetInv
<1>15. ASSUME CloseSettings PROVE NetInv'
  <2> DEFINE c == IF IsOpen(listening) THEN Closed(Now, listening) ELSE Now
             s == IF IsOpen(data) THEN Closed(c, data) ELSE c
  <2>1. /\ IsOpen(listening) => listening \in Handle /\ listening # est
        /\ IsOpen(data) => data \in Handle /\ data # est
    BY <1>1, Handles DEF IsOpen, None, TcpSocketsAreOpen
  <2>2. c \in SocketState /\ Keeps(Now, c)
        /\ (IF IsOpen(listening) THEN used \ {listening} \subseteq c.used ELSE used \subseteq c.used)
    BY <1>1, <1>5, <2>1, SameSockets
  <2>3. s \in SocketState /\ Keeps(Now, s)
        /\ (IF IsOpen(data) THEN c.used \ {data} \subseteq s.used ELSE c.used \subseteq s.used)
    <3> HIDE DEF c
    <3> QED
      BY <1>1, <1>5, <2>1, <2>2
  <2>4. /\ Become(s)
        /\ listening' = (IF IsOpen(listening) THEN None ELSE listening)
        /\ data' = (IF IsOpen(data) THEN None ELSE data)
        /\ UNCHANGED <<linkVars, est, sharedVars, hand, statusVars>>
    BY <1>15 DEF CloseSettings
  <2>5. TcpSocketsAreOpen'
    <3> HIDE DEF c, s
    <3> QED
      BY <1>1, <1>3, <2>1, <2>2, <2>3, <2>4 DEF TcpSocketsAreOpen
  <2> QED
    BY <1>1, <1>2, <2>3, <2>4, <2>5
<1>16. ASSUME OpenSettings PROVE NetInv'
  <2> DEFINE h == Free(Now, Tcp)
  <2>0. PICK sent \in BOOLEAN : Become(Asked(Opened(Now, h), "bind", h, sent))
    BY <1>16, SentOrNot DEF OpenSettings, OpenListening
  <2> DEFINE s == Asked(Opened(Now, h), "bind", h, sent)
  <2>1. /\ h \in (Tcp \ used) \cup {None} /\ s \in SocketState /\ Keeps(Now, s)
        /\ used \subseteq s.used /\ (h # None => h \in s.used)
    BY <1>1, <1>6, SameSockets DEF TcpSocketsAreOpen
  <2>2. Become(s) /\ listening' = h /\ UNCHANGED <<linkVars, est, data, sharedVars, hand, statusVars>>
    BY <1>16, <2>0 DEF OpenSettings, OpenListening
  <2>3. TcpSocketsAreOpen'
    <3> HIDE DEF h, s
    <3> QED
      BY <1>1, <1>3, <2>1, <2>2 DEF TcpSocketsAreOpen
  <2> QED
    BY <1>1, <1>2, <2>1, <2>2, <2>3
<1> QED
  BY <1>7, <1>8, <1>9, <1>10, <1>11, <1>12, <1>13, <1>14, <1>15, <1>16

-----------------------------------------------------------------------------
(* The steps that establish a connection. *)

LEMMA AddressStep == NetInv /\ AddressReceived => NetInv'
<1> SUFFICES ASSUME NetInv, AddressReceived PROVE NetInv'
  OBVIOUS
<1>1. /\ NetworkingType /\ TcpSocketsAreOpen /\ LinkInv /\ ZeroInv /\ AnswerInv
      /\ Now \in SocketState /\ Now.used = used /\ Now.replies = replies /\ Now.receiving = receiving
      /\ None \notin Handle /\ Tcp \subseteq Handle /\ Handle \subseteq Nat
  BY Handles DEF NetInv, NetworkingType, Now, Handle
<1>2. /\ link = "joined" /\ link' = "up"
      /\ UNCHANGED <<listening, data, connected, command, status, hand, statusHand>>
  BY DEF AddressReceived, sharedVars, wincVars, statusVars
<1>3. CASE est # None
  <2>1. UNCHANGED <<used, receiving, replies, silent, est, leaving>> /\ Now' = Now
    BY <1>3 DEF AddressReceived, socketVars, Now
  <2>2. NetworkingType' /\ TcpSocketsAreOpen'
    BY <1>1, <1>2, <2>1 DEF NetworkingType, TcpSocketsAreOpen
  <2>3. LinkInv'
    BY <1>1, <1>2, <1>3, <2>1 DEF LinkInv
  <2>4. ZeroInv' /\ AnswerInv'
    BY <1>1, <1>2, <2>1 DEF ZeroInv, AnswerInv, Answering, Establishing
  <2> QED
    BY <2>2, <2>3, <2>4 DEF NetInv
<1>4. CASE est = None
  <2> DEFINE h == Free(Now, Tcp)
             o == Opened(Now, h)
  <2>1. h \in (Tcp \ used) \cup {None} /\ h \in Handle \cup {None}
    BY <1>1, FreeHandles
  <2>2. o \in SocketState /\ o.used = used \cup ({h} \ {None})
    <3>1. o \in SocketState
      BY <1>1, <2>1, SocketTypes
    <3>2. o.used = used \cup ({h} \ {None})
      BY <1>1 DEF Opened
    <3> QED
      BY <3>1, <3>2
  <2>3. \A r \in replies : ~AtZero("connect", r)
    BY <1>1, <1>4 DEF ZeroInv, None
  <2>4. replies \in SUBSET Reply
    BY <1>1 DEF SocketState
  <2> HIDE DEF h
  <2>5. ASSUME NEW s \in SocketState, Become(s), est' \in {h, None}, est' # None => est' \in s.used,
               used \subseteq s.used, est' # None \/ leaving'
        PROVE  NetworkingType' /\ TcpSocketsAreOpen' /\ LinkInv'
    <3>1. Now' = s /\ used' = s.used
      BY <2>5 DEF Become, Now, SocketState
    <3> QED
      BY <1>1, <1>2, <2>1, <2>5, <3>1 DEF NetworkingType, TcpSocketsAreOpen, LinkInv
  <2>6. CASE h # None /\ est' = h /\ Become(Asked(o, "connect", h, TRUE))
    <3> DEFINE s == Asked(o, "connect", h, TRUE)
    <3>1. s \in SocketState /\ s.used = o.used
      <4> HIDE DEF o
      <4> QED
        BY <2>1, <2>2, AskedTypes, Requests
    <3>2. /\ s.replies = Ended(replies, h) \cup {Live("connect", h)}
          /\ s.receiving = receiving \ {h}
      BY <1>1, <2>6 DEF Opened, Asked, SocketState
    <3> HIDE DEF s
    <3>3. /\ replies' = Ended(replies, h) \cup {Live("connect", h)}
          /\ receiving' = receiving \ {h} /\ replies' \in SUBSET Reply
      BY <2>6, <3>1, <3>2 DEF Become, SocketState, s
    <3>4. \A r \in replies' : AtZero("connect", r) => r = Live("connect", h)
      BY <2>3, <2>4, <3>3, EndedReplies DEF AtZero
    <3>5. \A r \in replies' : r.op = "recv" /\ r.sock = h => r.session = "closed"
      BY <2>4, <3>3, EndedReplies DEF Live
    <3>6. ZeroInv'
      BY <1>2, <2>6, <3>4, <3>5 DEF ZeroInv, AtZero, Live
    <3>7. AnswerInv'
      <4>1. Live("connect", h) \in replies' /\ est' \notin receiving'
        BY <2>6, <3>3
      <4>2. /\ Live("connect", h).sock = h /\ Live("connect", h).session = "live"
            /\ Live("connect", h).op = "connect"
        BY DEF Live
      <4> QED
        BY <2>6, <4>1, <4>2 DEF AnswerInv, Answering, Establishing
    <3>8. NetworkingType' /\ TcpSocketsAreOpen' /\ LinkInv'
      BY <2>2, <2>5, <2>6, <3>1 DEF s
    <3> QED
      BY <3>6, <3>7, <3>8 DEF NetInv
  <2>7. CASE est' = None /\ leaving' = TRUE /\ Become(Closed(o, h))
    <3> DEFINE s == Closed(o, h)
    <3>1. s \in SocketState /\ used \subseteq s.used
      <4> HIDE DEF o
      <4>1. s \in SocketState /\ o.used \ {h} \subseteq s.used
        BY <2>1, <2>2, SocketTypes
      <4>2. None \notin used
        BY <1>1 DEF SocketState
      <4> QED
        BY <2>1, <2>2, <4>1, <4>2
    <3>2. /\ \A r \in s.replies : ~AtZero("connect", r)
      <4>1. o.replies \in {replies, Ended(replies, h)}
        BY <1>1 DEF Opened
      <4>2. o.replies \in SUBSET Reply /\ \A r \in o.replies : ~AtZero("connect", r)
        BY <2>2, <2>3, <2>4, <4>1, EndedReplies DEF AtZero, SocketState
      <4> HIDE DEF o
      <4>3. s.replies \in {o.replies, Ended(o.replies, h)}
        BY <2>2 DEF Closed, Wiped, SocketState
      <4>4. s.replies \in SUBSET Reply
        BY <3>1 DEF SocketState
      <4> QED
        BY <4>2, <4>3, <4>4, EndedReplies DEF AtZero
    <3> HIDE DEF s
    <3>3. replies' = s.replies
      BY <2>7 DEF Become, s
    <3>4. ZeroInv' /\ AnswerInv'
      BY <1>2, <2>7, <3>2, <3>3 DEF ZeroInv, AnswerInv, None
    <3>5. NetworkingType' /\ TcpSocketsAreOpen' /\ LinkInv'
      BY <2>5, <2>7, <3>1 DEF s
    <3> QED
      BY <3>4, <3>5 DEF NetInv
  <2> QED
    BY <1>4, <2>6, <2>7 DEF AddressReceived, h
<1> QED
  BY <1>3, <1>4

LEMMA ConnectedStep ==
  ASSUME NetInv, NEW r \in replies, Connected(r)
  PROVE  NetInv'
<1> DEFINE a == Arrived(Now, r)
<1>1. /\ NetworkingType /\ TcpSocketsAreOpen /\ LinkInv /\ ZeroInv /\ AnswerInv
      /\ Now \in SocketState /\ replies \in SUBSET Reply
      /\ None \notin Handle /\ Handle \subseteq Nat
  BY Handles DEF NetInv, NetworkingType, Now, SocketState
<1>2. /\ r.sock = est /\ r.op = "connect" /\ r.session # "lost"
      /\ UNCHANGED <<linkVars, tcpVars, sharedVars, wincVars, statusVars>>
  BY OwnerOf DEF Connected, Event, MaySucceed
<1>0. PICK sent \in BOOLEAN : Become(Receiving(a, est, sent))
  BY SentOrNot DEF Connected
<1> DEFINE s == Receiving(a, est, sent)
<1>3. r \in Reply /\ est \in Handle /\ est \in used
  BY <1>1, <1>2 DEF Reply, TcpSocketsAreOpen
<1>4. /\ a \in SocketState /\ a.used = used /\ a.replies = replies \ {r}
      /\ a.receiving = receiving /\ a.silent = silent
  BY <1>1, <1>2, <1>3, ArrivedType DEF Arrived, Now
<1>5. s \in SocketState /\ s.used = used
  BY <1>3, <1>4, ReceivingTypes
<1>6. /\ s.replies = IF est \in receiving \/ ~sent THEN replies \ {r}
                     ELSE (replies \ {r}) \cup {Live("recv", est)}
      /\ s.receiving = receiving \cup {est}
      /\ s.silent = IF est \in receiving \/ sent THEN silent ELSE silent \cup {est}
  BY <1>3, <1>4 DEF Receiving, Asked, SocketState
<1> HIDE DEF a, s
<1>7. Now' = s /\ used' = used /\ replies' = s.replies /\ receiving' = s.receiving
      /\ silent' = s.silent
  <2>1. Become(s)
    BY <1>0 DEF s
  <2> QED
    BY <1>5, <2>1 DEF Become, Now, SocketState
<1>8. UNCHANGED <<link, leaving, connected, est, listening, data, command, status, hand, statusHand>>
  BY <1>2 DEF linkVars, tcpVars, sharedVars, wincVars, statusVars
<1>9. NetworkingType' /\ TcpSocketsAreOpen'
  BY <1>1, <1>5, <1>7, <1>8 DEF NetworkingType, TcpSocketsAreOpen
<1>10. LinkInv'
  BY <1>1, <1>8 DEF LinkInv
<1>11. \A q \in replies' : q.op = "connect" => q \in replies /\ q # r
  BY <1>6, <1>7 DEF Live
<1>12. \A q \in replies' : ~AtZero("connect", q)
  BY <1>1, <1>2, <1>11 DEF ZeroInv, AtZero
<1>13. ~(est = 0 /\ link # "up")
  BY <1>1, <1>2, <1>3 DEF ZeroInv, AtZero, Reply
<1>14. ZeroInv'
  BY <1>8, <1>12, <1>13 DEF ZeroInv
<1>15. AnswerInv'
  <2>1. /\ Live("recv", est).sock = est /\ Live("recv", est).session = "live"
        /\ Live("recv", est).op = "recv"
    BY DEF Live
  <2>2. est \notin silent' =>
          \E q \in replies' : q.sock = est /\ q.session # "closed" /\ q.op = "recv"
    <3>1. CASE est \in receiving
      BY <1>1, <1>2, <1>3, <1>6, <1>7, <3>1 DEF AnswerInv, Answering
    <3>2. CASE est \notin receiving
      BY <1>6, <1>7, <2>1, <3>2
    <3> QED
      BY <3>1, <3>2
  <2> QED
    BY <1>8, <2>2 DEF AnswerInv, Answering, Establishing
<1> QED
  BY <1>9, <1>10, <1>14, <1>15 DEF NetInv

LEMMA EstablishEnds ==
  ASSUME NetInv, NEW r \in replies, EstablishFails(r) \/ Established(r)
  PROVE  NetInv'
<1> DEFINE a == Arrived(Now, r)
           s == Closed(a, est)
<1>1. /\ NetworkingType /\ TcpSocketsAreOpen /\ LinkInv /\ ZeroInv /\ AnswerInv
      /\ Now \in SocketState /\ replies \in SUBSET Reply
      /\ None \notin Handle /\ Handle \subseteq Nat
  BY Handles DEF NetInv, NetworkingType, Now, SocketState
<1>2. /\ r.sock = est /\ r.op \in {"connect", "recv"} /\ (r.op = "recv" => r.session # "closed")
      /\ Become(s) /\ est' = None
      /\ UNCHANGED <<link, listening, data, command, status, hand, statusHand>>
  BY OwnerOf DEF EstablishFails, Established, Event, SessionHolds, linkVars, sharedVars,
    wincVars, statusVars
<1>3. r \in Reply /\ est \in Handle /\ est \in used
  BY <1>1, <1>2 DEF Reply, TcpSocketsAreOpen
<1>4. a \in SocketState /\ a.used = used /\ a.replies = replies \ {r}
  BY <1>1, <1>2, <1>3, ArrivedType DEF Arrived, Now
<1>5. /\ s \in SocketState /\ used \ {est} \subseteq s.used
      /\ s.replies = Ended(replies \ {r}, est)
  <2>1. s \in SocketState /\ used \ {est} \subseteq s.used
    BY <1>3, <1>4, SocketTypes
  <2>2. s.replies = Ended(replies \ {r}, est)
    BY <1>3, <1>4 DEF Closed, Wiped, SocketState
  <2> QED
    BY <2>1, <2>2
<1> HIDE DEF a, s
<1>6. Now' = s /\ used' = s.used /\ replies' = s.replies /\ receiving' = s.receiving
  BY <1>2, <1>5 DEF Become, Now, SocketState
<1>7. NetworkingType' /\ TcpSocketsAreOpen'
  BY <1>1, <1>2, <1>5, <1>6 DEF NetworkingType, TcpSocketsAreOpen
<1>8. LinkInv'
  <2>1. CASE EstablishFails(r)
    BY <1>1, <1>2, <2>1 DEF EstablishFails, LinkInv, sharedVars
  <2>2. CASE Established(r)
    <3>1. r.op = "recv" /\ r.session = "live" /\ connected' /\ leaving' = leaving
      BY <1>2, <1>3, <2>2 DEF Established, Event, MaySucceed, Reply, linkVars
    <3>2. link = "up"
      BY <1>1, <1>2, <1>3, <3>1 DEF LinkInv, ZeroInv, AtZero
    <3> QED
      BY <1>2, <3>1, <3>2 DEF LinkInv
  <2> QED
    BY <2>1, <2>2
<1>9. \A q \in replies' : ~AtZero("connect", q)
  <2>1. replies \ {r} \in SUBSET Reply /\ replies' \in SUBSET Reply
    BY <1>1, <1>5, <1>6 DEF SocketState
  <2>2. \A q \in replies \ {r} : ~AtZero("connect", q)
    BY <1>1, <1>2 DEF ZeroInv, AtZero
  <2> QED
    BY <1>5, <1>6, <2>1, <2>2, EndedReplies DEF AtZero
<1>10. ZeroInv' /\ AnswerInv'
  BY <1>2, <1>9 DEF ZeroInv, AnswerInv, None
<1> QED
  BY <1>7, <1>8, <1>10 DEF NetInv

(* The replies when the link is lost: none is live any more.                 *)
LostOnes(rs) == {IF r.session = "live" THEN [r EXCEPT !.session = "lost"] ELSE r : r \in rs}

LEMMA LostReplies ==
  ASSUME NEW rs \in SUBSET Reply
  PROVE  /\ LostOnes(rs) \in SUBSET Reply
         /\ \A r \in LostOnes(rs) : r.session # "live"
         /\ \A r \in LostOnes(rs) : \E q \in rs :
              /\ q.op = r.op /\ q.sock = r.sock
              /\ r = IF q.session = "live" THEN [q EXCEPT !.session = "lost"] ELSE q
              /\ r.session = "closed" <=> q.session = "closed"
         /\ \A q \in rs : q.session # "closed" => \E r \in LostOnes(rs) :
              r.session # "closed" /\ r.op = q.op /\ r.sock = q.sock
<1>1. \A q \in Reply : /\ [q EXCEPT !.session = "lost"] \in Reply
                       /\ [q EXCEPT !.session = "lost"].sock = q.sock
                       /\ [q EXCEPT !.session = "lost"].op = q.op
                       /\ [q EXCEPT !.session = "lost"].session = "lost"
  BY DEF Reply
<1>2. \A r : r \in LostOnes(rs) <=>
        \E q \in rs : r = IF q.session = "live" THEN [q EXCEPT !.session = "lost"] ELSE q
  BY DEF LostOnes
<1>3. ASSUME NEW r \in LostOnes(rs)
      PROVE  /\ r \in Reply /\ r.session # "live"
             /\ \E q \in rs :
                  /\ q.op = r.op /\ q.sock = r.sock
                  /\ r = IF q.session = "live" THEN [q EXCEPT !.session = "lost"] ELSE q
                  /\ r.session = "closed" <=> q.session = "closed"
  <2>1. PICK q \in rs : r = IF q.session = "live" THEN [q EXCEPT !.session = "lost"] ELSE q
    BY <1>2
  <2>2. CASE q.session = "live"
    <3>1. r = [q EXCEPT !.session = "lost"] /\ q \in Reply
      BY <2>1, <2>2
    <3>2. /\ r \in Reply /\ r.session = "lost" /\ r.op = q.op /\ r.sock = q.sock
      BY <1>1, <3>1
    <3> QED
      BY <2>1, <2>2, <3>2
  <2>3. CASE q.session # "live"
    BY <2>1, <2>3
  <2> QED
    BY <2>2, <2>3
<1>4. ASSUME NEW q \in rs, q.session # "closed"
      PROVE  \E r \in LostOnes(rs) : r.session # "closed" /\ r.op = q.op /\ r.sock = q.sock
  <2> DEFINE r == IF q.session = "live" THEN [q EXCEPT !.session = "lost"] ELSE q
  <2>1. r \in LostOnes(rs)
    BY <1>2
  <2>2. r.session # "closed" /\ r.op = q.op /\ r.sock = q.sock
    BY <1>1, <1>4
  <2> QED
    BY <2>1, <2>2
<1> QED
  BY <1>3, <1>4

LEMMA LostStep == NetInv /\ LinkLost => NetInv'
<1> SUFFICES ASSUME NetInv, LinkLost PROVE NetInv'
  OBVIOUS
<1> DEFINE lost == [Now EXCEPT !.replies =
                      {IF r.session = "live" THEN [r EXCEPT !.session = "lost"] ELSE r : r \in @}]
           c == IF IsOpen(est) THEN Closed(lost, est) ELSE lost
           s == IF IsOpen(command) THEN Unmarked(c, command) ELSE c
<1>1. /\ NetworkingType /\ TcpSocketsAreOpen /\ ZeroInv /\ AnswerInv
      /\ Now \in SocketState /\ replies \in SUBSET Reply
      /\ Now.used = used /\ Now.replies = replies /\ Now.receiving = receiving
      /\ Now.silent = silent
      /\ None \notin Handle /\ Handle \subseteq Nat /\ Tcp \cap Udp = {} /\ 0 \in Tcp
      /\ Tcp \subseteq Handle /\ Udp \subseteq Handle
  BY Handles DEF NetInv, NetworkingType, Now, SocketState, Handle
<1>2. /\ link' = "down" /\ connected' = FALSE /\ Become(s)
      /\ est' = (IF IsOpen(est) THEN None ELSE est)
      /\ hand' = (IF IsOpen(command) THEN command ELSE None)
      /\ UNCHANGED <<listening, data, command, status, statusHand>>
  BY DEF LinkLost, statusVars
<1>3. /\ IsOpen(est) => est \in Handle
      /\ ~IsOpen(est) => est \in {0, None}
      /\ IsOpen(command) => command \in Handle /\ command # 0 /\ command \notin Tcp
  <2>1. /\ est \in Tcp \cup {None} /\ command \in Udp \cup {None} /\ None = -1
        /\ est \in Int /\ command \in Int /\ Tcp \subseteq Nat
    <3>1. est \in Tcp \cup {None} /\ command \in Udp \cup {None}
      BY <1>1 DEF NetworkingType
    <3>2. None = -1 /\ Tcp \subseteq Nat /\ Udp \subseteq Nat
      BY <1>1 DEF None
    <3> QED
      BY <3>1, <3>2
  <2>2. IsOpen(est) => est \in Handle
    BY <1>1, <2>1 DEF IsOpen
  <2>3. ~IsOpen(est) => est \in {0, None}
    BY <2>1 DEF IsOpen
  <2>4. IsOpen(command) => command \in Handle /\ command # 0 /\ command \notin Tcp
    BY <1>1, <2>1 DEF IsOpen
  <2> QED
    BY <2>2, <2>3, <2>4
<1>4. /\ lost \in SocketState /\ lost.used = used
      /\ lost.receiving = receiving /\ lost.silent = silent
      /\ \A q \in replies : q.session # "closed" => \E r \in lost.replies :
           r.session # "closed" /\ r.op = q.op /\ r.sock = q.sock
      /\ \A r \in lost.replies : r.session # "live"
      /\ \A r \in lost.replies : \E q \in replies :
           /\ q.op = r.op /\ q.sock = r.sock
           /\ r = IF q.session = "live" THEN [q EXCEPT !.session = "lost"] ELSE q
           /\ r.session = "closed" <=> q.session = "closed"
  <2> DEFINE ls == LostOnes(replies)
  <2>1. lost = [used |-> used, receiving |-> receiving, replies |-> ls, silent |-> silent]
    <3> DEFINE n == Now
    <3>1. n = [used |-> used, receiving |-> receiving, replies |-> replies, silent |-> silent]
      BY DEF Now
    <3>2. n.replies = replies
      BY <3>1
    <3>3. lost = [n EXCEPT !.replies = ls]
      BY <3>2 DEF LostOnes
    <3> HIDE DEF n, ls, lost
    <3> QED
      BY <3>1, <3>3
  <2> HIDE DEF lost
  <2>2. /\ lost.used = used /\ lost.replies = ls /\ lost.receiving = receiving
        /\ lost.silent = silent
    <3> HIDE DEF ls
    <3> QED
      BY <2>1
  <2>3. /\ ls \in SUBSET Reply
        /\ \A r \in ls : r.session # "live"
        /\ \A r \in ls : \E q \in replies :
             /\ q.op = r.op /\ q.sock = r.sock
             /\ r = IF q.session = "live" THEN [q EXCEPT !.session = "lost"] ELSE q
             /\ r.session = "closed" <=> q.session = "closed"
        /\ \A q \in replies : q.session # "closed" => \E r \in ls :
             r.session # "closed" /\ r.op = q.op /\ r.sock = q.sock
    BY <1>1, LostReplies
  <2>4. lost \in SocketState
    <3> HIDE DEF ls
    <3> QED
      BY <1>1, <2>1, <2>3 DEF SocketState
  <2> QED
    BY <2>2, <2>3, <2>4
<1> HIDE DEF lost
<1>5. /\ c \in SocketState
      /\ (IF IsOpen(est) THEN used \ {est} \subseteq c.used ELSE used \subseteq c.used)
      /\ \A r \in Reply : r.sock = 0 => (r \in c.replies <=> r \in lost.replies)
      /\ (0 \in c.receiving <=> 0 \in receiving) /\ (0 \in c.silent <=> 0 \in silent)
  <2>1. CASE IsOpen(est)
    <3>1. Closed(lost, est) \in SocketState /\ lost.used \ {est} \subseteq Closed(lost, est).used
      BY <1>3, <1>4, <2>1, SocketTypes
    <3>3. est # 0
      BY <2>1, <1>3 DEF IsOpen
    <3>2. /\ \/ Closed(lost, est).replies = Ended(lost.replies, est)
             \/ Closed(lost, est).replies = lost.replies
          /\ 0 \in Closed(lost, est).receiving <=> 0 \in receiving
          /\ 0 \in Closed(lost, est).silent <=> 0 \in silent
      BY <1>4, <3>3 DEF Closed, Wiped, SocketState
    <3>4. lost.replies \in SUBSET Reply /\ Closed(lost, est).replies \in SUBSET Reply
      BY <1>4, <3>1 DEF SocketState
    <3>5. \A r \in Reply : r.sock = 0 => (r \in Closed(lost, est).replies <=> r \in lost.replies)
      BY <3>2, <3>3, <3>4, EndedReplies
    <3> QED
      BY <1>4, <2>1, <3>1, <3>2, <3>5
  <2>2. CASE ~IsOpen(est)
    BY <1>4, <2>2
  <2> QED
    BY <2>1, <2>2
<1> HIDE DEF c
<1>6. /\ s \in SocketState /\ c.used \cap Tcp \subseteq s.used
      /\ \A r \in Reply : r.sock = 0 => (r \in s.replies <=> r \in lost.replies)
      /\ (0 \in s.receiving <=> 0 \in receiving) /\ (0 \in s.silent <=> 0 \in silent)
  <2>1. CASE IsOpen(command)
    <3>1. Unmarked(c, command) \in SocketState
          /\ c.used \ {command} \subseteq Unmarked(c, command).used
      BY <1>3, <1>5, <2>1, SocketTypes
    <3>2. /\ Unmarked(c, command).replies = Ended(c.replies, command)
          /\ Unmarked(c, command).receiving = c.receiving /\ Unmarked(c, command).silent = c.silent
      BY <1>5 DEF Unmarked, SocketState
    <3>3. c.replies \in SUBSET Reply /\ Unmarked(c, command).replies \in SUBSET Reply
      BY <1>5, <3>1 DEF SocketState
    <3>4. \A r \in Reply : r.sock = 0 => (r \in Unmarked(c, command).replies <=> r \in lost.replies)
      BY <1>3, <1>5, <2>1, <3>2, <3>3, EndedReplies
    <3> QED
      BY <1>3, <1>5, <2>1, <3>1, <3>2, <3>4
  <2>2. CASE ~IsOpen(command)
    BY <1>5, <2>2
  <2> QED
    BY <2>1, <2>2
<1> HIDE DEF s
<1>7. Now' = s /\ used' = s.used /\ replies' = s.replies /\ receiving' = s.receiving
      /\ silent' = s.silent /\ replies' \in SUBSET Reply /\ lost.replies \in SUBSET Reply
  BY <1>2, <1>4, <1>6 DEF Become, Now, SocketState
<1>8. NetworkingType'
  BY <1>1, <1>2, <1>6, <1>7 DEF NetworkingType
<1>9. TcpSocketsAreOpen'
  BY <1>1, <1>2, <1>5, <1>6, <1>7 DEF NetworkingType, TcpSocketsAreOpen
<1>10. est' \in {0, None}
  BY <1>2, <1>3
<1>11. LinkInv'
  BY <1>2, <1>10 DEF LinkInv, None
<1>13. AnswerInv'
  <2>1. CASE est' = None
    BY <2>1 DEF AnswerInv
  <2>2. CASE est' # None
    <3>1. est = 0 /\ est' = 0 /\ est # None
      BY <1>2, <1>3, <1>10, <2>2 DEF IsOpen, None
    <3>2. \A q \in replies : Answering(q) => \E r \in replies' : Answering(r)' /\ r.op = q.op
      BY <1>4, <1>6, <1>7, <3>1 DEF Answering, Establishing
    <3>3. (est' \in receiving' <=> est \in receiving) /\ (est' \in silent' <=> est \in silent)
      BY <1>6, <1>7, <3>1
    <3> QED
      BY <1>1, <3>1, <3>2, <3>3 DEF AnswerInv
  <2> QED
    BY <2>1, <2>2
<1>12. ZeroInv'
  <2>1. \A r \in replies' : r.sock = 0 =>
          /\ r.session # "live"
          /\ \E q \in replies :
               /\ q.op = r.op /\ q.sock = 0
               /\ r = IF q.session = "live" THEN [q EXCEPT !.session = "lost"] ELSE q
               /\ r.session = "closed" <=> q.session = "closed"
    BY <1>4, <1>6, <1>7
  <2>2. est = 0 => est' = 0
    BY <1>2 DEF IsOpen
  <2>3. \A r \in replies' : AtZero("connect", r) => est' = 0 /\ r.session # "closed"
    BY <1>1, <2>1, <2>2 DEF ZeroInv, AtZero
  <2>4. \A r, q \in replies' : AtZero("connect", r) /\ AtZero("connect", q) => r = q
    BY <1>1, <2>1 DEF ZeroInv, AtZero
  <2>5. \A r, q \in replies' : AtZero("connect", r) /\ AtZero("recv", q) => q.session = "closed"
    BY <1>1, <2>1 DEF ZeroInv, AtZero
  <2>6. \A r \in replies' : AtZero("connect", r) \/ AtZero("recv", r) => r.session # "live"
    BY <2>1 DEF AtZero
  <2> QED
    BY <2>3, <2>4, <2>5, <2>6 DEF ZeroInv
<1> QED
  BY <1>8, <1>9, <1>11, <1>12, <1>13 DEF NetInv

-----------------------------------------------------------------------------
(* The invariant holds. *)

LEMMA NetInvInit == Init => NetInv
<1> SUFFICES ASSUME Init PROVE NetInv
  OBVIOUS
<1>1. /\ used = {} /\ receiving = {} /\ replies = {} /\ silent = {} /\ link = "down" /\ connected = FALSE
      /\ est = None /\ command = None /\ listening = None /\ data = None
      /\ status = None /\ hand = None /\ statusHand = None
  BY DEF Init, InitSockets
<1>2. NetworkingType
  BY <1>1 DEF NetworkingType, Now, SocketState
<1> QED
  BY <1>1, <1>2 DEF NetInv, TcpSocketsAreOpen, LinkInv, ZeroInv, AnswerInv, None

LEMMA NetInvNext == NetInv /\ [Next]_historyVars => NetInv'
<1> SUFFICES ASSUME NetInv, [Next]_historyVars PROVE NetInv'
  OBVIOUS
<1>1. CASE UNCHANGED historyVars
  BY <1>1 DEF historyVars, vars, socketVars, linkVars, tcpVars, sharedVars, wincVars, statusVars,
    NetInv, NetworkingType, TcpSocketsAreOpen, LinkInv, ZeroInv, AnswerInv, Answering, Establishing,
    Now
<1>2. CASE Step
  <2>1. ASSUME NEW r \in replies, SocketEvent(r) PROVE NetInv'
    BY <2>1, UdpSteps, SettingsSteps, ConnectedStep, EstablishEnds DEF SocketEvent
  <2>2. ASSUME NEW r \in replies, Forgotten(r) PROVE NetInv'
    BY <2>2, SettingsSteps
  <2>3. CASE WincStep \/ StatusStep
    BY <2>3, UdpSteps, SettingsSteps DEF WincStep
  <2> QED
    BY <1>2, <2>1, <2>2, <2>3, UdpSteps, AddressStep, LostStep DEF Step
<1> QED
  BY <1>1, <1>2 DEF Next

THEOREM NetInvHolds == Spec => []NetInv
<1> QED
  BY NetInvInit, NetInvNext, PTL DEF Spec

(* network_is_connected is up only on a link, however late the answers of the *)
(* module come and whichever handle the connection had (Networking.c:319-349).*)
THEOREM ConnectedHasLink == Spec => []ConnectedOnLink
<1>1. NetInv => ConnectedOnLink
  BY DEF NetInv, LinkInv, ConnectedOnLink
<1> QED
  BY <1>1, NetInvHolds, PTL

(* The three TCP sockets that the program holds are open and different, for  *)
(* every number of handles (Networking.c:14-17).                             *)
THEOREM TcpSocketsStayOpen == Spec => []TcpSocketsAreOpen
<1>1. NetInv => TcpSocketsAreOpen
  BY DEF NetInv
<1> QED
  BY <1>1, NetInvHolds, PTL

(* A link is in use, being established or being taken down, and the answer   *)
(* that establishes a connection is to come, unless the request failed or    *)
(* was lost with an earlier link (Networking.c:67-91, 239-254).              *)
THEOREM LinksAreUsed == Spec => []LinkIsUsed
<1>1. NetInv => LinkIsUsed
  BY DEF NetInv, LinkInv, AnswerInv, Answering, LinkIsUsed, Establishing
<1> QED
  BY <1>1, NetInvHolds, PTL

-----------------------------------------------------------------------------
(* What a call of the socket layer does to the handles and to the command    *)
(* socket.                                                                   *)

(* Which handles are in use after a call of the socket layer.                *)
LEMMA UsedHandles ==
  ASSUME NEW s \in SocketState, NEW h \in Handle \cup {None}
  PROVE  /\ Opened(s, h).used = s.used \cup ({h} \ {None})
         /\ Marked(s, h).used = s.used \cup ({h} \ {None})
         /\ Unmarked(s, h).used = s.used \ {h}
         /\ Wiped(s, h).used = s.used \ {h}
         /\ Closed(s, h).used = s.used \ {h}
<1>1. Opened(s, h) \in SocketState /\ Opened(s, h).used = s.used \cup ({h} \ {None})
  BY SocketTypes DEF Opened, SocketState
<1>2. Marked(s, h).used = s.used \cup ({h} \ {None})
  BY <1>1 DEF Marked, SocketState
<1>3. Unmarked(s, h).used = s.used \ {h}
  BY DEF Unmarked, SocketState
<1>4. Wiped(s, h).used = s.used \ {h}
  BY DEF Wiped, SocketState
<1>5. Closed(s, h).used = s.used \ {h}
  BY <1>4 DEF Closed
<1> QED
  BY <1>1, <1>2, <1>3, <1>4, <1>5

(* A reply that the command socket waits for.                                *)
Hearing(r) == r.sock = command /\ r.session = "live" /\ r.op \in {"bind", "recv"}

(* On the way from s to t nothing happened to the command socket.            *)
Hears(s, t) ==
  /\ \A r \in s.replies : Hearing(r) => r \in t.replies
  /\ command \in t.receiving => command \in s.receiving
  /\ command \in s.silent => command \in t.silent

(* What Hears says can be put together.                                      *)
LEMMA HearsTrans ==
  ASSUME NEW s, NEW t, NEW u, Hears(s, t), Hears(t, u)
  PROVE  Hears(s, u)
BY DEF Hears

(* The functions of the socket layer on any other handle.                    *)
LEMMA OthersHear ==
  ASSUME NEW s \in SocketState, NEW h \in Handle \cup {None}, h # command \/ h = None
  PROVE  /\ Hears(s, s)
         /\ Hears(s, Opened(s, h)) /\ Hears(s, Marked(s, h))
         /\ Hears(s, Unmarked(s, h)) /\ Hears(s, Wiped(s, h)) /\ Hears(s, Closed(s, h))
<1>1. s.replies \in SUBSET Reply /\ s.used \in SUBSET Handle /\ None \notin Handle
  BY Handles DEF SocketState
<1>2. ASSUME NEW t \in SocketState, t.replies = Ended(s.replies, h),
             t.receiving \subseteq s.receiving, s.silent \ {h} \subseteq t.silent
      PROVE  Hears(s, t)
  <2>1. \A r \in Reply : r.sock # h => (r \in Ended(s.replies, h) <=> r \in s.replies)
    BY <1>1, EndedReplies
  <2>2. \A r \in s.replies : Hearing(r) => r.sock # h
    BY <1>1 DEF Hearing, Reply
  <2>3. command \in s.silent => command # h
    BY <1>1 DEF SocketState
  <2> QED
    BY <1>1, <1>2, <2>1, <2>2, <2>3 DEF Hears
<1>3. Hears(s, s)
  BY DEF Hears
<1>4. Hears(s, Opened(s, h)) /\ Hears(s, Marked(s, h))
  <2>1. Opened(s, h) \in SocketState /\ Marked(s, h) \in SocketState
    BY SocketTypes
  <2>2. CASE h = None
    BY <1>3, <2>2 DEF Opened, Marked, SocketState
  <2>3. CASE h # None
    BY <1>2, <2>1, <2>3 DEF Opened, Marked
  <2> QED
    BY <2>2, <2>3
<1>5. Hears(s, Unmarked(s, h)) /\ Hears(s, Wiped(s, h))
  <2>1. Unmarked(s, h) \in SocketState /\ Wiped(s, h) \in SocketState
    BY SocketTypes
  <2>2. /\ Unmarked(s, h).replies = Ended(s.replies, h)
        /\ Unmarked(s, h).receiving = s.receiving
        /\ Wiped(s, h).replies = Ended(s.replies, h)
        /\ Wiped(s, h).receiving = s.receiving \ {h}
        /\ Unmarked(s, h).silent = s.silent /\ Wiped(s, h).silent = s.silent \ {h}
    BY DEF Unmarked, Wiped, SocketState
  <2> QED
    BY <1>2, <2>1, <2>2
<1>6. Hears(s, Closed(s, h))
  BY <1>3, <1>5 DEF Closed
<1> QED
  BY <1>3, <1>4, <1>5, <1>6

LEMMA AskedHears ==
  ASSUME NEW s \in SocketState, NEW h, NEW sent \in BOOLEAN, NEW op
  PROVE  Hears(s, Asked(s, op, h, sent))
BY DEF Asked, Hears, SocketState

LEMMA ReceivingHears ==
  ASSUME NEW s \in SocketState, NEW h \in Handle \cup {None}, h # command \/ h = None,
         NEW sent \in BOOLEAN
  PROVE  Hears(s, Receiving(s, h, sent))
<1> DEFINE a == Asked(s, "recv", h, sent)
<1>1. Hears(s, a)
  BY AskedHears
<1>2. CASE h \in s.used /\ h \notin s.receiving
  <2>1. h # command /\ a \in SocketState
    BY <1>2, Handles, AskedTypes, Requests DEF SocketState
  <2>2. Receiving(s, h, sent) = [a EXCEPT !.receiving = @ \cup {h}]
    BY <1>2 DEF Receiving
  <2> HIDE DEF a
  <2> QED
    BY <1>1, <2>1, <2>2 DEF Hears, SocketState
<1>3. CASE ~(h \in s.used /\ h \notin s.receiving)
  BY <1>3 DEF Receiving, Hears
<1> QED
  BY <1>2, <1>3

(* A reply that the command socket does not wait for.                        *)
LEMMA ArrivedHears ==
  ASSUME NEW s \in SocketState, NEW r \in Reply, ~Hearing(r)
  PROVE  Hears(s, Arrived(s, r))
BY DEF Arrived, Hears, SocketState

-----------------------------------------------------------------------------
(* The events of TCP, as the UDP sockets see them.                           *)

(* The calls of a TCP event, one after the other, for a handle of TCP: the   *)
(* command socket goes on to hear.                                           *)
LEMMA TcpHandles ==
  ASSUME NetworkingType, NEW h \in Tcp \cup {None}
  PROVE  h \in Handle \cup {None} /\ (h # command \/ h = None)
BY Handles DEF Handle, NetworkingType

(* A handle that is opened,                                                  *)
LEMMA TcpOpened ==
  ASSUME NetworkingType, NEW s \in SocketState, Hears(Now, s), NEW h \in Tcp \cup {None}
  PROVE  /\ Opened(s, h) \in SocketState /\ Hears(Now, Opened(s, h))
         /\ Opened(s, h).used = s.used \cup ({h} \ {None})
<1>1. h \in Handle \cup {None} /\ (h # command \/ h = None)
  BY TcpHandles
<1>2. Hears(s, Opened(s, h))
  BY <1>1, OthersHear
<1>3. Opened(s, h) \in SocketState
  BY <1>1, SocketTypes
<1>4. Opened(s, h).used = s.used \cup ({h} \ {None})
  BY <1>1, UsedHandles
<1> QED
  BY <1>2, <1>3, <1>4, HearsTrans

(* accepted,                                                                 *)
LEMMA TcpMarked ==
  ASSUME NetworkingType, NEW s \in SocketState, Hears(Now, s), NEW h \in Tcp \cup {None}
  PROVE  /\ Marked(s, h) \in SocketState /\ Hears(Now, Marked(s, h))
         /\ Marked(s, h).used = s.used \cup ({h} \ {None})
<1>1. h \in Handle \cup {None} /\ (h # command \/ h = None)
  BY TcpHandles
<1>2. Hears(s, Marked(s, h))
  BY <1>1, OthersHear
<1>3. Marked(s, h) \in SocketState
  BY <1>1, SocketTypes
<1>4. Marked(s, h).used = s.used \cup ({h} \ {None})
  BY <1>1, UsedHandles
<1> QED
  BY <1>2, <1>3, <1>4, HearsTrans

(* closed,                                                                   *)
LEMMA TcpClosed ==
  ASSUME NetworkingType, NEW s \in SocketState, Hears(Now, s), NEW h \in Tcp \cup {None}
  PROVE  /\ Closed(s, h) \in SocketState /\ Hears(Now, Closed(s, h))
         /\ Closed(s, h).used = s.used \ {h}
<1>1. h \in Handle \cup {None} /\ (h # command \/ h = None)
  BY TcpHandles
<1>2. Hears(s, Closed(s, h))
  BY <1>1, OthersHear
<1>3. Closed(s, h) \in SocketState
  BY <1>1, SocketTypes
<1>4. Closed(s, h).used = s.used \ {h}
  BY <1>1, UsedHandles
<1> QED
  BY <1>2, <1>3, <1>4, HearsTrans

(* receives,                                                                 *)
LEMMA TcpReceives ==
  ASSUME NetworkingType, NEW s \in SocketState, Hears(Now, s), NEW h \in Tcp \cup {None},
         NEW sent \in BOOLEAN
  PROVE  /\ Receiving(s, h, sent) \in SocketState /\ Hears(Now, Receiving(s, h, sent))
         /\ Receiving(s, h, sent).used = s.used
<1>1. h \in Handle \cup {None} /\ (h # command \/ h = None)
  BY TcpHandles
<1>2. Hears(s, Receiving(s, h, sent))
  BY <1>1, ReceivingHears
<1>3. Receiving(s, h, sent) \in SocketState
  BY <1>1, ReceivingTypes
<1>4. Receiving(s, h, sent).used = s.used
  BY <1>1, ReceivingTypes
<1> QED
  BY <1>2, <1>3, <1>4, HearsTrans

(* or asks for something.                                                    *)
LEMMA TcpAsked ==
  ASSUME NetworkingType, NEW s \in SocketState, Hears(Now, s), NEW h \in Tcp \cup {None},
         NEW op \in Request,
         NEW sent \in BOOLEAN
  PROVE  /\ Asked(s, op, h, sent) \in SocketState /\ Hears(Now, Asked(s, op, h, sent))
         /\ Asked(s, op, h, sent).used = s.used
<1>1. h \in Handle \cup {None} /\ (h # command \/ h = None)
  BY TcpHandles
<1>2. Hears(s, Asked(s, op, h, sent))
  BY <1>1, AskedHears
<1>3. Asked(s, op, h, sent) \in SocketState /\ Asked(s, op, h, sent).used = s.used
  BY AskedTypes
<1> QED
  BY <1>2, <1>3, HearsTrans

(* A TCP handle that is dropped was closed, but for the two cases that       *)
(* OrphansAreKnown names.                                                    *)
TcpDrops ==
  \A h \in used' \cap {est, listening, data} :
    \/ h \in {est', listening', data'}
    \/ h = data /\ \E r \in replies : Accepted(r)
    \/ h = listening /\ pc = "openSettings"

UdpStays == used' \cap Udp = used \cap Udp /\ Hears(Now, Now')

(* The events of the link that is established, and of the TCP sockets.       *)
LEMMA TcpEvents ==
  ASSUME NetInv,
         \/ AddressReceived \/ CloseSettings \/ OpenSettings
         \/ \E r \in replies :
              \/ Connected(r) \/ EstablishFails(r) \/ Established(r)
              \/ Bound(r) \/ BindFails(r) \/ Listens(r) \/ ListenFails(r) \/ Accepted(r)
              \/ Transferred(r) \/ TransferFails(r) \/ Ignored(r) \/ Forgotten(r)
  PROVE  TcpDrops /\ UdpStays
<1>1. /\ NetworkingType /\ Now \in SocketState /\ Now.used = used /\ Now.replies = replies
      /\ {est, listening, data} \subseteq Tcp \cup {None} /\ TcpSocketsAreOpen
      /\ Tcp \subseteq Nat /\ Udp \subseteq Nat /\ Tcp \cap Udp = {}
      /\ None \notin Handle /\ None \notin Udp /\ Hears(Now, Now)
      /\ command \in Udp \cup {None}
  BY Handles DEF NetInv, NetworkingType, Now, Handle, Hears
<1> USE DEF linkVars, tcpVars, sharedVars, wincVars, statusVars, Goto
<1>2. ASSUME NEW s \in SocketState, Become(s), Hears(Now, s),
             NEW h \in Tcp \cup {None}, NEW g \in Tcp \cup {None},
             s.used \cup {h, g} = used \cup {h, g}
      PROVE  UdpStays /\ used' = s.used /\ None \notin used'
  <2>1. used' = s.used /\ Now' = s /\ s.used \subseteq Handle
    BY <1>2 DEF Become, Now, SocketState
  <2>2. used' \cap Udp = used \cap Udp
    BY <1>1, <1>2, <2>1
  <2> QED
    BY <1>1, <1>2, <2>1, <2>2 DEF UdpStays
<1>3. ASSUME NEW r \in replies, ~Hearing(r)
      PROVE  /\ Arrived(Now, r) \in SocketState /\ Hears(Now, Arrived(Now, r))
             /\ Arrived(Now, r).used = used
  BY <1>1, <1>3, ArrivedType, ArrivedHears DEF SocketState
<1>4. ASSUME NEW r \in replies, r.sock \in {est, listening, data} PROVE ~Hearing(r)
  <2>1. r.sock \in Handle
    BY <1>1 DEF SocketState, Reply
  <2> QED
    BY <1>1, <1>4, <2>1 DEF Hearing
<1>5. ASSUME UNCHANGED <<est, listening, data>> PROVE TcpDrops
  BY <1>5 DEF TcpDrops
<1>6. ASSUME AddressReceived PROVE TcpDrops /\ UdpStays
  <2>1. CASE est # None
    <3>1. UNCHANGED <<est, listening, data>> /\ Become(Now)
      BY <1>6, <2>1, SameSockets DEF AddressReceived
    <3> QED
      BY <1>1, <1>2, <1>5, <3>1
  <2>2. CASE est = None
    <3> DEFINE h == Free(Now, Tcp)
               o == Opened(Now, h)
    <3>1. h \in (Tcp \ used) \cup {None}
      BY <1>1, FreeHandles
    <3>2. o \in SocketState /\ Hears(Now, o) /\ o.used = used \cup ({h} \ {None})
      BY <1>1, <3>1, TcpOpened
    <3>3. UNCHANGED <<listening, data>>
      BY <1>6 DEF AddressReceived
    <3>6. ASSUME None \notin used' PROVE TcpDrops
      BY <2>2, <3>3, <3>6 DEF TcpDrops
    <3>4. CASE Become(Asked(o, "connect", h, TRUE))
      <4> HIDE DEF h, o
      <4>1. /\ Asked(o, "connect", h, TRUE) \in SocketState
            /\ Hears(Now, Asked(o, "connect", h, TRUE))
            /\ Asked(o, "connect", h, TRUE).used = o.used
        BY <1>1, <3>1, <3>2, TcpAsked, Requests
      <4>3. Asked(o, "connect", h, TRUE).used \cup {h, None} = used \cup {h, None}
        BY <3>2, <4>1
      <4>2. UdpStays /\ None \notin used'
        BY <1>1, <1>2, <3>1, <3>4, <4>1, <4>3
      <4> QED
        BY <3>6, <4>2
    <3>5. CASE Become(Closed(o, h))
      <4> HIDE DEF h, o
      <4>1. /\ Closed(o, h) \in SocketState /\ Hears(Now, Closed(o, h))
            /\ Closed(o, h).used = o.used \ {h}
        BY <1>1, <3>1, <3>2, TcpClosed
      <4>2. UdpStays /\ None \notin used'
        BY <1>1, <1>2, <3>1, <3>2, <3>5, <4>1
      <4> QED
        BY <3>6, <4>2
    <3> QED
      BY <1>6, <2>2, <3>4, <3>5 DEF AddressReceived
  <2> QED
    BY <2>1, <2>2
<1>7. ASSUME NEW r \in replies, Connected(r) PROVE TcpDrops /\ UdpStays
  <2>1. r.sock = est /\ UNCHANGED <<est, listening, data>>
    BY <1>7, OwnerOf DEF Connected, Event
  <2>0. PICK sent \in BOOLEAN : Become(Receiving(Arrived(Now, r), est, sent))
    BY <1>7, SentOrNot DEF Connected
  <2>2. /\ Arrived(Now, r) \in SocketState /\ Hears(Now, Arrived(Now, r))
        /\ Arrived(Now, r).used = used
    BY <1>3, <1>4, <2>1
  <2>3. /\ Receiving(Arrived(Now, r), est, sent) \in SocketState
        /\ Hears(Now, Receiving(Arrived(Now, r), est, sent))
        /\ Receiving(Arrived(Now, r), est, sent).used = used
    BY <1>1, <2>2, TcpReceives
  <2> QED
    BY <1>1, <1>2, <1>5, <2>0, <2>1, <2>3
<1>8. ASSUME NEW r \in replies, EstablishFails(r) \/ Established(r) PROVE TcpDrops /\ UdpStays
  <2>1. /\ r.sock = est /\ est' = None /\ UNCHANGED <<listening, data>>
        /\ Become(Closed(Arrived(Now, r), est))
    BY <1>8, OwnerOf DEF EstablishFails, Established, Event
  <2>2. /\ Arrived(Now, r) \in SocketState /\ Hears(Now, Arrived(Now, r))
        /\ Arrived(Now, r).used = used
    BY <1>3, <1>4, <2>1
  <2>3. /\ Closed(Arrived(Now, r), est) \in SocketState
        /\ Hears(Now, Closed(Arrived(Now, r), est))
        /\ Closed(Arrived(Now, r), est).used = used \ {est}
    BY <1>1, <2>2, TcpClosed
  <2>4. UdpStays /\ used' = used \ {est}
    BY <1>1, <1>2, <2>1, <2>3
  <2> QED
    BY <2>1, <2>4 DEF TcpDrops
<1>9. ASSUME NEW r \in replies, Bound(r) \/ Listens(r) PROVE TcpDrops /\ UdpStays
  <2>1. r.sock = listening /\ UNCHANGED <<est, listening, data>>
    BY <1>9, OwnerOf DEF Bound, Listens, Event
  <2>2. PICK op \in {"listen", "accept"}, sent \in BOOLEAN :
          Become(Asked(Arrived(Now, r), op, listening, sent))
    BY <1>9, SentOrNot DEF Bound, Listens
  <2>3. /\ Arrived(Now, r) \in SocketState /\ Hears(Now, Arrived(Now, r))
        /\ Arrived(Now, r).used = used
    BY <1>3, <1>4, <2>1
  <2>4. /\ Asked(Arrived(Now, r), op, listening, sent) \in SocketState
        /\ Hears(Now, Asked(Arrived(Now, r), op, listening, sent))
        /\ Asked(Arrived(Now, r), op, listening, sent).used = used
    <3>1. op \in Request /\ listening \in Tcp \cup {None}
      BY <1>1, Requests
    <3> DEFINE a == Arrived(Now, r)
    <3>2. a \in SocketState /\ Hears(Now, a) /\ a.used = used
      BY <2>3
    <3> HIDE DEF a
    <3>3. /\ Asked(a, op, listening, sent) \in SocketState
          /\ Hears(Now, Asked(a, op, listening, sent))
          /\ Asked(a, op, listening, sent).used = a.used
      BY <1>1, <3>1, <3>2, TcpAsked
    <3> QED
      BY <3>2, <3>3 DEF a
  <2> QED
    BY <1>1, <1>2, <1>5, <2>1, <2>2, <2>4
<1>10. ASSUME NEW r \in replies, BindFails(r) PROVE TcpDrops /\ UdpStays
  <2>1. /\ r.sock = listening /\ listening' = None /\ UNCHANGED <<est, data>>
        /\ Become(Closed(Arrived(Now, r), listening))
    BY <1>10, OwnerOf DEF BindFails, Event
  <2>2. /\ Arrived(Now, r) \in SocketState /\ Hears(Now, Arrived(Now, r))
        /\ Arrived(Now, r).used = used
    BY <1>3, <1>4, <2>1
  <2>3. /\ Closed(Arrived(Now, r), listening) \in SocketState
        /\ Hears(Now, Closed(Arrived(Now, r), listening))
        /\ Closed(Arrived(Now, r), listening).used = used \ {listening}
    BY <1>1, <2>2, TcpClosed
  <2>4. UdpStays /\ used' = used \ {listening}
    BY <1>1, <1>2, <2>1, <2>3
  <2> QED
    BY <2>1, <2>4 DEF TcpDrops
<1>11. ASSUME NEW s \in SocketState, Hears(Now, s), NEW h, h = Free(s, Tcp), NEW sent \in BOOLEAN
       PROVE  /\ h \in (Tcp \ s.used) \cup {None}
              /\ Asked(Opened(s, h), "bind", h, sent) \in SocketState
              /\ Hears(Now, Asked(Opened(s, h), "bind", h, sent))
              /\ Asked(Opened(s, h), "bind", h, sent).used = s.used \cup ({h} \ {None})
  <2>1. h \in (Tcp \ s.used) \cup {None}
    BY <1>11, FreeHandles
  <2>2. /\ Opened(s, h) \in SocketState /\ Hears(Now, Opened(s, h))
        /\ Opened(s, h).used = s.used \cup ({h} \ {None})
    BY <1>1, <1>11, <2>1, TcpOpened
  <2> DEFINE o == Opened(s, h)
  <2>3. o \in SocketState /\ Hears(Now, o) /\ o.used = s.used \cup ({h} \ {None})
    BY <2>2
  <2> HIDE DEF o
  <2>4. /\ Asked(o, "bind", h, sent) \in SocketState
        /\ Hears(Now, Asked(o, "bind", h, sent))
        /\ Asked(o, "bind", h, sent).used = o.used
    BY <1>1, <2>1, <2>3, TcpAsked, Requests
  <2> QED
    BY <2>1, <2>3, <2>4 DEF o
<1>12. ASSUME NEW r \in replies, ListenFails(r) PROVE TcpDrops /\ UdpStays
  <2> DEFINE c == Closed(Arrived(Now, r), listening)
             h == Free(c, Tcp)
  <2>0. PICK sent \in BOOLEAN : Become(Asked(Opened(c, h), "bind", h, sent))
    BY <1>12, SentOrNot DEF ListenFails, OpenListening
  <2> DEFINE s == Asked(Opened(c, h), "bind", h, sent)
  <2>1. r.sock = listening /\ listening' = h /\ UNCHANGED <<est, data>> /\ Become(s)
    BY <1>12, <2>0, OwnerOf DEF ListenFails, OpenListening, Event
  <2>2. /\ Arrived(Now, r) \in SocketState /\ Hears(Now, Arrived(Now, r))
        /\ Arrived(Now, r).used = used
    BY <1>3, <1>4, <2>1
  <2>3. c \in SocketState /\ Hears(Now, c) /\ c.used = used \ {listening}
    BY <1>1, <2>2, TcpClosed
  <2> HIDE DEF c
  <2>4. /\ h \in (Tcp \ c.used) \cup {None} /\ s \in SocketState /\ Hears(Now, s)
        /\ s.used = c.used \cup ({h} \ {None})
    BY <1>11, <2>3
  <2> HIDE DEF h, s
  <2>5. UdpStays /\ used' = s.used
    <3>1. s.used \cup {h, listening} = used \cup {h, listening}
      BY <1>1, <2>3, <2>4
    <3> QED
      BY <1>1, <1>2, <2>1, <2>4, <3>1
  <2> QED
    BY <2>1, <2>3, <2>4, <2>5 DEF TcpDrops
<1>13. ASSUME NEW r \in replies, Accepted(r) PROVE TcpDrops /\ UdpStays
  <2>1. PICK h \in (Tcp \ used) \cup {None} : data' = h
    BY <1>13 DEF Accepted, NewConnections
  <2> DEFINE m == Marked(Arrived(Now, r), h)
  <2>0. PICK sent \in BOOLEAN : Become(Receiving(m, h, sent))
    BY <1>13, <2>1, SentOrNot DEF Accepted
  <2> DEFINE s == Receiving(m, h, sent)
  <2>2. r.sock = listening /\ UNCHANGED <<est, listening>> /\ Become(s)
    BY <1>13, <2>0, <2>1, OwnerOf DEF Accepted, Event
  <2>3. /\ Arrived(Now, r) \in SocketState /\ Hears(Now, Arrived(Now, r))
        /\ Arrived(Now, r).used = used
    BY <1>3, <1>4, <2>2
  <2>4. m \in SocketState /\ Hears(Now, m) /\ m.used = used \cup ({h} \ {None})
    BY <1>1, <2>3, TcpMarked
  <2> HIDE DEF m
  <2>5. s \in SocketState /\ Hears(Now, s) /\ s.used = used \cup ({h} \ {None})
    BY <1>1, <2>4, TcpReceives
  <2> HIDE DEF s
  <2>6. s.used \cup {h, None} = used \cup {h, None}
    BY <2>5
  <2>7. UdpStays
    BY <1>1, <1>2, <2>2, <2>5, <2>6
  <2> QED
    BY <1>13, <2>2, <2>7 DEF TcpDrops
<1>14. ASSUME NEW r \in replies, Transferred(r) PROVE TcpDrops /\ UdpStays
  <2>1. /\ r.sock = data /\ data' = None /\ UNCHANGED <<est, listening>>
        /\ Become(Closed(Arrived(Now, r), data))
    BY <1>14, OwnerOf DEF Transferred, Event
  <2>2. /\ Arrived(Now, r) \in SocketState /\ Hears(Now, Arrived(Now, r))
        /\ Arrived(Now, r).used = used
    BY <1>3, <1>4, <2>1
  <2>3. /\ Closed(Arrived(Now, r), data) \in SocketState
        /\ Hears(Now, Closed(Arrived(Now, r), data))
        /\ Closed(Arrived(Now, r), data).used = used \ {data}
    BY <1>1, <2>2, TcpClosed
  <2>4. UdpStays /\ used' = used \ {data}
    BY <1>1, <1>2, <2>1, <2>3
  <2> QED
    BY <2>1, <2>4 DEF TcpDrops
<1>15. ASSUME NEW r \in replies, TransferFails(r) PROVE TcpDrops /\ UdpStays
  <2>1. r.sock = data /\ UNCHANGED <<est, listening, data>> /\ Become(Arrived(Now, r))
    BY <1>15, OwnerOf DEF TransferFails, Event
  <2>2. /\ Arrived(Now, r) \in SocketState /\ Hears(Now, Arrived(Now, r))
        /\ Arrived(Now, r).used = used
    BY <1>3, <1>4, <2>1
  <2> QED
    BY <1>1, <1>2, <1>5, <2>1, <2>2
<1>16. ASSUME NEW r \in replies, Ignored(r) PROVE TcpDrops /\ UdpStays
  <2>1. ~Hearing(r)
    <3>1. r.sock \in Handle
      BY <1>1 DEF SocketState, Reply
    <3>2. Hearing(r) => Owner(r.sock) = "command"
      BY <1>1, <3>1 DEF Hearing, Owner, Handle
    <3> QED
      BY <1>16, <3>2 DEF Ignored, SessionHolds, Understood, Hearing
  <2>2. /\ Arrived(Now, r) \in SocketState /\ Hears(Now, Arrived(Now, r))
        /\ Arrived(Now, r).used = used
    BY <1>3, <2>1
  <2>3. UNCHANGED <<est, listening, data>>
    BY <1>16 DEF Ignored
  <2>4. CASE Become(Arrived(Now, r))
    BY <1>1, <1>2, <1>5, <2>2, <2>3, <2>4
  <2>5. ASSUME NEW h \in NewConnections, Become(Marked(Arrived(Now, r), h))
        PROVE  TcpDrops /\ UdpStays
    <3> DEFINE s == Marked(Arrived(Now, r), h)
    <3>1. h \in Tcp \cup {None}
      BY DEF NewConnections
    <3>2. s \in SocketState /\ Hears(Now, s) /\ s.used = used \cup ({h} \ {None})
      BY <1>1, <2>2, <3>1, TcpMarked
    <3>3. s.used \cup {h, None} = used \cup {h, None}
      BY <3>2
    <3> QED
      BY <1>2, <1>5, <2>3, <2>5, <3>1, <3>2, <3>3
  <2> QED
    BY <1>16, <2>4, <2>5 DEF Ignored
<1>17. ASSUME NEW r \in replies, Forgotten(r) PROVE TcpDrops /\ UdpStays
  <2>1. /\ UNCHANGED <<used, receiving, est, listening, data>> /\ replies' = replies \ {r}
        /\ ~Hearing(r) /\ silent \subseteq silent'
    BY <1>17 DEF Forgotten, Hearing
  <2>2. Hears(Now, Now')
    BY <2>1 DEF Hears, Now
  <2> QED
    BY <1>5, <2>1, <2>2 DEF UdpStays
<1>18. ASSUME CloseSettings PROVE TcpDrops /\ UdpStays
  <2> DEFINE c == IF IsOpen(listening) THEN Closed(Now, listening) ELSE Now
             s == IF IsOpen(data) THEN Closed(c, data) ELSE c
  <2>1. /\ Become(s) /\ est' = est
        /\ listening' = (IF IsOpen(listening) THEN None ELSE listening)
        /\ data' = (IF IsOpen(data) THEN None ELSE data)
    BY <1>18 DEF CloseSettings
  <2>2. c \in SocketState /\ Hears(Now, c)
        /\ c.used = used \ (IF IsOpen(listening) THEN {listening} ELSE {})
    BY <1>1, TcpClosed
  <2> HIDE DEF c
  <2>3. s \in SocketState /\ Hears(Now, s)
        /\ s.used = c.used \ (IF IsOpen(data) THEN {data} ELSE {})
    BY <1>1, <2>2, TcpClosed
  <2> HIDE DEF s
  <2>4. s.used \cup {listening, data} = used \cup {listening, data}
    BY <2>2, <2>3
  <2>5. UdpStays /\ used' = s.used
    BY <1>1, <1>2, <2>1, <2>3, <2>4
  <2> QED
    BY <2>1, <2>2, <2>3, <2>5 DEF TcpDrops
<1>19. ASSUME OpenSettings PROVE TcpDrops /\ UdpStays
  <2> DEFINE h == Free(Now, Tcp)
  <2>0. PICK sent \in BOOLEAN : Become(Asked(Opened(Now, h), "bind", h, sent))
    BY <1>19, SentOrNot DEF OpenSettings, OpenListening
  <2> DEFINE s == Asked(Opened(Now, h), "bind", h, sent)
  <2>1. pc = "openSettings" /\ Become(s) /\ listening' = h /\ UNCHANGED <<est, data>>
    BY <1>19, <2>0 DEF OpenSettings, OpenListening
  <2>2. /\ h \in Tcp \cup {None} /\ s \in SocketState /\ Hears(Now, s)
        /\ s.used = used \cup ({h} \ {None})
    BY <1>1, <1>11
  <2> HIDE DEF h, s
  <2>3. s.used \cup {h, None} = used \cup {h, None}
    BY <2>2
  <2>4. UdpStays
    BY <1>2, <2>1, <2>2, <2>3
  <2> QED
    BY <2>1, <2>4 DEF TcpDrops
<1> QED
  BY <1>6, <1>7, <1>8, <1>9, <1>10, <1>12, <1>13, <1>14, <1>15, <1>16, <1>17, <1>18, <1>19

-----------------------------------------------------------------------------
(* Which handles the program holds, and where.                               *)

(* A UDP handle is in hand only inside of socket() and close().              *)
HandInv ==
  /\ pc \notin {"markCommand", "wipeCommand", "wipeStatus"} => hand = None
  /\ statusPc \notin {"mark", "assign"} => statusHand = None
  /\ pc = "wipeCommand" => hand = command

(* The command socket and the listening socket belong to a connection, but   *)
(* for a listening socket with handle 0.                                     *)
HeldInv ==
  /\ connected => est = None
  /\ command # None => connected \/ pc = "wipeCommand"
  /\ pc \in {"openCommand", "markCommand", "openSettings"} => connected
  /\ pc \in {"openCommand", "markCommand"} => command = None
  /\ \/ listening \in {None, 0}
     \/ connected /\ pc \notin {"openCommand", "markCommand", "openSettings"}
     \/ pc \in {"wipeCommand", "closeSettings"}

(* socket() and close() give back the UDP handle that they took.             *)
LEMMA HandStep ==
  ASSUME HandInv, Step
  PROVE  HandInv'
<1> USE DEF HandInv, linkVars, tcpVars, sharedVars, wincVars, statusVars, Goto, StatusGoto
<1>1. CASE LinkJoined \/ AddressReceived
  BY <1>1 DEF LinkJoined, AddressReceived
<1>2. CASE LinkLost
  BY <1>2 DEF LinkLost
<1>3. ASSUME NEW r \in replies, SocketEvent(r) PROVE HandInv'
  <2>1. ASSUME Connected(r) \/ EstablishFails(r) \/ Established(r) \/ CommandEvent(r) PROVE HandInv'
    BY <2>1 DEF Connected, EstablishFails, Established, CommandEvent, Event
  <2>2. ASSUME Bound(r) \/ BindFails(r) \/ Listens(r) \/ ListenFails(r) \/ Accepted(r) PROVE HandInv'
    BY <2>2 DEF Bound, BindFails, Listens, ListenFails, Accepted, Event
  <2>3. ASSUME Transferred(r) \/ TransferFails(r) \/ StatusSent(r) \/ Ignored(r) PROVE HandInv'
    BY <2>3 DEF Transferred, TransferFails, StatusSent, Ignored, Event
  <2> QED
    BY <1>3, <2>1, <2>2, <2>3 DEF SocketEvent
<1>4. CASE WipeCommand \/ CloseSettings \/ OpenCommand \/ MarkCommand
  BY <1>4 DEF WipeCommand, CloseSettings, OpenCommand, MarkCommand
<1>5. CASE OpenSettings \/ CloseStatus \/ WipeStatus \/ ClearStatus
  BY <1>5 DEF OpenSettings, CloseStatus, WipeStatus, ClearStatus
<1>6. CASE StatusStep
  BY <1>6 DEF StatusStep, StatusDue, OpenStatus, MarkStatus, AssignStatus, SendStatus
<1>7. ASSUME NEW r \in replies, Forgotten(r) PROVE HandInv'
  BY <1>7 DEF Forgotten
<1> QED
  BY <1>1, <1>2, <1>3, <1>4, <1>5, <1>6, <1>7 DEF Step, WincStep

(* socket() takes handle 0 when that is free.                                *)
LEMMA FreeZero ==
  ASSUME NEW s \in SocketState, 0 \notin s.used
  PROVE  Free(s, Tcp) = 0
<1>1. 0 \in Tcp /\ Tcp \subseteq Nat
  BY Handles DEF Handle
<1> DEFINE free == Tcp \ s.used
           h == CHOOSE h \in free : \A g \in free : h <= g
<1>2. 0 \in free /\ \A g \in free : 0 <= g
  BY <1>1
<1>3. h \in free /\ \A g \in free : h <= g
  BY <1>2
<1>4. h <= 0 /\ h \in Nat
  BY <1>1, <1>2, <1>3
<1>5. Free(s, Tcp) = h
  BY <1>2 DEF Free
<1> QED
  BY <1>4, <1>5

(* A connection is established only without a command socket, and the socket *)
(* that listens for settings goes with the connection, unless it is handle 0 *)
(* (Networking.c:77-92, 284-290, 319-349).                                   *)
LEMMA HeldStep ==
  ASSUME NetInv, HandInv, HeldInv, Step
  PROVE  HeldInv'
<1>1. /\ NetworkingType /\ Now \in SocketState /\ LinkInv /\ TcpSocketsAreOpen
      /\ None \notin Handle /\ None = -1 /\ Udp \subseteq Nat \ {0} /\ Tcp \subseteq Nat
      /\ command \in Udp \cup {None} /\ listening \in Tcp \cup {None}
      /\ \A r \in replies : r.sock # None /\ r \in Reply
  <2>1. None \notin Handle /\ Udp \subseteq Nat \ {0} /\ Tcp \subseteq Nat
    BY Handles DEF Handle
  <2>2. NetworkingType /\ Now \in SocketState /\ LinkInv /\ TcpSocketsAreOpen
    BY DEF NetInv, NetworkingType
  <2>3. \A r \in replies : r.sock # None /\ r \in Reply
    BY <2>1, <2>2 DEF Now, SocketState, Reply
  <2>4. command \in Udp \cup {None} /\ listening \in Tcp \cup {None}
    BY <2>2 DEF NetworkingType
  <2> QED
    BY <2>1, <2>2, <2>3, <2>4 DEF None
<1> USE DEF HeldInv, linkVars, tcpVars, sharedVars, wincVars, statusVars, Goto, StatusGoto
<1>2. CASE LinkJoined \/ AddressReceived
  <2>1. link # "up" /\ UNCHANGED <<connected, command, listening, pc>>
    BY <1>2 DEF LinkJoined, AddressReceived
  <2>2. ~connected
    BY <1>1, <2>1 DEF LinkInv
  <2> QED
    BY <2>1, <2>2
<1>3. CASE LinkLost
  BY <1>1, <1>3 DEF LinkLost, IsOpen
<1>4. ASSUME NEW r \in replies, SocketEvent(r) PROVE HeldInv'
  <2>1. ASSUME Connected(r) \/ CommandEvent(r) PROVE HeldInv'
    BY <2>1 DEF Connected, CommandEvent, Event
  <2>2. ASSUME EstablishFails(r) PROVE HeldInv'
    BY <2>2 DEF EstablishFails, Event
  <2>3. ASSUME Established(r) PROVE HeldInv'
    <3>1. est # None
      BY <1>1, <2>3, OwnerOf DEF Established, Event
    <3> QED
      BY <2>3, <3>1 DEF Established, Event
  <2>4. ASSUME Bound(r) \/ BindFails(r) \/ Listens(r) \/ Accepted(r) PROVE HeldInv'
    <3>1. UNCHANGED <<est, connected, command, pc>> /\ pc = "idle" /\ listening' \in {None, listening}
      BY <2>4 DEF Bound, BindFails, Listens, Accepted, Event
    <3> QED
      BY <3>1
  <2>5. ASSUME ListenFails(r) PROVE HeldInv'
    <3> DEFINE c == Closed(Arrived(Now, r), listening)
    <3>1. /\ listening # None /\ pc = "idle" /\ listening' = Free(c, Tcp)
          /\ UNCHANGED <<est, command, connected, pc>>
      BY <1>1, <2>5, OwnerOf DEF ListenFails, Event, OpenListening
    <3>2. CASE connected
      BY <3>1, <3>2
    <3>3. CASE ~connected
      <4>1. listening = 0 /\ command = None
        BY <3>1, <3>3
      <4>2. Arrived(Now, r) \in SocketState /\ listening \in Handle \cup {None}
        BY <1>1, ArrivedType DEF Handle
      <4>3. c \in SocketState /\ c.used = Arrived(Now, r).used \ {listening}
        BY <4>2, SocketTypes, UsedHandles
      <4>4. listening' = 0
        BY <3>1, <4>1, <4>3, FreeZero
      <4> QED
        BY <3>1, <3>3, <4>1, <4>4
    <3> QED
      BY <3>2, <3>3
  <2>6. ASSUME Transferred(r) \/ TransferFails(r) \/ Ignored(r) PROVE HeldInv'
    <3>1. UNCHANGED <<est, listening, connected, command, pc>>
      BY <2>6 DEF Transferred, TransferFails, Ignored
    <3> QED
      BY <3>1
  <2>7. ASSUME StatusSent(r) PROVE HeldInv'
    BY <2>7 DEF StatusSent, Event
  <2> QED
    BY <1>4, <2>1, <2>2, <2>3, <2>4, <2>5, <2>6, <2>7 DEF SocketEvent
<1>5. CASE WipeCommand \/ OpenCommand \/ MarkCommand
  BY <1>5 DEF WipeCommand, OpenCommand, MarkCommand
<1>6. CASE CloseSettings
  BY <1>1, <1>6 DEF CloseSettings, IsOpen
<1>7. CASE OpenSettings \/ CloseStatus \/ WipeStatus \/ ClearStatus
  BY <1>7 DEF OpenSettings, CloseStatus, WipeStatus, ClearStatus
<1>8. CASE StatusStep
  <2>1. UNCHANGED <<est, listening, connected, command, pc>>
    BY <1>8 DEF StatusStep, StatusDue, OpenStatus, MarkStatus, AssignStatus, SendStatus
  <2> QED
    BY <2>1
<1>9. ASSUME NEW r \in replies, Forgotten(r) PROVE HeldInv'
  BY <1>9 DEF Forgotten
<1> QED
  BY <1>2, <1>3, <1>4, <1>5, <1>6, <1>7, <1>8, <1>9 DEF Step, WincStep

-----------------------------------------------------------------------------
(* How a handle is dropped.                                                  *)

(* What is open of a socket variable.                                        *)
Open(h) == IF IsOpen(h) THEN {h} ELSE {}

(* Which handles are in use after the link was lost.                         *)
LEMMA LostUsed ==
  ASSUME NetInv, LinkLost
  PROVE  used' = used \ (Open(est) \cup Open(command))
<1> DEFINE lost == [Now EXCEPT !.replies =
                      {IF r.session = "live" THEN [r EXCEPT !.session = "lost"] ELSE r : r \in @}]
           c == IF IsOpen(est) THEN Closed(lost, est) ELSE lost
           s == IF IsOpen(command) THEN Unmarked(c, command) ELSE c
<1>1. /\ Now \in SocketState /\ replies \in SUBSET Reply
      /\ est \in Handle \cup {None} /\ command \in Handle \cup {None}
  BY DEF NetInv, NetworkingType, Now, SocketState, Handle
<1>2. lost = [used |-> used, receiving |-> receiving, replies |-> LostOnes(replies),
              silent |-> silent]
  <2> DEFINE n == Now
  <2>1. n = [used |-> used, receiving |-> receiving, replies |-> replies, silent |-> silent]
    BY DEF Now
  <2>2. n.replies = replies
    BY <2>1
  <2>3. lost = [n EXCEPT !.replies = LostOnes(replies)]
    BY <2>2 DEF LostOnes
  <2> HIDE DEF n, lost
  <2> QED
    BY <2>1, <2>3
<1>3. Become(s)
  BY DEF LinkLost
<1> HIDE DEF lost
<1>4. lost \in SocketState /\ lost.used = used
  <2>1. LostOnes(replies) \in SUBSET Reply
    BY <1>1, LostReplies
  <2>2. used \in SUBSET Handle /\ receiving \in SUBSET Handle /\ silent \in SUBSET Handle
    BY <1>1 DEF Now, SocketState
  <2> QED
    BY <1>2, <2>1, <2>2 DEF SocketState
<1>5. c \in SocketState /\ c.used = used \ Open(est)
  BY <1>1, <1>4, SocketTypes, UsedHandles DEF Open
<1> HIDE DEF c
<1>6. s.used = c.used \ Open(command)
  BY <1>1, <1>5, UsedHandles DEF Open
<1> HIDE DEF s
<1> QED
  BY <1>3, <1>5, <1>6 DEF Become

(* Which handles are in use after the steps that touch no TCP socket.        *)
LEMMA UdpUsed ==
  ASSUME NetInv
  PROVE  /\ LinkJoined \/ OpenCommand \/ ClearStatus \/ StatusDue \/ OpenStatus \/ AssignStatus
              => UNCHANGED socketVars
         /\ (\E r \in replies : CommandEvent(r) \/ StatusSent(r)) \/ SendStatus => used' = used
         /\ WipeCommand \/ WipeStatus => used' = used \ {hand}
         /\ MarkCommand => used' = used \cup ({hand} \ {None})
         /\ MarkStatus => used' = used \cup ({statusHand} \ {None})
         /\ CloseStatus => used' = used \ Open(status)
<1>1. /\ Now \in SocketState /\ Now.used = used /\ replies \in SUBSET Reply
      /\ {command, status, hand, statusHand} \subseteq Handle \cup {None}
  BY DEF NetInv, NetworkingType, Now, SocketState, Handle
<1>2. LinkJoined \/ OpenCommand \/ ClearStatus \/ StatusDue \/ OpenStatus \/ AssignStatus
        => UNCHANGED socketVars
  BY DEF LinkJoined, OpenCommand, ClearStatus, StatusDue, OpenStatus, AssignStatus
<1>3. ASSUME NEW r \in replies PROVE Arrived(Now, r) \in SocketState /\ Arrived(Now, r).used = used
  BY <1>1, <1>3, ArrivedType
<1>4. ASSUME NEW r \in replies, CommandEvent(r) PROVE used' = used
  <2> DEFINE a == Arrived(Now, r)
  <2>1. PICK sent \in BOOLEAN : used' = Receiving(a, command, sent).used
    BY <1>4, SentOrNot DEF CommandEvent, Become
  <2>3. a \in SocketState /\ a.used = used
    BY <1>3
  <2> HIDE DEF a
  <2>2. Receiving(a, command, sent).used = a.used
    BY <1>1, <2>3, ReceivingTypes
  <2> QED
    BY <2>1, <2>2, <2>3
<1>5. ASSUME NEW r \in replies, StatusSent(r) PROVE used' = used
  BY <1>3, <1>5 DEF StatusSent, Become
<1>6. ASSUME SendStatus PROVE used' = used
  <2>1. Asked(Now, "sendto", status, TRUE).used = used
    BY <1>1, AskedTypes, Requests
  <2> QED
    BY <1>6, <2>1 DEF SendStatus, Become, socketVars
<1>7. ASSUME WipeCommand \/ WipeStatus PROVE used' = used \ {hand}
  <2>1. Wiped(Now, hand).used = used \ {hand}
    BY <1>1, UsedHandles
  <2> QED
    BY <1>7, <2>1 DEF WipeCommand, WipeStatus, Become
<1>8. ASSUME MarkCommand PROVE used' = used \cup ({hand} \ {None})
  <2> DEFINE o == Opened(Now, hand)
  <2>1. o \in SocketState /\ o.used = used \cup ({hand} \ {None})
    BY <1>1, SocketTypes, UsedHandles
  <2>2. PICK sent \in BOOLEAN : Become(Asked(o, "bind", hand, sent))
    BY <1>8, SentOrNot DEF MarkCommand
  <2> HIDE DEF o
  <2>3. Asked(o, "bind", hand, sent).used = o.used
    BY <1>1, <2>1, AskedTypes, Requests
  <2> QED
    BY <2>1, <2>2, <2>3 DEF Become
<1>9. ASSUME MarkStatus PROVE used' = used \cup ({statusHand} \ {None})
  <2>1. Opened(Now, statusHand).used = used \cup ({statusHand} \ {None})
    BY <1>1, UsedHandles
  <2> QED
    BY <1>9, <2>1 DEF MarkStatus, Become
<1>10. ASSUME CloseStatus PROVE used' = used \ Open(status)
  <2>1. Unmarked(Now, status).used = used \ {status}
    BY <1>1, UsedHandles
  <2> QED
    BY <1>10, <2>1 DEF CloseStatus, Become, socketVars, Open
<1> QED
  BY <1>2, <1>4, <1>5, <1>6, <1>7, <1>8, <1>9, <1>10

(* What a step may do to the command socket, and to the handles that the     *)
(* program holds.                                                            *)
CommandStays ==
  command \in used /\ command \notin used' => ~connected' \/ command = status \/ command = hand

DropsAreKnown ==
  \A h \in (Orphans' \ Orphans) \cap used :
    \/ h = data /\ \E r \in replies : Accepted(r)
    \/ h = 0 /\ h = listening /\ pc = "openSettings"
    \/ h = status /\ (statusPc = "assign" \/ pc = "clearStatus")

(* The events of TCP leave the UDP handles where they are.                   *)
TcpEvent ==
  \/ AddressReceived \/ CloseSettings \/ OpenSettings
  \/ \E r \in replies :
       \/ Connected(r) \/ EstablishFails(r) \/ Established(r)
       \/ Bound(r) \/ BindFails(r) \/ Listens(r) \/ ListenFails(r) \/ Accepted(r)
       \/ Transferred(r) \/ TransferFails(r) \/ Ignored(r) \/ Forgotten(r)

(* An event of TCP is no step of socket() or close() for a UDP handle.       *)
LEMMA TcpLeaves ==
  ASSUME TcpEvent
  PROVE  /\ UNCHANGED <<command, status, hand, statusPc, statusHand>>
         /\ \/ pc' = pc
            \/ {pc, pc'} \subseteq {"idle", "openCommand", "openSettings", "closeSettings"}
<1> USE DEF linkVars, tcpVars, sharedVars, wincVars, statusVars, Goto
<1>1. CASE AddressReceived \/ CloseSettings \/ OpenSettings
  BY <1>1 DEF AddressReceived, CloseSettings, OpenSettings
<1>2. ASSUME NEW r \in replies, Connected(r) \/ EstablishFails(r) \/ Established(r)
      PROVE  /\ UNCHANGED <<command, status, hand, statusPc, statusHand>>
             /\ pc' = pc \/ {pc, pc'} \subseteq {"idle", "openCommand"}
  BY <1>2 DEF Connected, EstablishFails, Established, Event
<1>3. ASSUME NEW r \in replies,
             Bound(r) \/ BindFails(r) \/ Listens(r) \/ ListenFails(r) \/ Accepted(r)
      PROVE  UNCHANGED <<command, status, hand, statusPc, statusHand, pc>>
  BY <1>3 DEF Bound, BindFails, Listens, ListenFails, Accepted
<1>4. ASSUME NEW r \in replies, Transferred(r) \/ TransferFails(r)
      PROVE  UNCHANGED <<command, status, hand, statusPc, statusHand, pc>>
  BY <1>4 DEF Transferred, TransferFails
<1>5. ASSUME NEW r \in replies, Ignored(r) \/ Forgotten(r)
      PROVE  UNCHANGED <<command, status, hand, statusPc, statusHand, pc>>
  BY <1>5 DEF Ignored, Forgotten
<1> QED
  BY <1>1, <1>2, <1>3, <1>4, <1>5 DEF TcpEvent

(* No step closes the command socket or drops a handle in another way.       *)
LEMMA DropStep ==
  ASSUME NetInv, HandInv, HeldInv, Next
  PROVE  CommandStays /\ DropsAreKnown
<1>1. /\ command \in Udp \cup {None} /\ status \in Udp \cup {None} /\ est \in Tcp \cup {None}
      /\ None \notin used /\ used \subseteq Handle /\ used' \subseteq Handle /\ None \notin used'
      /\ Udp \cap Tcp = {} /\ None = -1 /\ Udp \subseteq Nat \ {0}
  <2>1. used \subseteq Handle /\ NetworkingType
    BY DEF NetInv, NetworkingType, Now, SocketState
  <2>2. NetInv'
    BY NetInvNext
  <2>3. used' \subseteq Handle
    BY <2>2 DEF NetInv, NetworkingType, Now, SocketState
  <2> QED
    BY <2>1, <2>3, Handles DEF NetworkingType, None, Handle
<1>2. \A h \in (Orphans' \ Orphans) \cap used :
        /\ h \in used' /\ h # None
        /\ h \in {est, listening, data, command, status, hand, statusHand}
        /\ h \notin {est', listening', data', command', status', hand', statusHand'}
  BY <1>1 DEF Orphans
<1>3. ASSUME TcpEvent PROVE CommandStays /\ DropsAreKnown
  <2>1. TcpDrops /\ UdpStays
    BY <1>3, TcpEvents DEF TcpEvent
  <2>2. UNCHANGED <<command, status, hand, statusHand>>
    BY <1>3, TcpLeaves
  <2>3. CommandStays
    BY <1>1, <2>1 DEF UdpStays, CommandStays
  <2>4. pc = "openSettings" => listening \in {None, 0}
    BY DEF HeldInv
  <2> QED
    BY <1>2, <2>1, <2>2, <2>3, <2>4 DEF TcpDrops, DropsAreKnown
<1> USE DEF linkVars, tcpVars, sharedVars, wincVars, statusVars, Goto, StatusGoto
<1>4. ASSUME used \subseteq used' PROVE CommandStays
  BY <1>4 DEF CommandStays
<1>5. ASSUME UNCHANGED <<est, listening, data, command, status, hand, statusHand>>
      PROVE  DropsAreKnown
  BY <1>2, <1>5 DEF DropsAreKnown
<1>6. CASE LinkJoined \/ StatusDue
  <2>1. UNCHANGED <<used, est, listening, data, command, status, hand, statusHand>>
    BY <1>6 DEF LinkJoined, StatusDue, socketVars
  <2> QED
    BY <1>4, <1>5, <2>1
<1>7. CASE OpenCommand \/ OpenStatus
  <2>1. /\ UNCHANGED <<used, est, listening, data, command, status>>
        /\ hand' = hand \/ hand = None
        /\ statusHand' = statusHand \/ statusHand = None
    BY <1>7 DEF OpenCommand, OpenStatus, socketVars, HandInv
  <2> QED
    BY <1>2, <1>4, <2>1 DEF DropsAreKnown
<1>8. CASE ClearStatus
  <2>1. UNCHANGED <<used, est, listening, data, command, hand, statusHand>> /\ pc = "clearStatus"
    BY <1>8 DEF ClearStatus, socketVars
  <2> QED
    BY <1>2, <1>4, <2>1 DEF DropsAreKnown
<1>9. CASE AssignStatus
  <2>1. /\ UNCHANGED <<used, est, listening, data, command, hand>>
        /\ statusPc = "assign" /\ status' = statusHand
    BY <1>9 DEF AssignStatus, socketVars
  <2> QED
    BY <1>2, <1>4, <2>1 DEF DropsAreKnown
<1>10. CASE (\E r \in replies : CommandEvent(r) \/ StatusSent(r)) \/ SendStatus
  <2>1. UNCHANGED <<est, listening, data, command, status, hand, statusHand>>
    BY <1>10 DEF CommandEvent, StatusSent, SendStatus
  <2>2. used' = used
    BY <1>10, UdpUsed
  <2> QED
    BY <1>4, <1>5, <2>1, <2>2
<1>11. CASE WipeCommand
  <2>1. /\ UNCHANGED <<est, listening, data, status, statusHand>> /\ hand = command
    BY <1>11 DEF WipeCommand, HandInv
  <2>2. used' = used \ {hand}
    BY <1>11, UdpUsed
  <2> QED
    BY <1>2, <2>1, <2>2 DEF DropsAreKnown, CommandStays
<1>12. CASE WipeStatus
  <2>1. UNCHANGED <<est, listening, data, command, status, statusHand>>
    BY <1>12 DEF WipeStatus
  <2>2. used' = used \ {hand}
    BY <1>12, UdpUsed
  <2> QED
    BY <1>2, <2>1, <2>2 DEF DropsAreKnown, CommandStays
<1>13. CASE MarkCommand
  <2>1. /\ UNCHANGED <<est, listening, data, status, statusHand>>
        /\ command' = hand /\ command = None
    BY <1>13 DEF MarkCommand, HeldInv
  <2>2. used \subseteq used'
    BY <1>13, UdpUsed
  <2> QED
    BY <1>2, <1>4, <2>1, <2>2 DEF DropsAreKnown
<1>14. CASE MarkStatus
  <2>1. UNCHANGED <<est, listening, data, command, status, hand, statusHand>>
    BY <1>14 DEF MarkStatus
  <2>2. used \subseteq used'
    BY <1>14, UdpUsed
  <2> QED
    BY <1>4, <1>5, <2>1, <2>2
<1>15. CASE CloseStatus
  <2>1. UNCHANGED <<est, listening, data, command, status, statusHand>> /\ hand = None
    BY <1>15 DEF CloseStatus, HandInv
  <2>2. used' = used \ Open(status)
    BY <1>15, UdpUsed
  <2> QED
    BY <1>2, <2>1, <2>2 DEF DropsAreKnown, CommandStays, Open
<1>16. CASE LinkLost
  <2>1. /\ UNCHANGED <<listening, data, command, status, statusHand>> /\ hand = None
        /\ est' = (IF IsOpen(est) THEN None ELSE est) /\ connected' = FALSE
    BY <1>16 DEF LinkLost, HandInv
  <2>2. used' = used \ (Open(est) \cup Open(command))
    BY <1>16, LostUsed
  <2> QED
    BY <1>2, <2>1, <2>2 DEF DropsAreKnown, CommandStays, Open
<1>17. ASSUME NEW r \in replies, SocketEvent(r) PROVE CommandStays /\ DropsAreKnown
  BY <1>3, <1>10, <1>17 DEF SocketEvent, TcpEvent
<1>18. ASSUME NEW r \in replies, Forgotten(r) PROVE CommandStays /\ DropsAreKnown
  BY <1>3, <1>18 DEF TcpEvent
<1>19. CASE WincStep
  BY <1>3, <1>7, <1>8, <1>11, <1>12, <1>13, <1>15, <1>19 DEF WincStep, TcpEvent
<1>20. CASE StatusStep
  BY <1>6, <1>7, <1>9, <1>10, <1>14, <1>20 DEF StatusStep
<1>21. CASE AddressReceived
  BY <1>3, <1>21 DEF TcpEvent
<1> QED
  BY <1>6, <1>16, <1>17, <1>18, <1>19, <1>20, <1>21 DEF Next, Step

(* When the program starts it holds no handle.                               *)
LEMMA HeldInit == Init => HandInv /\ HeldInv
BY DEF Init, HandInv, HeldInv

(* The invariants of the handles hold in every state.                        *)
LEMMA HeldInvHolds == Spec => [](NetInv /\ HandInv /\ HeldInv)
<1>1. HandInv /\ UNCHANGED historyVars => HandInv'
  BY DEF HandInv, historyVars, vars, wincVars, statusVars, sharedVars
<1>2. HeldInv /\ UNCHANGED historyVars => HeldInv'
  BY DEF HeldInv, historyVars, vars, wincVars, sharedVars, tcpVars
<1>3. NetInv /\ HandInv /\ HeldInv /\ [Next]_historyVars => (NetInv /\ HandInv /\ HeldInv)'
  BY <1>1, <1>2, NetInvNext, HandStep, HeldStep DEF Next
<1>4. Init => NetInv /\ HandInv /\ HeldInv
  BY NetInvInit, HeldInit
<1> QED
  BY <1>3, <1>4, PTL DEF Spec

(* The command socket is closed by a disconnection only, unless the handle   *)
(* of the status is the same one, for any number of handles and replies      *)
(* (Networking.c:94-128, 211-221, 334-338).                                  *)
THEOREM CommandSocketIsKept == Spec => CommandSocketStays
<1>1. NetInv /\ HandInv /\ HeldInv /\ [Next]_historyVars => [CommandStays]_vars
  BY DropStep DEF historyVars
<1>2. Spec => [][CommandStays]_vars
  BY <1>1, HeldInvHolds, PTL DEF Spec
<1> QED
  BY <1>2 DEF CommandStays, CommandSocketStays

(* The program drops an open handle in the four ways that OrphansAreKnown    *)
(* names and in no other (Networking.c:172, 211-221, 284, 302-315, 339).     *)
THEOREM DropsAreFour == Spec => OrphansAreKnown
<1>1. NetInv /\ HandInv /\ HeldInv /\ [Next]_historyVars => [DropsAreKnown]_historyVars
  BY DropStep
<1>2. Spec => [][DropsAreKnown]_historyVars
  BY <1>1, HeldInvHolds, PTL DEF Spec
<1> QED
  BY <1>2 DEF DropsAreKnown, OrphansAreKnown

-----------------------------------------------------------------------------
(* The command socket has a handle of its own.                               *)

(* udp_status_socket and the handle that task_send_status opens are in use,  *)
(* unless they are being closed, and different from the handle in hand.      *)
StatusInv ==
  /\ ~(WincInside /\ StatusInside)
  /\ status # None => status \in used \/ pc \in {"wipeStatus", "clearStatus"}
  /\ statusPc = "mark" => statusHand \notin used
  /\ statusPc = "assign" /\ statusHand # None =>
       /\ statusHand \in used /\ statusHand # command
       /\ statusHand = status => pc = "clearStatus"
       /\ WincInside => hand # statusHand

(* The command socket has a handle of its own.                               *)
OwnInv ==
  /\ command # None /\ pc # "wipeCommand" => command \in used /\ command # status
  /\ pc \in {"markCommand", "wipeStatus"} => hand \notin used
  /\ hand # None =>
       /\ pc = "wipeStatus" => hand # command
       /\ pc \in {"markCommand", "wipeCommand"} => hand # status

(* The command socket is being bound or waits for a command, and a request   *)
(* that the driver takes for pending is.                                     *)
HeardInv ==
  command # None /\ pc # "wipeCommand" /\ command \notin silent =>
    /\ \E r \in replies : Hearing(r)
    /\ command \in receiving => Live("recv", command) \in replies

UdpInv == ~sliced => StatusInv /\ OwnInv /\ HeardInv

(* A step in which nothing happens to the command socket.                    *)
LEMMA HeardKept ==
  ASSUME HeardInv, Hears(Now, Now'), command' = command,
         pc = "wipeCommand" => pc' = "wipeCommand"
  PROVE  HeardInv'
<1>1. /\ \A r \in replies : Hearing(r) => r \in replies' /\ Hearing(r)'
      /\ command \in receiving' => command \in receiving
      /\ command \in silent => command \in silent'
  BY DEF Hears, Now, Hearing
<1>2. Hearing(Live("recv", command))
  BY DEF Hearing, Live
<1> QED
  BY <1>1, <1>2 DEF HeardInv, Live

(* The UDP handles that the program holds.                                   *)
LEMMA UdpTypes ==
  ASSUME NetInv
  PROVE  /\ Now \in SocketState /\ Now.used = used /\ replies \in SUBSET Reply
         /\ {command, status, hand, statusHand} \subseteq Udp \cup {None}
         /\ {command, status, hand, statusHand} \subseteq Handle \cup {None}
         /\ None \notin used /\ None \notin Udp
         /\ \A h \in Udp : IsOpen(h)
         /\ ~IsOpen(None)
<1>1. Udp \subseteq Nat \ {0} /\ Udp \subseteq Handle /\ None \notin Handle
  BY Handles DEF Handle
<1>2. /\ Now \in SocketState /\ Now.used = used /\ replies \in SUBSET Reply /\ used \subseteq Handle
      /\ {command, status, hand, statusHand} \subseteq Udp \cup {None}
  BY DEF NetInv, NetworkingType, Now, SocketState
<1>3. \A h \in Udp : IsOpen(h)
  BY <1>1 DEF IsOpen
<1>4. ~IsOpen(None)
  BY DEF IsOpen, None
<1> QED
  BY <1>1, <1>2, <1>3, <1>4

(* The events of TCP do nothing to the command socket.                       *)
LEMMA TcpHeard ==
  ASSUME NetInv, NetInv', StatusInv, OwnInv, HeardInv, TcpEvent
  PROVE  StatusInv' /\ OwnInv' /\ HeardInv'
<1>1. UdpStays
  BY TcpEvents DEF TcpEvent
<1>2. /\ UNCHANGED <<command, status, hand, statusPc, statusHand>>
      /\ \/ pc' = pc
         \/ {pc, pc'} \subseteq {"idle", "openCommand", "openSettings", "closeSettings"}
  BY TcpLeaves
<1>3. None \notin used /\ None \notin used'
  <2>1. used \subseteq Handle /\ used' \subseteq Handle
    BY DEF NetInv, NetworkingType, Now, SocketState
  <2> QED
    BY <2>1, Handles
<1>4. \A h \in {command, status, hand, statusHand} : h \in used' <=> h \in used
  BY <1>1, <1>3, UdpTypes DEF UdpStays
<1>5. (WincInside' <=> WincInside) /\ (StatusInside' <=> StatusInside)
  BY <1>2 DEF WincInside, StatusInside
<1>6. StatusInv'
  BY <1>2, <1>4, <1>5 DEF StatusInv
<1>7. OwnInv'
  BY <1>2, <1>4 DEF OwnInv
<1>8. HeardInv'
  BY <1>1, <1>2, HeardKept DEF UdpStays
<1> QED
  BY <1>6, <1>7, <1>8

(* The steps on the socket of the status.                                    *)
LEMMA StatusHeard ==
  ASSUME NetInv, NetInv', HandInv, HeldInv, StatusInv, OwnInv, HeardInv, ~Slice,
         StatusStep \/ CloseStatus \/ WipeStatus \/ ClearStatus
           \/ \E r \in replies : StatusSent(r)
  PROVE  StatusInv' /\ OwnInv' /\ HeardInv'
<1> USE DEF linkVars, tcpVars, sharedVars, wincVars, statusVars, Goto, StatusGoto
<1>1. /\ Now \in SocketState /\ Now.used = used /\ replies \in SUBSET Reply
      /\ {command, status, hand, statusHand} \subseteq Udp \cup {None}
      /\ {command, status, hand, statusHand} \subseteq Handle \cup {None}
      /\ None \notin used /\ \A h \in Udp : IsOpen(h)
  BY UdpTypes
<1>2. ASSUME NEW s \in SocketState, Become(s), Hears(Now, s), command' = command,
             pc = "wipeCommand" => pc' = "wipeCommand"
      PROVE  HeardInv'
  <2>1. Now' = s
    BY <1>2 DEF Become, Now, SocketState
  <2> QED
    BY <1>2, <2>1, HeardKept
<1>3. ASSUME UNCHANGED socketVars, UNCHANGED <<command, pc>> PROVE HeardInv'
  <2>1. Become(Now) /\ Hears(Now, Now)
    BY <1>3, SameSockets DEF Hears
  <2> QED
    BY <1>1, <1>2, <1>3, <2>1
<1> USE DEF StatusInside, WincInside
<1>4. CASE StatusDue
  <2>1. UNCHANGED <<socketVars, command, status, hand, pc, statusHand>>
        /\ statusPc = "delay" /\ statusPc' = "open"
    BY <1>4 DEF StatusDue
  <2>2. StatusInv' /\ OwnInv'
    BY <2>1 DEF StatusInv, OwnInv, socketVars
  <2> QED
    BY <1>3, <2>1, <2>2
<1>5. CASE OpenStatus
  <2>1. UNCHANGED <<socketVars, command, status, hand, pc>>
        /\ statusPc = "open" /\ statusPc' = "mark" /\ statusHand' = Free(Now, Udp)
    BY <1>5 DEF OpenStatus
  <2>2. statusHand' \notin used
    BY <1>1, <2>1, FreeHandles
  <2>3. ~WincInside
    BY <2>1 DEF Slice
  <2>4. StatusInv' /\ OwnInv'
    BY <2>1, <2>2, <2>3 DEF StatusInv, OwnInv, socketVars
  <2> QED
    BY <1>3, <2>1, <2>4
<1>6. CASE MarkStatus
  <2>1. /\ UNCHANGED <<command, status, hand, pc, statusHand>>
        /\ statusPc = "mark" /\ statusPc' = "assign" /\ Become(Opened(Now, statusHand))
    BY <1>6 DEF MarkStatus
  <2>2. used' = used \cup ({statusHand} \ {None})
    BY <1>6, UdpUsed
  <2>3. ~WincInside /\ statusHand \notin used
    BY <2>1 DEF StatusInv
  <2>4. statusHand # None => statusHand # command
    BY <2>3 DEF OwnInv
  <2>5. StatusInv'
    BY <2>1, <2>2, <2>3, <2>4 DEF StatusInv
  <2>6. OwnInv'
    BY <2>1, <2>2, <2>3 DEF OwnInv
  <2>7. Opened(Now, statusHand) \in SocketState /\ Hears(Now, Opened(Now, statusHand))
    BY <1>1, <2>4, SocketTypes, OthersHear
  <2> QED
    BY <1>2, <2>1, <2>5, <2>6, <2>7
<1>7. CASE AssignStatus
  <2>1. /\ UNCHANGED <<socketVars, command, hand, pc>>
        /\ statusPc = "assign" /\ statusPc' = "send" /\ status' = statusHand
    BY <1>7 DEF AssignStatus
  <2>2. StatusInv' /\ OwnInv'
    BY <2>1 DEF StatusInv, OwnInv, socketVars
  <2> QED
    BY <1>3, <2>1, <2>2
<1>8. CASE SendStatus
  <2>1. /\ UNCHANGED <<command, status, hand, pc, statusHand>>
        /\ statusPc = "send" /\ statusPc' = "delay"
    BY <1>8 DEF SendStatus
  <2>2. used' = used
    BY <1>8, UdpUsed
  <2>3. StatusInv' /\ OwnInv'
    BY <2>1, <2>2 DEF StatusInv, OwnInv
  <2>4. HeardInv'
    <3>1. CASE UNCHANGED socketVars
      BY <1>3, <2>1, <3>1
    <3>2. CASE Become(Asked(Now, "sendto", status, TRUE))
      <4>1. Asked(Now, "sendto", status, TRUE) \in SocketState
        BY <1>1, AskedTypes, Requests
      <4>2. Hears(Now, Asked(Now, "sendto", status, TRUE))
        BY DEF Hears, Asked, Now
      <4> QED
        BY <1>2, <2>1, <3>2, <4>1, <4>2
    <3> QED
      BY <1>8, <3>1, <3>2 DEF SendStatus
  <2> QED
    BY <2>3, <2>4
<1>9. ASSUME NEW r \in replies, StatusSent(r) PROVE StatusInv' /\ OwnInv' /\ HeardInv'
  <2>1. /\ UNCHANGED <<command, status, hand, statusPc, statusHand>>
        /\ pc = "idle" /\ pc' = "closeStatus" /\ r.op = "sendto" /\ Become(Arrived(Now, r))
    BY <1>9 DEF StatusSent, Event
  <2>2. used' = used
    BY <1>9, UdpUsed
  <2>3. StatusInv' /\ OwnInv'
    BY <2>1, <2>2 DEF StatusInv, OwnInv
  <2>4. r \in Reply /\ ~Hearing(r)
    BY <1>1, <2>1 DEF Hearing
  <2>5. Arrived(Now, r) \in SocketState /\ Hears(Now, Arrived(Now, r))
    BY <1>1, <2>4, ArrivedType, ArrivedHears
  <2> QED
    BY <1>2, <2>1, <2>3, <2>5
<1>10. CASE CloseStatus
  <2>1. /\ UNCHANGED <<command, status, statusPc, statusHand>> /\ pc = "closeStatus"
        /\ pc' = (IF IsOpen(status) THEN "wipeStatus" ELSE "idle")
        /\ hand' = (IF IsOpen(status) THEN status ELSE None)
        /\ (IF IsOpen(status) THEN Become(Unmarked(Now, status)) ELSE UNCHANGED socketVars)
    BY <1>10 DEF CloseStatus
  <2>2. used' = used \ Open(status)
    BY <1>10, UdpUsed
  <2>3. CASE IsOpen(status)
    <3>1. status # None /\ ~(statusPc = "mark")
      BY <2>1, <2>3, UdpTypes DEF Slice
    <3>2. StatusInv'
      BY <2>1, <2>2, <2>3, <3>1 DEF StatusInv, Open
    <3>3. OwnInv'
      BY <2>1, <2>2, <2>3, <3>1 DEF OwnInv, Open
    <3>4. status # command
      BY <2>1, <3>1 DEF OwnInv
    <3>5. Unmarked(Now, status) \in SocketState /\ Hears(Now, Unmarked(Now, status))
      BY <1>1, <3>4, SocketTypes, OthersHear
    <3> QED
      BY <1>2, <2>1, <2>3, <3>2, <3>3, <3>5
  <2>4. CASE ~IsOpen(status)
    <3>1. status = None
      BY <1>1, <2>4
    <3>2. StatusInv' /\ OwnInv'
      BY <2>1, <2>2, <2>4, <3>1 DEF StatusInv, OwnInv, Open
    <3>3. Become(Now) /\ Hears(Now, Now)
      BY <2>1, <2>4, SameSockets DEF Hears
    <3> QED
      BY <1>1, <1>2, <2>1, <3>2, <3>3
  <2> QED
    BY <2>3, <2>4
<1>11. CASE WipeStatus
  <2>1. /\ UNCHANGED <<command, status, statusPc, statusHand>> /\ hand' = None
        /\ pc = "wipeStatus" /\ pc' = "clearStatus" /\ Become(Wiped(Now, hand))
    BY <1>11 DEF WipeStatus
  <2>2. used' = used \ {hand} /\ hand \notin used
    BY <1>11, <2>1, UdpUsed DEF OwnInv
  <2>3. StatusInv' /\ OwnInv'
    BY <2>1, <2>2 DEF StatusInv, OwnInv
  <2>4. hand # command \/ hand = None
    BY <2>1 DEF OwnInv
  <2>5. Wiped(Now, hand) \in SocketState /\ Hears(Now, Wiped(Now, hand))
    BY <1>1, <2>4, SocketTypes, OthersHear
  <2> QED
    BY <1>2, <2>1, <2>3, <2>5
<1>12. CASE ClearStatus
  <2>1. UNCHANGED <<socketVars, command, hand, statusPc, statusHand>>
        /\ pc = "clearStatus" /\ pc' = "idle" /\ status' = None
    BY <1>12 DEF ClearStatus
  <2>2. StatusInv' /\ OwnInv'
    BY <2>1 DEF StatusInv, OwnInv, socketVars
  <2>3. Become(Now) /\ Hears(Now, Now)
    BY <2>1, SameSockets DEF Hears
  <2> QED
    BY <1>1, <1>2, <2>1, <2>2, <2>3
<1> QED
  BY <1>4, <1>5, <1>6, <1>7, <1>8, <1>9, <1>10, <1>11, <1>12 DEF StatusStep

(* The steps on the command socket, and the end of the link.                 *)
LEMMA CommandHeard ==
  ASSUME NetInv, HandInv, HeldInv, StatusInv, OwnInv, HeardInv, ~Slice,
         \/ LinkJoined \/ LinkLost \/ OpenCommand \/ MarkCommand \/ WipeCommand
         \/ \E r \in replies : CommandEvent(r)
  PROVE  StatusInv' /\ OwnInv' /\ HeardInv'
<1> USE DEF linkVars, tcpVars, sharedVars, wincVars, statusVars, Goto
<1>1. /\ Now \in SocketState /\ Now.used = used /\ Now.receiving = receiving
      /\ Now.replies = replies /\ replies \in SUBSET Reply
      /\ {command, status, hand, statusHand} \subseteq Udp \cup {None}
      /\ {command, status, hand, statusHand} \subseteq Handle \cup {None}
      /\ None \notin used /\ \A h \in Udp : IsOpen(h)
  BY UdpTypes DEF Now
<1>2. ASSUME UNCHANGED socketVars PROVE Hears(Now, Now')
  BY <1>2 DEF Hears, Now, socketVars
<1> USE DEF StatusInside, WincInside
<1>3. CASE LinkJoined
  <2>1. UNCHANGED <<socketVars, command, status, hand, pc, statusPc, statusHand>>
    BY <1>3 DEF LinkJoined
  <2>2. StatusInv' /\ OwnInv'
    BY <2>1 DEF StatusInv, OwnInv, socketVars
  <2> QED
    BY <1>2, <2>1, <2>2, HeardKept
<1>4. CASE LinkLost
  <2>1. /\ UNCHANGED <<command, status, statusPc, statusHand>> /\ pc = "idle" /\ hand = None
        /\ pc' = (IF IsOpen(command) THEN "wipeCommand" ELSE "closeSettings")
        /\ hand' = (IF IsOpen(command) THEN command ELSE None)
    BY <1>4 DEF LinkLost, HandInv
  <2>2. used' = used \ (Open(est) \cup Open(command))
    BY <1>4, LostUsed
  <2>3. /\ est \notin Udp
        /\ status # None => status # est
        /\ statusHand # None => statusHand # est
    <3>1. est \in Tcp \cup {None} /\ Tcp \cap Udp = {} /\ None \notin Udp
      BY Handles, UdpTypes DEF NetInv, NetworkingType
    <3> QED
      BY <1>1, <3>1
  <2>4. IsOpen(command) <=> command # None
    BY <1>1, UdpTypes
  <2>5. StatusInv'
    BY <2>1, <2>2, <2>3, <2>4 DEF StatusInv, OwnInv, Open, Slice
  <2>6. OwnInv'
    BY <2>1, <2>2, <2>4 DEF OwnInv
  <2>7. HeardInv'
    BY <2>1, <2>4 DEF HeardInv
  <2> QED
    BY <2>5, <2>6, <2>7
<1>5. CASE OpenCommand
  <2>1. /\ UNCHANGED <<socketVars, command, status, statusPc, statusHand>>
        /\ pc = "openCommand" /\ pc' = "markCommand" /\ hand' = Free(Now, Udp)
        /\ command = None
    BY <1>5 DEF OpenCommand, HeldInv
  <2>2. hand' \notin used /\ statusPc # "mark"
    BY <1>1, <2>1, FreeHandles DEF Slice
  <2>3. StatusInv'
    BY <2>1, <2>2 DEF StatusInv, socketVars
  <2>4. OwnInv'
    BY <2>1, <2>2 DEF StatusInv, OwnInv, socketVars
  <2>5. HeardInv'
    BY <2>1 DEF HeardInv
  <2> QED
    BY <2>3, <2>4, <2>5
<1>6. CASE MarkCommand
  <2>1. /\ UNCHANGED <<status, statusPc, statusHand>> /\ pc = "markCommand" /\ pc' = "openSettings"
        /\ command' = hand /\ hand' = None /\ hand \notin used
    BY <1>6 DEF MarkCommand, OwnInv
  <2>0. PICK sent \in BOOLEAN : Become(Asked(Opened(Now, hand), "bind", hand, sent))
    BY <1>6, SentOrNot DEF MarkCommand
  <2>2. used' = used \cup ({hand} \ {None}) /\ statusPc # "mark"
    BY <1>6, <2>1, UdpUsed DEF StatusInv
  <2>3. StatusInv'
    BY <2>1, <2>2 DEF StatusInv
  <2>4. OwnInv'
    BY <2>1, <2>2 DEF OwnInv
  <2>5. ASSUME hand # None
        PROVE  hand \in silent' \/ (Live("bind", hand) \in replies' /\ hand \notin receiving')
    <3> DEFINE o == Opened(Now, hand)
    <3>1. hand \in o.used /\ hand \notin o.receiving
      BY <2>5 DEF Opened
    <3>2. Become(Asked(o, "bind", hand, sent)) /\ o \in SocketState
      BY <1>1, <2>0, SocketTypes
    <3> HIDE DEF o
    <3>3. /\ \/ Live("bind", hand) \in Asked(o, "bind", hand, sent).replies
             \/ hand \in Asked(o, "bind", hand, sent).silent
          /\ Asked(o, "bind", hand, sent).receiving = o.receiving
      BY <3>1, <3>2 DEF Asked, SocketState
    <3> QED
      BY <3>1, <3>2, <3>3 DEF Become
  <2>6. HeardInv'
    BY <2>1, <2>5 DEF HeardInv, Hearing, Live
  <2> QED
    BY <2>3, <2>4, <2>6
<1>7. CASE WipeCommand
  <2>1. /\ UNCHANGED <<status, statusPc, statusHand>>
        /\ pc = "wipeCommand" /\ pc' = "closeSettings"
        /\ command' = None /\ hand' = None
    BY <1>7 DEF WipeCommand
  <2>2. used' = used \ {hand} /\ statusPc # "mark"
    BY <1>7, <2>1, UdpUsed DEF StatusInv
  <2>3. StatusInv'
    BY <2>1, <2>2 DEF StatusInv, OwnInv
  <2>4. OwnInv' /\ HeardInv'
    BY <2>1 DEF OwnInv, HeardInv
  <2> QED
    BY <2>3, <2>4
<1>8. ASSUME NEW r \in replies, CommandEvent(r) PROVE StatusInv' /\ OwnInv' /\ HeardInv'
  <2> DEFINE a == Arrived(Now, r)
  <2>1. /\ UNCHANGED <<command, status, hand, pc, statusPc, statusHand>> /\ pc = "idle"
        /\ r.op \in {"bind", "recv"} /\ r.sock = command
    BY <1>8, OwnerOf DEF CommandEvent, Event, Understood
  <2>0. PICK sent \in BOOLEAN : Become(Receiving(a, command, sent))
    BY <1>8, SentOrNot DEF CommandEvent
  <2>2. used' = used
    BY <1>8, UdpUsed
  <2>3. StatusInv' /\ OwnInv'
    BY <2>1, <2>2 DEF StatusInv, OwnInv
  <2>4. command # None /\ command \in used
    <3>1. command # None
      BY <1>1, <2>1, Handles DEF Reply
    <3> QED
      BY <2>1, <3>1 DEF OwnInv
  <2>5. a \in SocketState /\ a.used = used /\ a.replies = replies \ {r} /\ a.silent = silent
        /\ a.receiving = IF r.op = "recv" THEN receiving \ {command} ELSE receiving
    <3>1. a \in SocketState /\ a.used = used
      BY <1>1, ArrivedType
    <3>2. a.replies = replies \ {r} /\ a.silent = silent
      BY <1>1, <2>1 DEF Arrived, SocketState, Now
    <3>3. a.receiving = IF r.op = "recv" THEN receiving \ {command} ELSE receiving
      BY <1>1, <2>1 DEF Arrived, SocketState
    <3> QED
      BY <3>1, <3>2, <3>3
  <2> HIDE DEF a
  <2>6. ASSUME command \notin Receiving(a, command, sent).silent
        PROVE  Live("recv", command) \in Receiving(a, command, sent).replies
    <3>1. CASE command \in a.receiving
      <4>1. Receiving(a, command, sent) = a
        BY <3>1 DEF Receiving
      <4>2. Live("recv", command) \in replies /\ r.op = "bind"
        BY <2>1, <2>4, <2>5, <2>6, <3>1, <4>1 DEF HeardInv
      <4>3. Live("recv", command) # r
        BY <4>2 DEF Live
      <4> QED
        BY <2>5, <4>1, <4>2, <4>3
    <3>2. CASE command \notin a.receiving
      <4>1. /\ Receiving(a, command, sent).replies = Asked(a, "recv", command, sent).replies
            /\ Receiving(a, command, sent).silent = Asked(a, "recv", command, sent).silent
        BY <2>4, <2>5, <3>2 DEF Receiving, Asked, SocketState
      <4>2. \/ Live("recv", command) \in Asked(a, "recv", command, sent).replies
            \/ command \in Asked(a, "recv", command, sent).silent
        BY <2>4, <2>5 DEF Asked, SocketState
      <4> QED
        BY <2>6, <4>1, <4>2
    <3> QED
      BY <3>1, <3>2
  <2>7. command \in silent' \/ Live("recv", command) \in replies'
    BY <2>0, <2>6 DEF Become
  <2>8. HeardInv'
    BY <2>1, <2>7 DEF HeardInv, Hearing, Live
  <2> QED
    BY <2>3, <2>8
<1> QED
  BY <1>3, <1>4, <1>5, <1>6, <1>7, <1>8

(* Every step that slices no socket() or close() keeps the command socket.    *)
LEMMA UdpStep ==
  ASSUME NetInv, HandInv, HeldInv, UdpInv, Next
  PROVE  UdpInv'
<1> SUFFICES ASSUME ~sliced' PROVE StatusInv' /\ OwnInv' /\ HeardInv'
  BY DEF UdpInv
<1>1. StatusInv /\ OwnInv /\ HeardInv /\ ~Slice /\ Step /\ NetInv'
  BY NetInvNext DEF Next, UdpInv
<1>2. ASSUME NEW r \in replies, SocketEvent(r) PROVE StatusInv' /\ OwnInv' /\ HeardInv'
  BY <1>1, <1>2, TcpHeard, CommandHeard, StatusHeard DEF SocketEvent, TcpEvent
<1>3. ASSUME NEW r \in replies, Forgotten(r) PROVE StatusInv' /\ OwnInv' /\ HeardInv'
  BY <1>1, <1>3, TcpHeard DEF TcpEvent
<1>4. CASE WincStep
  BY <1>1, <1>4, TcpHeard, CommandHeard, StatusHeard DEF WincStep, TcpEvent
<1>5. CASE StatusStep
  BY <1>1, <1>5, StatusHeard
<1>6. CASE LinkJoined \/ AddressReceived \/ LinkLost
  BY <1>1, <1>6, TcpHeard, CommandHeard DEF TcpEvent
<1> QED
  BY <1>1, <1>2, <1>3, <1>4, <1>5, <1>6 DEF Step

(* The command socket is kept in every state.                                *)
LEMMA UdpInvHolds == Spec => [](NetInv /\ HandInv /\ HeldInv /\ UdpInv)
<1>1. Init => UdpInv
  BY DEF Init, InitSockets, UdpInv, StatusInv, OwnInv, HeardInv, WincInside, StatusInside
<1>2. UdpInv /\ UNCHANGED historyVars => UdpInv'
  BY DEF UdpInv, StatusInv, OwnInv, HeardInv, WincInside, StatusInside, Hearing, historyVars, vars,
    socketVars, sharedVars, wincVars, statusVars
<1>3. NetInv /\ HandInv /\ HeldInv /\ UdpInv /\ [Next]_historyVars => UdpInv'
  BY <1>2, UdpStep
<1> QED
  BY <1>1, <1>3, HeldInvHolds, PTL DEF Spec

(* The robot hears commands, whatever the tasks and the module do, if no     *)
(* task was preempted inside of socket() or close() by the other one's and   *)
(* no request of the command socket failed (Networking.c:98-127, 267, 273,   *)
(* 302).                                                                     *)
THEOREM CommandsAreHeard == Spec => []CommandIsHeard
<1>1. UdpInv => CommandIsHeard
  BY DEF UdpInv, OwnInv, HeardInv, Hearing, CommandIsHeard
<1> QED
  BY <1>1, UdpInvHolds, PTL
=============================================================================
