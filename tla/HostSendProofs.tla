--------------------------- MODULE HostSendProofs ---------------------------
(***************************************************************************)
(* What hif_send promises to a caller that nobody overlaps, for all values *)
(* of the constants.                                                       *)
(*                                                                         *)
(* The registers belong to whoever sends.  The proof follows a call that   *)
(* runs alone: once the module has answered its request no other request   *)
(* stands and the bell is silent, so that nobody but the caller touches    *)
(* the buffer, up to the bell; and from then on no other call gets an      *)
(* answer before the module has taken the message.                         *)
(***************************************************************************)
EXTENDS HostSend, TLAPS, FiniteSetTheorems

USE SendAssumption DEF NoAddress, NoMessage

-----------------------------------------------------------------------------
(* The invariant. *)

Result == {"pending", "M2M_SUCCESS", "M2M_ERR_MEM_ALLOC", "M2M_ERR_BUS_FAIL"}

Message == [size : Sizes, result : Result, overlapped : BOOLEAN]

Content == [size : Sizes \cup {0}, header : Nat, body : Nat]

SendPc == {"idle", "length", "request", "poll", "address", "header", "body",
           "bell"}

TypeOK ==
  /\ length \in Sizes \cup {0} /\ request \in BOOLEAN
  /\ address \in Buffers \cup {NoAddress} /\ bell \in Buffers \cup {NoAddress}
  /\ buffers \in [Buffers -> Content] /\ taken \in Seq(Content)
  /\ sent \in Seq(Message)
  /\ pc \in [Senders -> SendPc]
  /\ message \in [Senders -> Nat]
  /\ dma \in [Senders -> Buffers \cup {NoAddress}]

\* Before a caller has an address, and when it has one.
Asking == {"length", "request", "poll", "address"}
Writing == {"header", "body", "bell"}

\* Each call in progress has a message of its own, and a call that no other
\* overlaps is the only one.
Calls ==
  \A t \in Sending :
    /\ message[t] \in DOMAIN sent /\ sent[message[t]].result = "pending"
    /\ pc[t] \in Asking => dma[t] = NoAddress
    /\ pc[t] \in Writing => dma[t] \in Buffers
    /\ \A u \in Sending : message[u] = message[t] => u = t
    /\ ~sent[message[t]].overlapped => Sending = {t}

\* A message is found nowhere before it is sent.
Written ==
  /\ \A a \in Buffers : \A n \in Mentions(buffers[a]) : n <= Len(sent)
  /\ \A i \in DOMAIN taken : \A n \in Mentions(taken[i]) : n <= Len(sent)

Alone(t) == t \in Sending /\ ~sent[message[t]].overlapped

\* The module has answered the request of t.
Answered(t) ==
  pc[t] \in {"address"} \cup Writing \/ (pc[t] = "poll" /\ ~request)

Filled(t, header, body) ==
  [size |-> sent[message[t]].size, header |-> header, body |-> body]

\* How far the message of a call that runs alone has got.
Progress(t) ==
  /\ pc[t] \in {"request", "poll"} => length = sent[message[t]].size
  /\ Answered(t) => ~request /\ bell = NoAddress
  /\ Answered(t) /\ pc[t] \in Asking /\ address # NoAddress =>
       buffers[address] = Filled(t, NoMessage, NoMessage)
  /\ pc[t] = "header" => buffers[dma[t]] = Filled(t, NoMessage, NoMessage)
  /\ pc[t] = "body" => buffers[dma[t]] = Filled(t, message[t], NoMessage)
  /\ pc[t] = "bell" => buffers[dma[t]] = Filled(t, message[t], message[t])
  /\ \A i \in DOMAIN taken : message[t] \notin Mentions(taken[i])
  /\ \A a \in Buffers : message[t] \in Mentions(buffers[a]) => a = dma[t]

Undisturbed == \A t \in Senders : Alone(t) => Progress(t)

Accepted(n) == sent[n].result = "M2M_SUCCESS" /\ ~sent[n].overlapped

\* The bell is rung for message n, and no caller can get the buffer before the
\* module takes it.
Rung(n) ==
  /\ bell \in Buffers
  /\ buffers[bell] = Whole(n)
  /\ \A a \in Buffers : n \in Mentions(buffers[a]) => a = bell
  /\ \A i \in DOMAIN taken : n \notin Mentions(taken[i])
  /\ \A t \in Sending :
       pc[t] \in {"length", "request", "poll"} /\ (pc[t] = "poll" => request)

Delivered(n) ==
  /\ \A a \in Buffers : n \notin Mentions(buffers[a])
  /\ \E i \in DOMAIN taken :
       /\ taken[i] = Whole(n)
       /\ \A j \in DOMAIN taken : n \in Mentions(taken[j]) => j = i

Arriving == \A n \in DOMAIN sent : Accepted(n) => Rung(n) \/ Delivered(n)

\* The buffers that are not free, and the calls that may have one: those that
\* asked for a buffer or failed, and were not accepted.
Reserved == {a \in Buffers : buffers[a].size # 0}

Charged ==
  {n \in DOMAIN sent :
     /\ ~Accepted(n)
     /\ \A t \in Sending : message[t] = n => pc[t] \notin {"length", "request"}}

Ringing == \E n \in DOMAIN sent : Accepted(n) /\ Rung(n)

Bit(b) == IF b THEN 1 ELSE 0

\* What the module gave out, or will give out for the request that stands, is
\* for a call that is charged, or is rung for.
NoLeak ==
  Cardinality(Reserved) + Bit(request) <= Cardinality(Charged) + Bit(Ringing)

SendInv == TypeOK /\ Calls /\ Written /\ Undisturbed /\ Arriving /\ NoLeak

-----------------------------------------------------------------------------
(* What the steps do to the calls. *)

\* The steps of a call: it writes to its buffer, it moves on, or it ends.
Write(t) == dma[t] \in Buffers /\ (WriteHeader(t) \/ WriteBody(t))

Move(t) ==
  /\ WriteLength(t) \/ Request(t) \/ Poll(t) \/ ReadAddress(t)
  /\ pc'[t] # "idle"

End(t) ==
  /\ Step(t) \/ (Fail(t) /\ UNCHANGED <<registers, moduleVars>>)
  /\ pc'[t] = "idle"

\* A call that fails with a write that reached the module.
Spoil(t) == Fail(t) /\ Effect(t)

Stop(t) == End(t) \/ Spoil(t)

(* A call that returns leaves the others as they are.                         *)
LEMMA Returns ==
  ASSUME TypeOK, NEW t \in Senders, message[t] \in DOMAIN sent,
         NEW v \in Result, Return(t, v)
  PROVE  /\ sent' \in Seq(Message) /\ DOMAIN sent' = DOMAIN sent
         /\ Len(sent') = Len(sent)
         /\ \A n \in DOMAIN sent :
              /\ sent'[n].size = sent[n].size
              /\ sent'[n].overlapped = sent[n].overlapped
              /\ sent'[n].result = IF n = message[t] THEN v ELSE sent[n].result
         /\ pc' \in [Senders -> SendPc] /\ Sending' = Sending \ {t}
         /\ \A u \in Senders : pc'[u] = IF u = t THEN "idle" ELSE pc[u]
<1>1. \A n \in DOMAIN sent : sent[n] \in Message
  BY DEF TypeOK
<1>2. /\ sent' = [sent EXCEPT ![message[t]].result = v]
      /\ pc' = [pc EXCEPT ![t] = "idle"]
  BY DEF Return, GoTo
<1>3. /\ DOMAIN sent' = DOMAIN sent
      /\ \A n \in DOMAIN sent :
           sent'[n] = IF n = message[t] THEN [sent[n] EXCEPT !.result = v]
                                        ELSE sent[n]
  BY <1>2 DEF TypeOK
<1>4. \A m \in Message :
        /\ [m EXCEPT !.result = v] \in Message
        /\ [m EXCEPT !.result = v].size = m.size
        /\ [m EXCEPT !.result = v].overlapped = m.overlapped
        /\ [m EXCEPT !.result = v].result = v
  BY DEF Message
<1>5. \A n \in DOMAIN sent : sent'[n] \in Message
  BY <1>1, <1>3, <1>4
<1>6. /\ Len(sent) \in Nat /\ DOMAIN sent = 1 .. Len(sent)
  BY DEF TypeOK
<1>7. sent' \in Seq(Message) /\ Len(sent') = Len(sent)
  <2>1. sent' = [n \in 1 .. Len(sent) |-> sent'[n]]
    BY <1>2, <1>3, <1>6
  <2>2. [n \in 1 .. Len(sent) |-> sent'[n]] \in Seq(Message)
    BY <1>5, <1>6
  <2> QED
    BY <1>3, <1>6, <2>1, <2>2
<1>8. /\ pc' \in [Senders -> SendPc] /\ Sending' = Sending \ {t}
      /\ \A u \in Senders : pc'[u] = IF u = t THEN "idle" ELSE pc[u]
  BY <1>2 DEF TypeOK, SendPc, Sending
<1>9. ASSUME NEW n \in DOMAIN sent
      PROVE  /\ sent'[n].size = sent[n].size
             /\ sent'[n].overlapped = sent[n].overlapped
             /\ sent'[n].result = IF n = message[t] THEN v ELSE sent[n].result
  <2>1. CASE n = message[t]
    <3>1. sent[n] \in Message
      BY <1>1
    <3>2. sent'[n] = [sent[n] EXCEPT !.result = v]
      BY <1>3, <2>1
    <3> QED
      BY <1>4, <2>1, <3>1, <3>2
  <2>2. CASE n # message[t]
    BY <1>3, <2>2
  <2> QED
    BY <2>1, <2>2
<1> QED
  BY <1>3, <1>7, <1>8, <1>9

(* A new call gets a number of its own, and overlaps those in progress.       *)
LEMMA Called ==
  ASSUME TypeOK, NEW t \in Senders, Call(t)
  PROVE  /\ sent' \in Seq(Message)
         /\ Len(sent) \in Nat /\ Len(sent') = Len(sent) + 1
         /\ DOMAIN sent = 1 .. Len(sent) /\ DOMAIN sent' = 1 .. Len(sent) + 1
         /\ \A n \in DOMAIN sent :
              /\ sent'[n].size = sent[n].size
              /\ sent'[n].overlapped <=>
                   sent[n].overlapped \/ sent[n].result = "pending"
              /\ sent'[n].result = sent[n].result
         /\ sent'[Len(sent) + 1].result = "pending"
         /\ sent'[Len(sent) + 1].overlapped <=> Sending # {}
         /\ pc' \in [Senders -> SendPc] /\ Sending' = Sending \cup {t}
         /\ \A u \in Senders : pc'[u] = IF u = t THEN "length" ELSE pc[u]
         /\ message' \in [Senders -> Nat]
         /\ \A u \in Senders :
              message'[u] = IF u = t THEN Len(sent) + 1 ELSE message[u]
         /\ dma' \in [Senders -> Buffers \cup {NoAddress}]
         /\ \A u \in Senders : dma'[u] = IF u = t THEN NoAddress ELSE dma[u]
         /\ t \notin Sending
<1>1. /\ Len(sent) \in Nat /\ DOMAIN sent = 1 .. Len(sent)
      /\ \A n \in DOMAIN sent : sent[n] \in Message
  BY DEF TypeOK
<1>2. PICK size \in Sizes :
        sent' = [n \in 1 .. Len(sent) + 1 |->
                   IF n > Len(sent)
                   THEN [size |-> size, result |-> "pending",
                         overlapped |-> Sending # {}]
                   ELSE [sent[n] EXCEPT !.overlapped =
                                          @ \/ sent[n].result = "pending"]]
  BY DEF Call
<1>3. \A m \in Message, b \in BOOLEAN :
        /\ [m EXCEPT !.overlapped = b] \in Message
        /\ [m EXCEPT !.overlapped = b].size = m.size
        /\ [m EXCEPT !.overlapped = b].result = m.result
        /\ [m EXCEPT !.overlapped = b].overlapped = b
  BY DEF Message
<1>4. \A n \in DOMAIN sent :
        LET b == sent[n].overlapped \/ sent[n].result = "pending"
        IN b \in BOOLEAN /\ sent'[n] = [sent[n] EXCEPT !.overlapped = b]
  BY <1>1, <1>2
<1>5. ASSUME NEW n \in DOMAIN sent
      PROVE  /\ sent'[n] \in Message
             /\ sent'[n].size = sent[n].size
             /\ sent'[n].overlapped <=>
                  sent[n].overlapped \/ sent[n].result = "pending"
             /\ sent'[n].result = sent[n].result
  <2> DEFINE b == sent[n].overlapped \/ sent[n].result = "pending"
  <2>1. b \in BOOLEAN /\ sent'[n] = [sent[n] EXCEPT !.overlapped = b]
    BY <1>4
  <2> HIDE DEF b
  <2>2. /\ sent'[n] \in Message
        /\ sent'[n].size = sent[n].size
        /\ sent'[n].overlapped = b
        /\ sent'[n].result = sent[n].result
    BY <1>1, <1>3, <2>1
  <2> QED
    BY <2>2 DEF b
<1>6. /\ sent'[Len(sent) + 1] = [size |-> size, result |-> "pending",
                                 overlapped |-> Sending # {}]
      /\ sent'[Len(sent) + 1].result = "pending"
      /\ sent'[Len(sent) + 1].overlapped <=> Sending # {}
  <2>1. sent'[Len(sent) + 1] = [size |-> size, result |-> "pending",
                                overlapped |-> Sending # {}]
    BY <1>1, <1>2
  <2> DEFINE any == Sending # {}
  <2>2. sent'[Len(sent) + 1] = [size |-> size, result |-> "pending",
                                overlapped |-> any]
    BY <2>1
  <2> HIDE DEF any
  <2>3. /\ sent'[Len(sent) + 1].result = "pending"
        /\ sent'[Len(sent) + 1].overlapped = any
    BY <2>2
  <2> QED
    BY <2>1, <2>3 DEF any
<1>7. sent'[Len(sent) + 1] \in Message
  BY <1>6 DEF Message, Result
<1>8. /\ sent' \in Seq(Message) /\ Len(sent') = Len(sent) + 1
      /\ DOMAIN sent' = 1 .. Len(sent) + 1
  <2>1. \A n \in 1 .. Len(sent) + 1 : sent'[n] \in Message
    BY <1>1, <1>5, <1>7
  <2>2. sent' = [n \in 1 .. Len(sent) + 1 |-> sent'[n]]
    BY <1>2
  <2>3. [n \in 1 .. Len(sent) + 1 |-> sent'[n]] \in Seq(Message)
    BY <1>1, <2>1
  <2> QED
    BY <1>1, <2>2, <2>3
<1>9. /\ pc' \in [Senders -> SendPc] /\ Sending' = Sending \cup {t}
      /\ \A u \in Senders : pc'[u] = IF u = t THEN "length" ELSE pc[u]
      /\ t \notin Sending
  BY DEF Call, GoTo, At, TypeOK, SendPc, Sending
<1>10. /\ message' \in [Senders -> Nat]
       /\ \A u \in Senders :
            message'[u] = IF u = t THEN Len(sent) + 1 ELSE message[u]
       /\ dma' \in [Senders -> Buffers \cup {NoAddress}]
       /\ \A u \in Senders : dma'[u] = IF u = t THEN NoAddress ELSE dma[u]
  BY <1>1 DEF Call, TypeOK
<1> QED
  BY <1>1, <1>5, <1>6, <1>8, <1>9, <1>10

-----------------------------------------------------------------------------
(* What the steps do to the buffers. *)

LEMMA Contents ==
  /\ Free \in Content /\ Mentions(Free) = {NoMessage}
  /\ \A n \in Nat, b \in Content :
       /\ [b EXCEPT !.header = n] = [size |-> b.size, header |-> n, body |-> b.body]
       /\ [b EXCEPT !.body = n] = [size |-> b.size, header |-> b.header, body |-> n]
  /\ \A s \in Sizes \cup {0}, h \in Nat, b \in Nat :
       [size |-> s, header |-> h, body |-> b] \in Content
  /\ \A b \in Content :
       /\ b.size \in Sizes \cup {0} /\ b.header \in Nat /\ b.body \in Nat
       /\ Mentions(b) \subseteq Nat
BY DEF Content, Free, Mentions

(* The module answers with an empty buffer of the length it finds, or with    *)
(* no buffer.                                                                 *)
LEMMA Answers ==
  ASSUME TypeOK, Answer
  PROVE  /\ request /\ ~request' /\ bell = NoAddress
         /\ UNCHANGED <<length, bell, taken, sent, pc, senderVars>>
         /\ buffers' \in [Buffers -> Content]
         /\ \/ address' = NoAddress /\ UNCHANGED buffers
            \/ /\ address' \in Buffers /\ buffers[address'].size = 0
               /\ buffers'[address'] = [size |-> length, header |-> NoMessage,
                                        body |-> NoMessage]
               /\ \A a \in Buffers : a # address' => buffers'[a] = buffers[a]
<1>1. CASE address' = NoAddress /\ UNCHANGED buffers
  BY <1>1 DEF Answer, TypeOK
<1>2. ASSUME NEW a \in Buffers, buffers[a].size = 0, address' = a,
             buffers' = [buffers EXCEPT ![a] = [Free EXCEPT !.size = length]]
      PROVE  /\ buffers' \in [Buffers -> Content]
             /\ buffers'[a] = [size |-> length, header |-> NoMessage,
                               body |-> NoMessage]
             /\ \A b \in Buffers : b # a => buffers'[b] = buffers[b]
  <2>1. [Free EXCEPT !.size = length] = [size |-> length, header |-> NoMessage,
                                         body |-> NoMessage]
    BY DEF Free
  <2>2. [size |-> length, header |-> NoMessage, body |-> NoMessage] \in Content
    BY DEF TypeOK, Content
  <2> QED
    BY <1>2, <2>1, <2>2 DEF TypeOK
<1> QED
  BY <1>1, <1>2 DEF Answer

LEMMA Takes ==
  ASSUME TypeOK, Take
  PROVE  /\ bell \in Buffers /\ bell' = NoAddress
         /\ UNCHANGED <<length, request, address, sent, pc, senderVars>>
         /\ taken' \in Seq(Content) /\ Len(taken) \in Nat
         /\ DOMAIN taken = 1 .. Len(taken)
         /\ DOMAIN taken' = 1 .. Len(taken) + 1
         /\ \A i \in DOMAIN taken : taken'[i] = taken[i]
         /\ taken'[Len(taken) + 1] = buffers[bell]
         /\ buffers' \in [Buffers -> Content]
         /\ \A a \in Buffers : buffers'[a] = IF a = bell THEN Free ELSE buffers[a]
<1>1. /\ bell \in Buffers /\ bell' = NoAddress
      /\ UNCHANGED <<length, request, address, sent, pc, senderVars>>
  BY DEF Take, TypeOK
<1>2. buffers[bell] \in Content
  BY <1>1 DEF TypeOK
<1>3. /\ taken' \in Seq(Content) /\ Len(taken) \in Nat
      /\ DOMAIN taken = 1 .. Len(taken)
      /\ DOMAIN taken' = 1 .. Len(taken) + 1
      /\ \A i \in DOMAIN taken : taken'[i] = taken[i]
      /\ taken'[Len(taken) + 1] = buffers[bell]
  BY <1>2 DEF Take, TypeOK
<1>4. /\ buffers' \in [Buffers -> Content]
      /\ \A a \in Buffers : buffers'[a] = IF a = bell THEN Free ELSE buffers[a]
  BY <1>1, Contents DEF Take, TypeOK
<1> QED
  BY <1>1, <1>3, <1>4

LEMMA Writes ==
  ASSUME TypeOK, NEW t \in Senders, Write(t)
  PROVE  /\ UNCHANGED <<registers, taken, sent, senderVars>>
         /\ Sending' = Sending /\ t \in Sending
         /\ pc' \in [Senders -> SendPc]
         /\ \A u \in Senders \ {t} : pc'[u] = pc[u]
         /\ buffers' \in [Buffers -> Content]
         /\ \A a \in Buffers : a # dma[t] => buffers'[a] = buffers[a]
         /\ \/ /\ pc[t] = "header" /\ pc'[t] = "body"
               /\ buffers'[dma[t]] = [size |-> buffers[dma[t]].size,
                                      header |-> message[t],
                                      body |-> buffers[dma[t]].body]
            \/ /\ pc[t] = "body" /\ pc'[t] = "bell"
               /\ buffers'[dma[t]] = [size |-> buffers[dma[t]].size,
                                      header |-> buffers[dma[t]].header,
                                      body |-> message[t]]
<1> DEFINE old == buffers[dma[t]]
<1>1. old \in Content /\ message[t] \in Nat
  BY DEF TypeOK, Write
<1>2. UNCHANGED <<registers, taken, sent, senderVars>>
  BY DEF Write, WriteHeader, WriteBody
<1>3. CASE WriteHeader(t)
  <2>1. buffers' = [buffers EXCEPT ![dma[t]] =
                      [size |-> old.size, header |-> message[t],
                       body |-> old.body]]
    BY <1>1, <1>3, Contents DEF WriteHeader
  <2>2. [size |-> old.size, header |-> message[t], body |-> old.body] \in Content
    BY <1>1, Contents
  <2>3. /\ pc[t] = "header" /\ pc'[t] = "body" /\ Sending' = Sending
        /\ t \in Sending /\ pc' \in [Senders -> SendPc]
        /\ \A u \in Senders \ {t} : pc'[u] = pc[u]
    BY <1>3 DEF WriteHeader, GoTo, At, TypeOK, Sending, SendPc
  <2> HIDE DEF old
  <2> QED
    BY <1>2, <2>1, <2>2, <2>3 DEF TypeOK, old, Write
<1>4. CASE WriteBody(t)
  <2>1. buffers' = [buffers EXCEPT ![dma[t]] =
                      [size |-> old.size, header |-> old.header,
                       body |-> message[t]]]
    BY <1>1, <1>4, Contents DEF WriteBody
  <2>2. [size |-> old.size, header |-> old.header, body |-> message[t]] \in Content
    BY <1>1, Contents
  <2>3. /\ pc[t] = "body" /\ pc'[t] = "bell" /\ Sending' = Sending
        /\ t \in Sending /\ pc' \in [Senders -> SendPc]
        /\ \A u \in Senders \ {t} : pc'[u] = pc[u]
    BY <1>4 DEF WriteBody, GoTo, At, TypeOK, Sending, SendPc
  <2> HIDE DEF old
  <2> QED
    BY <1>2, <2>1, <2>2, <2>3 DEF TypeOK, old, Write
<1> QED
  BY <1>3, <1>4 DEF Write

(* The steps of a call that neither write nor return: they change its place,  *)
(* and a register or the address it has read.                                 *)
LEMMA Moves ==
  ASSUME TypeOK, NEW t \in Senders, Move(t)
  PROVE  /\ UNCHANGED <<address, bell, moduleVars, sent, message>>
         /\ Sending' = Sending /\ t \in Sending
         /\ pc' \in [Senders -> SendPc]
         /\ \A u \in Senders \ {t} : pc'[u] = pc[u]
         /\ dma' \in [Senders -> Buffers \cup {NoAddress}]
         /\ \A u \in Senders \ {t} : dma'[u] = dma[u]
         /\ \/ /\ pc[t] = "length" /\ pc'[t] = "request"
               /\ length' = sent[message[t]].size
               /\ UNCHANGED <<request, dma>>
            \/ /\ pc[t] = "request" /\ pc'[t] = "poll" /\ request'
               /\ UNCHANGED <<length, dma>>
            \/ /\ pc[t] = "poll" /\ pc'[t] = "poll" /\ request
               /\ UNCHANGED <<length, request, dma>>
            \/ /\ pc[t] = "poll" /\ pc'[t] = "address" /\ ~request
               /\ UNCHANGED <<length, request, dma>>
            \/ /\ pc[t] = "address" /\ pc'[t] = "header"
               /\ address # NoAddress /\ dma'[t] = address
               /\ UNCHANGED <<length, request>>
<1> USE DEF Move, TypeOK, At, GoTo, registers, moduleVars, senderVars, Return
<1>1. CASE WriteLength(t)
  BY <1>1 DEF WriteLength, Sending, SendPc
<1>2. CASE Request(t)
  BY <1>2 DEF Request, Sending, SendPc
<1>3. CASE Poll(t)
  <2>1. \/ ~request /\ pc' = [pc EXCEPT ![t] = "address"] /\ UNCHANGED sent
        \/ request /\ UNCHANGED <<pc, sent>>
    BY <1>3 DEF Poll
  <2> QED
    BY <1>3, <2>1 DEF Poll, Sending, SendPc
<1>4. CASE ReadAddress(t)
  <2>1. /\ address # NoAddress /\ pc' = [pc EXCEPT ![t] = "header"]
        /\ UNCHANGED sent
    BY <1>4 DEF ReadAddress
  <2> QED
    BY <1>4, <2>1 DEF ReadAddress, Sending, SendPc
<1> QED
  BY <1>1, <1>2, <1>3, <1>4 DEF Move

(* The steps with which a call returns: of these only the last rings a bell.  *)
LEMMA Ends ==
  ASSUME TypeOK, NEW t \in Senders, End(t),
         t \in Sending => message[t] \in DOMAIN sent
  PROVE  /\ t \in Sending
         /\ UNCHANGED <<length, request, address, moduleVars, message>>
         /\ dma' \in [Senders -> Buffers \cup {NoAddress}]
         /\ \A u \in Senders \ {t} : dma'[u] = dma[u]
         /\ \/ /\ pc[t] = "bell" /\ bell' = dma[t] /\ UNCHANGED dma
               /\ Return(t, "M2M_SUCCESS")
            \/ /\ bell' = bell
               /\ \E v \in {"M2M_ERR_MEM_ALLOC", "M2M_ERR_BUS_FAIL"} : Return(t, v)
<1> USE DEF End, TypeOK, At, GoTo, registers, moduleVars, senderVars
<1>1. t \in Sending
  <2>1. CASE Fail(t) /\ UNCHANGED <<registers, moduleVars>>
    BY <2>1 DEF Fail
  <2>2. CASE Step(t)
    BY <2>2 DEF Step, Sending, WriteLength, Request, Poll, ReadAddress,
      WriteHeader, WriteBody, RingBell
  <2> QED
    BY <2>1, <2>2
<1>2. CASE Fail(t) /\ UNCHANGED <<registers, moduleVars>>
  BY <1>1, <1>2 DEF Fail
<1>3. CASE RingBell(t)
  BY <1>1, <1>3 DEF RingBell
<1>4. CASE Poll(t)
  BY <1>1, <1>4 DEF Poll, Sending
<1>5. CASE ReadAddress(t)
  BY <1>1, <1>5 DEF ReadAddress
<1>6. CASE WriteLength(t) \/ Request(t) \/ WriteHeader(t) \/ WriteBody(t)
  BY <1>6 DEF WriteLength, Request, WriteHeader, WriteBody
<1> QED
  BY <1>2, <1>3, <1>4, <1>5, <1>6 DEF Step

-----------------------------------------------------------------------------
(* Types, calls in progress, and where the numbers of messages are.           *)

LEMMA Steps ==
  ASSUME Next, TypeOK, Calls
  PROVE  \/ Answer \/ Take
         \/ \E t \in Senders : Call(t) \/ Write(t) \/ Move(t) \/ Stop(t)
<1>1. ASSUME NEW t \in Senders, Step(t)
      PROVE  Write(t) \/ Move(t) \/ End(t)
  <2>1. CASE WriteHeader(t) \/ WriteBody(t)
    <3>1. dma[t] \in Buffers
      BY <2>1 DEF WriteHeader, WriteBody, At, Calls, Sending, Writing
    <3> QED
      BY <2>1, <3>1 DEF Write
  <2>2. CASE WriteLength(t) \/ Request(t) \/ Poll(t) \/ ReadAddress(t)
    BY <1>1, <2>2 DEF Move, End
  <2>3. CASE RingBell(t)
    <3>1. pc'[t] = "idle"
      BY <2>3 DEF RingBell, Return, GoTo, TypeOK
    <3> QED
      BY <1>1, <3>1 DEF End
  <2> QED
    BY <1>1, <2>1, <2>2, <2>3 DEF Step
<1>2. ASSUME NEW t \in Senders, Fail(t) PROVE Stop(t)
  <2>1. pc'[t] = "idle"
    BY <1>2 DEF Fail, Return, GoTo, TypeOK
  <2>2. UNCHANGED <<registers, moduleVars>> \/ Effect(t)
    BY <1>2 DEF Fail
  <2> QED
    BY <1>2, <2>1, <2>2 DEF Stop, End, Spoil
<1> QED
  BY <1>1, <1>2 DEF Next, Stop

(* A call that ends: with a bell and success, or with an error.               *)
LEMMA Ended ==
  ASSUME TypeOK, Calls, NEW t \in Senders, End(t)
  PROVE  /\ t \in Sending /\ Sending' = Sending \ {t}
         /\ message[t] \in DOMAIN sent
         /\ UNCHANGED <<length, request, address, moduleVars, message>>
         /\ dma' \in [Senders -> Buffers \cup {NoAddress}]
         /\ pc' \in [Senders -> SendPc]
         /\ \A u \in Senders \ {t} : pc'[u] = pc[u] /\ dma'[u] = dma[u]
         /\ sent' \in Seq(Message) /\ DOMAIN sent' = DOMAIN sent
         /\ Len(sent') = Len(sent)
         /\ \A n \in DOMAIN sent :
              /\ sent'[n].size = sent[n].size
              /\ sent'[n].overlapped = sent[n].overlapped
              /\ n # message[t] => sent'[n].result = sent[n].result
         /\ \/ /\ pc[t] = "bell" /\ bell' = dma[t] /\ UNCHANGED dma
               /\ sent'[message[t]].result = "M2M_SUCCESS"
            \/ /\ bell' = bell
               /\ sent'[message[t]].result
                    \in {"M2M_ERR_MEM_ALLOC", "M2M_ERR_BUS_FAIL"}
<1>1. t \in Sending => message[t] \in DOMAIN sent
  BY DEF Calls
<1>2. t \in Sending /\ message[t] \in DOMAIN sent
  BY <1>1, Ends
<1>3. CASE /\ pc[t] = "bell" /\ bell' = dma[t] /\ UNCHANGED dma
           /\ Return(t, "M2M_SUCCESS")
  <2>1. "M2M_SUCCESS" \in Result
    BY DEF Result
  <2> QED
    BY <1>1, <1>2, <1>3, <2>1, Ends, Returns
<1>4. ASSUME NEW v \in {"M2M_ERR_MEM_ALLOC", "M2M_ERR_BUS_FAIL"},
             Return(t, v), bell' = bell
      PROVE  /\ Sending' = Sending \ {t}
             /\ sent' \in Seq(Message) /\ DOMAIN sent' = DOMAIN sent
             /\ Len(sent') = Len(sent)
             /\ pc' \in [Senders -> SendPc]
             /\ \A u \in Senders \ {t} : pc'[u] = pc[u]
             /\ \A n \in DOMAIN sent :
                  /\ sent'[n].size = sent[n].size
                  /\ sent'[n].overlapped = sent[n].overlapped
                  /\ n # message[t] => sent'[n].result = sent[n].result
             /\ sent'[message[t]].result = v
  <2>1. v \in Result
    BY DEF Result
  <2> QED
    BY <1>2, <1>4, <2>1, Returns
<1> QED
  BY <1>1, <1>2, <1>3, <1>4, Ends

(* A write that reached the module before the call failed.                    *)
LEMMA Spoils ==
  ASSUME TypeOK, Calls, NEW t \in Senders, Spoil(t)
  PROVE  /\ UNCHANGED <<address, taken>>
         /\ length' \in {length, sent[message[t]].size}
         /\ request' \in {request, TRUE}
         /\ bell' \in {bell, dma[t]}
         /\ pc[t] # "request" => request' = request
         /\ pc[t] # "bell" => bell' = bell
         /\ pc[t] = "bell" => dma[t] \in Buffers
         /\ pc[t] \notin {"header", "body"} => buffers' = buffers
         /\ buffers' \in [Buffers -> Content]
         /\ \A a \in Buffers :
              /\ buffers'[a].size = buffers[a].size
              /\ a # dma[t] => buffers'[a] = buffers[a]
              /\ Mentions(buffers'[a]) \subseteq Mentions(buffers[a]) \cup {message[t]}
<1>1. /\ t \in Sending /\ message[t] \in Nat
      /\ pc[t] \in Writing => dma[t] \in Buffers
  BY DEF Spoil, Fail, TypeOK, Calls
<1>2. Effect(t)
  BY DEF Spoil
<1>3. CASE /\ pc[t] \in {"length", "request", "bell"} /\ UNCHANGED <<address, moduleVars>>
           /\ length' \in {length, sent[message[t]].size}
           /\ request' \in {request, TRUE} /\ bell' \in {bell, dma[t]}
           /\ pc[t] # "request" => request' = request
           /\ pc[t] # "bell" => bell' = bell
  BY <1>1, <1>3 DEF TypeOK, moduleVars, Writing, Mentions
<1>4. ASSUME pc[t] \in {"header", "body"}, UNCHANGED <<registers, taken>>,
             NEW h \in Nat, NEW b \in Nat,
             h \in Mentions(buffers[dma[t]]) \cup {message[t]},
             b \in Mentions(buffers[dma[t]]) \cup {message[t]},
             buffers' = [buffers EXCEPT ![dma[t]] =
                           [size |-> buffers[dma[t]].size, header |-> h, body |-> b]]
      PROVE  /\ UNCHANGED <<address, length, request, bell, taken>>
             /\ buffers' \in [Buffers -> Content]
             /\ \A a \in Buffers :
                  /\ buffers'[a].size = buffers[a].size
                  /\ a # dma[t] => buffers'[a] = buffers[a]
                  /\ Mentions(buffers'[a]) \subseteq Mentions(buffers[a]) \cup {message[t]}
  <2> DEFINE new == [size |-> buffers[dma[t]].size, header |-> h, body |-> b]
  <2>1. dma[t] \in Buffers /\ buffers[dma[t]] \in Content
    BY <1>1, <1>4 DEF TypeOK, Writing
  <2>2. /\ new \in Content /\ new.size = buffers[dma[t]].size
        /\ Mentions(new) \subseteq Mentions(buffers[dma[t]]) \cup {message[t]}
    BY <1>4, <2>1, Contents DEF Mentions
  <2> HIDE DEF new
  <2>3. /\ buffers' \in [Buffers -> Content]
        /\ \A a \in Buffers : buffers'[a] = IF a = dma[t] THEN new ELSE buffers[a]
    BY <1>4, <2>1, <2>2 DEF TypeOK, new
  <2> QED
    BY <1>4, <2>2, <2>3 DEF registers
<1>5. CASE pc[t] \in {"header", "body"}
  <2>1. dma[t] \in Buffers /\ buffers[dma[t]] \in Content
    BY <1>1, <1>5 DEF TypeOK, Writing
  <2>2. /\ buffers[dma[t]].header \in Nat /\ buffers[dma[t]].body \in Nat
        /\ UNCHANGED <<registers, taken>>
    BY <1>2, <1>5, <2>1, Contents DEF Effect, At
  <2>3. CASE pc[t] = "header"
    <3>1. buffers' = [buffers EXCEPT ![dma[t]] =
                        [size |-> buffers[dma[t]].size, header |-> message[t],
                         body |-> buffers[dma[t]].body]]
      BY <1>1, <1>2, <2>1, <2>3, Contents DEF Effect, At
    <3> QED
      BY <1>1, <1>4, <1>5, <2>2, <2>3, <3>1 DEF Mentions
  <2>4. CASE pc[t] = "body"
    <3>1. buffers' = [buffers EXCEPT ![dma[t]] =
                        [size |-> buffers[dma[t]].size,
                         header |-> buffers[dma[t]].header, body |-> message[t]]]
      <4>1. buffers' = [buffers EXCEPT ![dma[t]] =
                          [buffers[dma[t]] EXCEPT !.body = message[t]]]
        BY <1>2, <2>4 DEF Effect, At
      <4> QED
        BY <1>1, <2>1, <4>1, Contents
    <3> QED
      BY <1>1, <1>4, <1>5, <2>2, <2>4, <3>1 DEF Mentions
  <2> QED
    BY <1>5, <2>3, <2>4
<1>6. CASE pc[t] \notin {"header", "body"}
  BY <1>2, <1>3, <1>6 DEF Effect, At, registers, moduleVars
<1> QED
  BY <1>5, <1>6

(* What a call that stops does to the others, whatever reached the module.    *)
LEMMA Stopped ==
  ASSUME TypeOK, Calls, NEW t \in Senders, Stop(t)
  PROVE  /\ t \in Sending /\ Sending' = Sending \ {t}
         /\ message[t] \in DOMAIN sent
         /\ UNCHANGED <<address, taken, message>>
         /\ dma' \in [Senders -> Buffers \cup {NoAddress}]
         /\ pc' \in [Senders -> SendPc]
         /\ \A u \in Senders \ {t} : pc'[u] = pc[u] /\ dma'[u] = dma[u]
         /\ sent' \in Seq(Message) /\ DOMAIN sent' = DOMAIN sent
         /\ Len(sent') = Len(sent)
         /\ \A n \in DOMAIN sent :
              /\ sent'[n].size = sent[n].size
              /\ sent'[n].overlapped = sent[n].overlapped
              /\ n # message[t] => sent'[n].result = sent[n].result
         /\ Spoil(t) =>
              sent'[message[t]].result \in {"M2M_ERR_MEM_ALLOC", "M2M_ERR_BUS_FAIL"}
<1>1. CASE ~Spoil(t)
  BY <1>1, Ended DEF Stop, moduleVars
<1>2. CASE Spoil(t)
  <2>1. t \in Sending /\ message[t] \in DOMAIN sent
    BY <1>2 DEF Spoil, Fail, Calls
  <2>2. PICK v \in {"M2M_ERR_MEM_ALLOC", "M2M_ERR_BUS_FAIL"} : Return(t, v)
    BY <1>2 DEF Spoil, Fail
  <2>3. UNCHANGED <<address, taken, message, dma>>
    BY <1>2, Spoils DEF Spoil, Fail, senderVars
  <2>4. v \in Result
    BY DEF Result
  <2> QED
    BY <2>1, <2>2, <2>3, <2>4, Returns DEF TypeOK
<1> QED
  BY <1>1, <1>2

LEMMA TypeStep ==
  ASSUME TypeOK, Calls, Next
  PROVE  TypeOK'
<1>1. CASE Answer
  <2>1. address' \in Buffers \cup {NoAddress} /\ request' \in BOOLEAN
    BY <1>1, Answers DEF Answer
  <2> QED
    BY <1>1, <2>1, Answers DEF TypeOK, senderVars
<1>2. CASE Take
  BY <1>2, Takes DEF TypeOK, senderVars
<1>3. ASSUME NEW t \in Senders, Call(t) PROVE TypeOK'
  <2>1. UNCHANGED <<registers, moduleVars>>
    BY <1>3 DEF Call
  <2> QED
    BY <1>3, <2>1, Called DEF TypeOK, registers, moduleVars
<1>4. ASSUME NEW t \in Senders, Write(t) PROVE TypeOK'
  BY <1>4, Writes DEF TypeOK, registers, senderVars
<1>5. ASSUME NEW t \in Senders, Move(t) PROVE TypeOK'
  <2>1. t \in Sending
    BY <1>5, Moves
  <2>2. sent[message[t]].size \in Sizes
    <3>1. sent[message[t]] \in Message
      BY <2>1 DEF Calls, TypeOK
    <3> QED
      BY <3>1 DEF Message
  <2>3. length' \in Sizes \cup {0} /\ request' \in BOOLEAN
    <3>1. length' \in {length, sent[message[t]].size}
      BY <1>5, Moves
    <3>2. request' = TRUE \/ request' = request
      BY <1>5 DEF Move, WriteLength, Request, Poll, ReadAddress, registers
    <3> QED
      BY <2>2, <3>1, <3>2 DEF TypeOK
  <2> QED
    BY <1>5, <2>3, Moves DEF TypeOK, moduleVars
<1>6. ASSUME NEW t \in Senders, End(t) PROVE TypeOK'
  <2>1. bell' \in Buffers \cup {NoAddress}
    BY <1>6, Ended DEF TypeOK
  <2> QED
    BY <1>6, <2>1, Ended DEF TypeOK, moduleVars
<1>7. ASSUME NEW t \in Senders, Spoil(t) PROVE TypeOK'
  <2>1. t \in Sending /\ sent[message[t]] \in Message
    BY <1>7, Stopped DEF TypeOK, Stop
  <2>2. sent[message[t]].size \in Sizes
    BY <2>1 DEF Message
  <2>3. /\ length' \in Sizes \cup {0} /\ request' \in BOOLEAN
        /\ bell' \in Buffers \cup {NoAddress} /\ address' \in Buffers \cup {NoAddress}
        /\ buffers' \in [Buffers -> Content] /\ taken' \in Seq(Content)
    BY <1>7, <2>2, Spoils DEF TypeOK
  <2> QED
    BY <1>7, <2>3, Stopped DEF TypeOK, Stop
<1> QED
  BY <1>1, <1>2, <1>3, <1>4, <1>5, <1>6, <1>7, Steps DEF Stop

LEMMA CallsStep ==
  ASSUME TypeOK, Calls, Next
  PROVE  Calls'
<1>1. CASE Answer \/ Take
  <2>1. UNCHANGED <<sent, pc, senderVars>>
    BY <1>1, Answers, Takes
  <2> QED
    BY <2>1 DEF Calls, Sending, senderVars
<1>2. ASSUME NEW t \in Senders, Call(t) PROVE Calls'
  <2>1. ASSUME NEW u \in Sending, u # t
        PROVE  /\ message'[u] = message[u] /\ message[u] \in DOMAIN sent
               /\ message[u] <= Len(sent) /\ message[u] \in DOMAIN sent'
               /\ sent'[message[u]].result = "pending"
               /\ sent'[message[u]].overlapped
               /\ pc'[u] = pc[u] /\ dma'[u] = dma[u]
    <3>1. u \in Senders /\ message[u] \in DOMAIN sent
          /\ sent[message[u]].result = "pending"
      BY DEF Sending, Calls
    <3> QED
      BY <1>2, <2>1, <3>1, Called
  <2>2. /\ message'[t] = Len(sent) + 1 /\ Len(sent) + 1 \in DOMAIN sent'
        /\ sent'[message'[t]].result = "pending"
        /\ sent'[message'[t]].overlapped <=> Sending # {}
        /\ pc'[t] = "length" /\ dma'[t] = NoAddress
        /\ t \notin Sending /\ Sending' = Sending \cup {t}
        /\ Len(sent) \in Nat
    BY <1>2, Called
  <2>3. ASSUME NEW u \in Sending'
        PROVE  /\ message'[u] \in DOMAIN sent'
               /\ sent'[message'[u]].result = "pending"
               /\ pc'[u] \in Asking => dma'[u] = NoAddress
               /\ pc'[u] \in Writing => dma'[u] \in Buffers
               /\ ~sent'[message'[u]].overlapped => Sending' = {u}
    <3>1. CASE u = t
      BY <2>2, <3>1 DEF Writing
    <3>2. CASE u # t
      BY <2>1, <2>2, <3>2 DEF Calls
    <3> QED
      BY <3>1, <3>2
  <2>4. ASSUME NEW u \in Sending', NEW w \in Sending', message'[w] = message'[u]
        PROVE  w = u
    <3>1. CASE u # t /\ w # t
      BY <2>1, <2>2, <2>4, <3>1 DEF Calls
    <3>2. CASE u # t /\ w = t
      <4>1. message'[u] <= Len(sent)
        BY <2>1, <2>2, <3>2
      <4> QED
        BY <2>2, <2>4, <3>2, <4>1
    <3>3. CASE u = t /\ w # t
      <4>1. message'[w] <= Len(sent)
        BY <2>1, <2>2, <3>3
      <4> QED
        BY <2>2, <2>4, <3>3, <4>1
    <3> QED
      BY <3>1, <3>2, <3>3
  <2> QED
    BY <2>3, <2>4 DEF Calls
<1>3. ASSUME NEW t \in Senders, Write(t) PROVE Calls'
  <2>1. /\ UNCHANGED <<sent, message, dma, Sending>> /\ t \in Sending
        /\ \A u \in Senders \ {t} : pc'[u] = pc[u]
        /\ pc[t] \in Writing /\ pc'[t] \in Writing
    BY <1>3, Writes DEF senderVars, Writing
  <2> QED
    BY <2>1 DEF Calls, Writing, Asking, Sending
<1>4. ASSUME NEW t \in Senders, Move(t) PROVE Calls'
  <2>1. /\ UNCHANGED <<sent, message, Sending>> /\ t \in Sending
        /\ \A u \in Senders \ {t} : pc'[u] = pc[u] /\ dma'[u] = dma[u]
        /\ pc[t] \in Asking
        /\ pc'[t] \in Asking => dma'[t] = dma[t]
        /\ pc'[t] \in Writing => dma'[t] # NoAddress
        /\ dma'[t] \in Buffers \cup {NoAddress}
    BY <1>4, Moves DEF Asking, Writing
  <2> QED
    BY <2>1 DEF Calls, Sending
<1>5. ASSUME NEW t \in Senders, Stop(t) PROVE Calls'
  <2>1. ASSUME NEW u \in Sending'
        PROVE  /\ u \in Sending /\ u # t /\ u \in Senders
               /\ message'[u] = message[u] /\ message[u] \in DOMAIN sent'
               /\ sent'[message[u]].result = "pending"
               /\ ~sent'[message[u]].overlapped => Sending = {u}
               /\ pc'[u] = pc[u] /\ dma'[u] = dma[u]
    <3>1. u \in Sending /\ u # t /\ t \in Sending /\ u \in Senders
      BY <1>5, Stopped DEF Sending
    <3>2. message[u] \in DOMAIN sent /\ message[u] # message[t]
      BY <3>1 DEF Calls
    <3>3. ~sent[message[u]].overlapped => Sending = {u}
      BY <3>1 DEF Calls
    <3>4. sent[message[u]].result = "pending"
      BY <3>1 DEF Calls
    <3> QED
      BY <1>5, <3>1, <3>2, <3>3, <3>4, Stopped
  <2>2. t \in Sending
    BY <1>5, Stopped
  <2> QED
    BY <2>1, <2>2 DEF Calls
<1> QED
  BY <1>1, <1>2, <1>3, <1>4, <1>5, Steps

(* Which messages are found in the buffers and in what was taken.             *)
LEMMA Found ==
  ASSUME TypeOK, Calls, Next, NEW n \in Nat \ {NoMessage}
  PROVE  /\ \A a \in Buffers :
              n \in Mentions(buffers[a])' =>
                \/ n \in Mentions(buffers[a])
                \/ \E t \in Senders : (Write(t) \/ Spoil(t)) /\ n = message[t]
         /\ ~Take => taken' = taken
<1>1. CASE Answer
  <2>1. \A a \in Buffers :
          Mentions(buffers[a])' \in {Mentions(buffers[a]), {NoMessage}}
    BY <1>1, Answers DEF Mentions
  <2> QED
    BY <1>1, <2>1, Answers
<1>2. CASE Take
  <2>1. \A a \in Buffers :
          Mentions(buffers[a])' \in {Mentions(buffers[a]), {NoMessage}}
    BY <1>2, Takes, Contents DEF Mentions
  <2> QED
    BY <1>2, <2>1
<1>3. ASSUME NEW t \in Senders, Call(t) \/ Move(t) \/ End(t)
      PROVE  UNCHANGED <<buffers, taken>>
  BY <1>3, Moves, Ended DEF Call, moduleVars
<1>4. ASSUME NEW t \in Senders, Write(t), NEW a \in Buffers,
             n \in Mentions(buffers[a])'
      PROVE  n \in Mentions(buffers[a]) \/ (a = dma[t] /\ n = message[t])
  <2>1. CASE a = dma[t]
    <3>1. /\ buffers'[a].header \in {buffers[a].header, message[t]}
          /\ buffers'[a].body \in {buffers[a].body, message[t]}
      <4>1. \/ buffers'[a] = [size |-> buffers[a].size, header |-> message[t],
                             body |-> buffers[a].body]
            \/ buffers'[a] = [size |-> buffers[a].size,
                             header |-> buffers[a].header, body |-> message[t]]
        BY <1>4, <2>1, Writes
      <4> QED
        BY <4>1
    <3> QED
      BY <1>4, <2>1, <3>1 DEF Mentions
  <2>2. CASE a # dma[t]
    BY <1>4, <2>2, Writes DEF Mentions
  <2> QED
    BY <2>1, <2>2
<1>5. ASSUME NEW t \in Senders, Write(t) \/ Spoil(t) PROVE taken' = taken
  BY <1>5, Writes, Spoils
<1>6. ASSUME NEW t \in Senders, Spoil(t), NEW a \in Buffers, n \in Mentions(buffers[a])'
      PROVE  n \in Mentions(buffers[a]) \/ n = message[t]
  BY <1>6, Spoils DEF Mentions
<1> QED
  BY <1>1, <1>2, <1>3, <1>4, <1>5, <1>6, Steps DEF Mentions, Stop

LEMMA WrittenStep ==
  ASSUME TypeOK, Calls, Written, TypeOK', Next
  PROVE  Written'
<1>1. Len(sent) \in Nat /\ Len(sent') \in Nat /\ Len(sent) <= Len(sent')
  <2>1. CASE UNCHANGED sent
    BY <2>1 DEF TypeOK
  <2>2. ASSUME NEW t \in Senders, Call(t) \/ Stop(t)
        PROVE  Len(sent) <= Len(sent')
    BY <2>2, Called, Stopped DEF TypeOK
  <2>3. ASSUME NEW t \in Senders, Write(t) \/ Move(t)
        PROVE  UNCHANGED sent
    BY <2>3, Writes, Moves
  <2> QED
    BY <2>1, <2>2, <2>3, Steps, Answers, Takes DEF TypeOK
<1>2. ASSUME NEW a \in Buffers, NEW n \in Mentions(buffers[a])'
      PROVE  n <= Len(sent')
  <2>1. n \in Nat
    <3>1. buffers'[a] \in Content
      BY DEF TypeOK
    <3> QED
      BY <3>1, Contents
  <2>2. CASE n \in Mentions(buffers[a])
    <3>1. n <= Len(sent)
      BY <2>2 DEF Written
    <3> QED
      BY <1>1, <2>1, <3>1
  <2>3. ASSUME NEW t \in Senders, Write(t) \/ Spoil(t), n = message[t] PROVE n <= Len(sent)
    <3>1. message[t] \in DOMAIN sent
      BY <2>3, Writes, Stopped DEF Calls, Stop
    <3> QED
      BY <2>3, <3>1 DEF TypeOK
  <2> QED
    BY <1>1, <2>1, <2>2, <2>3, Found
<1>3. ASSUME NEW i \in DOMAIN taken', NEW n \in Mentions(taken[i])'
      PROVE  n <= Len(sent')
  <2>1. CASE Take
    <3>1. CASE i \in DOMAIN taken
      <4>1. n \in Mentions(taken[i])
        BY <2>1, <3>1, Takes DEF Mentions
      <4> QED
        BY <2>1, <3>1, <4>1, Takes DEF Written
    <3>2. CASE i \notin DOMAIN taken
      <4>1. i = Len(taken) + 1 /\ taken'[i] = buffers[bell] /\ bell \in Buffers
        BY <2>1, <3>2, Takes
      <4>2. n \in Mentions(buffers[bell])
        BY <4>1 DEF Mentions
      <4> QED
        BY <2>1, <4>1, <4>2, Takes DEF Written
    <3> QED
      BY <3>1, <3>2
  <2>2. CASE ~Take
    <3>1. taken' = taken
      BY <2>2, Found
    <3>2. n \in Nat
      <4>1. taken'[i] \in Content
        BY DEF TypeOK
      <4> QED
        BY <4>1, Contents
    <3> QED
      BY <1>1, <3>1, <3>2 DEF Written, Mentions
  <2> QED
    BY <2>1, <2>2
<1> QED
  BY <1>2, <1>3 DEF Written

-----------------------------------------------------------------------------
(* A call that runs alone is disturbed by nobody.                             *)

(* Until it ends, only the module and the call itself take steps.             *)
LEMMA AloneBefore ==
  ASSUME TypeOK, Calls, Next, NEW s \in Senders, Alone(s)'
  PROVE  \/ Call(s) /\ Sending = {}
         \/ /\ Alone(s) /\ Sending = {s} /\ UNCHANGED <<sent, message>>
            /\ message[s] \in DOMAIN sent
            /\ Answer \/ Take \/ Write(s) \/ Move(s)
<1>1. ASSUME UNCHANGED <<sent, message, Sending>>
      PROVE  /\ Alone(s) /\ Sending = {s} /\ message[s] \in DOMAIN sent
             /\ UNCHANGED <<sent, message>>
  BY <1>1 DEF Alone, Calls
<1>2. CASE Answer \/ Take
  <2>1. UNCHANGED <<sent, message, Sending>>
    BY <1>2, Answers, Takes DEF senderVars, Sending
  <2> QED
    BY <1>1, <1>2, <2>1
<1>3. ASSUME NEW t \in Senders, Write(t) \/ Move(t)
      PROVE  UNCHANGED <<sent, message, Sending>> /\ t \in Sending
  BY <1>3, Writes, Moves DEF senderVars
<1>4. ASSUME NEW t \in Senders, Call(t) PROVE t = s /\ Sending = {}
  <2>1. CASE t = s
    <3>1. /\ message'[s] = Len(sent) + 1
          /\ sent'[Len(sent) + 1].overlapped <=> Sending # {}
      BY <1>4, <2>1, Called
    <3> QED
      BY <2>1, <3>1 DEF Alone
  <2>2. CASE t # s
    <3>1. s \in Sending /\ message'[s] = message[s]
      BY <1>4, <2>2, Called DEF Alone
    <3>2. message[s] \in DOMAIN sent /\ sent[message[s]].result = "pending"
      BY <3>1 DEF Calls
    <3>3. sent'[message[s]].overlapped
      BY <1>4, <3>2, Called
    <3> QED
      BY <3>1, <3>3 DEF Alone
  <2> QED
    BY <2>1, <2>2
<1>5. ASSUME NEW t \in Senders, Stop(t) PROVE FALSE
  <2>1. /\ s \in Sending /\ s # t /\ t \in Sending /\ message'[s] = message[s]
    BY <1>5, Stopped DEF Alone
  <2>2. message[s] \in DOMAIN sent
    BY <2>1 DEF Calls
  <2>3. ~sent[message[s]].overlapped
    BY <1>5, <2>1, <2>2, Stopped DEF Alone
  <2> QED
    BY <2>1, <2>3 DEF Calls
<1>6. ASSUME NEW t \in Senders, Write(t) \/ Move(t) PROVE t = s
  BY <1>1, <1>3, <1>6
<1> QED
  BY <1>1, <1>2, <1>3, <1>4, <1>5, <1>6, Steps

LEMMA UndisturbedStep ==
  ASSUME TypeOK, Calls, Written, Undisturbed, TypeOK', Calls', Next
  PROVE  Undisturbed'
<1> SUFFICES ASSUME NEW s \in Senders, Alone(s)' PROVE Progress(s)'
  BY DEF Undisturbed
<1> DEFINE n == message[s]
<1>1. CASE Call(s) /\ Sending = {}
  <2>0. UNCHANGED <<buffers, taken>>
    BY <1>1 DEF Call, moduleVars
  <2>1. /\ pc'[s] = "length" /\ message'[s] = Len(sent) + 1
        /\ UNCHANGED <<buffers, taken>> /\ Len(sent) \in Nat
    BY <1>1, <2>0, Called
  <2>2. /\ \A i \in DOMAIN taken : Len(sent) + 1 \notin Mentions(taken[i])
        /\ \A a \in Buffers : Len(sent) + 1 \notin Mentions(buffers[a])
    <3>1. ~(Len(sent) + 1 <= Len(sent))
      BY <2>1
    <3> QED
      BY <3>1 DEF Written
  <2> QED
    BY <2>1, <2>2 DEF Progress, Answered, Writing, Mentions
<1>2. CASE /\ Alone(s) /\ Sending = {s} /\ UNCHANGED <<sent, message>>
           /\ n \in DOMAIN sent
           /\ Answer \/ Take \/ Write(s) \/ Move(s)
  <2>0. /\ Progress(s) /\ n \in Nat /\ n # NoMessage
        /\ pc[s] \in Asking => dma[s] = NoAddress
        /\ pc[s] \in SendPc \ {"idle"}
    BY <1>2 DEF Undisturbed, TypeOK, Calls, Sending
  <2>1. CASE Answer
    <3>1. /\ request /\ ~request' /\ bell = NoAddress /\ bell' = NoAddress
          /\ UNCHANGED <<length, taken, sent, pc, message, dma>>
      BY <2>1, Answers DEF senderVars
    <3>2. ~Answered(s) /\ pc[s] \in {"length", "request", "poll"}
      BY <2>0, <3>1 DEF Progress, Answered, SendPc, Writing
    <3>3. \A a \in Buffers : n \notin Mentions(buffers[a])
      BY <2>0, <3>2 DEF Progress, Asking
    <3>4. \A a \in Buffers : n \notin Mentions(buffers'[a])
      BY <2>0, <2>1, <3>3, Answers DEF Mentions
    <3>5. pc[s] = "poll" /\ address' # NoAddress =>
            buffers'[address'] = Filled(s, NoMessage, NoMessage)
      BY <2>0, <2>1, Answers DEF Progress, Filled
    <3> QED
      BY <2>0, <3>1, <3>2, <3>4, <3>5
        DEF Progress, Answered, Filled, Writing, Asking, Mentions
  <2>2. CASE Take
    <3>1. /\ bell \in Buffers /\ bell' = NoAddress
          /\ UNCHANGED <<length, request, address, sent, pc, message, dma>>
      BY <2>2, Takes DEF senderVars
    <3>2. ~Answered(s) /\ pc[s] \in {"length", "request", "poll"}
      BY <2>0, <3>1 DEF Progress, Answered, SendPc, Writing
    <3>3. \A a \in Buffers : n \notin Mentions(buffers[a])
      BY <2>0, <3>2 DEF Progress, Asking
    <3>4. \A a \in Buffers : n \notin Mentions(buffers'[a])
      <4>1. n \notin Mentions(Free)
        BY <2>0, Contents
      <4> QED
        BY <2>2, <3>3, <4>1, Takes
    <3>5. \A i \in DOMAIN taken' : n \notin Mentions(taken'[i])
      <4> SUFFICES ASSUME NEW i \in DOMAIN taken'
                   PROVE  n \notin Mentions(taken'[i])
        OBVIOUS
      <4>1. CASE i \in DOMAIN taken
        BY <2>0, <2>2, <4>1, Takes DEF Progress
      <4>2. CASE i \notin DOMAIN taken
        <5>1. taken'[i] = buffers[bell]
          BY <2>2, <4>2, Takes
        <5> QED
          BY <3>1, <3>3, <5>1
      <4> QED
        BY <4>1, <4>2
    <3> QED
      BY <2>0, <3>1, <3>2, <3>4, <3>5
        DEF Progress, Answered, Filled, Writing, Asking, Mentions
  <2>3. CASE Write(s)
    <3>1. /\ UNCHANGED <<registers, taken, sent, message, dma>>
          /\ dma[s] \in Buffers
          /\ pc[s] \in {"header", "body"} /\ pc'[s] \in {"body", "bell"}
          /\ \A a \in Buffers : a # dma[s] => buffers'[a] = buffers[a]
      BY <2>3, Writes DEF senderVars, Write
    <3>2. /\ pc'[s] = "body" => buffers'[dma[s]] = Filled(s, n, NoMessage)
          /\ pc'[s] = "bell" => buffers'[dma[s]] = Filled(s, n, n)
      <4>1. CASE pc[s] = "header"
        <5>1. buffers[dma[s]] = Filled(s, NoMessage, NoMessage)
          BY <2>0, <4>1 DEF Progress
        <5>2. pc'[s] = "body"
              /\ buffers'[dma[s]] = [size |-> buffers[dma[s]].size,
                                     header |-> n,
                                     body |-> buffers[dma[s]].body]
          BY <2>3, <4>1, Writes
        <5> QED
          BY <5>1, <5>2 DEF Filled
      <4>2. CASE pc[s] = "body"
        <5>1. buffers[dma[s]] = Filled(s, n, NoMessage)
          BY <2>0, <4>2 DEF Progress
        <5>2. pc'[s] = "bell"
              /\ buffers'[dma[s]] = [size |-> buffers[dma[s]].size,
                                     header |-> buffers[dma[s]].header,
                                     body |-> n]
          BY <2>3, <4>2, Writes
        <5> QED
          BY <5>1, <5>2 DEF Filled
      <4> QED
        BY <3>1, <4>1, <4>2
    <3>3. \A a \in Buffers : n \in Mentions(buffers'[a]) => a = dma[s]
      BY <2>0, <3>1 DEF Progress
    <3>4. ~request /\ bell = NoAddress
      BY <2>0, <3>1 DEF Progress, Answered, Writing
    <3> QED
      BY <2>0, <3>1, <3>2, <3>3, <3>4
        DEF Progress, Answered, Filled, Writing, Asking, Mentions, registers
  <2>4. CASE Move(s)
    <3>1. /\ UNCHANGED <<address, bell, buffers, taken, sent, message>>
          /\ dma'[s] \in Buffers \cup {NoAddress}
          /\ \/ /\ pc[s] = "length" /\ pc'[s] = "request"
                /\ length' = sent[n].size /\ UNCHANGED <<request, dma>>
             \/ /\ pc[s] = "request" /\ pc'[s] = "poll" /\ request'
                /\ UNCHANGED <<length, dma>>
             \/ /\ pc[s] = "poll" /\ pc'[s] = "poll" /\ request
                /\ UNCHANGED <<length, request, dma>>
             \/ /\ pc[s] = "poll" /\ pc'[s] = "address" /\ ~request
                /\ UNCHANGED <<length, request, dma>>
             \/ /\ pc[s] = "address" /\ pc'[s] = "header"
                /\ address # NoAddress /\ dma'[s] = address
                /\ UNCHANGED <<length, request>>
      BY <2>4, Moves DEF moduleVars
    <3>2. \A a \in Buffers : n \in Mentions(buffers[a]) => a = dma'[s]
      BY <2>0, <3>1 DEF Progress, Asking
    <3>3. Answered(s)' => ~request' /\ bell = NoAddress
      BY <2>0, <3>1 DEF Progress, Answered, Writing
    <3>4. pc[s] \in {"poll", "address"} /\ Answered(s) /\ address # NoAddress =>
            buffers[address] = Filled(s, NoMessage, NoMessage)
      BY <2>0 DEF Progress, Asking
    <3>5. /\ (pc[s] \in {"request", "poll"} => length = sent[n].size)'
          /\ (Answered(s) /\ pc[s] \in Asking /\ address # NoAddress =>
                buffers[address] = Filled(s, NoMessage, NoMessage))'
          /\ (pc[s] = "header" => buffers[dma[s]] = Filled(s, NoMessage, NoMessage))'
          /\ pc'[s] \notin {"body", "bell"}
      BY <2>0, <3>1, <3>4 DEF Progress, Answered, Writing, Asking, Filled
    <3> QED
      BY <2>0, <3>1, <3>2, <3>3, <3>5 DEF Progress, Mentions
  <2> QED
    BY <1>2, <2>1, <2>2, <2>3, <2>4
<1> QED
  BY <1>1, <1>2, AloneBefore

-----------------------------------------------------------------------------
(* A message that was accepted arrives.                                       *)

LEMMA RungKept ==
  ASSUME TypeOK, Calls, Next, NEW n \in DOMAIN sent, Accepted(n), Rung(n),
         sent'[n].size = sent[n].size
  PROVE  Rung(n)' \/ (Take /\ Delivered(n)')
<1>0. n \in Nat /\ n # NoMessage /\ bell \in Buffers /\ bell # NoAddress
  BY DEF Rung, TypeOK
<1>1. ASSUME UNCHANGED <<bell, buffers, taken>>,
             \A t \in Sending' : /\ pc'[t] \in {"length", "request", "poll"}
                                 /\ pc'[t] = "poll" => request'
      PROVE  Rung(n)'
  BY <1>1 DEF Rung, Whole, Mentions
<1>2. ~Answer
  BY <1>0, Answers
<1>3. CASE Take
  <2>1. /\ taken'[Len(taken) + 1] = Whole(n)
        /\ Len(taken) + 1 \in DOMAIN taken'
        /\ Whole(n)' = Whole(n)
    BY <1>3, Takes DEF Rung, Whole
  <2>2. ASSUME NEW j \in DOMAIN taken', n \in Mentions(taken'[j])
        PROVE  j = Len(taken) + 1
    BY <1>3, <2>2, Takes DEF Rung
  <2>3. ASSUME NEW a \in Buffers PROVE n \notin Mentions(buffers'[a])
    <3>1. n \notin Mentions(Free)
      BY <1>0, Contents
    <3> QED
      BY <1>3, <3>1, Takes DEF Rung
  <2> QED
    BY <1>3, <2>1, <2>2, <2>3 DEF Delivered, Mentions
<1>4. ASSUME NEW t \in Senders, Call(t) PROVE Rung(n)'
  <2>1. UNCHANGED <<request, bell, buffers, taken>>
    BY <1>4 DEF Call, registers, moduleVars
  <2>2. Sending' = Sending \cup {t}
        /\ \A u \in Senders : pc'[u] = IF u = t THEN "length" ELSE pc[u]
    BY <1>4, Called
  <2> QED
    BY <1>1, <2>1, <2>2 DEF Rung, Sending
<1>5. ASSUME NEW t \in Senders PROVE ~Write(t)
  <2>1. Write(t) => t \in Sending /\ pc[t] \in {"header", "body"}
    BY Writes
  <2> QED
    BY <2>1 DEF Rung
<1>6. ASSUME NEW t \in Senders, Move(t) PROVE Rung(n)'
  <2>1. /\ UNCHANGED <<bell, buffers, taken, Sending>> /\ t \in Sending
        /\ request' = request \/ request' = TRUE
        /\ \A u \in Senders \ {t} : pc'[u] = pc[u]
    BY <1>6, Moves DEF moduleVars
  <2>2. /\ pc'[t] \in {"length", "request", "poll"}
        /\ pc'[t] = "poll" => request'
    BY <1>6, <2>1, Moves DEF Rung
  <2> QED
    BY <1>1, <2>1, <2>2 DEF Rung, Sending
<1>7. ASSUME NEW t \in Senders, End(t) PROVE Rung(n)'
  <2>1. /\ t \in Sending /\ Sending' = Sending \ {t}
        /\ UNCHANGED <<request, buffers, taken>>
        /\ \A u \in Senders \ {t} : pc'[u] = pc[u]
    BY <1>7, Ended DEF moduleVars
  <2>2. pc[t] # "bell"
    BY <2>1 DEF Rung
  <2>3. bell' = bell
    BY <1>7, <2>2, Ended
  <2> QED
    BY <1>1, <2>1, <2>3 DEF Rung, Sending
<1>8. ASSUME NEW t \in Senders, Spoil(t) PROVE Rung(n)'
  <2>1. /\ t \in Sending /\ Sending' = Sending \ {t}
        /\ \A u \in Senders \ {t} : pc'[u] = pc[u]
    BY <1>8, Stopped DEF Stop
  <2>2. pc[t] \in {"length", "request", "poll"}
    BY <2>1 DEF Rung
  <2>3. UNCHANGED <<bell, buffers, taken>> /\ (request' = request \/ request' = TRUE)
    BY <1>8, <2>2, Spoils
  <2>4. ASSUME NEW u \in Sending'
        PROVE  pc'[u] \in {"length", "request", "poll"} /\ (pc'[u] = "poll" => request')
    <3>1. u \in Sending /\ pc'[u] = pc[u]
      BY <2>1 DEF Sending
    <3> QED
      BY <2>3, <3>1 DEF Rung
  <2> QED
    BY <1>1, <2>3, <2>4
<1> QED
  BY <1>2, <1>3, <1>4, <1>5, <1>6, <1>7, <1>8, Steps DEF Stop

LEMMA DeliveredKept ==
  ASSUME TypeOK, Calls, Next, NEW n \in DOMAIN sent, Accepted(n), Delivered(n),
         sent'[n].size = sent[n].size
  PROVE  Delivered(n)'
<1>0. n \in Nat \ {NoMessage} /\ Whole(n)' = Whole(n)
  BY DEF TypeOK, Whole
<1>1. ASSUME NEW t \in Senders, Write(t) \/ Spoil(t) PROVE n # message[t]
  <2>1. t \in Sending
    BY <1>1, Writes, Stopped DEF Stop
  <2> QED
    BY <2>1 DEF Calls, Accepted
<1>2. \A a \in Buffers : n \notin Mentions(buffers[a])'
  BY <1>0, <1>1, Found DEF Delivered
<1>3. PICK i \in DOMAIN taken :
        /\ taken[i] = Whole(n)
        /\ \A j \in DOMAIN taken : n \in Mentions(taken[j]) => j = i
  BY DEF Delivered
<1>4. /\ i \in DOMAIN taken' /\ taken'[i] = Whole(n)
      /\ \A j \in DOMAIN taken' : n \in Mentions(taken'[j]) => j = i
  <2>1. CASE Take
    <3>1. n \notin Mentions(taken'[Len(taken) + 1])
      BY <2>1, Takes DEF Delivered
    <3> QED
      BY <1>3, <2>1, <3>1, Takes
  <2>2. CASE ~Take
    <3>1. taken' = taken
      BY <1>0, <2>2, Found
    <3> QED
      BY <1>3, <3>1
  <2> QED
    BY <2>1, <2>2
<1> QED
  BY <1>0, <1>2, <1>4 DEF Delivered, Mentions

LEMMA ArrivingStep ==
  ASSUME TypeOK, Calls, Undisturbed, Arriving, Next
  PROVE  Arriving'
<1> SUFFICES ASSUME NEW n \in DOMAIN sent', Accepted(n)'
             PROVE  Rung(n)' \/ Delivered(n)'
  BY DEF Arriving
<1>1. CASE n \in DOMAIN sent /\ Accepted(n) /\ sent'[n].size = sent[n].size
  BY <1>1, RungKept, DeliveredKept DEF Arriving
<1>2. CASE UNCHANGED sent
  BY <1>1, <1>2 DEF Accepted
<1>3. ASSUME NEW t \in Senders, Call(t) PROVE Rung(n)' \/ Delivered(n)'
  <2>1. n \in DOMAIN sent
    BY <1>3, Called DEF Accepted
  <2>2. Accepted(n) /\ sent'[n].size = sent[n].size
    BY <1>3, <2>1, Called DEF Accepted
  <2> QED
    BY <1>1, <2>1, <2>2
<1>4. ASSUME NEW t \in Senders, End(t) PROVE Rung(n)' \/ Delivered(n)'
  <2>1. CASE n # message[t]
    <3>1. n \in DOMAIN sent
      BY <1>4, Ended
    <3>2. Accepted(n) /\ sent'[n].size = sent[n].size
      BY <1>4, <2>1, <3>1, Ended DEF Accepted
    <3> QED
      BY <1>1, <3>1, <3>2
  <2>2. CASE n = message[t]
    <3>1. /\ t \in Sending /\ Sending' = Sending \ {t} /\ n \in DOMAIN sent
          /\ UNCHANGED <<buffers, taken>>
          /\ pc[t] = "bell" /\ bell' = dma[t]
          /\ sent'[n].size = sent[n].size
          /\ sent'[n].overlapped = sent[n].overlapped
      BY <1>4, <2>2, Ended DEF Accepted, moduleVars
    <3>2. Alone(t)
      BY <2>2, <3>1 DEF Alone, Accepted
    <3>3. Sending' = {} /\ dma[t] \in Buffers
      BY <3>1, <3>2 DEF Alone, Calls, Writing
    <3>4. Progress(t)
      BY <3>2 DEF Undisturbed
    <3>5. buffers[dma[t]] = Whole(n)'
      BY <2>2, <3>1, <3>4 DEF Progress, Filled, Whole
    <3> QED
      BY <2>2, <3>1, <3>3, <3>4, <3>5 DEF Rung, Progress, Mentions
  <2> QED
    BY <2>1, <2>2
<1>5. ASSUME NEW t \in Senders, Write(t) \/ Move(t) PROVE UNCHANGED sent
  BY <1>5, Writes, Moves
<1>6. ASSUME NEW t \in Senders, Spoil(t) PROVE Rung(n)' \/ Delivered(n)'
  <2>1. n # message[t] /\ n \in DOMAIN sent
    BY <1>6, Stopped DEF Stop, Accepted
  <2>2. Accepted(n) /\ sent'[n].size = sent[n].size
    BY <1>6, <2>1, Stopped DEF Stop, Accepted
  <2> QED
    BY <1>1, <2>1, <2>2
<1> QED
  BY <1>2, <1>3, <1>4, <1>5, <1>6, Answers, Takes, Steps DEF Stop

-----------------------------------------------------------------------------
(* The buffers are accounted for. *)

Countable ==
  /\ IsFiniteSet(Reserved) /\ Cardinality(Reserved) \in Nat
  /\ IsFiniteSet(Charged) /\ Cardinality(Charged) \in Nat

LEMMA Finite == TypeOK => Countable
<1> SUFFICES ASSUME TypeOK PROVE Countable
  OBVIOUS
<1>1. IsFiniteSet(Reserved)
  <2>1. Reserved \in SUBSET Buffers
    BY DEF Reserved
  <2> QED
    BY <2>1, FS_Subset
<1>2. IsFiniteSet(Charged)
  <2>1. Charged \in SUBSET (1 .. Len(sent)) /\ Len(sent) \in Int
    BY DEF Charged, TypeOK
  <2>2. IsFiniteSet(1 .. Len(sent))
    BY <2>1, FS_Interval
  <2> QED
    BY <2>1, <2>2, FS_Subset
<1> QED
  BY <1>1, <1>2, FS_CardinalityType DEF Countable

LEMMA AcceptedKept ==
  ASSUME TypeOK, Calls, Next, NEW n \in DOMAIN sent, Accepted(n)
  PROVE  n \in DOMAIN sent' /\ Accepted(n)' /\ sent'[n].size = sent[n].size
<1>1. CASE UNCHANGED sent
  BY <1>1 DEF Accepted
<1>2. ASSUME NEW t \in Senders, Call(t)
      PROVE  n \in DOMAIN sent' /\ Accepted(n)' /\ sent'[n].size = sent[n].size
  BY <1>2, Called DEF Accepted
<1>3. ASSUME NEW t \in Senders, Stop(t)
      PROVE  n \in DOMAIN sent' /\ Accepted(n)' /\ sent'[n].size = sent[n].size
  <2>1. n # message[t]
    BY <1>3, Stopped DEF Calls, Accepted
  <2> QED
    BY <1>3, <2>1, Stopped DEF Accepted
<1>4. ASSUME NEW t \in Senders, Write(t) \/ Move(t) PROVE UNCHANGED sent
  BY <1>4, Writes, Moves
<1> QED
  BY <1>1, <1>2, <1>3, <1>4, Answers, Takes, Steps

\* A bell that was rung for an accepted message rings until the module takes it.
LEMMA StillRinging ==
  ASSUME TypeOK, Calls, Next, Ringing, ~Take
  PROVE  Ringing'
<1>1. PICK n \in DOMAIN sent : Accepted(n) /\ Rung(n)
  BY DEF Ringing
<1>2. n \in DOMAIN sent' /\ Accepted(n)' /\ sent'[n].size = sent[n].size
  BY <1>1, AcceptedKept
<1>3. Rung(n)'
  BY <1>1, <1>2, RungKept
<1> QED
  BY <1>2, <1>3 DEF Ringing

\* The call of t, in progress, is charged from its request on.
LEMMA ChargedWhen ==
  ASSUME TypeOK, Calls, NEW t \in Sending
  PROVE  message[t] \in Charged <=> pc[t] \notin {"length", "request"}
<1>1. message[t] \in DOMAIN sent /\ ~Accepted(message[t])
  BY DEF Calls, Accepted
<1>2. \A u \in Sending : message[u] = message[t] => u = t
  BY DEF Calls
<1> QED
  BY <1>1, <1>2 DEF Charged

\* A call that stops stays charged, or is charged from then on, unless it succeeded
\* alone.
LEMMA StopCharges ==
  ASSUME TypeOK, Calls, NEW t \in Senders, Stop(t)
  PROVE  /\ Charged \ {message[t]} \subseteq Charged'
         /\ ~Accepted(message[t])' => message[t] \in Charged'
<1>1. /\ t \in Sending /\ Sending' = Sending \ {t}
      /\ message[t] \in DOMAIN sent' /\ DOMAIN sent' = DOMAIN sent
      /\ message' = message
      /\ \A u \in Senders \ {t} : pc'[u] = pc[u]
  BY Stopped
<1>2. ASSUME NEW n \in Charged, n # message[t] PROVE n \in Charged'
  <2>1. n \in DOMAIN sent /\ ~Accepted(n)
    BY DEF Charged
  <2>2. ~Accepted(n)'
    BY <1>2, <2>1, Stopped DEF Accepted
  <2> QED
    BY <1>1, <2>1, <2>2 DEF Charged, Sending
<1>3. \A u \in Sending' : message'[u] # message[t]
  BY <1>1 DEF Calls
<1> QED
  BY <1>1, <1>2, <1>3 DEF Charged

LEMMA NoLeakStep ==
  ASSUME TypeOK, Calls, Undisturbed, NoLeak, TypeOK', Next
  PROVE  NoLeak'
<1> DEFINE R == Cardinality(Reserved)  C == Cardinality(Charged)
<1>1. /\ R \in Nat /\ R' \in Nat /\ C \in Nat /\ C' \in Nat
      /\ IsFiniteSet(Reserved) /\ IsFiniteSet(Reserved')
      /\ IsFiniteSet(Charged) /\ IsFiniteSet(Charged')
  <2>1. Countable
    BY Finite
  <2>2. Countable'
    BY Finite, PTL
  <2> QED
    BY <2>1, <2>2 DEF Countable
<1>2. R + Bit(request) <= C + Bit(Ringing)
  BY DEF NoLeak
<1>3. Charged \subseteq Charged' => C <= C'
  BY <1>1, FS_Subset
<1>4. ASSUME NEW m, m \notin Charged, Charged \cup {m} \subseteq Charged'
      PROVE  C + 1 <= C'
  <2>1. /\ IsFiniteSet(Charged \cup {m}) /\ Cardinality(Charged \cup {m}) = C + 1
    BY <1>1, <1>4, FS_AddElement
  <2> QED
    BY <1>1, <1>4, <2>1, FS_Subset
<1>5. ASSUME Reserved' = Reserved, Bit(request') - Bit(request) <= C' - C, Ringing => Ringing'
      PROVE  NoLeak'
  <2>1. Bit(Ringing) <= Bit(Ringing')
    BY <1>5 DEF Bit
  <2> QED
    BY <1>1, <1>2, <1>5, <2>1 DEF NoLeak, Bit
<1>6. CASE Answer
  <2>1. /\ request /\ ~request' /\ bell = NoAddress
        /\ UNCHANGED <<sent, pc, message>>
    BY <1>6, Answers DEF senderVars
  <2>2. ~Ringing
    BY <2>1 DEF Ringing, Rung
  <2>3. Charged' = Charged
    BY <2>1 DEF Charged, Accepted, Sending
  <2>4. R' <= R + 1
    <3>1. CASE UNCHANGED buffers
      BY <1>1, <3>1 DEF Reserved
    <3>2. CASE /\ address' \in Buffers
               /\ \A a \in Buffers : a # address' => buffers'[a] = buffers[a]
      <4>1. PICK b \in Buffers : b = address'
        BY <3>2
      <4>2. Reserved' \subseteq Reserved \cup {b}
        BY <3>2, <4>1 DEF Reserved
      <4>3. /\ IsFiniteSet(Reserved \cup {b})
            /\ Cardinality(Reserved \cup {b}) = IF b \in Reserved THEN R ELSE R + 1
        BY <1>1, FS_AddElement
      <4>4. R' <= Cardinality(Reserved \cup {b}) /\ Cardinality(Reserved \cup {b}) \in Nat
        BY <4>2, <4>3, FS_Subset, FS_CardinalityType
      <4> QED
        BY <1>1, <4>3, <4>4
    <3> QED
      BY <1>6, <3>1, <3>2, Answers
  <2> QED
    BY <1>1, <1>2, <2>1, <2>2, <2>3, <2>4 DEF NoLeak, Bit
<1>7. CASE Take
  <2>1. /\ bell \in Buffers /\ UNCHANGED <<request, sent, pc, message>>
    BY <1>7, Takes DEF senderVars
  <2>2. Charged' = Charged
    BY <2>1 DEF Charged, Accepted, Sending
  <2>3. Reserved' = Reserved \ {bell}
    BY <1>7, Takes DEF Reserved, Free
  <2>4. R' = IF bell \in Reserved THEN R - 1 ELSE R
    BY <1>1, <2>3, FS_RemoveElement
  <2>5. Ringing => bell \in Reserved
    <3> SUFFICES ASSUME NEW n \in DOMAIN sent, Rung(n) PROVE bell \in Reserved
      BY DEF Ringing
    <3>1. sent[n] \in Message
      BY DEF TypeOK
    <3>2. buffers[bell].size = sent[n].size /\ sent[n].size # 0
      BY <3>1 DEF Rung, Whole, Message
    <3> QED
      BY <2>1, <3>2 DEF Reserved
  <2> QED
    BY <1>1, <1>2, <2>1, <2>2, <2>4, <2>5 DEF NoLeak, Bit
<1>8. ASSUME NEW t \in Senders, Call(t) PROVE NoLeak'
  <2>1. UNCHANGED <<request, buffers>> /\ ~Take
    BY <1>8 DEF Call, Take, registers, moduleVars, At
  <2>2. Charged \subseteq Charged'
    <3> SUFFICES ASSUME NEW n \in Charged PROVE n \in Charged'
      OBVIOUS
    <3>1. /\ n \in DOMAIN sent /\ ~Accepted(n)
          /\ n \in DOMAIN sent' /\ n # Len(sent) + 1
      BY <1>8, Called DEF Charged
    <3>2. ~Accepted(n)'
      BY <1>8, <3>1, Called DEF Accepted
    <3>3. ASSUME NEW u \in Sending', message'[u] = n
          PROVE  pc'[u] \notin {"length", "request"}
      <4>1. u # t /\ u \in Sending /\ message[u] = n /\ pc'[u] = pc[u]
        BY <1>8, <3>1, <3>3, Called DEF Sending
      <4> QED
        BY <4>1 DEF Charged
    <3> QED
      BY <3>1, <3>2, <3>3 DEF Charged
  <2>3. Ringing => Ringing'
    BY <1>8, <2>1, StillRinging
  <2> QED
    BY <1>1, <1>3, <1>5, <2>1, <2>2, <2>3 DEF Reserved, Bit
<1>9. ASSUME NEW t \in Senders, Write(t) PROVE NoLeak'
  <2>1. /\ UNCHANGED <<request, sent, message, Sending>> /\ ~Take
        /\ \A u \in Senders \ {t} : pc'[u] = pc[u]
        /\ pc[t] \in {"header", "body"} /\ pc'[t] \in {"body", "bell"}
    BY <1>9, Writes DEF registers, senderVars, Write, WriteHeader, WriteBody, Take
  <2>2. Charged' = Charged
    BY <2>1 DEF Charged, Accepted, Sending
  <2>3. Reserved' = Reserved
    <3>1. buffers'[dma[t]].size = buffers[dma[t]].size
      <4>1. \/ buffers'[dma[t]] = [size |-> buffers[dma[t]].size, header |-> message[t],
                                   body |-> buffers[dma[t]].body]
            \/ buffers'[dma[t]] = [size |-> buffers[dma[t]].size,
                                   header |-> buffers[dma[t]].header, body |-> message[t]]
        BY <1>9, Writes
      <4> QED
        BY <4>1
    <3>2. \A a \in Buffers : a # dma[t] => buffers'[a] = buffers[a]
      BY <1>9, Writes
    <3> QED
      BY <3>1, <3>2 DEF Reserved
  <2>4. Ringing => Ringing'
    BY <1>9, <2>1, StillRinging
  <2> QED
    BY <1>1, <1>5, <2>1, <2>2, <2>3, <2>4 DEF Bit
<1>10. ASSUME NEW t \in Senders, Move(t) PROVE NoLeak'
  <2>1. /\ UNCHANGED <<buffers, sent, message, Sending>> /\ t \in Sending
        /\ \A u \in Senders \ {t} : pc'[u] = pc[u]
        /\ pc'[t] \in {"length", "request"} => pc[t] \in {"length", "request"}
    BY <1>10, Moves DEF moduleVars
  <2>2. Charged \subseteq Charged'
    BY <2>1 DEF Charged, Accepted, Sending
  <2>3. \/ request' = request
        \/ pc[t] = "request" /\ pc'[t] = "poll" /\ request'
    BY <1>10, Moves
  <2>4. CASE request' = request
    <3>1. Bit(request') - Bit(request) <= C' - C
      BY <1>1, <1>3, <2>2, <2>4 DEF Bit
    <3> QED
      BY <1>5, <1>10, <2>1, <3>1, StillRinging DEF Reserved, Move, Take, WriteLength,
        Request, Poll, ReadAddress, moduleVars
  <2>5. CASE pc[t] = "request" /\ pc'[t] = "poll" /\ request'
    <3>1. message[t] \notin Charged
      BY <2>1, <2>5, ChargedWhen
    <3>2. message[t] \in Charged'
      <4>1. message[t] \in DOMAIN sent /\ ~Accepted(message[t])
        BY <2>1 DEF Calls, Accepted
      <4>2. \A u \in Sending : message[u] = message[t] => u = t
        BY <2>1 DEF Calls
      <4> QED
        BY <2>1, <2>5, <4>1, <4>2 DEF Charged, Accepted
    <3>3. C + 1 <= C'
      BY <1>4, <2>2, <3>1, <3>2
    <3>4. Bit(request') - Bit(request) <= C' - C
      BY <1>1, <3>3 DEF Bit
    <3> QED
      BY <1>5, <1>10, <2>1, <3>4, StillRinging DEF Reserved, Move, Take, WriteLength,
        Request, Poll, ReadAddress, moduleVars
  <2> QED
    BY <2>3, <2>4, <2>5
<1>11. ASSUME NEW t \in Senders, Stop(t), ~Accepted(message[t])',
              UNCHANGED taken,
              \A a \in Buffers : buffers'[a].size = buffers[a].size,
              request' = request \/ (request' /\ pc[t] = "request")
       PROVE  NoLeak'
  <2>1. t \in Sending
    BY <1>11, Stopped
  <2>2. Charged \subseteq Charged' /\ message[t] \in Charged'
    BY <1>11, StopCharges
  <2>3. Bit(request') - Bit(request) <= C' - C
    <3>1. CASE request' = request
      BY <1>1, <1>3, <2>2, <3>1 DEF Bit
    <3>2. CASE request' /\ pc[t] = "request"
      <4>1. C + 1 <= C'
        BY <1>4, <2>1, <2>2, <3>2, ChargedWhen
      <4> QED
        BY <1>1, <4>1 DEF Bit
    <3> QED
      BY <1>11, <3>1, <3>2
  <2>4. Reserved' = Reserved
    BY <1>11 DEF Reserved
  <2>5. ~Take
    BY <1>11, Takes
  <2> QED
    BY <1>5, <2>3, <2>4, <2>5, StillRinging
<1>12. ASSUME NEW t \in Senders, Spoil(t) PROVE NoLeak'
  <2>1. ~Accepted(message[t])'
    BY <1>12, Stopped DEF Stop, Accepted
  <2>2. request' = request \/ (request' /\ pc[t] = "request")
    BY <1>12, Spoils
  <2> QED
    BY <1>11, <1>12, <2>1, <2>2, Spoils DEF Stop
<1>13. ASSUME NEW t \in Senders, End(t) PROVE NoLeak'
  <2>1. /\ UNCHANGED <<request, buffers, taken, message>> /\ t \in Sending
        /\ message[t] \in DOMAIN sent' /\ Stop(t)
    BY <1>13, Ended DEF moduleVars, Stop
  <2>2. CASE ~Accepted(message[t])'
    BY <1>11, <2>1, <2>2
  <2>3. CASE Accepted(message[t])'
    <3>1. /\ pc[t] = "bell" /\ bell' = dma[t] /\ Sending' = Sending \ {t}
          /\ sent'[message[t]].size = sent[message[t]].size
          /\ sent'[message[t]].overlapped = sent[message[t]].overlapped
      BY <1>13, <2>3, Ended DEF Accepted
    <3>2. Alone(t) /\ message[t] \in DOMAIN sent
      BY <1>13, <2>1, <2>3, <3>1, Ended DEF Alone, Accepted
    <3>3. Progress(t) /\ Sending' = {} /\ dma[t] \in Buffers
      <4>1. Sending = {t} /\ dma[t] \in Buffers
        BY <3>1, <3>2 DEF Alone, Calls, Writing
      <4> QED
        BY <2>1, <3>1, <3>2, <4>1 DEF Undisturbed, Sending
    <3>4. ~Ringing
      <4>1. bell = NoAddress
        BY <3>1, <3>3 DEF Progress, Answered, Writing
      <4> QED
        BY <4>1 DEF Ringing, Rung
    <3>5. ASSUME NEW n \in DOMAIN sent', n = message[t], Accepted(n)' PROVE Rung(n)'
      <4>1. buffers[dma[t]] = Whole(n)'
        BY <3>1, <3>3, <3>5 DEF Progress, Filled, Whole
      <4> QED
        BY <2>1, <3>1, <3>3, <3>5, <4>1 DEF Rung, Progress, Mentions
    <3>6. Ringing'
      BY <2>1, <2>3, <3>5 DEF Ringing
    <3>7. C - 1 <= C'
      <4>1. Charged \ {message[t]} \in SUBSET Charged'
        BY <2>1, StopCharges
      <4>2. /\ IsFiniteSet(Charged \ {message[t]})
            /\ Cardinality(Charged \ {message[t]}) =
                 IF message[t] \in Charged THEN C - 1 ELSE C
        BY <1>1, FS_RemoveElement
      <4>3. Cardinality(Charged \ {message[t]}) <= C'
            /\ Cardinality(Charged \ {message[t]}) \in Nat
        BY <1>1, <4>1, <4>2, FS_Subset, FS_CardinalityType
      <4> QED
        BY <1>1, <4>2, <4>3
    <3>8. Reserved' = Reserved
      BY <2>1 DEF Reserved
    <3> QED
      BY <1>1, <1>2, <2>1, <3>4, <3>6, <3>7, <3>8 DEF NoLeak, Bit
  <2> QED
    BY <2>2, <2>3
<1> QED
  BY <1>6, <1>7, <1>8, <1>9, <1>10, <1>12, <1>13, Steps DEF Stop

-----------------------------------------------------------------------------
(* The results.                                                               *)

LEMMA SendInvHolds == Spec => []SendInv
<1>1. Init => SendInv
  <2> SUFFICES ASSUME Init PROVE SendInv
    OBVIOUS
  <2>1. /\ sent = <<>> /\ taken = <<>> /\ Sending = {} /\ request = FALSE
        /\ \A a \in Buffers : buffers[a] = Free
    BY DEF Init, Sending
  <2>2. TypeOK
    <3>1. <<>> \in Seq(Message) /\ <<>> \in Seq(Content)
      OBVIOUS
    <3> QED
      BY <3>1, Contents DEF Init, TypeOK, SendPc
  <2>3. Calls /\ Undisturbed
    BY <2>1 DEF Calls, Undisturbed, Alone
  <2>4. DOMAIN sent = {} /\ DOMAIN taken = {} /\ Len(sent) = 0
    BY <2>1
  <2>5. Written /\ Arriving
    BY <2>1, <2>4, Contents DEF Written, Arriving
  <2>6. NoLeak
    <3>1. Reserved = {}
      <4>1. \A a \in Buffers : buffers[a].size = 0
        BY <2>1 DEF Free
      <4> QED
        BY <4>1 DEF Reserved
    <3>2. Charged = {} /\ ~Ringing
      BY <2>4 DEF Charged, Ringing
    <3> QED
      BY <2>1, <3>1, <3>2, FS_EmptySet DEF NoLeak, Bit
  <2> QED
    BY <2>2, <2>3, <2>5, <2>6 DEF SendInv
<1>2. SendInv /\ [Next]_vars => SendInv'
  <2> SUFFICES ASSUME SendInv, [Next]_vars PROVE SendInv'
    OBVIOUS
  <2>1. CASE Next
    <3>1. TypeOK' /\ Calls'
      BY <2>1, TypeStep, CallsStep DEF SendInv
    <3> QED
      BY <2>1, <3>1, WrittenStep, UndisturbedStep, ArrivingStep, NoLeakStep
        DEF SendInv
  <2>2. CASE UNCHANGED vars
    <3>1. UNCHANGED <<length, request, address, bell, buffers, taken, sent, pc,
                      message, dma, Sending>>
      BY <2>2 DEF vars, registers, moduleVars, senderVars, Sending
    <3>2. TypeOK' /\ Calls' /\ Written' /\ Undisturbed'
      BY <3>1 DEF SendInv, TypeOK, Calls, Written, Undisturbed, Alone, Progress,
        Answered, Filled, Mentions
    <3>3. Arriving'
      BY <3>1 DEF SendInv, Arriving, Accepted, Rung, Delivered, Whole, Mentions
    <3>4. Reserved' = Reserved /\ Charged' = Charged /\ Ringing' = Ringing
      BY <3>1 DEF Reserved, Charged, Ringing, Accepted, Rung, Whole, Mentions
    <3>5. NoLeak'
      BY <3>1, <3>4 DEF SendInv, NoLeak
    <3> QED
      BY <3>2, <3>3, <3>5 DEF SendInv
  <2> QED
    BY <2>1, <2>2
<1> QED
  BY <1>1, <1>2, PTL DEF Spec

(* hif_send keeps its word to a caller that nobody overlaps: the message for  *)
(* which it returned M2M_SUCCESS reaches the module once and whole, whatever  *)
(* state the calls before it left the registers in (m2m_hif.c:240-352).       *)
THEOREM AloneMessagesArrive == Spec => []AloneArrives
<1>1. SendInv => AloneArrives
  <2> SUFFICES ASSUME SendInv, NEW n \in DOMAIN sent, Accepted(n)
               PROVE  Arrives(n)
    BY DEF AloneArrives, Accepted
  <2> DEFINE left == IF bell = NoAddress THEN <<>> ELSE <<buffers[bell]>>
             all == taken \o left
  <2>1. /\ taken \in Seq(Content) /\ Len(taken) \in Nat
        /\ DOMAIN taken = 1 .. Len(taken)
        /\ bell # NoAddress => bell \in Buffers /\ buffers[bell] \in Content
    BY DEF SendInv, TypeOK
  <2>2. CASE bell # NoAddress
    <3>1. left = <<buffers[bell]>>
      BY <2>2
    <3> HIDE DEF left
    <3>2. /\ DOMAIN all = 1 .. Len(taken) + 1
          /\ \A i \in DOMAIN taken : all[i] = taken[i]
          /\ all[Len(taken) + 1] = buffers[bell]
      BY <2>1, <2>2, <3>1
    <3> HIDE DEF all
    <3>3. CASE Rung(n)
      <4>1. /\ Len(taken) + 1 \in DOMAIN all /\ all[Len(taken) + 1] = Whole(n)
            /\ \A j \in DOMAIN all :
                 n \in Mentions(all[j]) => j = Len(taken) + 1
        BY <2>1, <3>2, <3>3 DEF Rung
      <4> QED
        BY <4>1 DEF Arrives, all, left
    <3>4. CASE Delivered(n)
      <4>1. PICK i \in DOMAIN taken :
              /\ taken[i] = Whole(n)
              /\ \A j \in DOMAIN taken : n \in Mentions(taken[j]) => j = i
        BY <3>4 DEF Delivered
      <4>2. n \notin Mentions(buffers[bell])
        BY <2>1, <2>2, <3>4 DEF Delivered
      <4>3. /\ i \in DOMAIN all /\ all[i] = Whole(n)
            /\ \A j \in DOMAIN all : n \in Mentions(all[j]) => j = i
        BY <2>1, <3>2, <4>1, <4>2
      <4> QED
        BY <4>3 DEF Arrives, all, left
    <3> QED
      BY <3>3, <3>4 DEF SendInv, Arriving
  <2>3. CASE bell = NoAddress
    <3>1. all = taken
      BY <2>1, <2>3
    <3>2. Delivered(n)
      BY <2>3 DEF SendInv, Arriving, Rung
    <3> QED
      BY <3>1, <3>2 DEF Arrives, Delivered
  <2> QED
    BY <2>2, <2>3
<1> QED
  BY <1>1, SendInvHolds, PTL

(* Whatever fails and whoever overlaps, the module is left with a buffer in   *)
(* use for the bell, and with one at most for each call that is in progress,  *)
(* that failed or that was overlapped: a time-out leaks one buffer, and a     *)
(* call that succeeded alone leaks none (m2m_hif.c:350-425).                  *)
THEOREM LeaksAreOfFailures == Spec => []LeaksAreBounded
<1>1. SendInv => LeaksAreBounded
  <2> SUFFICES ASSUME SendInv PROVE LeaksAreBounded
    OBVIOUS
  <2> DEFINE unsettled == {n \in DOMAIN sent :
                             sent[n].result # "M2M_SUCCESS" \/ sent[n].overlapped}
  <2>1. /\ Cardinality(Reserved) \in Nat /\ Cardinality(Charged) \in Nat
        /\ Cardinality(Reserved) + Bit(request) <= Cardinality(Charged) + Bit(Ringing)
    BY Finite DEF SendInv, NoLeak, Countable
  <2>2. Bit(Ringing) <= Bit(bell # NoAddress)
    BY DEF Ringing, Rung, Bit
  <2>3. Cardinality(Charged) <= Cardinality(unsettled) /\ Cardinality(unsettled) \in Nat
    <3>1. unsettled \in SUBSET (1 .. Len(sent)) /\ Len(sent) \in Int
      BY DEF SendInv, TypeOK
    <3>2. IsFiniteSet(unsettled)
      BY <3>1, FS_Interval, FS_Subset
    <3>3. Charged \in SUBSET unsettled
      BY DEF Charged, Accepted
    <3> QED
      BY <3>2, <3>3, FS_Subset, FS_CardinalityType
  <2>4. Cardinality(Reserved) <= Cardinality(unsettled) + Bit(bell # NoAddress)
    BY <2>1, <2>2, <2>3 DEF Bit
  <2> QED
    BY <2>4 DEF LeaksAreBounded, Reserved, Bit
<1> QED
  BY <1>1, SendInvHolds, PTL
=============================================================================
