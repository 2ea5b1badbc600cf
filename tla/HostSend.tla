------------------------------ MODULE HostSend ------------------------------
(***************************************************************************)
(* How a request of the program reaches the Wi-Fi module: hif_send, which  *)
(* task_winc and task_send_status call without a lock (m2m_hif.c).         *)
(*                                                                         *)
(* A sender writes the length of its message to NMI_STATE_REG, asks for a  *)
(* buffer in WIFI_HOST_RCV_CTRL_2, polls until the module has answered,    *)
(* reads the address of the buffer, writes its message there and rings the *)
(* bell in WIFI_HOST_RCV_CTRL_3.  The module is external: it answers a     *)
(* request with a free buffer of the length it finds, or with none, and    *)
(* takes the message it is rung for before it answers again.               *)
(*                                                                         *)
(* Each transfer on the bus is a step, and the other task may run between  *)
(* two of them, not within one.  The chip stays awake (M2M_NO_PS), so that *)
(* hif_chip_wake and hif_chip_sleep touch no register.  The control and    *)
(* the data part of a message are written in one step.                     *)
(***************************************************************************)
EXTENDS Integers, Sequences, FiniteSets, Functions

CONSTANTS
  Senders,    \* the tasks that call hif_send
  Buffers,    \* the addresses of the module's buffers, which are not 0
  Sizes,      \* the sizes of messages
  MaxPolls,   \* the times that the answer is polled for (1000)
  MaxSends,   \* bound: the messages sent
  MaxFaults   \* bound: the bus transfers that fail

NoAddress == 0
NoMessage == 0

ASSUME SendAssumption ==
  /\ Buffers \subseteq Nat \ {NoAddress} /\ IsFiniteSet(Buffers)
  /\ Sizes \subseteq Nat \ {0}
  /\ MaxPolls \in Nat \ {0} /\ MaxSends \in Nat /\ MaxFaults \in Nat

VARIABLES
  length,    \* NMI_STATE_REG
  request,   \* bit 1 of WIFI_HOST_RCV_CTRL_2
  address,   \* the register 0x150400
  bell,      \* WIFI_HOST_RCV_CTRL_3: the address rung for and not yet taken
  buffers,   \* for each buffer, its size (0: free) and the messages written in it
  taken,     \* the messages that the module took, as it found them
  sent,      \* the messages by number: size, what hif_send returned for it and,
             \* as history, whether another hif_send ran during its own
  pc,
  message,   \* message[t]: the number of the message that t sends
  polls,
  dma,       \* dma_addr
  faults     \* the transfers that failed

registers == <<length, request, address, bell>>
moduleVars == <<buffers, taken>>
senderVars == <<message, polls, dma>>
vars == <<registers, moduleVars, sent, pc, senderVars, faults>>

Free == [size |-> 0, header |-> NoMessage, body |-> NoMessage]

Init ==
  /\ length = 0 /\ request = FALSE /\ address = NoAddress /\ bell = NoAddress
  /\ buffers = [a \in Buffers |-> Free]
  /\ taken = <<>> /\ sent = <<>>
  /\ pc = [t \in Senders |-> "idle"]
  /\ message = [t \in Senders |-> NoMessage]
  /\ polls = [t \in Senders |-> 0]
  /\ dma = [t \in Senders |-> NoAddress]
  /\ faults = 0

-----------------------------------------------------------------------------
(* The module. *)

\* The module answers a request, with a buffer or, when it has none, without.
Answer ==
  /\ request
  /\ bell = NoAddress
  /\ request' = FALSE
  /\ \/ \E a \in Buffers :
          /\ buffers[a].size = 0
          /\ buffers' = [buffers EXCEPT ![a] = [Free EXCEPT !.size = length]]
          /\ address' = a
     \/ address' = NoAddress /\ UNCHANGED buffers
  /\ UNCHANGED <<length, bell, taken, sent, pc, senderVars, faults>>

\* The module takes the message from the buffer that it was rung for.
Take ==
  /\ bell # NoAddress
  /\ taken' = Append(taken, buffers[bell])
  /\ buffers' = [buffers EXCEPT ![bell] = Free]
  /\ bell' = NoAddress
  /\ UNCHANGED <<length, request, address, sent, pc, senderVars, faults>>

-----------------------------------------------------------------------------
(* hif_send *)

At(t, here) == pc[t] = here
GoTo(t, there) == pc' = [pc EXCEPT ![t] = there]
Sending == {t \in Senders : pc[t] # "idle"}

\* hif_send returns to its caller.
Return(t, value) ==
  /\ GoTo(t, "idle")
  /\ sent' = [sent EXCEPT ![message[t]].result = value]

\* A task calls hif_send with a message.
Call(t) ==
  /\ At(t, "idle")
  /\ Len(sent) < MaxSends
  /\ GoTo(t, "length")
  /\ message' = [message EXCEPT ![t] = Len(sent) + 1]
  /\ \E size \in Sizes :
       sent' = [n \in 1 .. Len(sent) + 1 |->
                  IF n > Len(sent)
                  THEN [size |-> size, result |-> "pending", overlapped |-> Sending # {}]
                  ELSE [sent[n] EXCEPT !.overlapped = @ \/ sent[n].result = "pending"]]
  /\ polls' = [polls EXCEPT ![t] = 0]
  /\ dma' = [dma EXCEPT ![t] = NoAddress]
  /\ UNCHANGED <<registers, moduleVars, faults>>

WriteLength(t) ==
  /\ At(t, "length")
  /\ length' = sent[message[t]].size
  /\ GoTo(t, "request")
  /\ UNCHANGED <<request, address, bell, moduleVars, sent, senderVars, faults>>

Request(t) ==
  /\ At(t, "request")
  /\ request' = TRUE
  /\ GoTo(t, "poll")
  /\ UNCHANGED <<length, address, bell, moduleVars, sent, senderVars, faults>>

\* Mutant: the address is read without waiting for the answer.
PollNotAtAll(t) ==
  /\ At(t, "poll")
  /\ GoTo(t, "address")
  /\ UNCHANGED <<registers, moduleVars, sent, message, polls, dma, faults>>

\* Mutant: the rounds of the loop are not limited.
PollForEver(t) ==
  /\ At(t, "poll")
  /\ IF ~request
     THEN GoTo(t, "address") /\ UNCHANGED polls
     ELSE polls' = [polls EXCEPT ![t] = @ + 1] /\ UNCHANGED pc
  /\ polls[t] <= MaxPolls
  /\ UNCHANGED <<registers, moduleVars, sent, message, dma, faults>>

\* One round of the loop that waits for the module to clear the bit.  When the
\* rounds are used up dma_addr is 0, and no memory was allocated.
Poll(t) ==
  /\ At(t, "poll")
  /\ IF ~request
     THEN GoTo(t, "address") /\ UNCHANGED <<polls, sent>>
     ELSE /\ polls' = [polls EXCEPT ![t] = @ + 1]
          /\ IF polls'[t] = MaxPolls
             THEN Return(t, "M2M_ERR_MEM_ALLOC")
             ELSE UNCHANGED <<pc, sent>>
  /\ UNCHANGED <<registers, moduleVars, message, dma, faults>>

ReadAddress(t) ==
  /\ At(t, "address")
  /\ dma' = [dma EXCEPT ![t] = address]
  /\ IF address = NoAddress
     THEN Return(t, "M2M_ERR_MEM_ALLOC")
     ELSE GoTo(t, "header") /\ UNCHANGED sent
  /\ UNCHANGED <<registers, moduleVars, message, polls, faults>>

WriteHeader(t) ==
  /\ At(t, "header")
  /\ buffers' = [buffers EXCEPT ![dma[t]].header = message[t]]
  /\ GoTo(t, "body")
  /\ UNCHANGED <<registers, taken, sent, senderVars, faults>>

WriteBody(t) ==
  /\ At(t, "body")
  /\ buffers' = [buffers EXCEPT ![dma[t]].body = message[t]]
  /\ GoTo(t, "bell")
  /\ UNCHANGED <<registers, taken, sent, senderVars, faults>>

\* Mutant: the bell is not rung when it has not been answered yet.
RingNoBell(t) ==
  /\ At(t, "bell")
  /\ Return(t, "M2M_SUCCESS")
  /\ UNCHANGED <<registers, moduleVars, senderVars, faults>>

RingBell(t) ==
  /\ At(t, "bell")
  /\ bell' = dma[t]
  /\ Return(t, "M2M_SUCCESS")
  /\ UNCHANGED <<length, request, address, moduleVars, senderVars, faults>>

\* What the write that t is about to do changes when it reaches the module.
Effect(t) ==
  \/ /\ At(t, "length")
     /\ length' = sent[message[t]].size
     /\ UNCHANGED <<request, address, bell, moduleVars>>
  \/ /\ At(t, "request")
     /\ request' = TRUE
     /\ UNCHANGED <<length, address, bell, moduleVars>>
  \/ /\ At(t, "header")
     /\ buffers' = [buffers EXCEPT ![dma[t]].header = message[t]]
     /\ UNCHANGED <<registers, taken>>
  \/ /\ At(t, "body")
     /\ buffers' = [buffers EXCEPT ![dma[t]].body = message[t]]
     /\ UNCHANGED <<registers, taken>>
  \/ /\ At(t, "bell")
     /\ bell' = dma[t]
     /\ UNCHANGED <<length, request, address, moduleVars>>

\* A transfer on the bus fails, and with it hif_send: dma_addr stays 0 when it
\* is a read of the loop.  A write that is reported to have failed may have
\* reached the module all the same.
Fail(t) ==
  /\ t \in Sending
  /\ faults < MaxFaults
  /\ faults' = faults + 1
  /\ Return(t, IF pc[t] \in {"poll", "address"} THEN "M2M_ERR_MEM_ALLOC" ELSE "M2M_ERR_BUS_FAIL")
  /\ \/ UNCHANGED <<registers, moduleVars>>
     \/ Effect(t)
  /\ UNCHANGED senderVars

Step(t) ==
  \/ WriteLength(t) \/ Request(t) \/ Poll(t) \/ ReadAddress(t)
  \/ WriteHeader(t) \/ WriteBody(t) \/ RingBell(t)

Next ==
  \/ Answer \/ Take
  \/ \E t \in Senders : Call(t) \/ Step(t) \/ Fail(t)

\* The tasks take turns.  The module need not answer.
Spec == Init /\ [][Next]_vars /\ \A t \in Senders : WF_vars(Step(t))

-----------------------------------------------------------------------------
(* Properties *)

\* Message n as the module should find it: complete, in a buffer of its size.
Whole(n) == [size |-> sent[n].size, header |-> n, body |-> n]

\* The module took message n, or will take it now that the bell is rung, once
\* and whole.
Mentions(b) == {b.header, b.body}

Arrives(n) ==
  LET left == IF bell = NoAddress THEN <<>> ELSE <<buffers[bell]>>
      all == taken \o left
  IN \E i \in DOMAIN all :
       /\ all[i] = Whole(n)
       /\ \A j \in DOMAIN all : n \in Mentions(all[j]) => j = i

\* A message for which hif_send returned M2M_SUCCESS arrives, once and whole, if
\* no other hif_send ran during its own, whatever became of the calls before
\* it: an answer that came after the last poll, an address left in the
\* register, a transfer that failed half-way.
AloneArrives ==
  \A n \in DOMAIN sent :
    sent[n].result = "M2M_SUCCESS" /\ ~sent[n].overlapped => Arrives(n)

\* The buffers of the module that are not free are accounted for, whatever fails
\* and whoever overlaps: one for the bell, and one at most for each call that is
\* in progress, that failed or that another call overlapped.  A call that nobody
\* overlapped and that returned M2M_SUCCESS leaves none behind, and a call that
\* gave up leaves one at most (the request that it leaves standing, the address
\* that it does not read).
LeaksAreBounded ==
  LET reserved == {a \in Buffers : buffers[a].size # 0}
      unsettled == {n \in DOMAIN sent : sent[n].result # "M2M_SUCCESS" \/ sent[n].overlapped}
  IN  Cardinality(reserved) <= Cardinality(unsettled) + (IF bell = NoAddress THEN 0 ELSE 1)

\* Every call of hif_send returns, even when the module never answers: task_winc
\* and task_send_status do not wait for it for ever.
EverySendReturns == \A t \in Senders : t \in Sending ~> t \notin Sending

\* hif_send returns M2M_SUCCESS only for a message that arrives, whoever else
\* sends.  (m2m_hif.c:322)
SuccessArrives ==
  \A n \in DOMAIN sent : sent[n].result = "M2M_SUCCESS" => Arrives(n)
=============================================================================
