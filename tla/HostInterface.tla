--------------------------- MODULE HostInterface ---------------------------
(***************************************************************************)
(* How a message of the Wi-Fi module reaches the program: the interrupt    *)
(* handler, the task that handles the interrupt and the registers the two  *)
(* sides share (m2m_hif.c, nm_bsp_sam4s.c, freertos_tasks.h:116-119).      *)
(*                                                                         *)
(* The module is external: it puts one message in a buffer, sets bit 0 of  *)
(* WIFI_HOST_RCV_CTRL_0, which holds the interrupt line low, and leaves    *)
(* the buffer alone until bit 1, RX done, is written.  The interrupt is    *)
(* level sensitive and the handler masks it; RX done unmasks it.           *)
(*                                                                         *)
(* pc names the next access of task_winc to something that the interrupt   *)
(* handler or the module can change.  The handler runs between any two of  *)
(* them.  A transfer on the bus to the module can fail, at the points of   *)
(* Faults and at most MaxFaults times; the transfers of one call of        *)
(* hif_receive are one point.                                              *)
(***************************************************************************)
EXTENDS Integers, Sequences

CONSTANTS
  NoMessage,   \* what the buffer of the module holds before the first message
  MaxParts,    \* parts a message is received in: its header, then its data
  MaxSent,     \* bound: the messages the module sends
  Faults,      \* the points where a bus transfer can fail
  MaxFaults    \* bound: the transfers that fail

\* The points of the task that transfer something on the bus.
BusPc == {"read", "clear", "header", "receive", "rxRead", "rxWrite"}

\* A message: its number, the calls of hif_receive it takes and whether the
\* last of them ends it.  When none does, hif_isr does it.
Message == [id : Nat \ {0}, parts : 1 .. MaxParts, ends : BOOLEAN]

ASSUME HostAssumption ==
  /\ MaxParts \in Nat \ {0}
  /\ MaxSent \in Nat
  /\ MaxFaults \in Nat
  /\ Faults \subseteq BusPc
  /\ NoMessage \notin Message

VARIABLES
  line,            \* bit 0 of WIFI_HOST_RCV_CTRL_0: the interrupt line is low
  buffer,          \* the message that the module last put in its buffer
  waiting,         \* the module waits for RX done and keeps its buffer
  sent,            \* the number of messages sent
  unmasked,        \* the PIO interrupt of the line is enabled
  semaphore,       \* xWINC_Semaphore has been given
  gu8Interrupt,    \* interrupts not handled yet
  gu8HifSizeDone,  \* RX done was asked for while a message was received
  pc,
  count,           \* gu8Interrupt as the task loaded it, to decrement it
  bit0,            \* bit 0 of the register as the task read it
  current,         \* the message whose header was read
  part,            \* the parts of it that were received
  afterRxDone,     \* where the caller of hif_set_rx_done goes on
  handled,         \* the messages given to the program or discarded, in order
  faults,          \* the number of transfers that failed
  failed           \* history: the points where one did

moduleVars == <<line, buffer, waiting, sent>>
irqVars == <<unmasked, semaphore, gu8Interrupt>>
taskVars == <<gu8HifSizeDone, count, bit0, current, part, afterRxDone>>
faultVars == <<faults, failed>>
vars == <<moduleVars, irqVars, taskVars, pc, handled, faultVars>>

Pc == BusPc \cup {"take", "check", "load", "store", "mask", "callback", "end",
                  "rxUnmask"}

\* The interrupt is enabled by nm_bsp_register_isr, and the semaphore is
\* created given.
Init ==
  /\ line = FALSE /\ buffer = NoMessage /\ waiting = FALSE /\ sent = 0
  /\ unmasked = TRUE /\ semaphore = TRUE /\ gu8Interrupt = 0
  /\ gu8HifSizeDone = FALSE
  /\ pc = "take"
  /\ count = 0 /\ bit0 = FALSE
  /\ current = NoMessage /\ part = 0 /\ afterRxDone = "check"
  /\ handled = <<>>
  /\ faults = 0 /\ failed = {}

-----------------------------------------------------------------------------
(* The module and the interrupt. *)

ModuleSends ==
  /\ ~waiting
  /\ sent < MaxSent
  /\ sent' = sent + 1
  /\ \E m \in [id : {sent + 1}, parts : 1 .. MaxParts, ends : BOOLEAN] : buffer' = m
  /\ waiting' = TRUE
  /\ line' = TRUE
  /\ UNCHANGED <<irqVars, taskVars, pc, handled, faultVars>>

\* Mutant: the handler does not mask the interrupt.
IsrWithoutMask ==
  /\ line
  /\ unmasked
  /\ semaphore' = TRUE
  /\ gu8Interrupt' = (gu8Interrupt + 1) % 256
  /\ UNCHANGED <<moduleVars, unmasked, taskVars, pc, handled, faultVars>>

\* isr: it runs to its end before any task goes on.
Isr ==
  /\ line
  /\ unmasked
  /\ semaphore' = TRUE
  /\ gu8Interrupt' = (gu8Interrupt + 1) % 256
  /\ unmasked' = FALSE
  /\ UNCHANGED <<moduleVars, taskVars, pc, handled, faultVars>>

-----------------------------------------------------------------------------
(* task_winc and hif_handle_isr. *)

Goto(here, there) == pc = here /\ pc' = there

Take ==
  /\ Goto("take", "check")
  /\ semaphore
  /\ semaphore' = FALSE
  /\ UNCHANGED <<moduleVars, unmasked, gu8Interrupt, taskVars, handled, faultVars>>

Check ==
  /\ Goto("check", IF gu8Interrupt > 0 THEN "load" ELSE "take")
  /\ UNCHANGED <<moduleVars, irqVars, taskVars, handled, faultVars>>

\* gu8Interrupt-- loads the counter and stores it, and the handler may run
\* in between.
Load ==
  /\ Goto("load", "store")
  /\ count' = gu8Interrupt
  /\ UNCHANGED <<moduleVars, irqVars, gu8HifSizeDone, bit0, current, part,
                 afterRxDone, handled, faultVars>>

Store ==
  /\ Goto("store", "read")
  /\ gu8Interrupt' = (count - 1) % 256
  /\ UNCHANGED <<moduleVars, unmasked, semaphore, taskVars, handled, faultVars>>

-----------------------------------------------------------------------------
(* hif_isr *)

\* When bit 0 is clear this is a "False interrupt", and not an error.
ReadRegister ==
  /\ Goto("read", IF line THEN "mask" ELSE "check")
  /\ bit0' = line
  /\ UNCHANGED <<moduleVars, irqVars, gu8HifSizeDone, count, current, part,
                 afterRxDone, handled, faultVars>>

Mask ==
  /\ Goto("mask", "clear")
  /\ unmasked' = FALSE
  /\ UNCHANGED <<moduleVars, semaphore, gu8Interrupt, taskVars, handled, faultVars>>

Clear ==
  /\ Goto("clear", "header")
  /\ line' = FALSE
  /\ gu8HifSizeDone' = FALSE
  /\ UNCHANGED <<buffer, waiting, sent, irqVars, count, bit0, current, part, afterRxDone,
                 handled, faultVars>>

ReadHeader ==
  /\ Goto("header", "receive")
  /\ current' = buffer
  /\ part' = 0
  /\ UNCHANGED <<moduleVars, irqVars, gu8HifSizeDone, count, bit0, afterRxDone,
                 handled, faultVars>>

\* Mutant: RX done whether or not it was set while the message was received.
RxDoneTwice ==
  /\ Goto("end", "rxRead")
  /\ afterRxDone' = "check"
  /\ UNCHANGED <<moduleVars, irqVars, gu8HifSizeDone, count, bit0, current, part,
                 handled, faultVars>>

\* Mutant: RX done is left to the callback.
NoRxDoneAtEnd ==
  /\ Goto("end", "check")
  /\ afterRxDone' = "check"
  /\ UNCHANGED <<moduleVars, irqVars, gu8HifSizeDone, count, bit0, current, part,
                 handled, faultVars>>

\* The end of hif_isr: RX done, unless it was set while the message was
\* received.
EndOfIsr ==
  /\ Goto("end", IF gu8HifSizeDone THEN "check" ELSE "rxRead")
  /\ afterRxDone' = "check"
  /\ UNCHANGED <<moduleVars, irqVars, gu8HifSizeDone, count, bit0, current, part,
                 handled, faultVars>>

-----------------------------------------------------------------------------
(* The callback of the driver, m2m_wifi_cb or m2m_ip_cb: it calls           *)
(* hif_receive once for the header, and for each chunk of the data of a     *)
(* RECV reply (Socket_ReadSocketData); the callback of the program runs     *)
(* after a header without data and after each chunk.                        *)

\* The first part that is given to the program.
FirstPart == IF current.parts = 1 THEN 1 ELSE 2

\* hif_set_rx_done is called from here, and its caller goes on there.
SetRxDone(there) == pc' = "rxRead" /\ afterRxDone' = there

Receive ==
  /\ pc = "receive"
  /\ part' = part + 1
  /\ IF part' = current.parts /\ current.ends
     THEN gu8HifSizeDone' = TRUE /\ SetRxDone("callback")
     ELSE /\ pc' = IF part' < FirstPart THEN "receive" ELSE "callback"
          /\ UNCHANGED <<gu8HifSizeDone, afterRxDone>>
  /\ UNCHANGED <<moduleVars, irqVars, count, bit0, current, handled, faultVars>>

\* A reply whose session is over: hif_receive(0, NULL, 0, 1) drops its data.
Discard ==
  /\ pc = "receive"
  /\ part = 1
  /\ gu8HifSizeDone' = TRUE
  /\ SetRxDone("end")
  /\ handled' = Append(handled, current.id)
  /\ UNCHANGED <<moduleVars, irqVars, count, bit0, current, part, faultVars>>

\* The program may close the socket in its callback: the chunks that are
\* left are then not received.
Callback ==
  /\ pc = "callback"
  /\ handled' = IF part = FirstPart THEN Append(handled, current.id) ELSE handled
  /\ pc' \in IF part = current.parts THEN {"end"} ELSE {"receive", "end"}
  /\ UNCHANGED <<moduleVars, irqVars, taskVars, faultVars>>

-----------------------------------------------------------------------------
(* hif_set_rx_done *)

RxRead ==
  /\ Goto("rxRead", "rxWrite")
  /\ bit0' = line
  /\ UNCHANGED <<moduleVars, irqVars, gu8HifSizeDone, count, current, part,
                 afterRxDone, handled, faultVars>>

\* The module may use its buffer again.
RxWrite ==
  /\ Goto("rxWrite", "rxUnmask")
  /\ line' = bit0
  /\ waiting' = FALSE
  /\ UNCHANGED <<buffer, sent, irqVars, taskVars, handled, faultVars>>

\* Mutant: the interrupt is left masked.
RxStaysMasked ==
  /\ Goto("rxUnmask", afterRxDone)
  /\ UNCHANGED <<moduleVars, irqVars, taskVars, handled, faultVars>>

RxUnmask ==
  /\ Goto("rxUnmask", afterRxDone)
  /\ unmasked' = TRUE
  /\ UNCHANGED <<moduleVars, semaphore, gu8Interrupt, taskVars, handled, faultVars>>

-----------------------------------------------------------------------------
(* A transfer on the bus fails. *)

Fault(point) ==
  /\ pc = point
  /\ point \in Faults
  /\ faults < MaxFaults
  /\ faults' = faults + 1
  /\ failed' = failed \cup {point}
  /\ UNCHANGED <<buffer, sent, semaphore, gu8Interrupt, taskVars, handled>>

\* Mutant: hif_handle_isr does not try again.
ReadNotRetried ==
  /\ Fault("read")
  /\ pc' = "check"
  /\ UNCHANGED <<line, waiting, unmasked>>

\* hif_handle_isr calls hif_isr again, which starts with the register.
ReadFails ==
  /\ Fault("read")
  /\ UNCHANGED <<pc, line, waiting, unmasked>>

\* Mutant: the error of the write is not looked at.
ClearUnchecked ==
  /\ Fault("clear")
  /\ pc' = "header"
  /\ line' \in {line, FALSE}
  /\ UNCHANGED <<waiting, unmasked>>

\* The register was written, or it was not.
ClearFails ==
  /\ Fault("clear")
  /\ pc' = "read"
  /\ line' \in {line, FALSE}
  /\ UNCHANGED <<waiting, unmasked>>

\* The message is given up without RX done.  A header that was read wrong has the
\* same end, but for a wrong group or a size of 0, which leave the interrupt masked.
HeaderFails ==
  /\ Fault("header")
  /\ pc' = "read"
  /\ unmasked' \in {unmasked, TRUE}
  /\ UNCHANGED <<line, waiting>>

ReceiveFails ==
  /\ Fault("receive")
  /\ pc' = "end"
  /\ UNCHANGED <<line, waiting, unmasked>>

\* hif_receive reports the error and the callback of the program is not
\* called; hif_isr forgets it, as hif_chip_sleep succeeds.
AfterFault == IF afterRxDone = "check" THEN "check" ELSE "end"

RxReadFails ==
  /\ Fault("rxRead")
  /\ pc' = AfterFault
  /\ UNCHANGED <<line, waiting, unmasked>>

RxWriteFails ==
  /\ Fault("rxWrite")
  /\ pc' = AfterFault
  /\ \/ UNCHANGED <<line, waiting>>
     \/ line' = bit0 /\ waiting' = FALSE
  /\ UNCHANGED unmasked

-----------------------------------------------------------------------------
TaskStep ==
  \/ Take \/ Check \/ Load \/ Store
  \/ ReadRegister \/ Mask \/ Clear \/ ReadHeader \/ EndOfIsr
  \/ Receive \/ Discard \/ Callback
  \/ RxRead \/ RxWrite \/ RxUnmask

BusFault ==
  ReadFails \/ ClearFails \/ HeaderFails \/ ReceiveFails \/ RxReadFails \/ RxWriteFails

Next == ModuleSends \/ Isr \/ TaskStep \/ BusFault

\* The processor takes an interrupt that is enabled and the scheduler gives
\* every ready task its turn.
Spec == Init /\ [][Next]_vars /\ WF_vars(Isr) /\ WF_vars(TaskStep)

-----------------------------------------------------------------------------
(* Properties. *)

TypeOK ==
  /\ line \in BOOLEAN
  /\ buffer \in Message \cup {NoMessage}
  /\ waiting \in BOOLEAN
  /\ sent \in 0 .. MaxSent
  /\ unmasked \in BOOLEAN
  /\ semaphore \in BOOLEAN
  /\ gu8Interrupt \in 0 .. 255
  /\ gu8HifSizeDone \in BOOLEAN
  /\ pc \in Pc
  /\ count \in 0 .. 255
  /\ bit0 \in BOOLEAN
  /\ current \in Message \cup {NoMessage}
  /\ part \in 0 .. MaxParts
  /\ afterRxDone \in {"callback", "end", "check"}
  /\ handled \in Seq(Nat)
  /\ faults \in 0 .. MaxFaults /\ failed \subseteq BusPc

\* gu8Interrupt is decremented with the interrupt on, by a load and a store
\* (m2m_hif.c:580-582).  No count of the handler falls between the two.
NoCountIsLost == pc = "store" => count = gu8Interrupt

\* The task does not sleep on a message: while it waits for the semaphore and
\* the line is low, the handler has still to run, or it has run and the
\* semaphore is given and the count is up (m2m_hif.c:88-102, 579).  An RX done
\* that reached the module but was reported to fail would break it: the line
\* stays masked.
TaskIsWoken ==
  pc = "take" /\ line =>
    \/ unmasked
    \/ semaphore /\ gu8Interrupt > 0
    \/ "rxWrite" \in failed

\* The module's buffer is read, and released by RX done, only while it holds
\* the message whose header was read (m2m_hif.c:103-125, 558-563).
BufferIsHeld == pc \in {"receive", "rxRead", "rxWrite"} => waiting /\ buffer = current

\* When the task waits with nothing to do, the module's buffer is free: every
\* message was answered by an RX done (m2m_hif.c:556-564).  Only a failed
\* transfer leaves one unanswered.
EveryMessageAnswered ==
  pc = "take" /\ ~semaphore /\ waiting =>
    \/ line
    \/ faults > 0

\* The message in hand: its header was read and it was not given to the
\* program yet.
InHand ==
  \/ pc = "receive" /\ part < FirstPart
  \/ pc = "callback" /\ part = FirstPart
  \/ pc \in {"rxRead", "rxWrite", "rxUnmask"} /\ afterRxDone = "callback" /\ part = FirstPart

InBuffer == waiting /\ buffer # current

\* The messages on their way to the program.
Channel == (IF InHand THEN <<current.id>> ELSE <<>>)
             \o (IF InBuffer THEN <<buffer.id>> ELSE <<>>)

Delivery == INSTANCE MessageDelivery WITH
  Lossy <- Faults \ {"read"} # {}, Limit <- MaxSent, channel <- Channel

\* The program gets the messages in the order of the module, each of them once
\* at most, whatever transfer fails; and all of them when only the read of the
\* interrupt register can fail.
DeliversInOrder == Delivery!SafeSpec

\* Every message is given to the program in the end, unless a transfer failed
\* that is not tried again.  hif_handle_isr tries for ever to read the interrupt
\* register (m2m_hif.c:583-592); what fails after that register was cleared costs
\* the message.
Delivers ==
  \A n \in 1 .. MaxSent :
    sent = n ~> (\E i \in DOMAIN handled : handled[i] = n) \/ ~(failed \subseteq {"read"})
=============================================================================
