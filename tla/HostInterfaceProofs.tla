------------------------ MODULE HostInterfaceProofs ------------------------
(***************************************************************************)
(* What HostInterface keeps true for every number and kind of messages,    *)
(* and whatever transfers fail.  The invariant follows the interrupt       *)
(* through the places of the task: where it is masked, whose count is up,  *)
(* and which message the buffer of the module holds.                       *)
(***************************************************************************)
EXTENDS HostInterface, SequenceTheorems, TLAPS

\* The line is masked and the task has counted the interrupt down.
Masked == ~unmasked /\ gu8Interrupt = 0

\* The module waits, with the message whose header was read.
Holding == waiting /\ ~line /\ buffer = current /\ current \in Message /\ Masked

RxPc == {"rxRead", "rxWrite", "rxUnmask"}

\* The interrupt: a count is up only while the line is low and masked.
InterruptInv ==
  /\ line => waiting
  /\ gu8Interrupt \in {0, 1}
  /\ gu8Interrupt = 1 => line /\ ~unmasked
  /\ pc = "take" /\ gu8Interrupt = 1 => semaphore
  /\ pc = "load" => gu8Interrupt = 1
  /\ pc = "store" => gu8Interrupt = 1 /\ count = 1
  /\ pc = "read" => waiting /\ gu8Interrupt = 0 /\ (unmasked => ~line)
  /\ pc \in {"mask", "clear"} => Masked /\ line
  /\ pc = "header" => Masked /\ waiting /\ ~line
  /\ pc = "rxUnmask" => Masked

\* The buffer: it is the module's message from its header to its RX done.
BufferInv ==
  /\ waiting => buffer \in Message
  /\ pc \in {"header", "receive"} => ~gu8HifSizeDone
  /\ pc = "receive" => Holding /\ part < current.parts
  /\ pc \in {"rxRead", "rxWrite"} => Holding
  /\ pc = "rxWrite" => ~bit0
  /\ pc \in {"callback", "end"} /\ ~gu8HifSizeDone => Holding
  /\ pc \in RxPc /\ afterRxDone # "check" => gu8HifSizeDone /\ current \in Message
  /\ pc \in RxPc /\ afterRxDone = "callback" => part = current.parts
  /\ pc = "callback" => /\ current \in Message
                        /\ part \in FirstPart .. current.parts
                        /\ gu8HifSizeDone => part = current.parts

\* The numbers of the messages: the next one has not been used.
NumberInv ==
  /\ buffer \in Message => buffer.id <= sent
  /\ current \in Message => current.id <= sent
  /\ waiting /\ (line \/ pc = "header") => buffer # current

\* The task sleeps on no message, as long as no RX done failed half-way.
WakeInv ==
  \/ "rxWrite" \in failed
  \/ pc \in {"take", "check", "callback", "end"} /\ Masked => waiting /\ ~line

\* Without a fault the module waits only for a message that is handled.
AnswerInv ==
  faults = 0 /\ waiting /\ ~line =>
    \/ pc \in {"header", "receive", "rxRead", "rxWrite"}
    \/ pc \in {"callback", "end"} /\ ~gu8HifSizeDone

HostInv == TypeOK /\ InterruptInv /\ BufferInv /\ NumberInv /\ WakeInv /\ AnswerInv

-----------------------------------------------------------------------------
LEMMA MessageFacts ==
  /\ \A m \in Message : m.id \in Nat \ {0} /\ m.parts \in 1 .. MaxParts
  /\ NoMessage \notin Message
  /\ MaxParts \in Nat \ {0} /\ MaxSent \in Nat /\ MaxFaults \in Nat
BY HostAssumption DEF Message

\* What a sent message is.
LEMMA SentMessage ==
  ASSUME TypeOK, ModuleSends
  PROVE  buffer' \in Message /\ buffer'.id = sent + 1
BY DEF TypeOK, ModuleSends, Message

\* A message given to the program or discarded is appended as its number.
LEMMA HandledType ==
  ASSUME handled \in Seq(Nat), current \in Message
  PROVE  Append(handled, current.id) \in Seq(Nat)
BY MessageFacts

LEMMA HostInitially == Init => HostInv
<1> SUFFICES ASSUME Init PROVE HostInv
  OBVIOUS
<1>1. TypeOK
  <2>1. pc \in Pc /\ sent \in 0 .. MaxSent /\ part \in 0 .. MaxParts
        /\ faults \in 0 .. MaxFaults /\ failed \subseteq BusPc
    BY MessageFacts DEF Init, Pc, BusPc
  <2>2. handled \in Seq(Nat)
    BY DEF Init
  <2>3. buffer \in Message \cup {NoMessage} /\ current \in Message \cup {NoMessage}
    BY DEF Init
  <2>4. gu8Interrupt \in 0 .. 255 /\ count \in 0 .. 255
    BY DEF Init
  <2>5. afterRxDone \in {"callback", "end", "check"}
    BY DEF Init
  <2>6. /\ line \in BOOLEAN /\ waiting \in BOOLEAN /\ unmasked \in BOOLEAN
        /\ semaphore \in BOOLEAN /\ gu8HifSizeDone \in BOOLEAN /\ bit0 \in BOOLEAN
    BY Zenon DEF Init
  <2> QED
    BY <2>1, <2>2, <2>3, <2>4, <2>5, <2>6, Zenon DEF TypeOK
<1>2. InterruptInv /\ BufferInv /\ NumberInv
  BY MessageFacts DEF Init, InterruptInv, BufferInv, NumberInv, RxPc
<1>3. WakeInv /\ AnswerInv
  BY DEF Init, WakeInv, AnswerInv, Masked
<1> QED
  BY <1>1, <1>2, <1>3 DEF HostInv

\* Every action keeps the types.
LEMMA TypeStep == HostInv /\ [Next]_vars => TypeOK'
<1> SUFFICES ASSUME HostInv, [Next]_vars PROVE TypeOK'
  OBVIOUS
<1> USE MessageFacts DEF HostInv, TypeOK, moduleVars, irqVars, taskVars, faultVars
<1>1. CASE ModuleSends
  BY <1>1, SentMessage DEF ModuleSends, InterruptInv, BufferInv, Holding,
      RxPc, Pc, BusPc
<1>2. CASE Isr
  <2>1. gu8Interrupt = 0
    BY <1>2 DEF Isr, InterruptInv
  <2>2. (0 + 1) % 256 = 1
    BY SMT
  <2>3. gu8Interrupt' \in 0 .. 255
    BY <1>2, <2>1, <2>2 DEF Isr
  <2>4. unmasked' \in BOOLEAN /\ semaphore' \in BOOLEAN
    BY <1>2 DEF Isr
  <2>5. UNCHANGED <<moduleVars, taskVars, pc, handled, faultVars>>
    BY <1>2 DEF Isr
  <2> QED
    BY <2>3, <2>4, <2>5
<1>3. CASE Take
  BY <1>3 DEF Take, Goto, InterruptInv, BufferInv, Holding, RxPc, Pc, BusPc
<1>4. CASE Check
  BY <1>4 DEF Check, Goto, InterruptInv, BufferInv, Holding, RxPc, Pc, BusPc
<1>5. CASE Load
  BY <1>5 DEF Load, Goto, InterruptInv, BufferInv, Holding, RxPc, Pc, BusPc
<1>6. CASE Store
  BY <1>6 DEF Store, Goto, InterruptInv, BufferInv, Holding, RxPc, Pc, BusPc
<1>7. CASE ReadRegister
  BY <1>7 DEF ReadRegister, Goto, InterruptInv, BufferInv, Holding, RxPc, Pc,
      BusPc
<1>8. CASE Mask
  BY <1>8 DEF Mask, Goto, InterruptInv, BufferInv, Holding, RxPc, Pc, BusPc
<1>9. CASE Clear
  BY <1>9 DEF Clear, Goto, InterruptInv, BufferInv, Holding, RxPc, Pc, BusPc
<1>10. CASE ReadHeader
  BY <1>10 DEF ReadHeader, Goto, InterruptInv, BufferInv, Holding, RxPc, Pc,
      BusPc
<1>11. CASE EndOfIsr
  BY <1>11 DEF EndOfIsr, Goto, InterruptInv, BufferInv, Holding, RxPc, Pc,
      BusPc
<1>12. CASE Receive
  <2>1. part' \in 0 .. MaxParts
    BY <1>12 DEF Receive, BufferInv, Holding
  <2>2. pc' \in Pc /\ gu8HifSizeDone' \in BOOLEAN /\ afterRxDone' \in {"callback", "end", "check"}
    BY <1>12 DEF Receive, SetRxDone, Pc, BusPc
  <2> QED
    BY <1>12, <2>1, <2>2 DEF Receive
<1>13. CASE Discard
  BY <1>13, HandledType DEF Discard, SetRxDone, InterruptInv, BufferInv,
      Holding, RxPc, Pc, BusPc
<1>14. CASE Callback
  BY <1>14, HandledType DEF Callback, FirstPart, InterruptInv, BufferInv,
      Holding, RxPc, Pc, BusPc
<1>15. CASE RxRead
  BY <1>15 DEF RxRead, Goto, InterruptInv, BufferInv, Holding, RxPc, Pc, BusPc
<1>16. CASE RxWrite
  BY <1>16 DEF RxWrite, Goto, InterruptInv, BufferInv, Holding, RxPc, Pc,
      BusPc
<1>17. CASE RxUnmask
  BY <1>17 DEF RxUnmask, Goto, InterruptInv, BufferInv, Holding, RxPc, Pc,
      BusPc
<1>18. CASE ReadFails
  BY <1>18 DEF ReadFails, Fault, InterruptInv, BufferInv, Holding, RxPc, Pc,
      BusPc
<1>19. CASE ClearFails
  <2>1. line' \in BOOLEAN
    BY <1>19 DEF ClearFails
  <2>2. pc' \in Pc /\ faults' \in 0 .. MaxFaults /\ failed' \subseteq BusPc
    BY <1>19 DEF ClearFails, Fault, Pc, BusPc
  <2>3. UNCHANGED <<buffer, waiting, sent, irqVars, taskVars, handled>>
    BY <1>19 DEF ClearFails, Fault
  <2> QED
    BY <2>1, <2>2, <2>3
<1>20. CASE HeaderFails
  <2>1. unmasked' \in BOOLEAN
    BY <1>20 DEF HeaderFails
  <2>2. pc' \in Pc /\ faults' \in 0 .. MaxFaults /\ failed' \subseteq BusPc
    BY <1>20 DEF HeaderFails, Fault, Pc, BusPc
  <2>3. UNCHANGED <<line, buffer, waiting, sent, semaphore, gu8Interrupt, taskVars, handled>>
    BY <1>20 DEF HeaderFails, Fault
  <2> QED
    BY <2>1, <2>2, <2>3
<1>21. CASE ReceiveFails
  BY <1>21 DEF ReceiveFails, Fault, InterruptInv, BufferInv, Holding, RxPc,
      Pc, BusPc
<1>22. CASE RxReadFails
  BY <1>22 DEF RxReadFails, Fault, AfterFault, InterruptInv, BufferInv,
      Holding, RxPc, Pc, BusPc
<1>23. CASE RxWriteFails
  <2>1. line' \in BOOLEAN /\ waiting' \in BOOLEAN
    BY <1>23 DEF RxWriteFails
  <2>2. pc' \in Pc /\ faults' \in 0 .. MaxFaults /\ failed' \subseteq BusPc
    BY <1>23 DEF RxWriteFails, Fault, AfterFault, Pc, BusPc
  <2>3. UNCHANGED <<buffer, sent, irqVars, taskVars, handled>>
    BY <1>23 DEF RxWriteFails, Fault
  <2> QED
    BY <2>1, <2>2, <2>3
<1>24. CASE UNCHANGED vars
  BY <1>24 DEF vars, InterruptInv, BufferInv, Holding, RxPc, Pc, BusPc
<1> QED
  BY <1>1, <1>2, <1>3, <1>4, <1>5, <1>6, <1>7, <1>8, <1>9, <1>10, <1>11,
      <1>12, <1>13, <1>14, <1>15, <1>16, <1>17, <1>18, <1>19, <1>20, <1>21,
      <1>22, <1>23, <1>24 DEF Next, TaskStep, BusFault

\* No action lets a count be up on an unmasked line.
LEMMA InterruptStep == HostInv /\ [Next]_vars => InterruptInv'
<1> SUFFICES ASSUME HostInv, [Next]_vars PROVE InterruptInv'
  OBVIOUS
<1> USE MessageFacts DEF HostInv, TypeOK, moduleVars, irqVars, taskVars, faultVars
<1>1. CASE ModuleSends
  BY <1>1, SentMessage DEF ModuleSends, InterruptInv, BufferInv, Masked,
      Holding
<1>2. CASE Isr
  BY <1>2 DEF Isr, InterruptInv, BufferInv, Masked, Holding
<1>3. CASE Take
  BY <1>3 DEF Take, Goto, InterruptInv, BufferInv, Masked, Holding
<1>4. CASE Check
  BY <1>4 DEF Check, Goto, InterruptInv, BufferInv, Masked, Holding
<1>5. CASE Load
  BY <1>5 DEF Load, Goto, InterruptInv, BufferInv, Masked, Holding
<1>6. CASE Store
  BY <1>6 DEF Store, Goto, InterruptInv, BufferInv, Masked, Holding
<1>7. CASE ReadRegister
  BY <1>7 DEF ReadRegister, Goto, InterruptInv, BufferInv, Masked, Holding
<1>8. CASE Mask
  BY <1>8 DEF Mask, Goto, InterruptInv, BufferInv, Masked, Holding
<1>9. CASE Clear
  BY <1>9 DEF Clear, Goto, InterruptInv, BufferInv, Masked, Holding
<1>10. CASE ReadHeader
  BY <1>10 DEF ReadHeader, Goto, InterruptInv, BufferInv, Masked, Holding
<1>11. CASE EndOfIsr
  BY <1>11 DEF EndOfIsr, Goto, InterruptInv, BufferInv, Masked, Holding
<1>12. CASE Receive
  BY <1>12 DEF Receive, SetRxDone, FirstPart, InterruptInv, BufferInv, Masked,
      Holding
<1>13. CASE Discard
  BY <1>13 DEF Discard, SetRxDone, InterruptInv, BufferInv, Masked, Holding
<1>14. CASE Callback
  BY <1>14 DEF Callback, FirstPart, InterruptInv, BufferInv, Masked, Holding
<1>15. CASE RxRead
  BY <1>15 DEF RxRead, Goto, InterruptInv, BufferInv, Masked, Holding
<1>16. CASE RxWrite
  BY <1>16 DEF RxWrite, Goto, InterruptInv, BufferInv, Masked, Holding
<1>17. CASE RxUnmask
  BY <1>17 DEF RxUnmask, Goto, InterruptInv, BufferInv, Masked, Holding
<1>18. CASE ReadFails
  BY <1>18 DEF ReadFails, Fault, InterruptInv, BufferInv, Masked, Holding
<1>19. CASE ClearFails
  BY <1>19 DEF ClearFails, Fault, InterruptInv, BufferInv, Masked, Holding
<1>20. CASE HeaderFails
  BY <1>20 DEF HeaderFails, Fault, InterruptInv, BufferInv, Masked, Holding
<1>21. CASE ReceiveFails
  BY <1>21 DEF ReceiveFails, Fault, InterruptInv, BufferInv, Masked, Holding
<1>22. CASE RxReadFails
  BY <1>22 DEF RxReadFails, Fault, AfterFault, InterruptInv, BufferInv,
      Masked, Holding
<1>23. CASE RxWriteFails
  <2>1. CASE UNCHANGED <<line, waiting>>
    BY <1>23, <2>1 DEF RxWriteFails, Fault, AfterFault, InterruptInv,
        BufferInv, Masked, Holding
  <2>2. CASE line' = bit0 /\ waiting' = FALSE
    BY <1>23, <2>2 DEF RxWriteFails, Fault, AfterFault, InterruptInv,
        BufferInv, Masked, Holding
  <2> QED
    BY <1>23, <2>1, <2>2 DEF RxWriteFails, Fault, AfterFault
<1>24. CASE UNCHANGED vars
  BY <1>24 DEF vars, InterruptInv, BufferInv, Masked, Holding
<1> QED
  BY <1>1, <1>2, <1>3, <1>4, <1>5, <1>6, <1>7, <1>8, <1>9, <1>10, <1>11,
      <1>12, <1>13, <1>14, <1>15, <1>16, <1>17, <1>18, <1>19, <1>20, <1>21,
      <1>22, <1>23, <1>24 DEF Next, TaskStep, BusFault

\* No action reads or releases another message than the one in hand.
LEMMA BufferStep == HostInv /\ [Next]_vars => BufferInv'
<1> SUFFICES ASSUME HostInv, [Next]_vars PROVE BufferInv'
  OBVIOUS
<1> USE MessageFacts DEF HostInv, TypeOK, moduleVars, irqVars, taskVars, faultVars
<1>1. CASE ModuleSends
  BY <1>1, SentMessage DEF ModuleSends, InterruptInv, BufferInv, Masked,
      Holding, RxPc, FirstPart
<1>2. CASE Isr
  BY <1>2 DEF Isr, InterruptInv, BufferInv, Masked, Holding, RxPc, FirstPart
<1>3. CASE Take
  BY <1>3 DEF Take, Goto, InterruptInv, BufferInv, Masked, Holding, RxPc,
      FirstPart
<1>4. CASE Check
  BY <1>4 DEF Check, Goto, InterruptInv, BufferInv, Masked, Holding, RxPc,
      FirstPart
<1>5. CASE Load
  BY <1>5 DEF Load, Goto, InterruptInv, BufferInv, Masked, Holding, RxPc,
      FirstPart
<1>6. CASE Store
  BY <1>6 DEF Store, Goto, InterruptInv, BufferInv, Masked, Holding, RxPc,
      FirstPart
<1>7. CASE ReadRegister
  BY <1>7 DEF ReadRegister, Goto, InterruptInv, BufferInv, Masked, Holding,
      RxPc, FirstPart
<1>8. CASE Mask
  BY <1>8 DEF Mask, Goto, InterruptInv, BufferInv, Masked, Holding, RxPc,
      FirstPart
<1>9. CASE Clear
  BY <1>9 DEF Clear, Goto, InterruptInv, BufferInv, Masked, Holding, RxPc,
      FirstPart
<1>10. CASE ReadHeader
  BY <1>10 DEF ReadHeader, Goto, InterruptInv, BufferInv, Masked, Holding,
      RxPc, FirstPart
<1>11. CASE EndOfIsr
  BY <1>11 DEF EndOfIsr, Goto, InterruptInv, BufferInv, Masked, Holding, RxPc,
      FirstPart
<1>12. CASE Receive
  BY <1>12 DEF Receive, SetRxDone, InterruptInv, BufferInv, Masked, Holding,
      RxPc, FirstPart
<1>13. CASE Discard
  BY <1>13 DEF Discard, SetRxDone, InterruptInv, BufferInv, Masked, Holding,
      RxPc, FirstPart
<1>14. CASE Callback
  BY <1>14 DEF Callback, InterruptInv, BufferInv, Masked, Holding, RxPc,
      FirstPart
<1>15. CASE RxRead
  BY <1>15 DEF RxRead, Goto, InterruptInv, BufferInv, Masked, Holding, RxPc,
      FirstPart
<1>16. CASE RxWrite
  BY <1>16 DEF RxWrite, Goto, InterruptInv, BufferInv, Masked, Holding, RxPc,
      FirstPart
<1>17. CASE RxUnmask
  BY <1>17 DEF RxUnmask, Goto, InterruptInv, BufferInv, Masked, Holding, RxPc,
      FirstPart
<1>18. CASE ReadFails
  BY <1>18 DEF ReadFails, Fault, InterruptInv, BufferInv, Masked, Holding,
      RxPc, FirstPart
<1>19. CASE ClearFails
  BY <1>19 DEF ClearFails, Fault, InterruptInv, BufferInv, Masked, Holding,
      RxPc, FirstPart
<1>20. CASE HeaderFails
  BY <1>20 DEF HeaderFails, Fault, InterruptInv, BufferInv, Masked, Holding,
      RxPc, FirstPart
<1>21. CASE ReceiveFails
  BY <1>21 DEF ReceiveFails, Fault, InterruptInv, BufferInv, Masked, Holding,
      RxPc, FirstPart
<1>22. CASE RxReadFails
  BY <1>22 DEF RxReadFails, Fault, AfterFault, InterruptInv, BufferInv,
      Masked, Holding, RxPc, FirstPart
<1>23. CASE RxWriteFails
  BY <1>23 DEF RxWriteFails, Fault, AfterFault, InterruptInv, BufferInv,
      Masked, Holding, RxPc, FirstPart
<1>24. CASE UNCHANGED vars
  BY <1>24 DEF vars, InterruptInv, BufferInv, Masked, Holding, RxPc, FirstPart
<1> QED
  BY <1>1, <1>2, <1>3, <1>4, <1>5, <1>6, <1>7, <1>8, <1>9, <1>10, <1>11,
      <1>12, <1>13, <1>14, <1>15, <1>16, <1>17, <1>18, <1>19, <1>20, <1>21,
      <1>22, <1>23, <1>24 DEF Next, TaskStep, BusFault

\* Every action keeps the numbers of the messages apart.
LEMMA NumberStep == HostInv /\ [Next]_vars => NumberInv'
<1> SUFFICES ASSUME HostInv, [Next]_vars PROVE NumberInv'
  OBVIOUS
<1> USE MessageFacts DEF HostInv, TypeOK, moduleVars, irqVars, taskVars, faultVars
<1>1. CASE ModuleSends
  BY <1>1, SentMessage DEF ModuleSends, InterruptInv, BufferInv, NumberInv,
      Masked, Holding
<1>2. CASE Isr
  BY <1>2 DEF Isr, InterruptInv, BufferInv, NumberInv, Masked, Holding
<1>3. CASE Take
  BY <1>3 DEF Take, Goto, InterruptInv, BufferInv, NumberInv, Masked, Holding
<1>4. CASE Check
  BY <1>4 DEF Check, Goto, InterruptInv, BufferInv, NumberInv, Masked, Holding
<1>5. CASE Load
  BY <1>5 DEF Load, Goto, InterruptInv, BufferInv, NumberInv, Masked, Holding
<1>6. CASE Store
  BY <1>6 DEF Store, Goto, InterruptInv, BufferInv, NumberInv, Masked, Holding
<1>7. CASE ReadRegister
  BY <1>7 DEF ReadRegister, Goto, InterruptInv, BufferInv, NumberInv, Masked,
      Holding
<1>8. CASE Mask
  BY <1>8 DEF Mask, Goto, InterruptInv, BufferInv, NumberInv, Masked, Holding
<1>9. CASE Clear
  BY <1>9 DEF Clear, Goto, InterruptInv, BufferInv, NumberInv, Masked, Holding
<1>10. CASE ReadHeader
  BY <1>10 DEF ReadHeader, Goto, InterruptInv, BufferInv, NumberInv, Masked,
      Holding
<1>11. CASE EndOfIsr
  BY <1>11 DEF EndOfIsr, Goto, InterruptInv, BufferInv, NumberInv, Masked,
      Holding
<1>12. CASE Receive
  BY <1>12 DEF Receive, SetRxDone, FirstPart, InterruptInv, BufferInv,
      NumberInv, Masked, Holding
<1>13. CASE Discard
  BY <1>13 DEF Discard, SetRxDone, InterruptInv, BufferInv, NumberInv, Masked,
      Holding
<1>14. CASE Callback
  BY <1>14 DEF Callback, FirstPart, InterruptInv, BufferInv, NumberInv,
      Masked, Holding
<1>15. CASE RxRead
  BY <1>15 DEF RxRead, Goto, InterruptInv, BufferInv, NumberInv, Masked,
      Holding
<1>16. CASE RxWrite
  BY <1>16 DEF RxWrite, Goto, InterruptInv, BufferInv, NumberInv, Masked,
      Holding
<1>17. CASE RxUnmask
  BY <1>17 DEF RxUnmask, Goto, InterruptInv, BufferInv, NumberInv, Masked,
      Holding
<1>18. CASE ReadFails
  BY <1>18 DEF ReadFails, Fault, InterruptInv, BufferInv, NumberInv, Masked,
      Holding
<1>19. CASE ClearFails
  BY <1>19 DEF ClearFails, Fault, InterruptInv, BufferInv, NumberInv, Masked,
      Holding
<1>20. CASE HeaderFails
  BY <1>20 DEF HeaderFails, Fault, InterruptInv, BufferInv, NumberInv, Masked,
      Holding
<1>21. CASE ReceiveFails
  BY <1>21 DEF ReceiveFails, Fault, InterruptInv, BufferInv, NumberInv,
      Masked, Holding
<1>22. CASE RxReadFails
  BY <1>22 DEF RxReadFails, Fault, AfterFault, InterruptInv, BufferInv,
      NumberInv, Masked, Holding
<1>23. CASE RxWriteFails
  <2>1. CASE UNCHANGED <<line, waiting>>
    BY <1>23, <2>1 DEF RxWriteFails, Fault, AfterFault, InterruptInv,
        BufferInv, NumberInv, Masked, Holding
  <2>2. CASE line' = bit0 /\ waiting' = FALSE
    BY <1>23, <2>2 DEF RxWriteFails, Fault, AfterFault, InterruptInv,
        BufferInv, NumberInv, Masked, Holding
  <2> QED
    BY <1>23, <2>1, <2>2 DEF RxWriteFails, Fault, AfterFault
<1>24. CASE UNCHANGED vars
  BY <1>24 DEF vars, InterruptInv, BufferInv, NumberInv, Masked, Holding
<1> QED
  BY <1>1, <1>2, <1>3, <1>4, <1>5, <1>6, <1>7, <1>8, <1>9, <1>10, <1>11,
      <1>12, <1>13, <1>14, <1>15, <1>16, <1>17, <1>18, <1>19, <1>20, <1>21,
      <1>22, <1>23, <1>24 DEF Next, TaskStep, BusFault

\* No action but half an RX done puts the task to sleep on a message.
LEMMA WakeStep == HostInv /\ [Next]_vars => WakeInv'
<1> SUFFICES ASSUME HostInv, [Next]_vars PROVE WakeInv'
  OBVIOUS
<1> USE MessageFacts DEF HostInv, TypeOK, moduleVars, irqVars, taskVars, faultVars
<1>1. CASE ModuleSends
  BY <1>1, SentMessage DEF ModuleSends, InterruptInv, BufferInv, WakeInv,
      Masked, Holding, RxPc
<1>2. CASE Isr
  BY <1>2 DEF Isr, InterruptInv, BufferInv, WakeInv, Masked, Holding, RxPc
<1>3. CASE Take
  BY <1>3 DEF Take, Goto, InterruptInv, BufferInv, WakeInv, Masked, Holding,
      RxPc
<1>4. CASE Check
  BY <1>4 DEF Check, Goto, InterruptInv, BufferInv, WakeInv, Masked, Holding,
      RxPc
<1>5. CASE Load
  BY <1>5 DEF Load, Goto, InterruptInv, BufferInv, WakeInv, Masked, Holding,
      RxPc
<1>6. CASE Store
  BY <1>6 DEF Store, Goto, InterruptInv, BufferInv, WakeInv, Masked, Holding,
      RxPc
<1>7. CASE ReadRegister
  BY <1>7 DEF ReadRegister, Goto, InterruptInv, BufferInv, WakeInv, Masked,
      Holding, RxPc
<1>8. CASE Mask
  BY <1>8 DEF Mask, Goto, InterruptInv, BufferInv, WakeInv, Masked, Holding,
      RxPc
<1>9. CASE Clear
  BY <1>9 DEF Clear, Goto, InterruptInv, BufferInv, WakeInv, Masked, Holding,
      RxPc
<1>10. CASE ReadHeader
  BY <1>10 DEF ReadHeader, Goto, InterruptInv, BufferInv, WakeInv, Masked,
      Holding, RxPc
<1>11. CASE EndOfIsr
  BY <1>11 DEF EndOfIsr, Goto, InterruptInv, BufferInv, WakeInv, Masked,
      Holding, RxPc
<1>12. CASE Receive
  BY <1>12 DEF Receive, SetRxDone, FirstPart, InterruptInv, BufferInv,
      WakeInv, Masked, Holding, RxPc
<1>13. CASE Discard
  BY <1>13 DEF Discard, SetRxDone, InterruptInv, BufferInv, WakeInv, Masked,
      Holding, RxPc
<1>14. CASE Callback
  BY <1>14 DEF Callback, FirstPart, InterruptInv, BufferInv, WakeInv, Masked,
      Holding, RxPc
<1>15. CASE RxRead
  BY <1>15 DEF RxRead, Goto, InterruptInv, BufferInv, WakeInv, Masked,
      Holding, RxPc
<1>16. CASE RxWrite
  BY <1>16 DEF RxWrite, Goto, InterruptInv, BufferInv, WakeInv, Masked,
      Holding, RxPc
<1>17. CASE RxUnmask
  BY <1>17 DEF RxUnmask, Goto, InterruptInv, BufferInv, WakeInv, Masked,
      Holding, RxPc
<1>18. CASE ReadFails
  BY <1>18 DEF ReadFails, Fault, InterruptInv, BufferInv, WakeInv, Masked,
      Holding, RxPc
<1>19. CASE ClearFails
  BY <1>19 DEF ClearFails, Fault, InterruptInv, BufferInv, WakeInv, Masked,
      Holding, RxPc
<1>20. CASE HeaderFails
  BY <1>20 DEF HeaderFails, Fault, InterruptInv, BufferInv, WakeInv, Masked,
      Holding, RxPc
<1>21. CASE ReceiveFails
  BY <1>21 DEF ReceiveFails, Fault, InterruptInv, BufferInv, WakeInv, Masked,
      Holding, RxPc
<1>22. CASE RxReadFails
  BY <1>22 DEF RxReadFails, Fault, AfterFault, InterruptInv, BufferInv,
      WakeInv, Masked, Holding, RxPc
<1>23. CASE RxWriteFails
  BY <1>23 DEF RxWriteFails, Fault, AfterFault, InterruptInv, BufferInv,
      WakeInv, Masked, Holding, RxPc
<1>24. CASE UNCHANGED vars
  BY <1>24 DEF vars, InterruptInv, BufferInv, WakeInv, Masked, Holding, RxPc
<1> QED
  BY <1>1, <1>2, <1>3, <1>4, <1>5, <1>6, <1>7, <1>8, <1>9, <1>10, <1>11,
      <1>12, <1>13, <1>14, <1>15, <1>16, <1>17, <1>18, <1>19, <1>20, <1>21,
      <1>22, <1>23, <1>24 DEF Next, TaskStep, BusFault

\* No action but a fault leaves a message unanswered.
LEMMA AnswerStep == HostInv /\ [Next]_vars => AnswerInv'
<1> SUFFICES ASSUME HostInv, [Next]_vars PROVE AnswerInv'
  OBVIOUS
<1> USE MessageFacts DEF HostInv, TypeOK, moduleVars, irqVars, taskVars, faultVars
<1>1. CASE ModuleSends
  BY <1>1, SentMessage DEF ModuleSends, InterruptInv, BufferInv, AnswerInv,
      Masked, Holding, RxPc
<1>2. CASE Isr
  BY <1>2 DEF Isr, InterruptInv, BufferInv, AnswerInv, Masked, Holding, RxPc
<1>3. CASE Take
  BY <1>3 DEF Take, Goto, InterruptInv, BufferInv, AnswerInv, Masked, Holding,
      RxPc
<1>4. CASE Check
  BY <1>4 DEF Check, Goto, InterruptInv, BufferInv, AnswerInv, Masked,
      Holding, RxPc
<1>5. CASE Load
  BY <1>5 DEF Load, Goto, InterruptInv, BufferInv, AnswerInv, Masked, Holding,
      RxPc
<1>6. CASE Store
  BY <1>6 DEF Store, Goto, InterruptInv, BufferInv, AnswerInv, Masked,
      Holding, RxPc
<1>7. CASE ReadRegister
  BY <1>7 DEF ReadRegister, Goto, InterruptInv, BufferInv, AnswerInv, Masked,
      Holding, RxPc
<1>8. CASE Mask
  BY <1>8 DEF Mask, Goto, InterruptInv, BufferInv, AnswerInv, Masked, Holding,
      RxPc
<1>9. CASE Clear
  BY <1>9 DEF Clear, Goto, InterruptInv, BufferInv, AnswerInv, Masked,
      Holding, RxPc
<1>10. CASE ReadHeader
  BY <1>10 DEF ReadHeader, Goto, InterruptInv, BufferInv, AnswerInv, Masked,
      Holding, RxPc
<1>11. CASE EndOfIsr
  BY <1>11 DEF EndOfIsr, Goto, InterruptInv, BufferInv, AnswerInv, Masked,
      Holding, RxPc
<1>12. CASE Receive
  BY <1>12 DEF Receive, SetRxDone, FirstPart, InterruptInv, BufferInv,
      AnswerInv, Masked, Holding, RxPc
<1>13. CASE Discard
  BY <1>13 DEF Discard, SetRxDone, InterruptInv, BufferInv, AnswerInv, Masked,
      Holding, RxPc
<1>14. CASE Callback
  BY <1>14 DEF Callback, FirstPart, InterruptInv, BufferInv, AnswerInv,
      Masked, Holding, RxPc
<1>15. CASE RxRead
  BY <1>15 DEF RxRead, Goto, InterruptInv, BufferInv, AnswerInv, Masked,
      Holding, RxPc
<1>16. CASE RxWrite
  BY <1>16 DEF RxWrite, Goto, InterruptInv, BufferInv, AnswerInv, Masked,
      Holding, RxPc
<1>17. CASE RxUnmask
  BY <1>17 DEF RxUnmask, Goto, InterruptInv, BufferInv, AnswerInv, Masked,
      Holding, RxPc
<1>18. CASE ReadFails
  BY <1>18 DEF ReadFails, Fault, InterruptInv, BufferInv, AnswerInv, Masked,
      Holding, RxPc
<1>19. CASE ClearFails
  BY <1>19 DEF ClearFails, Fault, InterruptInv, BufferInv, AnswerInv, Masked,
      Holding, RxPc
<1>20. CASE HeaderFails
  BY <1>20 DEF HeaderFails, Fault, InterruptInv, BufferInv, AnswerInv, Masked,
      Holding, RxPc
<1>21. CASE ReceiveFails
  BY <1>21 DEF ReceiveFails, Fault, InterruptInv, BufferInv, AnswerInv,
      Masked, Holding, RxPc
<1>22. CASE RxReadFails
  BY <1>22 DEF RxReadFails, Fault, AfterFault, InterruptInv, BufferInv,
      AnswerInv, Masked, Holding, RxPc
<1>23. CASE RxWriteFails
  <2>1. CASE UNCHANGED <<line, waiting>>
    BY <1>23, <2>1 DEF RxWriteFails, Fault, AfterFault, InterruptInv,
        BufferInv, AnswerInv, Masked, Holding, RxPc
  <2>2. CASE line' = bit0 /\ waiting' = FALSE
    BY <1>23, <2>2 DEF RxWriteFails, Fault, AfterFault, InterruptInv,
        BufferInv, AnswerInv, Masked, Holding, RxPc
  <2> QED
    BY <1>23, <2>1, <2>2 DEF RxWriteFails, Fault, AfterFault
<1>24. CASE UNCHANGED vars
  BY <1>24 DEF vars, InterruptInv, BufferInv, AnswerInv, Masked, Holding, RxPc
<1> QED
  BY <1>1, <1>2, <1>3, <1>4, <1>5, <1>6, <1>7, <1>8, <1>9, <1>10, <1>11,
      <1>12, <1>13, <1>14, <1>15, <1>16, <1>17, <1>18, <1>19, <1>20, <1>21,
      <1>22, <1>23, <1>24 DEF Next, TaskStep, BusFault

LEMMA HostInvariant == Spec => []HostInv
<1>1. HostInv /\ [Next]_vars => HostInv'
  BY TypeStep, InterruptStep, BufferStep, NumberStep, WakeStep, AnswerStep DEF HostInv
<1> QED
  BY HostInitially, <1>1, PTL DEF Spec

-----------------------------------------------------------------------------
(* The invariants that the runs check. *)

\* The variables keep their types (m2m_hif.c:88-125, 443-673).
THEOREM HostTypeCorrect == Spec => []TypeOK
<1>1. HostInv => TypeOK
  BY DEF HostInv
<1> QED
  BY <1>1, HostInvariant, PTL

\* The handler adds no count between the load and the store that take one
\* away (m2m_hif.c:580-582).
THEOREM NoCountLost == Spec => []NoCountIsLost
<1>1. HostInv => NoCountIsLost
  BY DEF HostInv, InterruptInv, NoCountIsLost
<1> QED
  BY <1>1, HostInvariant, PTL

\* The buffer of the module is read and released only while it holds the
\* message in hand, whatever transfer fails (m2m_hif.c:103-125, 611-673).
THEOREM BufferHeld == Spec => []BufferIsHeld
<1>1. HostInv => BufferIsHeld
  BY DEF HostInv, BufferInv, Holding, BufferIsHeld
<1> QED
  BY <1>1, HostInvariant, PTL

\* The task does not wait for the semaphore while a message waits for it, unless
\* an RX done was written and reported to have failed (m2m_hif.c:88-102, 579).
THEOREM TaskWoken == Spec => []TaskIsWoken
<1>1. HostInv => TaskIsWoken
  BY DEF HostInv, TypeOK, InterruptInv, WakeInv, Masked, TaskIsWoken
<1> QED
  BY <1>1, HostInvariant, PTL

\* Without a fault every message is answered before the task waits again
\* (m2m_hif.c:556-564).
THEOREM MessagesAnswered == Spec => []EveryMessageAnswered
<1>1. HostInv => EveryMessageAnswered
  BY DEF HostInv, TypeOK, AnswerInv, EveryMessageAnswered
<1> QED
  BY <1>1, HostInvariant, PTL

-----------------------------------------------------------------------------
(* HostInterface implements MessageDelivery. *)

LEMMA PairEqual ==
  ASSUME NEW s \in Seq(Nat), NEW a \in Nat, NEW b \in Nat,
         Len(s) = 2, s[1] = a, s[2] = b
  PROVE  s = <<a, b>>
<1>1. <<a, b>> \in Seq(Nat) /\ Len(<<a, b>>) = 2
  OBVIOUS
<1>2. \A i \in 1 .. 2 : s[i] = <<a, b>>[i]
  OBVIOUS
<1>3. \A t, u \in Seq(Nat) :
         Len(t) = 2 /\ Len(u) = 2 /\ (\A i \in 1 .. 2 : t[i] = u[i]) => t = u
  BY SeqEqual, Zenon
<1> QED
  BY <1>1, <1>2, <1>3, Zenon

\* What the operators on sequences make of the channel.
LEMMA ShortSequences ==
  ASSUME NEW a \in Nat, NEW b \in Nat
  PROVE  /\ <<>> \o <<>> = <<>> /\ <<a>> \o <<>> = <<a>>
         /\ <<>> \o <<b>> = <<b>> /\ <<a>> \o <<b>> = <<a, b>>
         /\ Append(<<>>, b) = <<b>> /\ Append(<<a>>, b) = <<a, b>>
         /\ Tail(<<a>>) = <<>> /\ Tail(<<a, b>>) = <<b>>
         /\ Head(<<a>>) = a /\ Head(<<a, b>>) = a
         /\ <<a>> # <<>> /\ <<a, b>> # <<>>
         /\ Len(<<>>) = 0 /\ Len(<<a>>) = 1
<1>1. <<a>> \o <<b>> = <<a, b>>
  <2>1. <<a>> \o <<b>> \in Seq(Nat) /\ Len(<<a>> \o <<b>>) = 2
    OBVIOUS
  <2>2. (<<a>> \o <<b>>)[1] = a /\ (<<a>> \o <<b>>)[2] = b
    OBVIOUS
  <2> QED
    BY <2>1, <2>2, PairEqual, Zenon
<1>2. Append(<<a>>, b) = <<a, b>>
  <2>1. Append(<<a>>, b) \in Seq(Nat) /\ Len(Append(<<a>>, b)) = 2
    OBVIOUS
  <2>2. Append(<<a>>, b)[1] = a /\ Append(<<a>>, b)[2] = b
    OBVIOUS
  <2> QED
    BY <2>1, <2>2, PairEqual, Zenon
<1>3. /\ <<>> \o <<>> = <<>> /\ <<a>> \o <<>> = <<a>> /\ <<>> \o <<b>> = <<b>>
      /\ Append(<<>>, b) = <<b>>
  OBVIOUS
<1>4. Tail(<<a>>) = <<>> /\ Tail(<<a, b>>) = <<b>> /\ Head(<<a>>) = a /\ Head(<<a, b>>) = a
  OBVIOUS
<1>5. <<a>> # <<>> /\ <<a, b>> # <<>> /\ Len(<<>>) = 0 /\ Len(<<a>>) = 1
  OBVIOUS
<1> QED
  BY <1>1, <1>2, <1>3, <1>4, <1>5, Zenon

\* The message in hand and the one in the buffer have numbers.
LEMMA Numbers ==
  ASSUME HostInv
  PROVE  /\ InHand => current \in Message /\ current.id \in Nat
         /\ InBuffer => buffer \in Message /\ buffer.id \in Nat
BY MessageFacts DEF HostInv, BufferInv, Holding, RxPc, InHand, InBuffer

\* The channel, by what it holds.
LEMMA ChannelCases ==
  ASSUME HostInv
  PROVE  /\ InHand /\ InBuffer => Channel = <<current.id, buffer.id>>
         /\ InHand /\ ~InBuffer => Channel = <<current.id>>
         /\ ~InHand /\ InBuffer => Channel = <<buffer.id>>
         /\ ~InHand /\ ~InBuffer => Channel = <<>>
<1>1. CASE InHand /\ InBuffer
  BY <1>1, Numbers, ShortSequences, Zenon DEF Channel
<1>2. CASE InHand /\ ~InBuffer
  BY <1>2, Numbers, ShortSequences, Zenon DEF Channel
<1>3. CASE ~InHand /\ InBuffer
  BY <1>3, Numbers, ShortSequences, Zenon DEF Channel
<1>4. CASE ~InHand /\ ~InBuffer
  BY <1>4, ShortSequences DEF Channel
<1> QED
  BY <1>1, <1>2, <1>3, <1>4, Zenon

\* The channel is the same when it holds the same.
LEMMA SameChannel ==
  ASSUME InHand' <=> InHand, InBuffer' <=> InBuffer,
         InHand => current' = current, InBuffer => buffer' = buffer
  PROVE  Channel' = Channel
<1>1. CASE InHand /\ InBuffer
  BY <1>1 DEF Channel
<1>2. CASE InHand /\ ~InBuffer
  BY <1>2 DEF Channel
<1>3. CASE ~InHand /\ InBuffer
  BY <1>3 DEF Channel
<1>4. CASE ~InHand /\ ~InBuffer
  BY <1>4 DEF Channel
<1> QED
  BY <1>1, <1>2, <1>3, <1>4

\* The message in hand has left the channel, and nothing else has.
LEMMA HandLeaves ==
  ASSUME HostInv, HostInv', InHand, ~InHand', InBuffer' <=> InBuffer, buffer' = buffer
  PROVE  Channel # <<>> /\ Head(Channel) = current.id /\ Channel' = Tail(Channel)
<1>1. current.id \in Nat /\ (InBuffer => buffer.id \in Nat)
  BY Numbers
<1>2. CASE InBuffer
  <2>1. Channel = <<current.id, buffer.id>>
    BY <1>2, ChannelCases
  <2>2. Channel' = <<buffer.id>>
    BY <1>1, <1>2, ShortSequences, Zenon DEF Channel
  <2> QED
    BY <1>1, <1>2, <2>1, <2>2, ShortSequences, Zenon
<1>3. CASE ~InBuffer
  <2>1. Channel = <<current.id>>
    BY <1>3, ChannelCases
  <2>2. Channel' = <<>>
    BY <1>3, ShortSequences DEF Channel
  <2> QED
    BY <1>1, <2>1, <2>2, ShortSequences, Zenon
<1> QED
  BY <1>2, <1>3

\* Every step is a step of the delivery, or changes nothing of it.
LEMMA DeliveryStep ==
  ASSUME HostInv, HostInv', [Next]_vars
  PROVE  [Delivery!Next]_(Delivery!vars)
<1> USE DEF moduleVars, irqVars, taskVars
<1>1. CASE ModuleSends
  <2>1. ~InBuffer /\ sent < MaxSent /\ sent' = sent + 1 /\ handled' = handled
    BY <1>1 DEF ModuleSends, InBuffer
  <2>2. InHand' <=> InHand
    BY <1>1 DEF ModuleSends, InHand, FirstPart
  <2>3. buffer'.id = sent + 1 /\ sent + 1 \in Nat /\ sent \in Nat
    BY <1>1, SentMessage, MessageFacts DEF HostInv, TypeOK
  <2>4. InBuffer'
    <3>1. current' = current /\ waiting'
      BY <1>1 DEF ModuleSends
    <3>2. buffer' # current
      BY <1>1, <2>3, SentMessage, MessageFacts DEF HostInv, NumberInv
    <3> QED
      BY <3>1, <3>2 DEF InBuffer
  <2>5. Len(Channel) < 2 /\ Channel' = Append(Channel, sent + 1)
    <3>1. CASE InHand
      <4>1. current.id \in Nat /\ Channel = <<current.id>>
        BY <2>1, <3>1, Numbers, ChannelCases
      <4>2. Len(Channel) = 1 /\ Append(Channel, sent + 1) = <<current.id, sent + 1>>
        BY <2>3, <4>1, ShortSequences, Zenon
      <4>3. current' = current
        BY <1>1 DEF ModuleSends
      <4>4. Channel' = <<current.id>> \o <<sent + 1>>
        BY <2>2, <2>3, <2>4, <3>1, <4>3, Zenon DEF Channel
      <4>5. <<current.id>> \o <<sent + 1>> = <<current.id, sent + 1>>
        BY <2>3, <4>1, ShortSequences, Zenon
      <4>6. Channel' = Append(Channel, sent + 1)
        BY <4>2, <4>4, <4>5, Zenon
      <4> QED
        BY <4>2, <4>6
    <3>2. CASE ~InHand
      <4>1. Channel = <<>>
        BY <2>1, <3>2, ChannelCases
      <4>2. Len(Channel) = 0 /\ Append(Channel, sent + 1) = <<sent + 1>>
        BY <2>3, <4>1, ShortSequences, Zenon
      <4>3. Channel' = <<>> \o <<sent + 1>>
        BY <2>2, <2>3, <2>4, <3>2, Zenon DEF Channel
      <4>4. <<>> \o <<sent + 1>> = <<sent + 1>>
        BY <2>3, ShortSequences, Zenon
      <4> QED
        BY <4>2, <4>3, <4>4
    <3> QED
      BY <3>1, <3>2
  <2> QED
    BY <2>1, <2>5 DEF Delivery!Next, Delivery!Send
<1>2. CASE Isr
  <2>1. InHand' <=> InHand
    BY <1>2 DEF Isr, InHand, FirstPart, HostInv, TypeOK
  <2>2. InBuffer' <=> InBuffer
    BY <1>2 DEF Isr, InBuffer
  <2>3. UNCHANGED <<sent, handled, buffer, current>>
    BY <1>2 DEF Isr
  <2> QED
    BY <2>1, <2>2, <2>3, SameChannel DEF Delivery!vars
<1>3. CASE Take
  <2>1. InHand' <=> InHand
    BY <1>3 DEF Take, Goto, InHand, FirstPart, HostInv, TypeOK
  <2>2. InBuffer' <=> InBuffer
    BY <1>3 DEF Take, Goto, InBuffer
  <2>3. UNCHANGED <<sent, handled, buffer, current>>
    BY <1>3 DEF Take, Goto
  <2> QED
    BY <2>1, <2>2, <2>3, SameChannel DEF Delivery!vars
<1>4. CASE Check
  <2>1. InHand' <=> InHand
    BY <1>4 DEF Check, Goto, InHand, FirstPart, HostInv, TypeOK
  <2>2. InBuffer' <=> InBuffer
    BY <1>4 DEF Check, Goto, InBuffer
  <2>3. UNCHANGED <<sent, handled, buffer, current>>
    BY <1>4 DEF Check, Goto
  <2> QED
    BY <2>1, <2>2, <2>3, SameChannel DEF Delivery!vars
<1>5. CASE Load
  <2>1. InHand' <=> InHand
    BY <1>5 DEF Load, Goto, InHand, FirstPart, HostInv, TypeOK
  <2>2. InBuffer' <=> InBuffer
    BY <1>5 DEF Load, Goto, InBuffer
  <2>3. UNCHANGED <<sent, handled, buffer, current>>
    BY <1>5 DEF Load, Goto
  <2> QED
    BY <2>1, <2>2, <2>3, SameChannel DEF Delivery!vars
<1>6. CASE Store
  <2>1. InHand' <=> InHand
    BY <1>6 DEF Store, Goto, InHand, FirstPart, HostInv, TypeOK
  <2>2. InBuffer' <=> InBuffer
    BY <1>6 DEF Store, Goto, InBuffer
  <2>3. UNCHANGED <<sent, handled, buffer, current>>
    BY <1>6 DEF Store, Goto
  <2> QED
    BY <2>1, <2>2, <2>3, SameChannel DEF Delivery!vars
<1>7. CASE ReadRegister
  <2>1. InHand' <=> InHand
    BY <1>7 DEF ReadRegister, Goto, InHand, FirstPart, HostInv, TypeOK
  <2>2. InBuffer' <=> InBuffer
    BY <1>7 DEF ReadRegister, Goto, InBuffer
  <2>3. UNCHANGED <<sent, handled, buffer, current>>
    BY <1>7 DEF ReadRegister, Goto
  <2> QED
    BY <2>1, <2>2, <2>3, SameChannel DEF Delivery!vars
<1>8. CASE Mask
  <2>1. InHand' <=> InHand
    BY <1>8 DEF Mask, Goto, InHand, FirstPart, HostInv, TypeOK
  <2>2. InBuffer' <=> InBuffer
    BY <1>8 DEF Mask, Goto, InBuffer
  <2>3. UNCHANGED <<sent, handled, buffer, current>>
    BY <1>8 DEF Mask, Goto
  <2> QED
    BY <2>1, <2>2, <2>3, SameChannel DEF Delivery!vars
<1>9. CASE Clear
  <2>1. InHand' <=> InHand
    BY <1>9 DEF Clear, Goto, InHand, FirstPart, HostInv, TypeOK
  <2>2. InBuffer' <=> InBuffer
    BY <1>9 DEF Clear, Goto, InBuffer
  <2>3. UNCHANGED <<sent, handled, buffer, current>>
    BY <1>9 DEF Clear, Goto
  <2> QED
    BY <2>1, <2>2, <2>3, SameChannel DEF Delivery!vars
<1>10. CASE ReadHeader
  <2>1. buffer \in Message /\ buffer.id \in Nat /\ InBuffer /\ ~InHand
    BY <1>10, MessageFacts DEF ReadHeader, Goto, HostInv, InterruptInv, BufferInv,
       NumberInv, InBuffer, InHand
  <2>2. InHand' /\ ~InBuffer' /\ current' = buffer
    BY <1>10 DEF ReadHeader, Goto, InHand, InBuffer, FirstPart
  <2>3. Channel = <<buffer.id>> /\ Channel' = <<buffer.id>> \o <<>>
    BY <2>1, <2>2, ChannelCases, Zenon DEF Channel
  <2>4. <<buffer.id>> \o <<>> = <<buffer.id>>
    BY <2>1, ShortSequences, Zenon
  <2>5. UNCHANGED <<sent, handled>>
    BY <1>10 DEF ReadHeader
  <2> QED
    BY <2>3, <2>4, <2>5 DEF Delivery!vars
<1>11. CASE EndOfIsr
  <2>1. InHand' <=> InHand
    BY <1>11 DEF EndOfIsr, Goto, InHand, FirstPart, HostInv, TypeOK
  <2>2. InBuffer' <=> InBuffer
    BY <1>11 DEF EndOfIsr, Goto, InBuffer
  <2>3. UNCHANGED <<sent, handled, buffer, current>>
    BY <1>11 DEF EndOfIsr, Goto
  <2> QED
    BY <2>1, <2>2, <2>3, SameChannel DEF Delivery!vars
<1>12. CASE Receive
  <2>1. current \in Message /\ part \in Nat /\ current.parts \in Nat /\ part < current.parts
    BY <1>12, MessageFacts DEF Receive, HostInv, TypeOK, BufferInv, Holding
  <2>2. InHand' <=> InHand
    BY <1>12, <2>1 DEF Receive, SetRxDone, InHand, FirstPart
  <2>3. InBuffer' <=> InBuffer
    BY <1>12 DEF Receive, InBuffer
  <2>4. UNCHANGED <<sent, handled, buffer, current>>
    BY <1>12 DEF Receive
  <2> QED
    BY <2>2, <2>3, <2>4, SameChannel DEF Delivery!vars
<1>13. CASE Discard
  <2>1. InHand
    BY <1>13, MessageFacts DEF Discard, InHand, FirstPart, HostInv, BufferInv, Holding
  <2>2. ~InHand' /\ (InBuffer' <=> InBuffer)
    BY <1>13 DEF Discard, SetRxDone, InHand, InBuffer
  <2>3. UNCHANGED <<sent, buffer>> /\ handled' = Append(handled, current.id)
    BY <1>13 DEF Discard
  <2> QED
    BY <2>1, <2>2, <2>3, HandLeaves DEF Delivery!Next, Delivery!Handle, Delivery!Take
<1>14. CASE Callback
  <2>1. (InBuffer' <=> InBuffer) /\ UNCHANGED <<sent, buffer, current, part>>
    BY <1>14 DEF Callback, InBuffer
  <2>2. ~InHand'
    <3>1. current \in Message /\ part \in FirstPart .. current.parts
      BY <1>14 DEF Callback, HostInv, BufferInv
    <3>2. part >= FirstPart
      BY <1>14, <3>1, MessageFacts DEF Callback, HostInv, TypeOK, BufferInv, FirstPart
    <3>3. FirstPart' = FirstPart /\ part' = part
      BY <2>1 DEF FirstPart
    <3>4. FirstPart \in Nat /\ part \in Nat
      BY <3>1, MessageFacts DEF FirstPart
    <3> QED
      BY <1>14, <3>2, <3>3, <3>4 DEF Callback, InHand
  <2>3. CASE part = FirstPart
    <3>1. InHand /\ handled' = Append(handled, current.id)
      BY <1>14, <2>3 DEF Callback, InHand
    <3> QED
      BY <2>1, <2>2, <3>1, HandLeaves DEF Delivery!Next, Delivery!Handle, Delivery!Take
  <2>4. CASE part # FirstPart
    <3>1. ~InHand /\ handled' = handled
      BY <1>14, <2>4 DEF Callback, InHand
    <3> QED
      BY <2>1, <2>2, <3>1, SameChannel DEF Delivery!vars
  <2> QED
    BY <2>3, <2>4
<1>15. CASE RxRead
  <2>1. InHand' <=> InHand
    BY <1>15 DEF RxRead, Goto, InHand, FirstPart, HostInv, TypeOK
  <2>2. InBuffer' <=> InBuffer
    BY <1>15 DEF RxRead, Goto, InBuffer
  <2>3. UNCHANGED <<sent, handled, buffer, current>>
    BY <1>15 DEF RxRead, Goto
  <2> QED
    BY <2>1, <2>2, <2>3, SameChannel DEF Delivery!vars
<1>16. CASE RxWrite
  <2>1. InHand' <=> InHand
    BY <1>16 DEF RxWrite, Goto, InHand, FirstPart, HostInv, TypeOK
  <2>2. InBuffer' <=> InBuffer
    BY <1>16 DEF RxWrite, Goto, InBuffer, HostInv, BufferInv, Holding
  <2>3. UNCHANGED <<sent, handled, buffer, current>>
    BY <1>16 DEF RxWrite, Goto
  <2> QED
    BY <2>1, <2>2, <2>3, SameChannel DEF Delivery!vars
<1>17. CASE RxUnmask
  <2>1. InHand' <=> InHand
    BY <1>17 DEF RxUnmask, Goto, InHand, FirstPart, HostInv, TypeOK
  <2>2. InBuffer' <=> InBuffer
    BY <1>17 DEF RxUnmask, Goto, InBuffer
  <2>3. UNCHANGED <<sent, handled, buffer, current>>
    BY <1>17 DEF RxUnmask, Goto
  <2> QED
    BY <2>1, <2>2, <2>3, SameChannel DEF Delivery!vars
<1>18. CASE ReadFails
  <2>1. InHand' <=> InHand
    BY <1>18 DEF ReadFails, Fault, InHand, FirstPart, HostInv, TypeOK
  <2>2. InBuffer' <=> InBuffer
    BY <1>18 DEF ReadFails, Fault, InBuffer
  <2>3. UNCHANGED <<sent, handled, buffer, current>>
    BY <1>18 DEF ReadFails, Fault
  <2> QED
    BY <2>1, <2>2, <2>3, SameChannel DEF Delivery!vars
<1>19. CASE ClearFails
  <2>1. InHand' <=> InHand
    BY <1>19 DEF ClearFails, Fault, InHand, FirstPart, HostInv, TypeOK
  <2>2. InBuffer' <=> InBuffer
    BY <1>19 DEF ClearFails, Fault, InBuffer
  <2>3. UNCHANGED <<sent, handled, buffer, current>>
    BY <1>19 DEF ClearFails, Fault
  <2> QED
    BY <2>1, <2>2, <2>3, SameChannel DEF Delivery!vars
<1>20. CASE HeaderFails
  <2>1. InHand' <=> InHand
    BY <1>20 DEF HeaderFails, Fault, InHand, FirstPart, HostInv, TypeOK
  <2>2. InBuffer' <=> InBuffer
    BY <1>20 DEF HeaderFails, Fault, InBuffer
  <2>3. UNCHANGED <<sent, handled, buffer, current>>
    BY <1>20 DEF HeaderFails, Fault
  <2> QED
    BY <2>1, <2>2, <2>3, SameChannel DEF Delivery!vars
<1>21. CASE ReceiveFails
  <2>1. ~InHand' /\ Faults \ {"read"} # {}
    BY <1>21 DEF ReceiveFails, Fault, InHand
  <2>2. InBuffer' <=> InBuffer
    BY <1>21 DEF ReceiveFails, Fault, InBuffer, HostInv, BufferInv, Holding
  <2>3. UNCHANGED <<sent, handled, buffer, current>>
    BY <1>21 DEF ReceiveFails, Fault
  <2>4. CASE InHand
    BY <2>1, <2>2, <2>3, <2>4, HandLeaves DEF Delivery!Next, Delivery!Lose, Delivery!Take
  <2>5. CASE ~InHand
    BY <2>1, <2>2, <2>3, <2>5, SameChannel DEF Delivery!vars
  <2> QED
    BY <2>4, <2>5
<1>22. CASE RxReadFails
  <2>1. ~InHand' /\ Faults \ {"read"} # {}
    BY <1>22 DEF RxReadFails, Fault, AfterFault, InHand
  <2>2. InBuffer' <=> InBuffer
    BY <1>22 DEF RxReadFails, Fault, AfterFault, InBuffer, HostInv, BufferInv, Holding
  <2>3. UNCHANGED <<sent, handled, buffer, current>>
    BY <1>22 DEF RxReadFails, Fault, AfterFault
  <2>4. CASE InHand
    BY <2>1, <2>2, <2>3, <2>4, HandLeaves DEF Delivery!Next, Delivery!Lose, Delivery!Take
  <2>5. CASE ~InHand
    BY <2>1, <2>2, <2>3, <2>5, SameChannel DEF Delivery!vars
  <2> QED
    BY <2>4, <2>5
<1>23. CASE RxWriteFails
  <2>1. ~InHand' /\ Faults \ {"read"} # {}
    BY <1>23 DEF RxWriteFails, Fault, AfterFault, InHand
  <2>2. InBuffer' <=> InBuffer
    BY <1>23 DEF RxWriteFails, Fault, AfterFault, InBuffer, HostInv, BufferInv, Holding
  <2>3. UNCHANGED <<sent, handled, buffer, current>>
    BY <1>23 DEF RxWriteFails, Fault, AfterFault
  <2>4. CASE InHand
    BY <2>1, <2>2, <2>3, <2>4, HandLeaves DEF Delivery!Next, Delivery!Lose, Delivery!Take
  <2>5. CASE ~InHand
    BY <2>1, <2>2, <2>3, <2>5, SameChannel DEF Delivery!vars
  <2> QED
    BY <2>4, <2>5
<1>24. CASE UNCHANGED vars
  <2>1. (InHand' <=> InHand) /\ (InBuffer' <=> InBuffer)
    BY <1>24 DEF vars, InHand, InBuffer, FirstPart
  <2>2. UNCHANGED <<sent, handled, buffer, current>>
    BY <1>24 DEF vars
  <2> QED
    BY <2>1, <2>2, SameChannel DEF Delivery!vars
<1> QED
  BY <1>1, <1>2, <1>3, <1>4, <1>5, <1>6, <1>7, <1>8, <1>9, <1>10, <1>11,
     <1>12, <1>13, <1>14, <1>15, <1>16, <1>17, <1>18, <1>19, <1>20, <1>21,
     <1>22, <1>23, <1>24 DEF Next, TaskStep, BusFault

\* The messages reach the program in the order of the module, none of them
\* twice, and none is passed over unless a transfer can fail (m2m_hif.c:88-125,
\* 443-673).
THEOREM HostDelivers == Spec => DeliversInOrder
<1>1. Init => Delivery!Init
  <2> SUFFICES ASSUME Init PROVE Delivery!Init
    OBVIOUS
  <2>1. ~InHand /\ ~InBuffer
    BY DEF Init, InHand, InBuffer
  <2>2. Channel = <<>>
    BY <2>1, HostInitially, ChannelCases
  <2> QED
    BY <2>2 DEF Init, Delivery!Init
<1> QED
  BY <1>1, HostInvariant, DeliveryStep, PTL DEF Spec, DeliversInOrder, Delivery!SafeSpec
=============================================================================
