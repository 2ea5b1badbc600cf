--------------------------- MODULE SettingsStore ---------------------------
(***************************************************************************)
(* nand_flash_storage.c as task_winc uses it: one message in page 0 of one *)
(* of the first BlockUsage blocks of the NAND flash.  Each start of the    *)
(* robot restores the message, and handling a restored message writes it   *)
(* again (freertos_tasks.h:72, protocol.c:193).  The power can fail at any *)
(* point, an erasure or a page write half done included.                   *)
(***************************************************************************)
EXTENDS Integers, FiniteSetsExt

CONSTANTS
  Message,      \* complete settings messages
  NoMessage,    \* there is none
  Erased,       \* a page of 0xFF bytes
  Torn,         \* a page that was half erased or half written
  BlockUsage,   \* BLOCK_USAGE
  Marked        \* the blocks that may have the mark of a bad block at first

Block == 0 .. BlockUsage - 1
Page == Message \cup {Erased, Torn}

ASSUME StoreAssumption ==
  /\ BlockUsage \in Nat \ {0}
  /\ Marked \subseteq Block
  /\ {NoMessage, Erased, Torn} \cap Message = {}
  /\ NoMessage \notin {Erased, Torn}

VARIABLES
  page,      \* page 0 of each block
  marked,    \* the blocks whose first spare byte is not 0xFF
  storePc,   \* where task_winc is
  i,         \* the block that the loop of the write is at
  buffer,    \* write_buffer: the message to write
  block,     \* the block last read or written
  settled,   \* history: the message of the last write, if it succeeded
  failed     \* history: the blocks that the last write failed on

storeVars == <<page, marked, storePc, i, buffer, block, settled, failed>>

StorePc == {"read", "restored", "idle", "erase", "write"}

Writing == storePc \in {"erase", "write"}

\* A new robot is switched on: its flash holds no message.
StoreInit ==
  /\ page \in [Block -> {Erased, Torn}]
  /\ marked \in SUBSET Marked
  /\ storePc = "read"
  /\ i = 0
  /\ buffer = NoMessage
  /\ block = 0
  /\ settled = NoMessage
  /\ failed = {}

-----------------------------------------------------------------------------
(* nand_flash_storage_read: the only place that looks at the marks. *)

\* Mutant: the search passes over a good block that is erased.
FirstUsedBlock(from) ==
  LET used == {b \in Block : b >= from /\ b \notin marked /\ page[b] # Erased}
  IN  IF used = {} THEN BlockUsage - 1 ELSE Min(used)

\* Without a good block, the read buffer keeps what came from the last one.
FirstGoodBlock(from) ==
  LET good == {b \in Block : b >= from /\ b \notin marked}
  IN  IF good = {} THEN BlockUsage - 1 ELSE Min(good)

\* Any other page is not recognised by the message handler.
ReadStore ==
  /\ storePc = "read"
  /\ LET b == FirstGoodBlock(block) IN
       /\ block' = IF b \in marked THEN block ELSE b
       /\ IF page[b] \in Message
            THEN storePc' = "restored" /\ buffer' = page[b]
            ELSE storePc' = "idle" /\ UNCHANGED buffer
  /\ UNCHANGED <<page, marked, i, settled, failed>>

-----------------------------------------------------------------------------
(* The flash itself.  An erasure sets bits to one, in the spare bytes too, *)
(* and the driver writes no spare byte, so that a mark can only disappear, *)
(* by an erasure that also reaches the rest of its page.                   *)

ErasureLeaves(p) ==
  /\ page' = [page EXCEPT ![i] = p]
  /\ marked' \in {marked} \cup (IF p \in Message THEN {} ELSE {marked \ {i}})

HalfErased == \E p \in {page[i], Erased, Torn} : ErasureLeaves(p)

HalfWritten ==
  /\ \E p \in {Erased, Torn, buffer} : page' = [page EXCEPT ![i] = p]
  /\ UNCHANGED marked

-----------------------------------------------------------------------------
(* nand_flash_storage_write: the loop over the blocks. *)

BeginWrite(m) ==
  /\ buffer' = m
  /\ i' = 0
  /\ storePc' = "erase"
  /\ settled' = NoMessage
  /\ failed' = {}
  /\ UNCHANGED <<page, marked, block>>

\* The handler persists the message just restored ...
RewriteRestored == storePc = "restored" /\ BeginWrite(buffer)

\* ... and each complete settings message of the app.
Save == storePc = "idle" /\ \E m \in Message : BeginWrite(m)

NextBlock ==
  /\ IF i + 1 < BlockUsage
       THEN i' = i + 1 /\ storePc' = "erase" /\ UNCHANGED buffer
       ELSE i' = 0 /\ storePc' = "idle" /\ buffer' = NoMessage
  /\ failed' = failed \cup {i}
  /\ UNCHANGED <<block, settled>>

\* Marked or not, the block is erased.
EraseBlock ==
  /\ storePc = "erase"
  /\ ErasureLeaves(Erased)
  /\ storePc' = "write"
  /\ UNCHANGED <<i, buffer, block, settled, failed>>

\* NAND_COMMON_ERROR_BADBLOCK, from the status: the next block is tried.
EraseFails == storePc = "erase" /\ HalfErased /\ NextBlock

EndWrite ==
  /\ block' = i
  /\ settled' = buffer
  /\ i' = 0 /\ storePc' = "idle" /\ buffer' = NoMessage
  /\ UNCHANGED failed

WritePage ==
  /\ storePc = "write"
  /\ page' = [page EXCEPT ![i] = buffer]
  /\ UNCHANGED marked
  /\ EndWrite

\* Mutant: the status of the page write is not checked.
WriteUnchecked == storePc = "write" /\ HalfWritten /\ EndWrite

\* The driver sees an error status, whatever reached the page.
WriteFails == storePc = "write" /\ HalfWritten /\ NextBlock

-----------------------------------------------------------------------------
\* RAM is lost, with a page that was being erased or written half done, and
\* the robot starts again (nand_flash_storage_init).
PowerLoss ==
  /\ \/ storePc = "erase" /\ HalfErased
     \/ storePc = "write" /\ HalfWritten
     \/ ~Writing /\ UNCHANGED <<page, marked>>
  /\ storePc' = "read"
  /\ i' = 0 /\ block' = 0 /\ buffer' = NoMessage
  /\ UNCHANGED <<settled, failed>>

StoreNext ==
  \/ ReadStore \/ RewriteRestored \/ Save
  \/ EraseBlock \/ EraseFails \/ WritePage \/ WriteFails
  \/ PowerLoss

StoreSpec == StoreInit /\ [][StoreNext]_storeVars

-----------------------------------------------------------------------------
(* Properties. *)

StoreTypeOK ==
  /\ page \in [Block -> Page]
  /\ marked \subseteq Block
  /\ storePc \in StorePc
  /\ i \in Block
  /\ buffer \in Message \cup {NoMessage}
  /\ block \in Block
  /\ settled \in Message \cup {NoMessage}
  /\ failed \subseteq Block
  /\ storePc \in {"restored", "erase", "write"} <=> buffer # NoMessage

\* What the next start of the robot restores.
Restorable == LET p == page[FirstGoodBlock(0)]
              IN  IF p \in Message THEN p ELSE NoMessage

(***************************************************************************)
(* A message that was written successfully stays in the flash until the    *)
(* next write begins, in the first block that its write did not fail on.   *)
(***************************************************************************)
SettledIsStored ==
  settled # NoMessage =>
    \E b \in Block :
      /\ page[b] = settled
      /\ b \notin failed
      /\ \A c \in Block : c < b => c \in failed

(***************************************************************************)
(* "Data is written to the first good block", where the read looks for it: *)
(* a message that was written successfully is what a restart restores,     *)
(* until the next write begins.                                            *)
(***************************************************************************)
SettledIsRestored ==
  settled # NoMessage =>
    /\ Restorable = settled
    /\ storePc = "restored" => buffer = settled

\* The message that a write in progress may leave in the store.
InProgress == IF Writing THEN buffer ELSE NoMessage

(***************************************************************************)
(* Whatever fails, what a restart restores changes only by a write, to its *)
(* message or to nothing: this is what PersistSettings of MessageHandler   *)
(* takes from the store.                                                   *)
(***************************************************************************)
Abstract == INSTANCE PersistentSettings
              WITH Nothing <- NoMessage, saved <- Restorable,
                   pending <- InProgress

KeepsPromise == Abstract!Spec
=============================================================================
