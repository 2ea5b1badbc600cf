------------------------ MODULE SettingsStoreProofs ------------------------
(***************************************************************************)
(* Theorems about SettingsStore: what it promises for any number of        *)
(* blocks, any marks, erasures and page writes that fail on any of them,   *)
(* and any power failures.                                                 *)
(***************************************************************************)
EXTENDS SettingsStore, TLAPS, WellFoundedInduction

USE StoreAssumption

-----------------------------------------------------------------------------
(* Every set of blocks has a first one.                                      *)
LEMMA MinBlock ==
  ASSUME NEW S, S \subseteq Block, S # {}
  PROVE  Min(S) \in S /\ \A b \in S : Min(S) <= b
<1>1. S \subseteq Nat
  BY DEF Block
<1>2. PICK b \in S : \A c \in S : <<c, b>> \notin OpToRel(<, Nat)
  BY <1>1, NatLessThanWellFounded, WFMin
<1>3. \A c \in S : b <= c
  <2> SUFFICES ASSUME NEW c \in S, c < b PROVE FALSE
    BY <1>1
  <2>1. <<c, b>> \in Nat \X Nat /\ <<c, b>>[1] < <<c, b>>[2]
    BY <1>1
  <2> QED
    BY <1>2, <2>1 DEF OpToRel
<1> QED
  BY <1>3 DEF Min

(* Any search ends at one of the blocks (nand_flash_storage.c:116).          *)
LEMMA FoundBlock ==
  ASSUME NEW from \in Block
  PROVE  FirstGoodBlock(from) \in Block
<1> DEFINE good == {b \in Block : b >= from /\ b \notin marked}
<1>1. CASE good = {}
  BY <1>1 DEF FirstGoodBlock, Block
<1>2. CASE good # {}
  <2>1. Min(good) \in good
    BY <1>2, MinBlock
  <2> QED
    BY <1>2, <2>1 DEF FirstGoodBlock
<1> QED
  BY <1>1, <1>2

\* The block that a restart reads, with the given marks.
First(marks) == LET good == {b \in Block : b \notin marks}
                IN  IF good = {} THEN BlockUsage - 1 ELSE Min(good)

LEMMA FirstBlock == ASSUME NEW marks PROVE First(marks) \in Block
<1> DEFINE good == {b \in Block : b \notin marks}
<1>1. CASE good = {}
  BY <1>1 DEF First, Block
<1>2. CASE good # {}
  BY <1>2, MinBlock DEF First
<1> QED
  BY <1>1, <1>2

(* Without its mark, block 0 is where a restart reads.                       *)
LEMMA FirstIsZero == 0 \notin marked => First(marked) = 0
<1> SUFFICES ASSUME 0 \notin marked PROVE First(marked) = 0
  OBVIOUS
<1> DEFINE good == {b \in Block : b \notin marked}
<1>1. 0 \in good
  BY DEF Block
<1>2. Min(good) \in good /\ \A b \in good : Min(good) <= b
  BY <1>1, MinBlock
<1>3. Min(good) \in Block /\ Min(good) <= 0
  BY <1>1, <1>2
<1> QED
  BY <1>1, <1>3 DEF First, Block

(* A mark that disappears can only make its own block the first one.         *)
LEMMA FirstMoves ==
  ASSUME NEW j \in Block
  PROVE  First(marked \ {j}) \in {First(marked), j}
<1> DEFINE good == {b \in Block : b \notin marked}
           more == {b \in Block : b \notin marked \ {j}}
<1>1. more = good \cup {j}
  OBVIOUS
<1>2. First(marked \ {j}) = Min(more)
  BY <1>1 DEF First
<1>3. Min(more) \in more /\ \A b \in more : Min(more) <= b
  BY <1>1, MinBlock
<1> HIDE DEF more
<1>4. CASE good = {}
  BY <1>1, <1>2, <1>3, <1>4
<1>5. CASE good # {}
  <2>1. Min(good) \in good /\ \A b \in good : Min(good) <= b
    BY <1>5, MinBlock
  <2>2. First(marked) = Min(good)
    BY <1>5 DEF First
  <2> HIDE DEF good
  <2>3. good \subseteq Nat
    BY DEF good, Block
  <2>4. Min(more) \in good => Min(more) = Min(good)
    <3>1. Min(good) \in Nat /\ (Min(more) \in good => Min(more) \in Nat)
      BY <2>1, <2>3
    <3>2. Min(more) <= Min(good)
      BY <1>1, <1>3, <2>1
    <3> QED
      BY <2>1, <3>1, <3>2
  <2> QED
    BY <1>1, <1>2, <1>3, <2>2, <2>4
<1> QED
  BY <1>4, <1>5

-----------------------------------------------------------------------------
LEMMA HalfErasedType ==
  ASSUME page \in [Block -> Page], marked \subseteq Block, i \in Block, HalfErased
  PROVE  page' \in [Block -> Page] /\ marked' \subseteq Block
BY DEF HalfErased, ErasureLeaves, Page

LEMMA HalfWrittenType ==
  ASSUME page \in [Block -> Page], marked \subseteq Block, i \in Block,
         buffer \in Message, HalfWritten
  PROVE  page' \in [Block -> Page] /\ marked' \subseteq Block
BY DEF HalfWritten, Page

LEMMA StoreTypeInit == StoreInit => StoreTypeOK
<1> SUFFICES ASSUME StoreInit PROVE StoreTypeOK
  OBVIOUS
<1>1. page \in [Block -> Page]
  BY DEF StoreInit, Page
<1> QED
  BY <1>1 DEF StoreInit, StoreTypeOK, StorePc, Block

LEMMA StoreTypeNext == StoreTypeOK /\ [StoreNext]_storeVars => StoreTypeOK'
<1> SUFFICES ASSUME StoreTypeOK, [StoreNext]_storeVars PROVE StoreTypeOK'
  OBVIOUS
<1> USE DEF StoreTypeOK, StorePc
<1>0. 0 \in Block
  BY DEF Block
<1>a. storePc \in {"erase", "write"} => buffer \in Message
  OBVIOUS
<1>1. CASE ReadStore
  <2>1. FirstGoodBlock(block) \in Block
    BY FoundBlock
  <2> QED
    BY <1>1, <2>1 DEF ReadStore
<1>2. CASE RewriteRestored \/ Save
  BY <1>0, <1>2 DEF RewriteRestored, Save, BeginWrite
<1>3. CASE EraseBlock
  <2>1. page' \in [Block -> Page] /\ marked' \subseteq Block
    BY <1>3 DEF EraseBlock, ErasureLeaves, Page
  <2> QED
    BY <1>3, <2>1 DEF EraseBlock
<1>4. ASSUME NextBlock, storePc \in {"erase", "write"}
      PROVE  /\ i' \in Block /\ storePc' \in {"erase", "idle"}
             /\ buffer' \in Message \cup {NoMessage}
             /\ storePc' = "erase" <=> buffer' # NoMessage
             /\ failed' \subseteq Block
             /\ UNCHANGED <<block, settled>>
  BY <1>0, <1>4 DEF NextBlock, Block
<1>5. CASE EraseFails
  BY <1>4, <1>5, HalfErasedType DEF EraseFails
<1>6. CASE WritePage
  BY <1>0, <1>6 DEF WritePage, EndWrite, Page
<1>7. CASE WriteFails
  BY <1>4, <1>7, <1>a, HalfWrittenType DEF WriteFails
<1>8. CASE PowerLoss
  <2>1. page' \in [Block -> Page] /\ marked' \subseteq Block
    BY <1>8, <1>a, HalfErasedType, HalfWrittenType DEF PowerLoss
  <2> QED
    BY <1>0, <1>8, <2>1 DEF PowerLoss
<1>9. CASE UNCHANGED storeVars
  BY <1>9 DEF storeVars
<1> QED
  BY <1>1, <1>2, <1>3, <1>5, <1>6, <1>7, <1>8, <1>9 DEF StoreNext

(* The pages, the marks, the loop of the write and the buffers keep their    *)
(* types, whatever blocks are marked or fail.                                *)
THEOREM StoreTypeCorrect == StoreSpec => []StoreTypeOK
BY StoreTypeInit, StoreTypeNext, PTL DEF StoreSpec

-----------------------------------------------------------------------------
(* The refinement of PersistentSettings. *)

Saved == IF page[First(marked)] \in Message THEN page[First(marked)] ELSE NoMessage

LEMMA RestorableIsSaved == Restorable = Saved /\ Restorable' = Saved'
<1>1. {b \in Block : b >= 0 /\ b \notin marked} = {b \in Block : b \notin marked}
  BY DEF Block
<1>2. {b \in Block : b >= 0 /\ b \notin marked'} = {b \in Block : b \notin marked'}
  BY DEF Block
<1> QED
  BY <1>1, <1>2 DEF Restorable, Saved, First, FirstGoodBlock

(* An erasure, done or not, leaves what a restart reads or nothing           *)
(* (nand_flash_storage.c:88): its block lost its contents with its mark.     *)
LEMMA ErasureSaves ==
  ASSUME StoreTypeOK, NEW p \in {page[i], Erased, Torn}, ErasureLeaves(p)
  PROVE  Saved' \in {Saved, NoMessage}
<1> USE DEF StoreTypeOK
<1>1. page' = [page EXCEPT ![i] = p] /\ First(marked) \in Block
  BY FirstBlock DEF ErasureLeaves
<1>2. CASE marked' = marked
  BY <1>1, <1>2 DEF Saved
<1>3. CASE marked' = marked \ {i} /\ p \notin Message
  <2>1. First(marked') \in {First(marked), i}
    BY <1>3, FirstMoves
  <2> HIDE DEF First
  <2> QED
    BY <1>1, <1>3, <2>1 DEF Saved
<1> QED
  BY <1>2, <1>3 DEF ErasureLeaves

(* A page write, done or not, leaves what a restart reads, its own message   *)
(* or nothing (nand_flash_storage.c:96).                                     *)
LEMMA WriteSaves ==
  ASSUME StoreTypeOK, buffer \in Message, NEW p \in {Erased, Torn, buffer},
         page' = [page EXCEPT ![i] = p], marked' = marked
  PROVE  Saved' \in {Saved, NoMessage, buffer}
BY FirstBlock DEF StoreTypeOK, Saved

LEMMA RefinementNext ==
  ASSUME StoreTypeOK, [StoreNext]_storeVars
  PROVE  [Abstract!Next]_<<Restorable, InProgress>>
<1>0. /\ Writing => InProgress = buffer /\ buffer \in Message /\ InProgress # NoMessage
      /\ ~Writing => InProgress = NoMessage
  BY DEF StoreTypeOK, Writing, InProgress
<1>a. ASSUME HalfErased PROVE Saved' \in {Saved, NoMessage}
  BY <1>a, ErasureSaves DEF HalfErased
<1>b. ASSUME Writing, HalfWritten PROVE Saved' \in {Saved, NoMessage, InProgress}
  BY <1>0, <1>b, WriteSaves DEF HalfWritten
<1>c. ASSUME Writing, Saved' \in {Saved, NoMessage, InProgress},
             InProgress' \in {InProgress, NoMessage}
      PROVE  [Abstract!Next]_<<Restorable, InProgress>>
  BY <1>0, <1>c, RestorableIsSaved DEF Abstract!Next, Abstract!Progress
<1>1. CASE ReadStore
  <2>1. Saved' = Saved /\ InProgress' = InProgress
    BY <1>1 DEF ReadStore, Saved, InProgress, Writing
  <2> QED
    BY <2>1, RestorableIsSaved
<1>2. CASE RewriteRestored \/ Save
  <2>1. /\ ~Writing /\ Saved' = Saved
        /\ InProgress' \in Message
    BY <1>2 DEF StoreTypeOK, RewriteRestored, Save, BeginWrite, Saved, InProgress,
      Writing
  <2> QED
    BY <1>0, <2>1, RestorableIsSaved DEF Abstract!Next, Abstract!Begin
<1>3. CASE EraseBlock
  <2>1. Writing /\ InProgress' = InProgress
    BY <1>3 DEF EraseBlock, Writing, InProgress
  <2>2. Saved' \in {Saved, NoMessage}
    BY <1>3, ErasureSaves DEF EraseBlock
  <2> QED
    BY <1>c, <2>1, <2>2
<1>4. ASSUME NextBlock, Writing PROVE InProgress' \in {InProgress, NoMessage}
  BY <1>4 DEF NextBlock, InProgress, Writing
<1>5. CASE EraseFails
  BY <1>4, <1>5, <1>a, <1>c DEF EraseFails, Writing
<1>6. CASE WritePage
  <2>1. Writing /\ InProgress' = NoMessage
    BY <1>6 DEF WritePage, EndWrite, Writing, InProgress
  <2>2. HalfWritten
    BY <1>6 DEF WritePage, HalfWritten
  <2> QED
    BY <1>b, <1>c, <2>1, <2>2
<1>7. CASE WriteFails
  BY <1>4, <1>7, <1>b, <1>c DEF WriteFails, Writing
<1>8. CASE PowerLoss
  <2>1. InProgress' = NoMessage
    BY <1>8 DEF PowerLoss, InProgress, Writing
  <2>2. CASE Writing
    BY <1>8, <1>a, <1>b, <1>c, <2>1, <2>2 DEF PowerLoss
  <2>3. CASE ~Writing
    BY <1>0, <1>8, <2>1, <2>3, RestorableIsSaved DEF PowerLoss, Writing, Saved
  <2> QED
    BY <2>2, <2>3
<1>9. CASE UNCHANGED storeVars
  BY <1>9, RestorableIsSaved DEF storeVars, Saved, InProgress, Writing
<1> QED
  BY <1>1, <1>2, <1>3, <1>5, <1>6, <1>7, <1>8, <1>9 DEF StoreNext

(* Whatever blocks are marked or fail and whenever the power does, what a    *)
(* restart restores changes only by a write, to its message or to nothing.   *)
THEOREM StoreKeepsPromise == StoreSpec => KeepsPromise
<1>1. StoreInit => Abstract!Init
  BY RestorableIsSaved, FirstBlock DEF StoreInit, Abstract!Init, Saved, InProgress,
    Writing
<1> QED
  BY <1>1, StoreTypeCorrect, RefinementNext, PTL
    DEF StoreSpec, KeepsPromise, Abstract!Spec

-----------------------------------------------------------------------------
\* The loop of the write failed on the blocks that it passed, and only there.
Passed == \A c \in Block : c < i <=> c \in failed

StoredInv ==
  /\ Writing => Passed
  /\ settled # NoMessage => ~Writing

LEMMA StoredInit == StoreInit => StoredInv /\ SettledIsStored
BY DEF StoreInit, StoredInv, SettledIsStored, Writing

LEMMA StoredNext ==
  ASSUME StoreTypeOK, StoredInv, SettledIsStored, [StoreNext]_storeVars
  PROVE  StoredInv' /\ SettledIsStored'
<1>1. CASE ReadStore
  BY <1>1 DEF StoredInv, SettledIsStored, ReadStore, Writing, Passed
<1>2. CASE RewriteRestored \/ Save
  <2>1. i' = 0 /\ failed' = {} /\ settled' = NoMessage
    BY <1>2 DEF RewriteRestored, Save, BeginWrite
  <2>2. Passed'
    BY <2>1 DEF Passed, Block
  <2> QED
    BY <2>1, <2>2 DEF StoredInv, SettledIsStored
<1>3. CASE EraseBlock
  <2>1. /\ Writing /\ settled = NoMessage
        /\ settled' = settled /\ i' = i /\ failed' = failed
    BY <1>3 DEF EraseBlock, Writing, StoredInv
  <2> QED
    BY <2>1 DEF StoredInv, SettledIsStored, Passed
<1>4. CASE EraseFails \/ WriteFails
  <2>1. Writing /\ NextBlock /\ settled' = NoMessage /\ failed' = failed \cup {i}
    BY <1>4 DEF EraseFails, WriteFails, Writing, StoredInv, NextBlock
  <2>2. Writing' => i' = i + 1
    BY <2>1 DEF NextBlock, Writing
  <2>3. \A c \in Block : c < i + 1 <=> c < i \/ c = i
    BY DEF StoreTypeOK, Block
  <2>4. Writing' => Passed'
    BY <2>1, <2>2, <2>3 DEF StoredInv, Passed
  <2> QED
    BY <2>1, <2>4 DEF StoredInv, SettledIsStored
<1>5. CASE WritePage
  <2>1. i \in Block /\ Passed
    BY <1>5 DEF WritePage, StoreTypeOK, StoredInv, Writing
  <2>2. page'[i] = settled' /\ failed' = failed /\ ~Writing'
    BY <1>5, <2>1 DEF WritePage, EndWrite, StoreTypeOK, Writing
  <2>3. i \notin failed
    BY <2>1 DEF Passed, Block
  <2> QED
    BY <2>1, <2>2, <2>3 DEF StoredInv, SettledIsStored, Passed
<1>6. CASE PowerLoss
  <2>1. settled' = settled /\ failed' = failed /\ ~Writing'
    BY <1>6 DEF PowerLoss, Writing
  <2>2. settled # NoMessage => page' = page
    BY <1>6 DEF PowerLoss, StoredInv, Writing
  <2> QED
    BY <2>1, <2>2 DEF StoredInv, SettledIsStored
<1>7. CASE UNCHANGED storeVars
  BY <1>7 DEF StoredInv, SettledIsStored, storeVars, Writing, Passed
<1> QED
  BY <1>1, <1>2, <1>3, <1>4, <1>5, <1>6, <1>7 DEF StoreNext

LEMMA StoredAlways == StoreSpec => [](StoreTypeOK /\ StoredInv /\ SettledIsStored)
BY StoreTypeCorrect, StoredInit, StoredNext, PTL DEF StoreSpec

(* What was written successfully stays in the first block that its write did *)
(* not fail on, whatever blocks are marked, until the next write begins      *)
(* (nand_flash_storage.c:71).                                                *)
THEOREM SettledStored == StoreSpec => []SettledIsStored
BY StoredAlways, PTL

-----------------------------------------------------------------------------
\* A message just restored is what the first good block holds: the search of a
\* start begins at block 0.
RestoredInv ==
  /\ storePc = "read" => block = 0
  /\ storePc = "restored" => buffer = Restorable

LEMMA RestoredInit == StoreInit => RestoredInv
BY DEF StoreInit, RestoredInv

LEMMA RestoredNext == RestoredInv /\ [StoreNext]_storeVars => RestoredInv'
<1> SUFFICES ASSUME RestoredInv, [StoreNext]_storeVars PROVE RestoredInv'
  OBVIOUS
<1>1. CASE ReadStore
  <2>1. Restorable' = Restorable
    BY <1>1, RestorableIsSaved DEF ReadStore, Saved
  <2> QED
    BY <1>1, <2>1 DEF RestoredInv, ReadStore, Restorable
<1>2. CASE UNCHANGED storeVars
  BY <1>2, RestorableIsSaved DEF RestoredInv, storeVars, Saved
<1> QED
  BY <1>1, <1>2 DEF RestoredInv, StoreNext, RewriteRestored, Save, BeginWrite,
    EraseBlock, EraseFails, NextBlock, WritePage, EndWrite, WriteFails, PowerLoss

(* As long as block 0 carries no mark and the last write did not fail on it, *)
(* a message that was written successfully is what each restart restores,    *)
(* until the next write begins.  The run on a failing first block shows that *)
(* the code keeps it only under this condition.                              *)
THEOREM SettledRestored ==
  StoreSpec => [](0 \notin failed \cup marked => SettledIsRestored)
<1>1. StoreTypeOK /\ SettledIsStored /\ RestoredInv =>
        (0 \notin failed \cup marked => SettledIsRestored)
  <2> SUFFICES ASSUME StoreTypeOK, SettledIsStored, RestoredInv,
                      0 \notin failed, 0 \notin marked, settled # NoMessage
               PROVE  Restorable = settled /\ (storePc = "restored" => buffer = settled)
    BY DEF SettledIsRestored
  <2>1. PICK b \in Block : page[b] = settled /\ \A c \in Block : c < b => c \in failed
    BY DEF SettledIsStored
  <2>2. b = 0
    BY <2>1 DEF Block
  <2>3. Restorable = settled
    BY <2>1, <2>2, FirstIsZero, RestorableIsSaved DEF Saved, StoreTypeOK
  <2> QED
    BY <2>3 DEF RestoredInv
<1>2. StoreSpec => []RestoredInv
  BY RestoredInit, RestoredNext, PTL DEF StoreSpec
<1> QED
  BY <1>1, <1>2, StoredAlways, PTL
=============================================================================
