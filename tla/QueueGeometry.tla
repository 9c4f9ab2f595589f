--------------------------- MODULE QueueGeometry ---------------------------
(***************************************************************************)
(* How ipc_shm_queue_create of ce_ipc_shm.c sizes a queue and cuts its     *)
(* payload into data blocks.                                               *)
(***************************************************************************)
EXTENDS Naturals, FiniteSetsExt

CONSTANTS
  SizeOfQueue,   \* sizeof(ce_ipc_shm_queue_t)
  SizeOfBlock,   \* sizeof(ce_ipc_data_block_t)
  PubNum,        \* CE_DBK_PUBLISHER_RCD_NUM
  MinNum,        \* CE_DBK_MIN_NUM
  QueueDefault,  \* SHM_QUEUE_SIZE_DEFAULT
  Bits           \* width of the sizes ce_align masks

GeometryAssumption ==
  /\ SizeOfQueue \in Nat \ {0} /\ SizeOfBlock \in Nat \ {0}
  /\ PubNum \in Nat \ {0} /\ MinNum \in Nat \ {0}
  /\ QueueDefault \in Nat /\ Bits \in Nat

\* x with the bits of mask cleared.
HasBit(x, i) == (x \div 2^i) % 2 = 1
AndNot(x, mask) ==
  x - MapThenSumSet(LAMBDA i : IF HasBit(x, i) /\ HasBit(mask, i) THEN 2^i ELSE 0, 0..Bits-1)

\* ce_align: meant for powers of two, used here with any multiple.
CeAlign(d, a) == AndNot(d + a - 1, a - 1)

\* The room one record takes in a block, headers counted as the code does.
Unit(rcd) == rcd + SizeOfBlock

\* The size a queue gets for the size asked for.
Asked(size, rcd) ==
  IF size > SizeOfQueue + rcd THEN size
  ELSE IF QueueDefault < SizeOfQueue + rcd THEN SizeOfQueue + rcd ELSE QueueDefault
QueueLen(size, rcd) == CeAlign(Asked(size, rcd), Unit(rcd) * PubNum)

\* calculate_queue_args: records to a block.  The loop starts at twice PubNum
\* and stops at the first number that gives MinNum blocks, at PubNum at last.
Payload(len) == len - SizeOfQueue
Enough(len, rcd) == {n \in PubNum..2*PubNum : Payload(len) \div (n * Unit(rcd)) >= MinNum}
RcdNum(len, rcd) == IF Enough(len, rcd) = {} THEN PubNum ELSE Max(Enough(len, rcd))

BlkSize(len, rcd)  == RcdNum(len, rcd) * Unit(rcd)
FullNum(len, rcd)  == Payload(len) \div BlkSize(len, rcd)

\* The assertion: more than MinNum blocks.
Asserted(len, rcd) == FullNum(len, rcd) > MinNum

\* Mutant: a remainder is added to the last full block's count but not its size.
LastSizeFull(len, rcd) == BlkSize(len, rcd)

\* The number of blocks and the size of the last.
BlkNum(len, rcd) ==
  IF Payload(len) % BlkSize(len, rcd) = 0 THEN FullNum(len, rcd) ELSE FullNum(len, rcd) + 1
LastSize(len, rcd) ==
  IF Payload(len) % BlkSize(len, rcd) = 0
    THEN BlkSize(len, rcd)
    ELSE Payload(len) - BlkSize(len, rcd) * FullNum(len, rcd)

\* ipc_shm_queue_data_block_create: offset and size of the blocks in the queue.
Blocks(len, rcd) ==
  [i \in 1..BlkNum(len, rcd) |->
     [off  |-> SizeOfQueue + (i - 1) * BlkSize(len, rcd),
      size |-> IF i < BlkNum(len, rcd) THEN BlkSize(len, rcd) ELSE LastSize(len, rcd)]]
=============================================================================
