------------------------------- MODULE EthRx -------------------------------
(***************************************************************************)
(* The receive path of the Ethernet driver: the circular chain of receive  *)
(* descriptors that low_level_input() (USER/lwip_port/netif/ethernetif.c)  *)
(* and HAL_ETH_GetReceivedFrame() (stm32f4xx_hal_eth.c) share with the     *)
(* receive DMA engine of the MAC.  CPU and DMA run concurrently and        *)
(* synchronise only through the OWN bit of each descriptor and the "receive *)
(* buffer unavailable" flag RBUS of DMASR.                                 *)
(*                                                                         *)
(* The driver polls: main() calls ethernetif_input() again and again, no   *)
(* interrupt is used (heth.Init.RxMode = ETH_RXPOLLING_MODE).              *)
(*                                                                         *)
(* Data abstraction.  A frame is its number on the wire; the bytes of it   *)
(* that fill one receive buffer are a chunk, a record [frame, seg]; the    *)
(* frame length FL of the last descriptor is counted in buffers: "pay" is  *)
(* ceil((FL - 4) / ETH_RX_BUF_SIZE), which is one less than the number of  *)
(* segments when only bytes of the 4-byte CRC reach the last buffer.       *)
(***************************************************************************)
EXTENDS Integers, Sequences

CONSTANTS N,           \* ETH_RXBUFNB, number of receive descriptors
          MaxSegs,     \* longest frame of the wire, in receive buffers
          MaxFrames    \* bound: number of frames the wire carries

\* A chain of one descriptor is its own successor; the driver uses four.
ASSUME NAssumption == N \in Nat /\ N >= 2
ASSUME MaxSegsAssumption == MaxSegs \in Nat \ {0}
ASSUME MaxFramesAssumption == MaxFrames \in Nat

Desc == 0 .. N - 1

\* Buffer2NextDescAddr: HAL_ETH_DMARxDescListInit() chains each descriptor to
\* the next one and the last one to the first.
Nxt(d) == IF d = N - 1 THEN 0 ELSE d + 1

VARIABLES
  \* shared memory: the descriptors and their buffers
  own,        \* OWN bit of RDES0: TRUE when the DMA owns the descriptor
  status,     \* FS, LS and FL fields of RDES0
  buf,        \* chunk in the buffer of the descriptor
  \* DMA registers and engine
  rbus,       \* RBUS flag of DMASR
  dma,        \* state of the receive engine
  cur,        \* current receive descriptor of the engine
  seg,        \* segment of the frame that it is receiving
  nextOwned,  \* OWN bit of the next descriptor, as the engine fetched it
  \* the driver
  RxDesc, FSRxDesc, SegCount, len,   \* heth.RxDesc, heth.RxFrameInfos
  pc,         \* where low_level_input() is
  dmarxdesc,  \* its descriptor pointer
  i,          \* its loop counter
  p,          \* the pbuf chain, as the sequence of chunks copied into it
  \* history
  wire,       \* frames that arrived, each with its number of segments
  given       \* what was handed to netif->input(), in order

hwvars  == <<rbus, dma, cur, seg, nextOwned>>
cpuvars == <<RxDesc, FSRxDesc, SegCount, len, pc, dmarxdesc, i, p>>
vars == <<own, status, buf, hwvars, cpuvars, wire, given>>

Chunk == [frame : 0 .. MaxFrames, seg : 0 .. MaxSegs]

\* A frame of the wire: segments it fills and buffers its payload takes.
WireFrame == [segs : 1 .. MaxSegs, pay : 0 .. MaxSegs]

\* The frame the engine is receiving is the last one that arrived.
frame == Len(wire)

\* Chunks 1 .. n of frame f: what a receiver of the frame must see.
ChunksOf(f, n) == [j \in 1 .. n |-> [frame |-> f, seg |-> j]]

----------------------------------------------------------------------------
\* low_level_init(): the descriptor lists are initialised, then
\* HAL_ETH_Start() starts the engine at the first descriptor.
Init ==
  /\ own = [d \in Desc |-> TRUE]
  /\ status = [d \in Desc |-> [fs |-> FALSE, ls |-> FALSE, pay |-> 0]]
  /\ buf = [d \in Desc |-> [frame |-> 0, seg |-> 0]]
  /\ rbus = FALSE /\ dma = "idle" /\ cur = 0 /\ seg = 0 /\ nextOwned = TRUE
  /\ RxDesc = 0 /\ FSRxDesc = 0 /\ SegCount = 0 /\ len = 0
  /\ pc = "poll" /\ dmarxdesc = 0 /\ i = 0 /\ p = <<>>
  /\ wire = <<>> /\ given = <<>>

----------------------------------------------------------------------------
(* The receive DMA engine (external: the MAC peripheral).                  *)

\* A frame of k segments arrives.
Arrive(k, pay) ==
  /\ Len(wire) < MaxFrames
  /\ wire' = Append(wire, [segs |-> k, pay |-> pay])

\* The engine owns its current descriptor and starts to receive the frame.
FrameStart(k, pay) ==
  /\ dma = "idle"
  /\ Arrive(k, pay)
  /\ dma' = "fill" /\ seg' = 1
  /\ UNCHANGED <<own, status, buf, rbus, cur, nextOwned, cpuvars, given>>

\* The engine is suspended and flushes the frame.
FrameLost(k, pay) ==
  /\ dma = "suspended"
  /\ Arrive(k, pay)
  /\ UNCHANGED <<own, status, buf, hwvars, cpuvars, given>>

\* The buffer of the current descriptor is filled and the next descriptor is
\* fetched before the current one is closed: the OWN bit it saw may be stale
\* when it acts on it.
DmaFill ==
  /\ dma = "fill"
  /\ buf' = [buf EXCEPT ![cur] = [frame |-> frame, seg |-> seg]]
  /\ nextOwned' = own[Nxt(cur)]
  /\ dma' = "close"
  /\ UNCHANGED <<own, status, rbus, cur, seg, cpuvars, wire, given>>

\* The current descriptor goes back to the CPU.  When the engine does not own
\* the next one it suspends and raises RBUS; a frame that still has bytes is
\* then truncated: its last descriptor is closed with LS and the descriptor
\* error bit, which the driver never reads.
DmaClose ==
  LET last == seg = wire[frame].segs
      truncated == ~last /\ ~nextOwned
  IN
  /\ dma = "close"
  /\ own' = [own EXCEPT ![cur] = FALSE]
  /\ status' = [status EXCEPT ![cur] =
                 [fs |-> seg = 1, ls |-> last \/ truncated,
                  pay |-> IF last THEN wire[frame].pay ELSE seg]]
  /\ cur' = Nxt(cur)
  /\ dma' = IF ~nextOwned THEN "suspended" ELSE IF last THEN "idle" ELSE "fill"
  /\ rbus' = (rbus \/ ~nextOwned)
  /\ seg' = IF last \/ truncated THEN 0 ELSE seg + 1
  /\ UNCHANGED <<buf, nextOwned, cpuvars, wire, given>>

\* Receive poll demand (a write to DMARPDR): a suspended engine fetches its
\* current descriptor again, and complains again if it does not own it.
PollDemand ==
  /\ dma' = IF dma = "suspended" /\ own[cur] THEN "idle" ELSE dma
  /\ rbus' = (rbus \/ (dma = "suspended" /\ ~own[cur]))

----------------------------------------------------------------------------
(* The driver.                                                             *)

\* HAL_ETH_GetReceivedFrame() looks at one descriptor.  Nothing there:
\* HAL_ERROR, and low_level_input() returns NULL.
GetReceivedFrameNone ==
  /\ pc = "poll" /\ own[RxDesc]
  /\ UNCHANGED vars

\* Mutant: the first descriptor of a frame in one segment is not recorded.
GetReceivedFrameLastStaleFirst ==
  /\ pc = "poll" /\ ~own[RxDesc] /\ status[RxDesc].ls
  /\ SegCount' = SegCount + 1
  /\ len' = status[RxDesc].pay
  /\ RxDesc' = Nxt(RxDesc)
  /\ pc' = "alloc"
  /\ UNCHANGED <<own, status, buf, hwvars, FSRxDesc, dmarxdesc, i, p, wire, given>>

\* The descriptor holds the last segment: HAL_OK with length and first buffer.
GetReceivedFrameLast ==
  /\ pc = "poll" /\ ~own[RxDesc] /\ status[RxDesc].ls
  /\ SegCount' = SegCount + 1
  /\ FSRxDesc' = IF SegCount' = 1 THEN RxDesc ELSE FSRxDesc
  /\ len' = status[RxDesc].pay
  /\ RxDesc' = Nxt(RxDesc)
  /\ pc' = "alloc"
  /\ UNCHANGED <<own, status, buf, hwvars, dmarxdesc, i, p, wire, given>>

\* A first or an intermediate segment: it is counted, HAL_ERROR is returned
\* and the next poll looks at the next descriptor.
GetReceivedFrameMore ==
  /\ pc = "poll" /\ ~own[RxDesc] /\ ~status[RxDesc].ls
  /\ IF status[RxDesc].fs
       THEN FSRxDesc' = RxDesc /\ SegCount' = 1
       ELSE SegCount' = SegCount + 1 /\ UNCHANGED FSRxDesc
  /\ RxDesc' = Nxt(RxDesc)
  /\ UNCHANGED <<own, status, buf, hwvars, len, pc, dmarxdesc, i, p, wire, given>>

\* pbuf_alloc() succeeds (only tried when len > 0): the copy loop starts at
\* the buffer of the first descriptor.
AllocOk ==
  /\ pc = "alloc" /\ len > 0
  /\ pc' = "copy" /\ dmarxdesc' = FSRxDesc
  /\ UNCHANGED <<own, status, buf, hwvars, RxDesc, FSRxDesc, SegCount, len, i, p,
                 wire, given>>

\* Mutant: low_level_input() returns as soon as it has no pbuf.
AllocFailReturns ==
  /\ pc = "alloc"
  /\ pc' = "poll" /\ SegCount' = 0
  /\ UNCHANGED <<own, status, buf, hwvars, RxDesc, FSRxDesc, len, dmarxdesc, i, p,
                 wire, given>>

\* The pool is empty, or the frame has no payload: the frame is dropped, its
\* descriptors are released all the same.
AllocFail ==
  /\ pc = "alloc"
  /\ pc' = "release" /\ dmarxdesc' = FSRxDesc /\ i' = 0
  /\ UNCHANGED <<own, status, buf, hwvars, RxDesc, FSRxDesc, SegCount, len, p,
                 wire, given>>

\* Mutant: the copy loop stays on the first buffer.
CopyBufferStays ==
  /\ pc = "copy" /\ Len(p) < len
  /\ p' = Append(p, buf[dmarxdesc])
  /\ UNCHANGED <<own, status, buf, hwvars, RxDesc, FSRxDesc, SegCount, len, pc,
                 dmarxdesc, i, wire, given>>

\* One turn of the copy loop: one receive buffer goes to the pbuf chain.
CopyBuffer ==
  /\ pc = "copy" /\ Len(p) < len
  /\ p' = Append(p, buf[dmarxdesc])
  /\ dmarxdesc' = Nxt(dmarxdesc)
  /\ UNCHANGED <<own, status, buf, hwvars, RxDesc, FSRxDesc, SegCount, len, pc, i,
                 wire, given>>

\* Mutant: the release loop starts at heth.RxDesc, the descriptor after the
\* frame, instead of at its first one.
CopyDoneWrongFirst ==
  /\ pc = "copy" /\ Len(p) = len
  /\ pc' = "release" /\ dmarxdesc' = RxDesc /\ i' = 0
  /\ UNCHANGED <<own, status, buf, hwvars, RxDesc, FSRxDesc, SegCount, len, p,
                 wire, given>>

CopyDone ==
  /\ pc = "copy" /\ Len(p) = len
  /\ pc' = "release" /\ dmarxdesc' = FSRxDesc /\ i' = 0
  /\ UNCHANGED <<own, status, buf, hwvars, RxDesc, FSRxDesc, SegCount, len, p,
                 wire, given>>

\* One turn of the release loop gives one descriptor back to the DMA.
ReleaseDesc ==
  /\ pc = "release" /\ i < SegCount
  /\ own' = [own EXCEPT ![dmarxdesc] = TRUE]
  /\ dmarxdesc' = Nxt(dmarxdesc)
  /\ i' = i + 1
  /\ UNCHANGED <<status, buf, hwvars, RxDesc, FSRxDesc, SegCount, len, pc, p,
                 wire, given>>

ClearSegCount ==
  /\ pc = "release" /\ i = SegCount
  /\ SegCount' = 0 /\ pc' = "rbus"
  /\ UNCHANGED <<own, status, buf, hwvars, RxDesc, FSRxDesc, len, dmarxdesc, i, p,
                 wire, given>>

\* low_level_input() returns p and ethernetif_input() passes it to
\* netif->input(), unless it is NULL; either way p is gone afterwards.
Return ==
  /\ pc' = "poll" /\ p' = <<>>
  /\ given' = IF p = <<>> THEN given ELSE Append(given, p)

\* DMASR is read; RBUS is clear.
RbusClear ==
  /\ pc = "rbus" /\ ~rbus
  /\ Return
  /\ UNCHANGED <<own, status, buf, hwvars, RxDesc, FSRxDesc, SegCount, len,
                 dmarxdesc, i, wire>>

\* Mutant: RBUS is cleared and nothing else is done.
RbusSetNoDemand ==
  /\ pc = "rbus" /\ rbus
  /\ rbus' = FALSE
  /\ Return
  /\ UNCHANGED <<own, status, buf, dma, cur, seg, nextOwned, RxDesc, FSRxDesc,
                 SegCount, len, dmarxdesc, i, wire>>

\* DMASR is read; RBUS is set, so it is cleared ...
RbusSet ==
  /\ pc = "rbus" /\ rbus
  /\ rbus' = FALSE /\ pc' = "resume"
  /\ UNCHANGED <<own, status, buf, dma, cur, seg, nextOwned, RxDesc, FSRxDesc,
                 SegCount, len, dmarxdesc, i, p, wire, given>>

\* ... and reception is resumed with a poll demand.
Resume ==
  /\ pc = "resume"
  /\ PollDemand
  /\ Return
  /\ UNCHANGED <<own, status, buf, cur, seg, nextOwned, RxDesc, FSRxDesc, SegCount,
                 len, dmarxdesc, i, wire>>

----------------------------------------------------------------------------
Cpu == \/ GetReceivedFrameNone \/ GetReceivedFrameLast \/ GetReceivedFrameMore
       \/ AllocOk \/ AllocFail \/ CopyBuffer \/ CopyDone
       \/ ReleaseDesc \/ ClearSegCount \/ RbusClear \/ RbusSet \/ Resume

DmaStep == DmaFill \/ DmaClose

Wire == \E k \in 1 .. MaxSegs : \E pay \in {k - 1, k} :
          FrameStart(k, pay) \/ FrameLost(k, pay)

Next == Cpu \/ DmaStep \/ Wire

Spec == Init /\ [][Next]_vars

\* main() calls ethernetif_input() for ever and nothing it does blocks, and
\* the DMA engine completes what it has begun; the wire owes nothing.
FairSpec == Spec /\ WF_vars(Cpu) /\ WF_vars(DmaStep)
----------------------------------------------------------------------------
(* Properties.                                                             *)

FlagsOK == rbus \in BOOLEAN /\ nextOwned \in BOOLEAN

DescriptorsOK ==
  /\ own \in [Desc -> BOOLEAN]
  /\ status \in [Desc -> [fs : BOOLEAN, ls : BOOLEAN, pay : 0 .. MaxSegs]]
  /\ buf \in [Desc -> Chunk]

TypeOK ==
  /\ FlagsOK
  /\ DescriptorsOK
  /\ dma \in {"idle", "fill", "close", "suspended"}
  /\ cur \in Desc /\ seg \in 0 .. MaxSegs
  /\ RxDesc \in Desc /\ FSRxDesc \in Desc /\ dmarxdesc \in Desc
  /\ SegCount \in 0 .. N /\ i \in 0 .. N /\ len \in 0 .. MaxSegs
  /\ pc \in {"poll", "alloc", "copy", "release", "rbus", "resume"}
  /\ p \in Seq(Chunk)
  /\ wire \in Seq(WireFrame)
  /\ given \in Seq(Seq(Chunk))

\* CPU and DMA never use the same descriptor at the same time: the engine
\* writes only into a descriptor that it owns, and low_level_input() copies
\* from, and gives back, only descriptors that it does not own.  Neither side
\* locks anything; it holds because the OWN bit is cleared last by the engine,
\* because SegCount counts exactly the segments from FSRxDesc on, and because
\* the copy loop stops before the first segment that is not the frame's.
OwnershipExclusion ==
  /\ dma \in {"fill", "close"} => own[cur]
  /\ pc = "copy" /\ Len(p) < len => ~own[dmarxdesc]
  /\ pc = "release" /\ i < SegCount => ~own[dmarxdesc]

\* What is handed to netif->input() is the beginning of one frame, its chunks
\* in order and none of another frame, and frames are handed up in the order
\* of the wire, none of them twice.
GivenInOrder ==
  /\ \A k \in DOMAIN given : given[k] = ChunksOf(given[k][1].frame, Len(given[k]))
  /\ \A k \in 2 .. Len(given) : given[k - 1][1].frame < given[k][1].frame

\* No lost wake-up: while the engine is suspended, RBUS is set (or the poll
\* demand is about to be written) and the driver will test it again, because
\* it is in the middle of a frame or has another one to take; and a poll
\* demand in vain leaves it a frame to take.
NoReceiveStall ==
  dma = "suspended" =>
    /\ rbus \/ pc = "resume"
    /\ pc \in {"alloc", "copy", "release", "rbus"}
         \/ ~own[RxDesc] \/ (pc = "resume" /\ own[cur])

\* Reception goes on: the engine is resumed after the ring was full, and every
\* descriptor that the DMA filled is given back to it, also when there was no pbuf
\* for the frame (low_level_input() releases the descriptors all the same).
ReceptionResumes == dma = "suspended" ~> dma # "suspended"
DescriptorsReturn == \A d \in Desc : ~own[d] ~> own[d]
ReceptionGoesOn == ReceptionResumes /\ DescriptorsReturn
=============================================================================
