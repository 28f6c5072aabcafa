------------------------------- MODULE EthTx -------------------------------
(***************************************************************************)
(* The transmit path of the Ethernet driver: low_level_output()            *)
(* (USER/lwip_port/netif/ethernetif.c) copies a chain of pbufs into the    *)
(* buffers of the transmit descriptors, HAL_ETH_TransmitFrame()            *)
(* (stm32f4xx_hal_eth.c) splits the frame again, by length only, and gives *)
(* the descriptors to the transmit DMA engine, which sends them while the  *)
(* next frame is being prepared.  The two sides synchronise through the    *)
(* OWN bits and the flags TBUS (no descriptor to send) and TUS (underflow) *)
(* of DMASR, after which the engine is suspended until a poll demand.      *)
(*                                                                         *)
(* Byte j of frame f is the pair <<f, j>>; a chain of pbufs is the         *)
(* sequence of their lengths.                                              *)
(***************************************************************************)
EXTENDS Integers, Sequences

CONSTANTS N,            \* ETH_TXBUFNB, number of transmit descriptors
          BufSize,      \* ETH_TX_BUF_SIZE
          Chains,       \* pbuf chains the stack may send
          MaxFrames,    \* bound: number of calls of low_level_output()
          MaxUnderflows \* bound: number of transmit underflows

Total(chain) ==
  LET sum[k \in 0 .. Len(chain)] == IF k = 0 THEN 0 ELSE sum[k - 1] + chain[k]
  IN  sum[Len(chain)]

ASSUME NAssumption == N \in Nat /\ N >= 2
ASSUME BufSizeAssumption == BufSize \in Nat \ {0}
ASSUME BoundsAssumption == MaxFrames \in Nat /\ MaxUnderflows \in Nat

\* ethernet_output() puts a link header in front of every packet and netif->mtu
\* bounds its length: no frame is empty and none is longer than the ring.
ASSUME ChainsAssumption ==
  \A ch \in Chains : ch \in Seq(Nat) /\ Total(ch) \in 1 .. N * BufSize

Desc == 0 .. N - 1
Nxt(d) == IF d = N - 1 THEN 0 ELSE d + 1

VARIABLES
  \* shared memory
  own,         \* OWN bit: TRUE when the DMA owns the descriptor
  ctrl,        \* FS, LS and buffer size (TBS1) of the descriptor
  buf,         \* bytes in its buffer
  \* DMA registers and engine
  tbus, tus,   \* flags of DMASR
  dma,         \* "run" or "suspended"
  cur,         \* current transmit descriptor of the engine
  out,         \* bytes of the frame it is sending
  underflows,  \* number of underflows so far
  \* the driver
  TxDesc,      \* heth.TxDesc
  pc,          \* where low_level_output() or HAL_ETH_TransmitFrame() is
  chain,       \* pbufs of the frame that have not been copied yet
  left,        \* byteslefttocopy
  DmaTxDesc, bufferoffset, framelength,
  i,           \* loop counter of HAL_ETH_TransmitFrame()
  errval,
  \* history
  frames,      \* chain of each frame passed to low_level_output()
  accepted,    \* frames for which it returned ERR_OK
  sent         \* frames that left, each the sequence of its bytes

hwvars  == <<tbus, tus, dma, cur, out, underflows>>
cpuvars == <<TxDesc, pc, chain, left, DmaTxDesc, bufferoffset, framelength, i, errval>>
vars == <<own, ctrl, buf, hwvars, cpuvars, frames, accepted, sent>>

frame == Len(frames)

\* All bytes of frame f, in order.
BytesOf(f) == [j \in 1 .. Total(frames[f]) |-> <<f, j>>]

----------------------------------------------------------------------------
\* HAL_ETH_DMATxDescListInit(): no descriptor is owned by the DMA; the engine
\* has been started by HAL_ETH_Start() and will find nothing to send.
Init ==
  /\ own = [d \in Desc |-> FALSE]
  /\ ctrl = [d \in Desc |-> [fs |-> FALSE, ls |-> FALSE, size |-> 0]]
  /\ buf = [d \in Desc |-> [k \in 1 .. BufSize |-> <<0, 0>>]]
  /\ tbus = FALSE /\ tus = FALSE /\ dma = "run" /\ cur = 0 /\ out = <<>>
  /\ underflows = 0
  /\ TxDesc = 0 /\ pc = "idle" /\ chain = <<>> /\ left = 0
  /\ DmaTxDesc = 0 /\ bufferoffset = 0 /\ framelength = 0 /\ i = 0 /\ errval = "ERR_OK"
  /\ frames = <<>> /\ accepted = <<>> /\ sent = <<>>

----------------------------------------------------------------------------
(* The transmit DMA engine (external: the MAC peripheral).                 *)

\* The current descriptor goes back to the CPU.
CloseDesc == own' = [own EXCEPT ![cur] = FALSE] /\ cur' = Nxt(cur)

DmaSend ==
  LET bytes == (IF ctrl[cur].fs THEN <<>> ELSE out)
                 \o [k \in 1 .. ctrl[cur].size |-> buf[cur][k]]
  IN
  /\ dma = "run" /\ own[cur]
  /\ CloseDesc
  /\ IF ctrl[cur].ls THEN sent' = Append(sent, bytes) /\ out' = <<>>
                     ELSE out' = bytes /\ UNCHANGED sent
  /\ UNCHANGED <<ctrl, buf, tbus, tus, dma, underflows, cpuvars, frames, accepted>>

\* Nothing to send: the engine suspends itself.
DmaSuspend ==
  /\ dma = "run" /\ ~own[cur]
  /\ dma' = "suspended" /\ tbus' = TRUE
  /\ UNCHANGED <<own, ctrl, buf, tus, cur, out, underflows, cpuvars, frames,
                 accepted, sent>>

\* A frame is aborted by a FIFO underflow, reported with its last segment.
DmaUnderflow ==
  /\ dma = "run" /\ own[cur] /\ ctrl[cur].ls
  /\ underflows < MaxUnderflows
  /\ underflows' = underflows + 1
  /\ CloseDesc
  /\ out' = <<>> /\ dma' = "suspended" /\ tus' = TRUE
  /\ UNCHANGED <<ctrl, buf, tbus, cpuvars, frames, accepted, sent>>

\* Transmit poll demand (a write to DMATPDR).
PollDemand == dma' = "run"

----------------------------------------------------------------------------
(* low_level_output().                                                     *)

\* The stack calls netif->linkoutput() with a chain of pbufs.
Output(ch) ==
  /\ pc = "idle" /\ frame < MaxFrames
  /\ frames' = Append(frames, ch)
  /\ chain' = ch /\ pc' = "check"
  /\ DmaTxDesc' = TxDesc /\ bufferoffset' = 0 /\ framelength' = 0
  /\ UNCHANGED <<own, ctrl, buf, hwvars, TxDesc, left, i, errval, accepted, sent>>

\* Head of the loop over the pbufs: the current buffer must be available.
CheckDesc ==
  /\ pc = "check" /\ chain # <<>>
  /\ IF own[DmaTxDesc]
       THEN errval' = "ERR_USE" /\ pc' = "tus" /\ UNCHANGED <<chain, left>>
       ELSE left' = Head(chain) /\ chain' = Tail(chain) /\ pc' = "copy" /\ UNCHANGED errval
  /\ UNCHANGED <<own, ctrl, buf, hwvars, TxDesc, DmaTxDesc, bufferoffset, framelength,
                 i, frames, accepted, sent>>

\* memcpy() of the next n bytes of the frame to the current buffer.
Memcpy(n) ==
  buf' = [buf EXCEPT ![DmaTxDesc] =
            [k \in 1 .. BufSize |->
               IF k \in bufferoffset + 1 .. bufferoffset + n
                 THEN <<frame, framelength + k - bufferoffset>>
                 ELSE buf[DmaTxDesc][k]]]

\* Mutant: the OWN bit of the next descriptor is not tested.
CopySplitUnchecked ==
  /\ pc = "copy" /\ left + bufferoffset > BufSize
  /\ Memcpy(BufSize - bufferoffset)
  /\ DmaTxDesc' = Nxt(DmaTxDesc)
  /\ left' = left - (BufSize - bufferoffset)
  /\ framelength' = framelength + (BufSize - bufferoffset)
  /\ bufferoffset' = 0
  /\ UNCHANGED <<own, ctrl, hwvars, TxDesc, pc, chain, i, errval, frames, accepted, sent>>

\* The pbuf does not fit in what is left of the buffer: fill it and go on with
\* the next descriptor, which must be available too.
CopySplit ==
  /\ pc = "copy" /\ left + bufferoffset > BufSize
  /\ Memcpy(BufSize - bufferoffset)
  /\ DmaTxDesc' = Nxt(DmaTxDesc)
  /\ IF own[DmaTxDesc']
       THEN /\ errval' = "ERR_USE" /\ pc' = "tus"
            /\ UNCHANGED <<left, framelength, bufferoffset>>
       ELSE /\ left' = left - (BufSize - bufferoffset)
            /\ framelength' = framelength + (BufSize - bufferoffset)
            /\ bufferoffset' = 0
            /\ UNCHANGED <<pc, errval>>
  /\ UNCHANGED <<own, ctrl, hwvars, TxDesc, chain, i, frames, accepted, sent>>

\* Copy the remaining bytes of the pbuf.
CopyRest ==
  /\ pc = "copy" /\ left + bufferoffset <= BufSize
  /\ Memcpy(left)
  /\ bufferoffset' = bufferoffset + left
  /\ framelength' = framelength + left
  /\ left' = 0 /\ pc' = "check"
  /\ UNCHANGED <<own, ctrl, hwvars, TxDesc, chain, DmaTxDesc, i, errval, frames,
                 accepted, sent>>

\* The chain is copied: HAL_ETH_TransmitFrame() is called.  It refuses an empty
\* frame and one whose first descriptor the DMA owns; low_level_output()
\* ignores its result and returns ERR_OK in any case.
TransmitFrame ==
  /\ pc = "check" /\ chain = <<>>
  /\ errval' = "ERR_OK" /\ i' = 0
  /\ pc' = IF framelength = 0 \/ own[TxDesc] THEN "tus" ELSE "give"
  /\ UNCHANGED <<own, ctrl, buf, hwvars, TxDesc, chain, left, DmaTxDesc, bufferoffset,
                 framelength, frames, accepted, sent>>

----------------------------------------------------------------------------
(* HAL_ETH_TransmitFrame().                                                *)

\* Number of buffers the frame needs, from its length alone.
bufcount == IF framelength > BufSize
              THEN framelength \div BufSize + (IF framelength % BufSize # 0 THEN 1 ELSE 0)
              ELSE 1

\* Mutant: the size of the last segment is the remainder of the division.
GiveDescRemainder ==
  /\ pc = "give" /\ i < bufcount
  /\ ctrl' = [ctrl EXCEPT ![TxDesc] =
                [fs |-> i = 0, ls |-> i = bufcount - 1,
                 size |-> IF i = bufcount - 1 THEN framelength % BufSize ELSE BufSize]]
  /\ own' = [own EXCEPT ![TxDesc] = TRUE]
  /\ TxDesc' = Nxt(TxDesc) /\ i' = i + 1
  /\ UNCHANGED <<buf, hwvars, pc, chain, left, DmaTxDesc, bufferoffset, framelength,
                 errval, frames, accepted, sent>>

\* One turn of the loop (or the case of one buffer): the descriptor gets its
\* segment bits and its size and is given to the DMA.
GiveDesc ==
  /\ pc = "give" /\ i < bufcount
  /\ ctrl' = [ctrl EXCEPT ![TxDesc] =
                [fs |-> i = 0, ls |-> i = bufcount - 1,
                 size |-> IF i = bufcount - 1
                            THEN framelength - (bufcount - 1) * BufSize ELSE BufSize]]
  /\ own' = [own EXCEPT ![TxDesc] = TRUE]
  /\ TxDesc' = Nxt(TxDesc) /\ i' = i + 1
  /\ UNCHANGED <<buf, hwvars, pc, chain, left, DmaTxDesc, bufferoffset, framelength,
                 errval, frames, accepted, sent>>

\* Mutant: TBUS is cleared without a poll demand.
TestTbusNoDemand ==
  /\ pc = "give" /\ i = bufcount
  /\ pc' = "tus"
  /\ tbus' = FALSE
  /\ UNCHANGED <<own, ctrl, buf, tus, dma, cur, out, underflows, TxDesc, chain, left,
                 DmaTxDesc, bufferoffset, framelength, i, errval, frames, accepted, sent>>

\* All given: TBUS is tested; when it is set it is cleared ...
TestTbus ==
  /\ pc = "give" /\ i = bufcount
  /\ pc' = IF tbus THEN "tbusdemand" ELSE "tus"
  /\ tbus' = FALSE
  /\ UNCHANGED <<own, ctrl, buf, tus, dma, cur, out, underflows, TxDesc, chain, left,
                 DmaTxDesc, bufferoffset, framelength, i, errval, frames, accepted, sent>>

\* Mutant: the poll demand is not written.
TbusDemandForgotten ==
  /\ pc = "tbusdemand"
  /\ pc' = "tus"
  /\ UNCHANGED <<own, ctrl, buf, hwvars, TxDesc, chain, left,
                 DmaTxDesc, bufferoffset, framelength, i, errval, frames, accepted, sent>>

\* ... and transmission is resumed.
TbusDemand ==
  /\ pc = "tbusdemand"
  /\ PollDemand
  /\ pc' = "tus"
  /\ UNCHANGED <<own, ctrl, buf, tbus, tus, cur, out, underflows, TxDesc, chain, left,
                 DmaTxDesc, bufferoffset, framelength, i, errval, frames, accepted, sent>>

----------------------------------------------------------------------------
(* End of low_level_output(), reached with and without error.              *)

Return ==
  /\ pc' = "idle"
  /\ accepted' = IF errval = "ERR_OK" THEN Append(accepted, frame) ELSE accepted

\* No underflow.
TusClear ==
  /\ pc = "tus" /\ ~tus
  /\ Return
  /\ UNCHANGED <<own, ctrl, buf, hwvars, TxDesc, chain, left, DmaTxDesc, bufferoffset,
                 framelength, i, errval, frames, sent>>

\* An underflow is acknowledged ...
TusSet ==
  /\ pc = "tus" /\ tus
  /\ tus' = FALSE /\ pc' = "tusdemand"
  /\ UNCHANGED <<own, ctrl, buf, tbus, dma, cur, out, underflows, TxDesc, chain, left,
                 DmaTxDesc, bufferoffset, framelength, i, errval, frames, accepted, sent>>

\* ... and transmission is resumed.
TusDemand ==
  /\ pc = "tusdemand"
  /\ PollDemand
  /\ Return
  /\ UNCHANGED <<own, ctrl, buf, tbus, tus, cur, out, underflows, TxDesc, chain, left,
                 DmaTxDesc, bufferoffset, framelength, i, errval, frames, sent>>

----------------------------------------------------------------------------
DmaStep == DmaSend \/ DmaSuspend \/ DmaUnderflow

\* What remains of a call of low_level_output() once it has begun.
Cpu == CheckDesc \/ CopySplit \/ CopyRest \/ TransmitFrame \/ GiveDesc \/ TestTbus
         \/ TbusDemand \/ TusClear \/ TusSet \/ TusDemand

\* The stack has nothing to send.
Quiet == pc = "idle" /\ UNCHANGED vars

Next == (\E ch \in Chains : Output(ch)) \/ Quiet \/ Cpu \/ DmaStep

Spec == Init /\ [][Next]_vars

\* A call runs to its end and the engine sends what it owns; the stack need
\* not send anything.
FairSpec == Spec /\ WF_vars(Cpu) /\ WF_vars(DmaStep)

----------------------------------------------------------------------------
(* Properties.                                                             *)

Byte == (0 .. MaxFrames) \X Nat

TypeOK ==
  /\ own \in [Desc -> BOOLEAN]
  /\ ctrl \in [Desc -> [fs : BOOLEAN, ls : BOOLEAN, size : 0 .. BufSize]]
  /\ buf \in [Desc -> [1 .. BufSize -> Byte]]
  /\ tbus \in BOOLEAN /\ tus \in BOOLEAN /\ dma \in {"run", "suspended"}
  /\ cur \in Desc /\ out \in Seq(Byte) /\ underflows \in 0 .. MaxUnderflows
  /\ TxDesc \in Desc /\ DmaTxDesc \in Desc
  /\ pc \in {"idle", "check", "copy", "give", "tbusdemand", "tus", "tusdemand"}
  /\ chain \in Seq(Nat) /\ left \in Nat
  /\ bufferoffset \in 0 .. BufSize /\ framelength \in 0 .. N * BufSize /\ i \in 0 .. N
  /\ errval \in {"ERR_OK", "ERR_USE"}
  /\ frames \in Seq(Chains) /\ accepted \in Seq(1 .. MaxFrames)
  /\ sent \in Seq(Seq(Byte))

\* The driver copies into, and sets up, only descriptors that the DMA does not
\* own; each of them was tested once, possibly long before it is used.
TxExclusion ==
  /\ TypeOK
  /\ pc = "copy" => ~own[DmaTxDesc]
  /\ pc = "give" /\ i < bufcount => ~own[TxDesc]

\* ERR_OK means sent: once the ring has drained, every frame for which
\* low_level_output() returned ERR_OK has left, except those lost to underflows,
\* although the result of HAL_ETH_TransmitFrame() is ignored.
AcceptedIsSent ==
  pc = "idle" /\ (\A d \in Desc : ~own[d]) => Len(accepted) = Len(sent) + underflows

\* Every frame that leaves consists of the bytes of one frame of the stack, all
\* of them and in order: the split by buffers that low_level_output() makes
\* while copying and the split by length of HAL_ETH_TransmitFrame() agree, and
\* no buffer is overwritten before it is sent.  Frames leave in order, and only
\* frames that the driver has accepted or is about to accept; those leave.
SentIntact ==
  /\ \A k \in DOMAIN sent : \E f \in 1 .. frame :
       /\ sent[k] = BytesOf(f)
       /\ f \in {accepted[j] : j \in DOMAIN accepted} \/ (f = frame /\ pc # "idle")
  /\ \A k \in 2 .. Len(sent) : sent[k - 1][1][1] < sent[k][1][1]
  /\ AcceptedIsSent

\* No lost wake-up: when the engine is suspended while it owns a descriptor, a
\* flag is set that makes the driver resume it in this call (TBUS, TUS) or in
\* the next one (TUS), or the driver is about to write the poll demand.
NoTransmitStall ==
  dma = "suspended" /\ own[cur] =>
    tus \/ (tbus /\ pc = "give") \/ pc \in {"tbusdemand", "tusdemand"}

\* Every descriptor given to the DMA comes back, unless an underflow stops the
\* engine: the code then resumes it only in its next call.
DescriptorsReturn == \A d \in Desc : own[d] ~> ~own[d] \/ underflows > 0
=============================================================================
