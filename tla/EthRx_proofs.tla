---------------------------- MODULE EthRx_proofs ----------------------------
(***************************************************************************)
(* Proofs about the receive ring of EthRx, for every size of the ring and  *)
(* every length of frame.                                                  *)
(*                                                                         *)
(* The invariant says that the descriptors the DMA does not own are a      *)
(* contiguous window of the ring: c descriptors from Oldest on, of which   *)
(* the first Held belong to the frame the driver is collecting or has in   *)
(* hand, and that the segment numbers found along the window are those     *)
(* that SegCount and the engine expect.  From that and the order of the    *)
(* frame numbers follows at the end that the ring implements RxQueue.      *)
(***************************************************************************)
EXTENDS EthRxRefinement, SequenceTheorems, WellFoundedInduction, TLAPS

\* Oldest descriptor the driver still holds, and how many of them it has
\* already looked at.
Oldest == IF pc = "release" THEN dmarxdesc
        ELSE IF SegCount > 0 THEN FSRxDesc ELSE RxDesc
Held == IF pc = "release" THEN SegCount - i ELSE SegCount

\* Segment number that must follow descriptor d, that the engine will write
\* next, and that the driver must find next.
After(d)  == IF status[d].ls THEN 1 ELSE buf[d].seg + 1
EngineSeg == IF dma \in {"fill", "close"} THEN seg ELSE 1
Wanted    == IF pc = "poll" THEN SegCount + 1 ELSE 1

Window(c) ==
  /\ c \in 0 .. N
  /\ Held \in 0 .. c
  /\ RxDesc = Plus(Oldest, Held)
  /\ cur = Plus(Oldest, c)
  /\ \A d \in Desc : own[d] <=> Dist(Oldest, d) >= c
  /\ dma # "suspended" => c < N
  /\ dma = "suspended" /\ pc = "poll" => Held < c

SegStatus(c) ==
  \A d \in Desc : Dist(Oldest, d) < c =>
    /\ buf[d].seg >= 1
    /\ status[d].fs <=> buf[d].seg = 1
    /\ status[d].ls => status[d].pay <= buf[d].seg

SegChain(c) ==
  \A d \in Desc : Held <= Dist(Oldest, d) /\ Dist(Oldest, d) + 1 < c =>
    buf[Nxt(d)].seg = After(d)

SegEngine(c) ==
  \A d \in Desc : Held <= Dist(Oldest, d) /\ Dist(Oldest, d) + 1 = c =>
    EngineSeg = After(d)

SegDriver(c) == IF Held < c THEN buf[RxDesc].seg = Wanted ELSE EngineSeg = Wanted

Segments(c) == SegStatus(c) /\ SegChain(c) /\ SegEngine(c) /\ SegDriver(c)

RingInv == \E c \in 0 .. N : Window(c) /\ Segments(c)

DriverInv ==
  /\ pc \in {"alloc", "copy", "release"} => SegCount >= 1
  /\ pc \in {"rbus", "resume"} => SegCount = 0
  /\ pc \in {"alloc", "copy"} => len <= SegCount
  /\ pc = "copy" => Len(p) <= len /\ dmarxdesc = Plus(FSRxDesc, Len(p))
  /\ pc = "release" => i <= SegCount
  /\ pc \in {"poll", "alloc"} => p = <<>>

EngineInv ==
  /\ dma \in {"fill", "close"} => wire # <<>> /\ 1 <= seg /\ seg <= wire[frame].segs
  /\ dma = "close" => buf[cur].seg = seg /\ (nextOwned => own[Nxt(cur)])
  /\ \A k \in 1 .. Len(wire) : wire[k].pay <= wire[k].segs
  /\ Len(wire) <= MaxFrames
  /\ dma = "suspended" => rbus \/ pc = "resume"

IInv == TypeOK /\ RingInv /\ DriverInv /\ EngineInv

----------------------------------------------------------------------------
(* Arithmetic of the chain.                                                *)

\* The chain of HAL_ETH_DMARxDescListInit() stays in the ring, and a descriptor
\* is never its own successor.
LEMMA NxtType == \A d \in Desc : Nxt(d) \in Desc /\ Nxt(d) # d
  BY NAssumption DEF Desc, Nxt

\* Distances along the chain are smaller than the ring.
LEMMA DistType == \A a, d \in Desc : Dist(a, d) \in Nat /\ Dist(a, d) < N
  BY NAssumption DEF Desc, Dist

\* One step along the chain changes a distance by one, and N steps close it.
LEMMA DistNxt ==
  \A a, d \in Desc :
    /\ Dist(a, d) + 1 < N => Dist(a, Nxt(d)) = Dist(a, d) + 1
    /\ Dist(a, d) + 1 = N => Nxt(d) = a
    /\ d # a => Dist(Nxt(a), d) = Dist(a, d) - 1
    /\ Dist(Nxt(a), a) = N - 1
    /\ Dist(a, d) = 0 <=> d = a
  BY NAssumption DEF Desc, Dist, Nxt

\* The descriptor n steps on is at distance n, and the steps add up.
LEMMA PlusFacts ==
  \A a \in Desc : \A n \in 0 .. N :
    /\ Plus(a, n) \in Desc
    /\ n < N => /\ Dist(a, Plus(a, n)) = n
                /\ Nxt(Plus(a, n)) = Plus(a, n + 1)
                /\ Plus(Nxt(a), n) = Plus(a, n + 1)
    /\ Plus(a, 0) = a /\ Plus(a, N) = a
  BY NAssumption DEF Desc, Dist, Plus, Nxt

\* The successor of a descriptor that is not the last of a window is in it.
LEMMA NxtInWindow ==
  ASSUME NEW a \in Desc, NEW d \in Desc, NEW c \in 0 .. N, Dist(a, d) + 1 < c
  PROVE  Nxt(d) \in Desc /\ Dist(a, Nxt(d)) = Dist(a, d) + 1 /\ Dist(a, Nxt(d)) < c
  BY NAssumption DEF Desc, Dist, Nxt

\* Going the distance from a to d leads to d.
LEMMA DistPlus == \A a, d \in Desc : Plus(a, Dist(a, d)) = d
  BY NAssumption DEF Desc, Dist, Plus

----------------------------------------------------------------------------
(* The invariant holds initially and is preserved by every step.           *)

\* HAL_ETH_DMARxDescListInit() gives every descriptor to the DMA: the window is
\* empty.
LEMMA InitInv == Init => IInv
  <1> SUFFICES ASSUME Init PROVE IInv
    OBVIOUS
  <1>a. FlagsOK
    BY DEF Init, FlagsOK
  <1>0. DescriptorsOK
    BY MaxSegsAssumption, MaxFramesAssumption DEF Init, DescriptorsOK, Chunk
  <1>1. TypeOK
    BY <1>a, <1>0, NAssumption, MaxSegsAssumption, MaxFramesAssumption
    DEF Init, TypeOK, Desc
  <1>2. Window(0) /\ Segments(0)
    BY NAssumption
    DEF Init, Window, Segments, SegStatus, SegChain, SegEngine, SegDriver,
        Oldest, Held, Desc, Dist, Plus, EngineSeg, Wanted
  <1>3. DriverInv /\ EngineInv
    BY MaxFramesAssumption DEF Init, DriverInv, EngineInv
  <1> QED
    BY <1>1, <1>2, <1>3, NAssumption DEF IInv, RingInv

\* A step that moves neither the window nor what the two sides expect.
LEMMA RingFrame ==
  ASSUME NEW c \in 0 .. N, Window(c), Segments(c),
         own' = own, status' = status, buf' = buf, cur' = cur, RxDesc' = RxDesc,
         Oldest' = Oldest, Held' = Held, EngineSeg' = EngineSeg, Wanted' = Wanted,
         dma' # "suspended" => c < N,
         dma' = "suspended" /\ pc' = "poll" => Held < c
  PROVE  RingInv'
  <1>1. Window(c)'
    BY DEF Window
  <1>2. Segments(c)'
    BY DEF Segments, SegStatus, SegChain, SegEngine, SegDriver, After
  <1> QED
    BY <1>1, <1>2 DEF RingInv

\* When the driver finds a descriptor of its own at RxDesc, it is the one
\* after those that it has already counted, with the next segment number.
LEMMA PollFacts ==
  ASSUME IInv, NEW c \in 0 .. N, Window(c), Segments(c), pc = "poll", ~own[RxDesc]
  PROVE  /\ Oldest \in Desc /\ RxDesc \in Desc
         /\ Held = SegCount /\ SegCount \in Nat /\ Held < c /\ Held < N
         /\ Dist(Oldest, RxDesc) = Held
         /\ Nxt(RxDesc) = Plus(Oldest, Held + 1)
         /\ buf[RxDesc].seg = SegCount + 1
  <1>1. Oldest \in Desc /\ RxDesc \in Desc /\ Held = SegCount /\ SegCount \in Nat
    BY DEF IInv, TypeOK, Oldest, Held
  <1>2. Held < N
    <2>1. SUFFICES ASSUME Held >= N PROVE FALSE
      BY <1>1, NAssumption
    <2>2. c = N /\ Held = N
      BY <1>1, <2>1, NAssumption DEF Window
    <2>3. dma = "suspended" /\ EngineSeg = SegCount + 1
      BY <1>1, <2>2, NAssumption DEF Window, Segments, SegDriver, Wanted
    <2> QED
      BY <1>1, <2>2, <2>3, NAssumption DEF EngineSeg
  <1>3. Dist(Oldest, RxDesc) = Held /\ Nxt(RxDesc) = Plus(Oldest, Held + 1)
    BY <1>1, <1>2, PlusFacts, NAssumption DEF Window
  <1>4. Held < c
    BY <1>1, <1>3, NAssumption DEF Window
  <1>5. buf[RxDesc].seg = SegCount + 1
    BY <1>4 DEF Segments, SegDriver, Wanted
  <1> QED
    BY <1>1, <1>2, <1>3, <1>4, <1>5

\* Writing a buffer concerns a descriptor outside the window.
LEMMA DmaFillInv == IInv /\ DmaFill => IInv'
  <1> SUFFICES ASSUME IInv, DmaFill PROVE IInv'
    OBVIOUS
  <1> PICK c \in 0 .. N : Window(c) /\ Segments(c)
    BY DEF IInv, RingInv
  <1>1. TypeOK /\ FlagsOK /\ DescriptorsOK /\ DriverInv /\ EngineInv
    BY DEF IInv, TypeOK
  <1>2. Oldest' = Oldest /\ Held' = Held /\ EngineSeg' = EngineSeg /\ Wanted' = Wanted
    BY DEF DmaFill, Oldest, Held, EngineSeg, Wanted, cpuvars
  <1>3. Oldest \in Desc /\ cur \in Desc /\ Nxt(cur) \in Desc
    BY <1>1, NxtType DEF Oldest, TypeOK
  <1>4. own[cur]
    BY <1>1, <1>3, PlusFacts DEF DmaFill, Window
  <1>5. [frame |-> frame, seg |-> seg] \in Chunk
    BY <1>1, MaxFramesAssumption DEF Chunk, TypeOK, EngineInv, frame
  <1>6. FlagsOK'
    BY <1>1, <1>3 DEF DmaFill, FlagsOK, DescriptorsOK
  <1>7. DescriptorsOK'
    BY <1>1, <1>5 DEF DmaFill, DescriptorsOK
  <1>8. TypeOK'
    BY <1>1, <1>6, <1>7 DEF DmaFill, TypeOK, cpuvars
  <1>9. Window(c)'
    BY <1>1, <1>2 DEF DmaFill, Window, cpuvars
  <1>10. Segments(c)'
    <2>1. \A d \in Desc : Dist(Oldest, d) < c => buf'[d] = buf[d] /\ status'[d] = status[d]
      BY <1>1, <1>3, <1>4, DistType DEF DmaFill, Window, DescriptorsOK
    <2>2. \A d \in Desc : Dist(Oldest, d) + 1 < c => buf'[Nxt(d)] = buf[Nxt(d)]
      BY <1>3, <2>1, NxtInWindow
    <2>3. SegStatus(c)'
      BY <1>2, <2>1 DEF Segments, SegStatus
    <2>4. SegChain(c)'
      BY <1>2, <1>3, <2>1, <2>2, DistType DEF Segments, SegChain, After
    <2>5. SegEngine(c)'
      BY <1>2, <1>3, <2>1, DistType DEF Segments, SegEngine, After
    <2>6. SegDriver(c)'
      BY <1>2, <1>3, <2>1, NAssumption, PlusFacts DEF Segments, SegDriver, Window, DmaFill, cpuvars
    <2> QED
      BY <2>3, <2>4, <2>5, <2>6 DEF Segments
  <1>11. DriverInv' /\ EngineInv'
    BY <1>1 DEF DmaFill, DriverInv, EngineInv, TypeOK, DescriptorsOK, cpuvars, frame
  <1> QED
    BY <1>8, <1>9, <1>10, <1>11 DEF IInv, RingInv

\* Closing a descriptor makes the window one longer at its end.
LEMMA DmaCloseInv == IInv /\ DmaClose => IInv'
  <1> SUFFICES ASSUME IInv, DmaClose PROVE IInv'
    OBVIOUS
  <1> PICK c \in 0 .. N : Window(c) /\ Segments(c)
    BY DEF IInv, RingInv
  <1>1. TypeOK /\ FlagsOK /\ DescriptorsOK /\ DriverInv /\ EngineInv
    BY DEF IInv, TypeOK
  <1> DEFINE last == seg = wire[frame].segs
             truncated == ~last /\ ~nextOwned
  <1>2. Oldest' = Oldest /\ Held' = Held /\ Wanted' = Wanted
    BY DEF DmaClose, Oldest, Held, Wanted, cpuvars
  <1>3. Oldest \in Desc /\ cur \in Desc /\ Nxt(cur) \in Desc
    BY <1>1, NxtType DEF Oldest, TypeOK
  <1>4. c < N /\ Dist(Oldest, cur) = c /\ Nxt(cur) = Plus(Oldest, c + 1) /\ c + 1 \in 0 .. N
    BY <1>3, PlusFacts, NAssumption DEF DmaClose, Window
  <1>5. /\ seg \in 1 .. MaxSegs /\ EngineSeg = seg /\ buf[cur].seg = seg
        /\ wire[frame].pay \in 0 .. MaxSegs /\ wire[frame].pay <= wire[frame].segs
        /\ seg <= wire[frame].segs /\ wire[frame].segs \in 1 .. MaxSegs
    <2>1. frame \in 1 .. Len(wire) /\ Len(wire) \in Nat
      BY <1>1 DEF DmaClose, TypeOK, EngineInv, frame
    <2>2. wire[frame] \in WireFrame
      <3>1. wire \in Seq(WireFrame)
        BY <1>1 DEF TypeOK
      <3> QED
        BY <2>1, <3>1
    <2>3. wire[frame].pay <= wire[frame].segs
      BY <1>1, <2>1 DEF EngineInv
    <2>4. 1 <= seg /\ seg <= wire[frame].segs /\ EngineSeg = seg /\ buf[cur].seg = seg
      BY <1>1 DEF DmaClose, EngineInv, EngineSeg
    <2> QED
      BY <1>1, <2>2, <2>3, <2>4, MaxSegsAssumption DEF TypeOK, WireFrame
  <1>d. /\ last \/ truncated => dma' \in {"idle", "suspended"} /\ seg' = 0
        /\ ~(last \/ truncated) => dma' = "fill" /\ seg' = seg + 1 /\ seg + 1 <= wire[frame].segs
        /\ cur' = Nxt(cur) /\ buf' = buf
    BY <1>5 DEF DmaClose
  <1>6. nextOwned => c + 1 < N
    <2>1. SUFFICES ASSUME nextOwned, c + 1 = N PROVE FALSE
      BY <1>4, NAssumption
    <2>2. own[Nxt(cur)] /\ Nxt(cur) = Oldest
      BY <1>1, <1>3, <1>4, <2>1, PlusFacts, NAssumption DEF EngineInv, DmaClose
    <2> QED
      BY <1>3, <2>1, <2>2, DistNxt, NAssumption DEF Window
  <1>7. FlagsOK'
    BY <1>1 DEF DmaClose, FlagsOK
  <1>8. DescriptorsOK'
    BY <1>1, <1>3, <1>5 DEF DmaClose, DescriptorsOK
  <1>9. TypeOK'
    <2>1. dma' \in {"idle", "fill", "close", "suspended"} /\ cur' \in Desc
      BY <1>3, <1>d
    <2>2. seg' \in 0 .. MaxSegs
      BY <1>5, <1>d, MaxSegsAssumption
    <2> QED
      BY <1>1, <1>7, <1>8, <2>1, <2>2 DEF DmaClose, TypeOK, cpuvars
  <1>10. Window(c + 1)'
    <2>1. \A d \in Desc : own'[d] <=> Dist(Oldest, d) >= c + 1
      <3> SUFFICES ASSUME NEW d \in Desc PROVE own'[d] <=> Dist(Oldest, d) >= c + 1
        OBVIOUS
      <3>1. CASE d = cur
        BY <1>1, <1>3, <1>4, <3>1 DEF DmaClose, DescriptorsOK
      <3>2. CASE d # cur
        <4>1. Dist(Oldest, d) # c
          BY <1>3, <1>4, <3>2, DistPlus
        <4>2. QED
          <5>1. own'[d] = own[d]
            BY <1>1, <1>3, <3>2 DEF DmaClose, DescriptorsOK
          <5>2. own[d] <=> Dist(Oldest, d) >= c
            BY DEF Window
          <5> QED
            BY <1>3, <4>1, <5>1, <5>2, DistType
      <3> QED
        BY <3>1, <3>2
    <2>2. dma' # "suspended" => c + 1 < N
      BY <1>6 DEF DmaClose
    <2> QED
      BY <1>2, <1>4, <2>1, <2>2 DEF Window, DmaClose, cpuvars
  <1>11. Segments(c + 1)'
    <2>1. \A d \in Desc : Dist(Oldest, d) < c => status'[d] = status[d]
      BY <1>1, <1>3, <1>4, DistType DEF DmaClose, DescriptorsOK
    <2>2. \A d \in Desc : Dist(Oldest, d) = c => d = cur
      BY <1>3, <1>4, DistPlus
    <2>3. /\ status'[cur].fs <=> seg = 1
          /\ status'[cur].ls <=> last \/ truncated
          /\ status'[cur].pay = IF last THEN wire[frame].pay ELSE seg
      BY <1>1, <1>3 DEF DmaClose, DescriptorsOK
    <2>4. buf' = buf
      BY DEF DmaClose
    <2>5. SegStatus(c + 1)'
      <3>1. ASSUME NEW d \in Desc, Dist(Oldest, d) < c
            PROVE  /\ buf'[d].seg >= 1
                   /\ status'[d].fs <=> buf'[d].seg = 1
                   /\ status'[d].ls => status'[d].pay <= buf'[d].seg
        BY <2>1, <2>4, <3>1 DEF Segments, SegStatus
      <3>2. /\ buf'[cur].seg >= 1
            /\ status'[cur].fs <=> buf'[cur].seg = 1
            /\ status'[cur].pay <= buf'[cur].seg
        BY <1>5, <2>3, <2>4
      <3> QED
        BY <1>2, <1>3, <2>2, <3>1, <3>2, DistType DEF SegStatus
    <2>6. SegChain(c + 1)'
      <3> SUFFICES ASSUME NEW d \in Desc, Held <= Dist(Oldest, d), Dist(Oldest, d) + 1 < c + 1
                   PROVE  buf[Nxt(d)].seg = After(d)'
        BY <1>2, <2>4 DEF SegChain
      <3>1. After(d)' = After(d)
        BY <1>3, <2>1, <2>4, DistType DEF After
      <3>2. CASE Dist(Oldest, d) + 1 < c
        BY <3>1, <3>2 DEF Segments, SegChain
      <3>3. CASE Dist(Oldest, d) + 1 = c
        <4>1. Nxt(d) = cur
          BY <1>3, <1>4, <3>3, DistNxt, DistPlus, NxtType
        <4> QED
          BY <1>5, <3>1, <3>3, <4>1 DEF Segments, SegEngine
      <3> QED
        BY <1>3, <3>2, <3>3, DistType
    <2>7. EngineSeg' = IF status'[cur].ls THEN 1 ELSE buf'[cur].seg + 1
      BY <1>5, <1>d, <2>3 DEF EngineSeg
    <2>8. SegEngine(c + 1)'
      BY <1>2, <1>3, <2>2, <2>7, DistType DEF SegEngine, After
    <2>9. SegDriver(c + 1)'
      <3>1. RxDesc' = RxDesc /\ Held < c + 1
        BY DEF DmaClose, cpuvars, Window
      <3>2. CASE Held < c
        BY <1>2, <2>4, <3>1, <3>2 DEF Segments, SegDriver
      <3>3. CASE Held = c
        BY <1>2, <1>5, <2>4, <3>1, <3>3 DEF Segments, SegDriver, Window
      <3> QED
        BY <3>2, <3>3 DEF Window
    <2> QED
      BY <2>5, <2>6, <2>8, <2>9 DEF Segments
  <1>12. DriverInv'
    BY <1>1 DEF DmaClose, DriverInv, cpuvars
  <1>13. EngineInv'
    <2>1. dma' = "suspended" => rbus' \/ pc' = "resume"
      BY <1>1 DEF DmaClose
    <2> QED
      BY <1>1, <1>5, <1>d, <2>1 DEF DmaClose, EngineInv, frame
  <1> QED
    BY <1>4, <1>9, <1>10, <1>11, <1>12, <1>13 DEF IInv, RingInv

\* A frame that starts leaves the window alone.
LEMMA FrameStartInv ==
  ASSUME IInv, NEW k \in 1 .. MaxSegs, NEW pay \in {k - 1, k}, FrameStart(k, pay)
  PROVE  IInv'
  <1> PICK c \in 0 .. N : Window(c) /\ Segments(c)
    BY DEF IInv, RingInv
  <1>1. TypeOK /\ FlagsOK /\ DescriptorsOK /\ DriverInv /\ EngineInv
    BY DEF IInv, TypeOK
  <1>2. [segs |-> k, pay |-> pay] \in WireFrame
    BY MaxSegsAssumption DEF WireFrame
  <1>3. FlagsOK'
    BY <1>1 DEF FrameStart, FlagsOK, hwvars
  <1>4. DescriptorsOK'
    BY <1>1 DEF FrameStart, DescriptorsOK
  <1>5. TypeOK'
    BY <1>1, <1>2, <1>3, <1>4, MaxSegsAssumption DEF FrameStart, Arrive, TypeOK, cpuvars, hwvars
  <1>6. RingInv'
    BY RingFrame DEF FrameStart, Window, Oldest, Held, EngineSeg, Wanted, cpuvars, hwvars
  <1>7. DriverInv'
    BY <1>1 DEF FrameStart, DriverInv, cpuvars
  <1>8. EngineInv'
    <2>1. wire \in Seq(WireFrame)
      BY <1>1 DEF TypeOK
    <2>2. /\ wire' = Append(wire, [segs |-> k, pay |-> pay]) /\ Len(wire') = Len(wire) + 1
          /\ wire'[Len(wire')] = [segs |-> k, pay |-> pay]
          /\ Len(wire') <= MaxFrames /\ wire' # <<>>
          /\ \A j \in 1 .. Len(wire) : wire'[j] = wire[j]
      BY <1>2, <2>1, MaxFramesAssumption DEF FrameStart, Arrive
    <2>3. \A j \in 1 .. Len(wire') : wire'[j].pay <= wire'[j].segs
      BY <1>1, <2>1, <2>2 DEF EngineInv
    <2> QED
      BY <1>1, <2>2, <2>3 DEF FrameStart, EngineInv, frame, cpuvars, hwvars
  <1> QED
    BY <1>5, <1>6, <1>7, <1>8 DEF IInv

\* A flushed frame leaves the window alone and sets RBUS.
LEMMA FrameLostInv ==
  ASSUME IInv, NEW k \in 1 .. MaxSegs, NEW pay \in {k - 1, k}, FrameLost(k, pay)
  PROVE  IInv'
  <1> PICK c \in 0 .. N : Window(c) /\ Segments(c)
    BY DEF IInv, RingInv
  <1>1. TypeOK /\ FlagsOK /\ DescriptorsOK /\ DriverInv /\ EngineInv
    BY DEF IInv, TypeOK
  <1>2. [segs |-> k, pay |-> pay] \in WireFrame
    BY MaxSegsAssumption DEF WireFrame
  <1>3. FlagsOK'
    BY <1>1 DEF FrameLost, FlagsOK, hwvars
  <1>4. DescriptorsOK'
    BY <1>1 DEF FrameLost, DescriptorsOK
  <1>5. TypeOK'
    BY <1>1, <1>2, <1>3, <1>4, MaxSegsAssumption DEF FrameLost, Arrive, TypeOK, cpuvars, hwvars
  <1>6. RingInv'
    BY RingFrame DEF FrameLost, Window, Oldest, Held, EngineSeg, Wanted, cpuvars, hwvars
  <1>7. DriverInv'
    BY <1>1 DEF FrameLost, DriverInv, cpuvars
  <1>8. EngineInv'
    <2>1. wire \in Seq(WireFrame)
      BY <1>1 DEF TypeOK
    <2>2. /\ wire' = Append(wire, [segs |-> k, pay |-> pay]) /\ Len(wire') = Len(wire) + 1
          /\ wire'[Len(wire')] = [segs |-> k, pay |-> pay]
          /\ Len(wire') <= MaxFrames /\ wire' # <<>>
          /\ \A j \in 1 .. Len(wire) : wire'[j] = wire[j]
      BY <1>2, <2>1, MaxFramesAssumption DEF FrameLost, Arrive
    <2>3. \A j \in 1 .. Len(wire') : wire'[j].pay <= wire'[j].segs
      BY <1>1, <2>1, <2>2 DEF EngineInv
    <2> QED
      BY <1>1, <2>2, <2>3 DEF FrameLost, EngineInv, frame, cpuvars, hwvars
  <1> QED
    BY <1>5, <1>6, <1>7, <1>8 DEF IInv

\* The last segment of a frame becomes one more descriptor in hand.
LEMMA GetReceivedFrameLastInv == IInv /\ GetReceivedFrameLast => IInv'
  <1> SUFFICES ASSUME IInv, GetReceivedFrameLast PROVE IInv'
    OBVIOUS
  <1> PICK c \in 0 .. N : Window(c) /\ Segments(c)
    BY DEF IInv, RingInv
  <1>1. TypeOK /\ FlagsOK /\ DescriptorsOK /\ DriverInv /\ EngineInv
    BY DEF IInv, TypeOK
  <1>p. /\ Oldest \in Desc /\ RxDesc \in Desc
        /\ Held = SegCount /\ SegCount \in Nat /\ Held < c /\ Held < N
        /\ Dist(Oldest, RxDesc) = Held
        /\ Nxt(RxDesc) = Plus(Oldest, Held + 1)
        /\ buf[RxDesc].seg = SegCount + 1
    BY PollFacts DEF GetReceivedFrameLast
  <1>s. /\ status[RxDesc].fs <=> SegCount = 0
        /\ status[RxDesc].ls => status[RxDesc].pay <= SegCount + 1
        /\ status[RxDesc].pay \in 0 .. MaxSegs
    BY <1>1, <1>p DEF Segments, SegStatus, DescriptorsOK
  <1>h. /\ SegCount' = SegCount + 1 /\ RxDesc' = Nxt(RxDesc) /\ Nxt(RxDesc) \in Desc
        /\ Oldest' = Oldest /\ Held' = Held + 1 /\ EngineSeg' = EngineSeg
        /\ own' = own /\ status' = status /\ buf' = buf /\ cur' = cur /\ dma' = dma
        /\ Wanted' = After(RxDesc)
    BY <1>p, <1>s, NxtType DEF GetReceivedFrameLast, Oldest, Held, EngineSeg, Wanted, After, hwvars
  <1>w. Window(c)'
    <2>1. dma' = "suspended" /\ pc' = "poll" => Held + 1 < c
      BY <1>p, <1>s DEF GetReceivedFrameLast, Segments, SegEngine, EngineSeg, After, hwvars
    <2> QED
      BY <1>p, <1>h, <2>1 DEF Window
  <1>5. RingInv'
    <2>1. SegStatus(c)'
      BY <1>h DEF Segments, SegStatus
    <2>2. SegChain(c)'
      BY <1>p, <1>h, DistType DEF Segments, SegChain, After
    <2>3. SegEngine(c)'
      BY <1>p, <1>h, DistType DEF Segments, SegEngine, After
    <2>4. SegDriver(c)'
      <3>1. CASE Held + 1 < c
        BY <1>p, <1>h, <3>1 DEF Segments, SegChain, SegDriver
      <3>2. CASE Held + 1 = c
        BY <1>p, <1>h, <3>2 DEF Segments, SegEngine, SegDriver
      <3> QED
        BY <1>p, <3>1, <3>2
    <2> QED
      BY <1>w, <2>1, <2>2, <2>3, <2>4 DEF RingInv, Segments
  <1>2. FlagsOK'
    BY <1>1 DEF GetReceivedFrameLast, FlagsOK, hwvars
  <1>3. DescriptorsOK'
    BY <1>1, <1>h DEF DescriptorsOK
  <1>4. TypeOK'
    BY <1>1, <1>2, <1>3, <1>p, <1>s, <1>h, NAssumption DEF GetReceivedFrameLast, TypeOK, hwvars
  <1>6. DriverInv'
    BY <1>1, <1>p, <1>s, <1>h DEF GetReceivedFrameLast, DriverInv
  <1>7. EngineInv'
    BY <1>1 DEF GetReceivedFrameLast, EngineInv, frame, hwvars
  <1> QED
    BY <1>4, <1>5, <1>6, <1>7 DEF IInv

\* So does a first or an intermediate segment.
LEMMA GetReceivedFrameMoreInv == IInv /\ GetReceivedFrameMore => IInv'
  <1> SUFFICES ASSUME IInv, GetReceivedFrameMore PROVE IInv'
    OBVIOUS
  <1> PICK c \in 0 .. N : Window(c) /\ Segments(c)
    BY DEF IInv, RingInv
  <1>1. TypeOK /\ FlagsOK /\ DescriptorsOK /\ DriverInv /\ EngineInv
    BY DEF IInv, TypeOK
  <1>p. /\ Oldest \in Desc /\ RxDesc \in Desc
        /\ Held = SegCount /\ SegCount \in Nat /\ Held < c /\ Held < N
        /\ Dist(Oldest, RxDesc) = Held
        /\ Nxt(RxDesc) = Plus(Oldest, Held + 1)
        /\ buf[RxDesc].seg = SegCount + 1
    BY PollFacts DEF GetReceivedFrameMore
  <1>s. /\ status[RxDesc].fs <=> SegCount = 0
        /\ status[RxDesc].ls => status[RxDesc].pay <= SegCount + 1
        /\ status[RxDesc].pay \in 0 .. MaxSegs
    BY <1>1, <1>p DEF Segments, SegStatus, DescriptorsOK
  <1>h. /\ SegCount' = SegCount + 1 /\ RxDesc' = Nxt(RxDesc) /\ Nxt(RxDesc) \in Desc
        /\ Oldest' = Oldest /\ Held' = Held + 1 /\ EngineSeg' = EngineSeg
        /\ own' = own /\ status' = status /\ buf' = buf /\ cur' = cur /\ dma' = dma
        /\ Wanted' = After(RxDesc)
    BY <1>p, <1>s, NxtType DEF GetReceivedFrameMore, Oldest, Held, EngineSeg, Wanted, After, hwvars
  <1>w. Window(c)'
    <2>1. dma' = "suspended" /\ pc' = "poll" => Held + 1 < c
      BY <1>p, <1>s DEF GetReceivedFrameMore, Segments, SegEngine, EngineSeg, After, hwvars
    <2> QED
      BY <1>p, <1>h, <2>1 DEF Window
  <1>5. RingInv'
    <2>1. SegStatus(c)'
      BY <1>h DEF Segments, SegStatus
    <2>2. SegChain(c)'
      BY <1>p, <1>h, DistType DEF Segments, SegChain, After
    <2>3. SegEngine(c)'
      BY <1>p, <1>h, DistType DEF Segments, SegEngine, After
    <2>4. SegDriver(c)'
      <3>1. CASE Held + 1 < c
        BY <1>p, <1>h, <3>1 DEF Segments, SegChain, SegDriver
      <3>2. CASE Held + 1 = c
        BY <1>p, <1>h, <3>2 DEF Segments, SegEngine, SegDriver
      <3> QED
        BY <1>p, <3>1, <3>2
    <2> QED
      BY <1>w, <2>1, <2>2, <2>3, <2>4 DEF RingInv, Segments
  <1>2. FlagsOK'
    BY <1>1 DEF GetReceivedFrameMore, FlagsOK, hwvars
  <1>3. DescriptorsOK'
    BY <1>1, <1>h DEF DescriptorsOK
  <1>4. TypeOK'
    BY <1>1, <1>2, <1>3, <1>p, <1>s, <1>h, NAssumption DEF GetReceivedFrameMore, TypeOK, hwvars
  <1>6. DriverInv'
    BY <1>1, <1>p, <1>s, <1>h DEF GetReceivedFrameMore, DriverInv
  <1>7. EngineInv'
    BY <1>1 DEF GetReceivedFrameMore, EngineInv, frame, hwvars
  <1> QED
    BY <1>4, <1>5, <1>6, <1>7 DEF IInv

\* The copy starts at the oldest descriptor in hand.
LEMMA AllocOkInv == IInv /\ AllocOk => IInv'
  <1> SUFFICES ASSUME IInv, AllocOk PROVE IInv'
    OBVIOUS
  <1> PICK c \in 0 .. N : Window(c) /\ Segments(c)
    BY DEF IInv, RingInv
  <1>1. TypeOK /\ FlagsOK /\ DescriptorsOK /\ DriverInv /\ EngineInv
    BY DEF IInv, TypeOK
  <1>2. FlagsOK'
    BY <1>1 DEF AllocOk, FlagsOK, hwvars
  <1>3. DescriptorsOK'
    BY <1>1 DEF AllocOk, DescriptorsOK, TypeOK
  <1>4. TypeOK'
    BY <1>1, <1>2, <1>3, NAssumption DEF AllocOk, TypeOK, DriverInv, DescriptorsOK, hwvars
  <1>5. RingInv'
    <2>1. /\ own' = own /\ status' = status /\ buf' = buf /\ cur' = cur /\ RxDesc' = RxDesc
          /\ EngineSeg' = EngineSeg /\ (dma' # "suspended" => c < N) /\ pc' # "poll"
      BY DEF AllocOk, EngineSeg, Window, hwvars
    <2>2. Oldest' = Oldest /\ Held' = Held /\ Wanted' = Wanted
      BY <1>1 DEF AllocOk, Oldest, Held, Wanted, DriverInv, TypeOK
    <2> QED
      BY <2>1, <2>2, RingFrame
  <1>6. DriverInv'
    BY <1>1, PlusFacts, NAssumption DEF AllocOk, DriverInv, TypeOK
  <1>7. EngineInv'
    BY <1>1 DEF AllocOk, EngineInv, TypeOK, DescriptorsOK, frame, hwvars
  <1> QED
    BY <1>4, <1>5, <1>6, <1>7 DEF IInv

\* Without a pbuf the release starts at the oldest descriptor in hand.
LEMMA AllocFailInv == IInv /\ AllocFail => IInv'
  <1> SUFFICES ASSUME IInv, AllocFail PROVE IInv'
    OBVIOUS
  <1> PICK c \in 0 .. N : Window(c) /\ Segments(c)
    BY DEF IInv, RingInv
  <1>1. TypeOK /\ FlagsOK /\ DescriptorsOK /\ DriverInv /\ EngineInv
    BY DEF IInv, TypeOK
  <1>2. FlagsOK'
    BY <1>1 DEF AllocFail, FlagsOK, hwvars
  <1>3. DescriptorsOK'
    BY <1>1 DEF AllocFail, DescriptorsOK, TypeOK
  <1>4. TypeOK'
    BY <1>1, <1>2, <1>3, NAssumption DEF AllocFail, TypeOK, DriverInv, DescriptorsOK, hwvars
  <1>5. RingInv'
    <2>1. /\ own' = own /\ status' = status /\ buf' = buf /\ cur' = cur /\ RxDesc' = RxDesc
          /\ EngineSeg' = EngineSeg /\ (dma' # "suspended" => c < N) /\ pc' # "poll"
      BY DEF AllocFail, EngineSeg, Window, hwvars
    <2>2. Oldest' = Oldest /\ Held' = Held /\ Wanted' = Wanted
      BY <1>1 DEF AllocFail, Oldest, Held, Wanted, DriverInv, TypeOK
    <2> QED
      BY <2>1, <2>2, RingFrame
  <1>6. DriverInv'
    BY <1>1 DEF AllocFail, DriverInv, TypeOK
  <1>7. EngineInv'
    BY <1>1 DEF AllocFail, EngineInv, TypeOK, DescriptorsOK, frame, hwvars
  <1> QED
    BY <1>4, <1>5, <1>6, <1>7 DEF IInv

\* The copy loop moves along the descriptors in hand.
LEMMA CopyBufferInv == IInv /\ CopyBuffer => IInv'
  <1> SUFFICES ASSUME IInv, CopyBuffer PROVE IInv'
    OBVIOUS
  <1> PICK c \in 0 .. N : Window(c) /\ Segments(c)
    BY DEF IInv, RingInv
  <1>1. TypeOK /\ FlagsOK /\ DescriptorsOK /\ DriverInv /\ EngineInv
    BY DEF IInv, TypeOK
  <1>2. FlagsOK'
    BY <1>1 DEF CopyBuffer, FlagsOK, hwvars
  <1>3. DescriptorsOK'
    BY <1>1, NxtType DEF CopyBuffer, DescriptorsOK, TypeOK
  <1>4. TypeOK'
    BY <1>1, <1>2, <1>3, NxtType, NAssumption DEF CopyBuffer, TypeOK, DriverInv, DescriptorsOK, hwvars
  <1>5. RingInv'
    <2>1. /\ own' = own /\ status' = status /\ buf' = buf /\ cur' = cur /\ RxDesc' = RxDesc
          /\ EngineSeg' = EngineSeg /\ (dma' # "suspended" => c < N) /\ pc' # "poll"
      BY DEF CopyBuffer, EngineSeg, Window, hwvars
    <2>2. Oldest' = Oldest /\ Held' = Held /\ Wanted' = Wanted
      BY <1>1 DEF CopyBuffer, Oldest, Held, Wanted, DriverInv, TypeOK
    <2> QED
      BY <2>1, <2>2, RingFrame
  <1>6. DriverInv'
    BY <1>1, PlusFacts, NAssumption DEF CopyBuffer, DriverInv, TypeOK
  <1>7. EngineInv'
    BY <1>1 DEF CopyBuffer, EngineInv, TypeOK, DescriptorsOK, frame, hwvars
  <1> QED
    BY <1>4, <1>5, <1>6, <1>7 DEF IInv

\* The release starts at the oldest descriptor in hand.
LEMMA CopyDoneInv == IInv /\ CopyDone => IInv'
  <1> SUFFICES ASSUME IInv, CopyDone PROVE IInv'
    OBVIOUS
  <1> PICK c \in 0 .. N : Window(c) /\ Segments(c)
    BY DEF IInv, RingInv
  <1>1. TypeOK /\ FlagsOK /\ DescriptorsOK /\ DriverInv /\ EngineInv
    BY DEF IInv, TypeOK
  <1>2. FlagsOK'
    BY <1>1 DEF CopyDone, FlagsOK, hwvars
  <1>3. DescriptorsOK'
    BY <1>1 DEF CopyDone, DescriptorsOK, TypeOK
  <1>4. TypeOK'
    BY <1>1, <1>2, <1>3, NAssumption DEF CopyDone, TypeOK, DriverInv, DescriptorsOK, hwvars
  <1>5. RingInv'
    <2>1. /\ own' = own /\ status' = status /\ buf' = buf /\ cur' = cur /\ RxDesc' = RxDesc
          /\ EngineSeg' = EngineSeg /\ (dma' # "suspended" => c < N) /\ pc' # "poll"
      BY DEF CopyDone, EngineSeg, Window, hwvars
    <2>2. Oldest' = Oldest /\ Held' = Held /\ Wanted' = Wanted
      BY <1>1 DEF CopyDone, Oldest, Held, Wanted, DriverInv, TypeOK
    <2> QED
      BY <2>1, <2>2, RingFrame
  <1>6. DriverInv'
    BY <1>1 DEF CopyDone, DriverInv, TypeOK
  <1>7. EngineInv'
    BY <1>1 DEF CopyDone, EngineInv, TypeOK, DescriptorsOK, frame, hwvars
  <1> QED
    BY <1>4, <1>5, <1>6, <1>7 DEF IInv

\* After the release nothing is in hand.
LEMMA ClearSegCountInv == IInv /\ ClearSegCount => IInv'
  <1> SUFFICES ASSUME IInv, ClearSegCount PROVE IInv'
    OBVIOUS
  <1> PICK c \in 0 .. N : Window(c) /\ Segments(c)
    BY DEF IInv, RingInv
  <1>1. TypeOK /\ FlagsOK /\ DescriptorsOK /\ DriverInv /\ EngineInv
    BY DEF IInv, TypeOK
  <1>2. FlagsOK'
    BY <1>1 DEF ClearSegCount, FlagsOK, hwvars
  <1>3. DescriptorsOK'
    BY <1>1 DEF ClearSegCount, DescriptorsOK, TypeOK
  <1>4. TypeOK'
    BY <1>1, <1>2, <1>3, NAssumption DEF ClearSegCount, TypeOK, DriverInv, DescriptorsOK, hwvars
  <1>5. RingInv'
    <2>1. /\ own' = own /\ status' = status /\ buf' = buf /\ cur' = cur /\ RxDesc' = RxDesc
          /\ EngineSeg' = EngineSeg /\ (dma' # "suspended" => c < N) /\ pc' # "poll"
      BY DEF ClearSegCount, EngineSeg, Window, hwvars
    <2>2. Held = 0 /\ Held' = 0 /\ Oldest' = RxDesc /\ Wanted' = Wanted
      BY <1>1 DEF ClearSegCount, Oldest, Held, Wanted, TypeOK
    <2>3. Oldest = RxDesc
      BY <1>1, <2>2, PlusFacts, NAssumption DEF Window, Oldest, TypeOK
    <2> QED
      BY <2>1, <2>2, <2>3, RingFrame
  <1>6. DriverInv'
    BY <1>1 DEF ClearSegCount, DriverInv, TypeOK
  <1>7. EngineInv'
    BY <1>1 DEF ClearSegCount, EngineInv, TypeOK, DescriptorsOK, frame, hwvars
  <1> QED
    BY <1>4, <1>5, <1>6, <1>7 DEF IInv

\* With RBUS clear the engine is not suspended.
LEMMA RbusClearInv == IInv /\ RbusClear => IInv'
  <1> SUFFICES ASSUME IInv, RbusClear PROVE IInv'
    OBVIOUS
  <1> PICK c \in 0 .. N : Window(c) /\ Segments(c)
    BY DEF IInv, RingInv
  <1>1. TypeOK /\ FlagsOK /\ DescriptorsOK /\ DriverInv /\ EngineInv
    BY DEF IInv, TypeOK
  <1>2. FlagsOK'
    BY <1>1 DEF RbusClear, FlagsOK, hwvars, Return
  <1>3. DescriptorsOK'
    BY <1>1 DEF RbusClear, DescriptorsOK, TypeOK
  <1>4. TypeOK'
    BY <1>1, <1>2, <1>3, NAssumption DEF RbusClear, TypeOK, DriverInv, DescriptorsOK, hwvars, Return
  <1>5. RingInv'
    <2>1. /\ own' = own /\ status' = status /\ buf' = buf /\ cur' = cur /\ RxDesc' = RxDesc
          /\ EngineSeg' = EngineSeg /\ (dma' # "suspended" => c < N) /\ dma' # "suspended"
      BY <1>1 DEF RbusClear, EngineSeg, EngineInv, Window, hwvars
    <2>2. Oldest' = Oldest /\ Held' = Held /\ Wanted' = Wanted
      BY <1>1 DEF RbusClear, Oldest, Held, Wanted, DriverInv, TypeOK, Return
    <2> QED
      BY <2>1, <2>2, RingFrame
  <1>6. DriverInv'
    BY <1>1 DEF RbusClear, DriverInv, TypeOK, Return
  <1>7. EngineInv'
    BY <1>1 DEF RbusClear, EngineInv, TypeOK, DescriptorsOK, frame, hwvars, Return
  <1> QED
    BY <1>4, <1>5, <1>6, <1>7 DEF IInv

\* RBUS is cleared while the poll demand is still to come.
LEMMA RbusSetInv == IInv /\ RbusSet => IInv'
  <1> SUFFICES ASSUME IInv, RbusSet PROVE IInv'
    OBVIOUS
  <1> PICK c \in 0 .. N : Window(c) /\ Segments(c)
    BY DEF IInv, RingInv
  <1>1. TypeOK /\ FlagsOK /\ DescriptorsOK /\ DriverInv /\ EngineInv
    BY DEF IInv, TypeOK
  <1>2. FlagsOK'
    BY <1>1 DEF RbusSet, FlagsOK, hwvars
  <1>3. DescriptorsOK'
    BY <1>1 DEF RbusSet, DescriptorsOK, TypeOK
  <1>4. TypeOK'
    BY <1>1, <1>2, <1>3, NAssumption DEF RbusSet, TypeOK, DriverInv, DescriptorsOK, hwvars
  <1>5. RingInv'
    <2>1. /\ own' = own /\ status' = status /\ buf' = buf /\ cur' = cur /\ RxDesc' = RxDesc
          /\ EngineSeg' = EngineSeg /\ (dma' # "suspended" => c < N) /\ pc' # "poll"
      BY DEF RbusSet, EngineSeg, Window, hwvars
    <2>2. Oldest' = Oldest /\ Held' = Held /\ Wanted' = Wanted
      BY <1>1 DEF RbusSet, Oldest, Held, Wanted, DriverInv, TypeOK
    <2> QED
      BY <2>1, <2>2, RingFrame
  <1>6. DriverInv'
    BY <1>1 DEF RbusSet, DriverInv, TypeOK
  <1>7. EngineInv'
    BY <1>1 DEF RbusSet, EngineInv, TypeOK, DescriptorsOK, frame, hwvars
  <1> QED
    BY <1>4, <1>5, <1>6, <1>7 DEF IInv

\* After the poll demand the engine runs, or has set RBUS again.
LEMMA ResumeInv == IInv /\ Resume => IInv'
  <1> SUFFICES ASSUME IInv, Resume PROVE IInv'
    OBVIOUS
  <1> PICK c \in 0 .. N : Window(c) /\ Segments(c)
    BY DEF IInv, RingInv
  <1>1. TypeOK /\ FlagsOK /\ DescriptorsOK /\ DriverInv /\ EngineInv
    BY DEF IInv, TypeOK
  <1>2. FlagsOK'
    BY <1>1 DEF Resume, PollDemand, FlagsOK
  <1>3. DescriptorsOK'
    BY <1>1 DEF Resume, DescriptorsOK
  <1>4. TypeOK'
    <2>1. dma' \in {"idle", "fill", "close", "suspended"}
      BY <1>1 DEF Resume, PollDemand, TypeOK
    <2> QED
      BY <1>1, <1>2, <1>3, <2>1 DEF Resume, Return, TypeOK
  <1>5. RingInv'
    <2>1. /\ own' = own /\ status' = status /\ buf' = buf /\ cur' = cur /\ RxDesc' = RxDesc
          /\ EngineSeg' = EngineSeg
      BY DEF Resume, PollDemand, EngineSeg
    <2>2. Oldest' = Oldest /\ Held' = Held /\ Wanted' = Wanted
      BY <1>1 DEF Resume, Return, Oldest, Held, Wanted, DriverInv, TypeOK
    <2>3. own[cur] => c < N
      <3>1. Oldest \in Desc
        BY <1>1 DEF Oldest, TypeOK
      <3>2. SUFFICES ASSUME own[cur], c = N PROVE FALSE
        BY NAssumption
      <3>3. cur = Oldest /\ Dist(Oldest, Oldest) = 0
        BY <3>1, <3>2, PlusFacts, DistNxt, NAssumption DEF Window
      <3> QED
        BY <3>1, <3>2, <3>3, NAssumption DEF Window
    <2>4. dma' # "suspended" => c < N
      BY <2>3 DEF Resume, PollDemand, Window
    <2>5. dma' = "suspended" => Held < c
      <3>1. Held = 0 /\ Oldest \in Desc
        BY <1>1 DEF Resume, Held, DriverInv, TypeOK, Oldest
      <3>2. dma' = "suspended" => ~own[cur]
        BY DEF Resume, PollDemand
      <3>3. ~own[cur] => c = N
        BY <3>1, PlusFacts, NAssumption DEF Window
      <3> QED
        BY <3>1, <3>2, <3>3, NAssumption
    <2> QED
      BY <2>1, <2>2, <2>4, <2>5, RingFrame
  <1>6. DriverInv'
    BY <1>1 DEF Resume, Return, DriverInv, TypeOK
  <1>7. EngineInv'
    <2>1. dma' = "suspended" => rbus'
      BY <1>1 DEF Resume, PollDemand, EngineInv
    <2>2. /\ dma' \in {"fill", "close"} => dma' = dma
          /\ UNCHANGED <<buf, own, cur, seg, nextOwned, wire>>
      BY DEF Resume, PollDemand
    <2> QED
      BY <1>1, <2>1, <2>2 DEF EngineInv, frame
  <1> QED
    BY <1>4, <1>5, <1>6, <1>7 DEF IInv

\* Giving the oldest descriptor back makes the window one shorter at its front.
LEMMA ReleaseDescInv == IInv /\ ReleaseDesc => IInv'
  <1> SUFFICES ASSUME IInv, ReleaseDesc PROVE IInv'
    OBVIOUS
  <1> PICK c \in 0 .. N : Window(c) /\ Segments(c)
    BY DEF IInv, RingInv
  <1>1. TypeOK /\ FlagsOK /\ DescriptorsOK /\ DriverInv /\ EngineInv
    BY DEF IInv, TypeOK
  <1>2. /\ Oldest = dmarxdesc /\ Oldest' = Nxt(Oldest) /\ Oldest \in Desc /\ Nxt(Oldest) \in Desc
        /\ Held \in Nat /\ Held >= 1 /\ Held' = Held - 1 /\ Wanted = 1 /\ Wanted' = 1
        /\ EngineSeg' = EngineSeg /\ Held <= c /\ c - 1 \in 0 .. N
    BY <1>1, NxtType, NAssumption
    DEF ReleaseDesc, Oldest, Held, Wanted, EngineSeg, TypeOK, Window, hwvars
  <1>3. FlagsOK'
    BY <1>1 DEF ReleaseDesc, FlagsOK, hwvars
  <1>4. DescriptorsOK'
    BY <1>1 DEF ReleaseDesc, DescriptorsOK
  <1>5. TypeOK'
    BY <1>1, <1>2, <1>3, <1>4, NAssumption DEF ReleaseDesc, TypeOK, hwvars
  <1>6. \A d \in Desc : d # Oldest => Dist(Oldest', d) = Dist(Oldest, d) - 1
    BY <1>2, DistNxt
  <1>7. Dist(Oldest', Oldest) = N - 1
    BY <1>2, DistNxt
  <1>8. Window(c - 1)'
    <2>1. RxDesc' = Plus(Oldest, Held) /\ cur' = Plus(Oldest, c)
      BY DEF ReleaseDesc, Window, hwvars
    <2>2. RxDesc' = Plus(Oldest', Held') /\ cur' = Plus(Oldest', c - 1)
      BY <1>2, <2>1, PlusFacts, NAssumption
    <2>3. \A d \in Desc : own'[d] <=> Dist(Oldest', d) >= c - 1
      <3> SUFFICES ASSUME NEW d \in Desc PROVE own'[d] <=> Dist(Oldest', d) >= c - 1
        OBVIOUS
      <3>1. CASE d = Oldest
        BY <1>1, <1>2, <1>7, <3>1, NAssumption DEF ReleaseDesc, DescriptorsOK
      <3>2. CASE d # Oldest
        <4>1. own'[d] = own[d]
          BY <1>1, <1>2, <3>2 DEF ReleaseDesc, DescriptorsOK
        <4>2. own[d] <=> Dist(Oldest, d) >= c
          BY DEF Window
        <4> QED
          BY <1>2, <1>6, <3>2, <4>1, <4>2, DistType
      <3> QED
        BY <3>1, <3>2
    <2>4. dma' # "suspended" => c - 1 < N
      BY NAssumption
    <2>5. Held' \in 0 .. c - 1
      BY <1>2
    <2> QED
      BY <1>2, <2>2, <2>3, <2>4, <2>5 DEF Window, ReleaseDesc
  <1>9. Segments(c - 1)'
    <2>1. buf' = buf /\ status' = status /\ RxDesc' = RxDesc
      BY DEF ReleaseDesc
    <2>2. \A d \in Desc : Dist(Oldest', d) < c - 1 =>
            d # Oldest /\ Dist(Oldest, d) = Dist(Oldest', d) + 1
      BY <1>2, <1>6, <1>7, DistType, NAssumption
    <2>3. SegStatus(c - 1)'
      BY <1>2, <2>1, <2>2, DistType DEF Segments, SegStatus
    <2>4. SegChain(c - 1)'
      BY <1>2, <2>1, <2>2, DistType DEF Segments, SegChain, After
    <2>5. SegEngine(c - 1)'
      BY <1>2, <2>1, <2>2, DistType DEF Segments, SegEngine, After
    <2>6. SegDriver(c - 1)'
      BY <1>2, <2>1 DEF Segments, SegDriver
    <2> QED
      BY <2>3, <2>4, <2>5, <2>6 DEF Segments
  <1>10. DriverInv'
    BY <1>1 DEF ReleaseDesc, DriverInv, TypeOK
  <1>11. EngineInv'
    BY <1>1, <1>4, NxtType DEF ReleaseDesc, EngineInv, TypeOK, DescriptorsOK, frame, hwvars
  <1> QED
    BY <1>2, <1>5, <1>8, <1>9, <1>10, <1>11 DEF IInv, RingInv

\* A step that changes nothing keeps the invariant.
LEMMA StutterInv == IInv /\ UNCHANGED vars => IInv'
  <1> SUFFICES ASSUME IInv, UNCHANGED vars PROVE IInv'
    OBVIOUS
  <1> PICK c \in 0 .. N : Window(c) /\ Segments(c)
    BY DEF IInv, RingInv
  <1> USE DEF vars, hwvars, cpuvars
  <1>1. RingInv'
    BY RingFrame DEF Window, Oldest, Held, EngineSeg, Wanted
  <1>2. TypeOK'
    BY DEF IInv, TypeOK, FlagsOK, DescriptorsOK
  <1>3. DriverInv' /\ EngineInv'
    BY DEF IInv, DriverInv, EngineInv, frame
  <1> QED
    BY <1>1, <1>2, <1>3 DEF IInv

\* Every step of the driver, the engine and the wire keeps the invariant.
LEMMA NextInv == IInv /\ [Next]_vars => IInv'
  <1> SUFFICES ASSUME IInv, [Next]_vars PROVE IInv'
    OBVIOUS
  <1>1. CASE Cpu
    BY <1>1, StutterInv, GetReceivedFrameLastInv, GetReceivedFrameMoreInv, AllocOkInv,
       AllocFailInv, CopyBufferInv, CopyDoneInv, ReleaseDescInv, ClearSegCountInv,
       RbusClearInv, RbusSetInv, ResumeInv
    DEF Cpu, GetReceivedFrameNone
  <1>2. CASE DmaStep
    BY <1>2, DmaFillInv, DmaCloseInv DEF DmaStep
  <1>3. CASE Wire
    BY <1>3, FrameStartInv, FrameLostInv DEF Wire
  <1>4. CASE UNCHANGED vars
    BY <1>4, StutterInv
  <1> QED
    BY <1>1, <1>2, <1>3, <1>4 DEF Next

\* The strengthened invariant holds in every reachable state.
THEOREM RingInvariant == Spec => []IInv
  BY InitInv, NextInv, PTL DEF Spec

\* Type correctness; it includes that SegCount, which HAL_ETH_GetReceivedFrame()
\* increments without a bound, never exceeds the number of descriptors.
THEOREM TypeCorrect == Spec => []TypeOK
  <1>1. IInv => TypeOK
    BY DEF IInv
  <1> QED
    BY <1>1, RingInvariant, PTL

\* CPU and DMA never use the same descriptor at the same time, whatever the
\* size of the ring and the length of the frames.
THEOREM Exclusion == Spec => []OwnershipExclusion
  <1>1. IInv => OwnershipExclusion
    <2> SUFFICES ASSUME IInv PROVE OwnershipExclusion
      OBVIOUS
    <2> PICK c \in 0 .. N : Window(c) /\ Segments(c)
      BY DEF IInv, RingInv
    <2>1. TypeOK /\ DriverInv
      BY DEF IInv
    <2>2. Oldest \in Desc
      BY <2>1 DEF Oldest, TypeOK
    <2>3. dma \in {"fill", "close"} => own[cur]
      BY <2>2, PlusFacts DEF Window
    <2>4. pc = "copy" /\ Len(p) < len => ~own[dmarxdesc]
      <3> SUFFICES ASSUME pc = "copy", Len(p) < len PROVE ~own[dmarxdesc]
        OBVIOUS
      <3>1. Len(p) \in Nat /\ Len(p) < c /\ Oldest = FSRxDesc
        BY <2>1, NAssumption, MaxSegsAssumption DEF TypeOK, DriverInv, Window, Held, Oldest
      <3>2. Dist(Oldest, dmarxdesc) = Len(p)
        BY <2>1, <2>2, <3>1, PlusFacts, NAssumption DEF DriverInv
      <3> QED
        BY <2>1, <3>1, <3>2 DEF Window, TypeOK
    <2>5. pc = "release" /\ i < SegCount => ~own[dmarxdesc]
      <3> SUFFICES ASSUME pc = "release", i < SegCount PROVE ~own[dmarxdesc]
        OBVIOUS
      <3>1. Oldest = dmarxdesc /\ 0 < c
        BY <2>1, NAssumption DEF Window, Held, Oldest, TypeOK
      <3> QED
        BY <2>2, <3>1, DistNxt DEF Window
    <2> QED
      BY <2>3, <2>4, <2>5 DEF OwnershipExclusion
  <1> QED
    BY <1>1, RingInvariant, PTL

\* The driver never misses the moment to resume a suspended engine.
THEOREM NoStall == Spec => []NoReceiveStall
  <1>1. IInv => NoReceiveStall
    <2> SUFFICES ASSUME IInv, dma = "suspended" PROVE NoReceiveStall
      BY DEF NoReceiveStall
    <2> PICK c \in 0 .. N : Window(c) /\ Segments(c)
      BY DEF IInv, RingInv
    <2>1. TypeOK /\ DriverInv /\ EngineInv /\ Oldest \in Desc
      BY DEF IInv, Oldest, TypeOK
    <2>2. Held < c => Held < N /\ Dist(Oldest, RxDesc) < c
      BY <2>1, PlusFacts, NAssumption DEF Window
    <2>3. Held < c => ~own[RxDesc]
      <3>1. RxDesc \in Desc /\ Dist(Oldest, RxDesc) \in Nat
        BY <2>1, DistType DEF TypeOK
      <3>2. own[RxDesc] <=> Dist(Oldest, RxDesc) >= c
        BY <3>1 DEF Window
      <3> QED
        BY <2>2, <3>1, <3>2
    <2>4. pc = "poll" => ~own[RxDesc]
      BY <2>3 DEF Window
    <2>5. pc = "resume" => ~own[RxDesc] \/ own[cur]
      <3> SUFFICES ASSUME pc = "resume", own[RxDesc] PROVE own[cur]
        OBVIOUS
      <3>1. c = 0
        BY <2>1, <2>3 DEF Held, DriverInv, TypeOK
      <3> QED
        BY <2>1, <3>1, PlusFacts, DistNxt, NAssumption DEF Window
    <2> QED
      BY <2>1, <2>4, <2>5 DEF NoReceiveStall, EngineInv, TypeOK
  <1> QED
    BY <1>1, RingInvariant, PTL

----------------------------------------------------------------------------
(* What the driver hands up is in order.  The frame numbers found along the  *)
(* window never fall, and rise after a descriptor with LS; the frame in hand *)
(* is later than all that was given and earlier than all that is still to    *)
(* be read.  These parts are inductive relative to IInv.                     *)

\* The engine is receiving a frame.
Busy == dma \in {"fill", "close"}

\* Number of the frame given last, and of the latest frame given or in hand.
LastGiven == IF given = <<>> THEN 0 ELSE given[Len(given)][1].frame
Latest == IF p = <<>> THEN LastGiven ELSE p[1].frame

RingFrames ==
  \A d, e \in Desc : ~own[d] /\ ~own[e] =>
    /\ Dist(Oldest, d) < Dist(Oldest, e) =>
         /\ buf[d].frame <= buf[e].frame
         /\ status[d].ls => buf[d].frame < buf[e].frame
    /\ Dist(Oldest, e) = Dist(Oldest, d) + 1 /\ ~status[d].ls => buf[e].frame = buf[d].frame

EngineFrames ==
  /\ \A d \in Desc : ~own[d] =>
       /\ buf[d].frame <= frame
       /\ Busy /\ status[d].ls => buf[d].frame < frame
       /\ Nxt(d) = cur => status[d].ls \/ (Busy /\ buf[d].frame = frame)
  /\ dma = "close" => buf[cur].frame = frame
  /\ Latest <= frame /\ (Busy => Latest < frame)

HeldFrames ==
  /\ pc \in {"poll", "alloc", "copy"} =>
       \A d \in Desc : Dist(Oldest, d) < Held =>
         buf[d] = [frame |-> buf[Oldest].frame, seg |-> Dist(Oldest, d) + 1]
  /\ pc = "poll" => \A d \in Desc : Dist(Oldest, d) < Held => ~status[d].ls
  /\ pc \in {"alloc", "copy"} =>
       /\ \A d \in Desc : ~own[d] /\ Dist(Oldest, d) >= Held => buf[Oldest].frame < buf[d].frame
       /\ Busy => buf[Oldest].frame < frame

HandFrames ==
  /\ pc = "copy" => p = ChunksOf(buf[Oldest].frame, Len(p))
  /\ p # <<>> => p = ChunksOf(p[1].frame, Len(p)) /\ LastGiven < p[1].frame
  /\ pc \in {"poll", "alloc", "copy"} => \A d \in Desc : ~own[d] => LastGiven < buf[d].frame
  /\ \A d \in Desc : ~own[d] /\ Dist(Oldest, d) >= Held => Latest < buf[d].frame

GivenInv ==
  /\ \A k \in DOMAIN given : given[k] # <<>>
  /\ GivenInOrder

FrameInv == RingFrames /\ EngineFrames /\ HeldFrames /\ HandFrames /\ GivenInv

\* Frame numbers are natural numbers.
LEMMA FrameTypes ==
  ASSUME TypeOK, GivenInv
  PROVE  /\ frame \in Nat /\ LastGiven \in Nat /\ Latest \in Nat
         /\ Oldest \in Desc /\ \A d \in Desc : buf[d].frame \in Nat
<1>1. frame \in Nat /\ Oldest \in Desc
  BY DEF TypeOK, frame, Oldest
<1>2. \A d \in Desc : buf[d].frame \in Nat
  BY MaxFramesAssumption DEF TypeOK, DescriptorsOK, Chunk
<1>3. \A x \in Seq(Chunk) : x # <<>> => x[1].frame \in Nat
  <2> SUFFICES ASSUME NEW x \in Seq(Chunk), x # <<>> PROVE x[1].frame \in Nat
    OBVIOUS
  <2>1. 1 \in 1 .. Len(x)
    OBVIOUS
  <2>2. x[1] \in Chunk
    BY <2>1
  <2> QED BY <2>2, MaxFramesAssumption DEF Chunk
<1>4. given # <<>> => given[Len(given)] \in Seq(Chunk) /\ given[Len(given)] # <<>>
  <2>1. given \in Seq(Seq(Chunk))
    BY DEF TypeOK
  <2>2. given # <<>> => Len(given) \in 1 .. Len(given)
    BY <2>1
  <2>3. \A k \in 1 .. Len(given) : given[k] \in Seq(Chunk) /\ given[k] # <<>>
    BY <2>1 DEF GivenInv
  <2> QED BY <2>2, <2>3
<1>5. LastGiven \in Nat
  BY <1>3, <1>4 DEF LastGiven
<1>6. p \in Seq(Chunk)
  BY DEF TypeOK
<1> QED BY <1>1, <1>2, <1>3, <1>5, <1>6 DEF Latest

\* A step that leaves ring, engine and the latest frame alone.
LEMMA FramesSame ==
  ASSUME RingFrames, EngineFrames,
         own' = own, status' = status, buf' = buf, cur' = cur, Oldest' = Oldest,
         Busy' = Busy, dma' = "close" => dma = "close", wire' = wire, Latest' = Latest
  PROVE  RingFrames' /\ EngineFrames'
BY DEF RingFrames, EngineFrames, frame

\* Nothing is given and nothing is in hand initially.
LEMMA InitFrames == Init => FrameInv
<1> SUFFICES ASSUME Init PROVE FrameInv
  OBVIOUS
<1>1. Latest = 0 /\ LastGiven = 0 /\ frame = 0 /\ Held = 0 /\ Oldest = 0 /\ ~Busy
  BY DEF Init, Latest, LastGiven, frame, Held, Oldest, Busy
<1>2. \A d \in Desc : own[d] /\ ~(Dist(0, d) < 0)
  BY NAssumption DEF Init, Desc, Dist
<1> QED
  BY <1>1, <1>2 DEF Init, FrameInv, RingFrames, EngineFrames, HeldFrames, HandFrames,
     GivenInv, GivenInOrder

\* What the parts of the window say at one place of it.
LEMMA WindowFacts ==
  ASSUME IInv, NEW c \in 0 .. N, Window(c)
  PROVE  /\ Held \in Nat /\ Held <= c /\ Oldest \in Desc
         /\ \A d \in Desc : Dist(Oldest, d) \in Nat /\ (~own[d] <=> Dist(Oldest, d) < c)
         /\ \A d \in Desc : Dist(Oldest, d) < Held => ~own[d]
<1>1. Oldest \in Desc /\ Held \in Nat /\ Held <= c
  BY DEF IInv, TypeOK, Oldest, Window
<1>2. \A d \in Desc : Dist(Oldest, d) \in Nat
  BY <1>1, DistType
<1>3. \A d \in Desc : own[d] <=> Dist(Oldest, d) >= c
  BY DEF Window
<1> QED BY <1>1, <1>2, <1>3

\* pbuf_alloc() succeeds: the frame in hand is the one held.
LEMMA AllocOkFrames == IInv /\ FrameInv /\ AllocOk => FrameInv'
<1> SUFFICES ASSUME IInv, FrameInv, AllocOk PROVE FrameInv'
  OBVIOUS
<1>1. /\ own' = own /\ status' = status /\ buf' = buf /\ cur' = cur /\ Oldest' = Oldest
      /\ Held' = Held /\ Busy' = Busy /\ dma' = dma /\ wire' = wire /\ Latest' = Latest
      /\ LastGiven' = LastGiven /\ p' = p /\ given' = given /\ p = <<>>
      /\ pc = "alloc" /\ pc' = "copy"
  BY DEF AllocOk, hwvars, Oldest, Held, Busy, Latest, LastGiven, IInv, DriverInv
<1>2. RingFrames' /\ EngineFrames'
  BY <1>1, FramesSame DEF FrameInv
<1>3. HeldFrames'
  BY <1>1 DEF FrameInv, HeldFrames, frame
<1>4. p = ChunksOf(buf[Oldest].frame, Len(p))
  BY <1>1 DEF ChunksOf
<1>5. HandFrames'
  BY <1>1, <1>4 DEF FrameInv, HandFrames
<1>6. GivenInv'
  BY <1>1 DEF FrameInv, GivenInv, GivenInOrder
<1> QED BY <1>2, <1>3, <1>5, <1>6 DEF FrameInv

\* The frame in hand is released, with or without a pbuf.
LEMMA AllocFailFrames == IInv /\ FrameInv /\ (AllocFail \/ CopyDone) => FrameInv'
<1> SUFFICES ASSUME IInv, FrameInv, AllocFail \/ CopyDone PROVE FrameInv'
  OBVIOUS
<1>0. SegCount \in Nat /\ SegCount >= 1
  BY DEF IInv, TypeOK, DriverInv, AllocFail, CopyDone
<1>1. /\ own' = own /\ status' = status /\ buf' = buf /\ cur' = cur /\ Oldest' = Oldest
      /\ Held' = Held /\ Busy' = Busy /\ dma' = dma /\ wire' = wire /\ Latest' = Latest
      /\ LastGiven' = LastGiven /\ p' = p /\ given' = given /\ pc' = "release"
  BY <1>0 DEF AllocFail, CopyDone, hwvars, Oldest, Held, Busy, Latest, LastGiven
<1>2. RingFrames' /\ EngineFrames'
  BY <1>1, FramesSame DEF FrameInv
<1>3. HeldFrames'
  BY <1>1 DEF HeldFrames
<1>5. HandFrames'
  BY <1>1 DEF FrameInv, HandFrames
<1>6. GivenInv'
  BY <1>1 DEF FrameInv, GivenInv, GivenInOrder
<1> QED BY <1>2, <1>3, <1>5, <1>6 DEF FrameInv

\* The descriptors are all given back: nothing is held.
LEMMA ClearFrames == IInv /\ FrameInv /\ (ClearSegCount \/ RbusSet) => FrameInv'
<1> SUFFICES ASSUME IInv, FrameInv, ClearSegCount \/ RbusSet PROVE FrameInv'
  OBVIOUS
<1> PICK c \in 0 .. N : Window(c) /\ Segments(c)
  BY DEF IInv, RingInv
<1>0. Held = 0 /\ Held' = 0 /\ Oldest = RxDesc /\ Oldest' = RxDesc
  <2>1. SegCount \in Nat /\ i \in Nat /\ RxDesc \in Desc /\ Oldest \in Desc
    BY DEF IInv, TypeOK, Oldest
  <2>2. Held = 0 /\ Held' = 0 /\ Oldest' = RxDesc
    BY <2>1 DEF ClearSegCount, RbusSet, Held, Oldest, IInv, DriverInv
  <2>3. Oldest = RxDesc
    BY <2>1, <2>2, PlusFacts, NAssumption DEF Window
  <2> QED BY <2>2, <2>3
<1>1. /\ own' = own /\ status' = status /\ buf' = buf /\ cur' = cur
      /\ Busy' = Busy /\ dma' = dma /\ wire' = wire /\ Latest' = Latest
      /\ LastGiven' = LastGiven /\ p' = p /\ given' = given /\ pc' \in {"rbus", "resume"}
  BY DEF ClearSegCount, RbusSet, hwvars, Busy, Latest, LastGiven
<1>2. RingFrames' /\ EngineFrames'
  BY <1>0, <1>1, FramesSame DEF FrameInv
<1>3. HeldFrames'
  BY <1>1 DEF HeldFrames
<1>5. HandFrames'
  BY <1>0, <1>1 DEF FrameInv, HandFrames
<1>6. GivenInv'
  BY <1>1 DEF FrameInv, GivenInv, GivenInOrder
<1> QED BY <1>2, <1>3, <1>5, <1>6 DEF FrameInv

\* A step that changes nothing
LEMMA StutterFrames == IInv /\ FrameInv /\ UNCHANGED vars => FrameInv'
BY DEF vars, hwvars, cpuvars, FrameInv, RingFrames, EngineFrames, HeldFrames, HandFrames,
       GivenInv, GivenInOrder, Oldest, Held, Busy, Latest, LastGiven, frame

\* netif->input() gets the frame in hand: it is the latest one, then.
LEMMA ReturnFacts ==
  ASSUME TypeOK, FrameInv, Return
  PROVE  GivenInv' /\ Latest' = Latest /\ LastGiven' = Latest /\ p' = <<>>
<1>1. p \in Seq(Chunk) /\ given \in Seq(Seq(Chunk)) /\ p' = <<>>
  BY DEF TypeOK, Return
<1>2. CASE p = <<>>
  BY <1>1, <1>2 DEF Return, FrameInv, GivenInv, GivenInOrder, Latest, LastGiven
<1>3. CASE p # <<>>
  <2>1. given' = Append(given, p)
    BY <1>3 DEF Return
  <2>2. /\ Len(given') = Len(given) + 1 /\ Len(given) \in Nat
        /\ given'[Len(given) + 1] = p /\ given' # <<>>
        /\ \A k \in 1 .. Len(given) : given'[k] = given[k]
        /\ DOMAIN given' = 1 .. Len(given) + 1 /\ DOMAIN given = 1 .. Len(given)
    <3>1. Len(given') = Len(given) + 1 /\ Len(given) \in Nat /\ given' \in Seq(Seq(Chunk))
      BY <1>1, <2>1
    <3>2. given'[Len(given) + 1] = p
      BY <1>1, <2>1
    <3>3. \A k \in 1 .. Len(given) : given'[k] = given[k]
      BY <1>1, <2>1
    <3>4. given' # <<>>
      BY <3>1
    <3>5. DOMAIN given' = 1 .. Len(given) + 1 /\ DOMAIN given = 1 .. Len(given)
      BY <1>1, <3>1
    <3> QED BY <3>1, <3>2, <3>3, <3>4, <3>5
  <2>3. LastGiven' = Latest /\ Latest' = Latest
    BY <1>1, <1>3, <2>2 DEF LastGiven, Latest
  <2>4. p = ChunksOf(p[1].frame, Len(p)) /\ LastGiven < p[1].frame
    BY <1>3 DEF FrameInv, HandFrames
  <2>5. GivenInOrder /\ \A k \in 1 .. Len(given) : given[k] # <<>>
    BY <2>2 DEF FrameInv, GivenInv
  <2>6. ASSUME NEW k \in 1 .. Len(given) + 1
        PROVE  given'[k] # <<>> /\ given'[k] = ChunksOf(given'[k][1].frame, Len(given'[k]))
    <3>1. CASE k = Len(given) + 1
      BY <1>3, <2>2, <2>4, <3>1
    <3>2. CASE k # Len(given) + 1
      <4>1. k \in 1 .. Len(given)
        BY <2>2, <3>2
      <4> QED BY <2>2, <2>5, <4>1 DEF GivenInOrder
    <3> QED BY <3>1, <3>2
  <2>7. ASSUME NEW k \in 2 .. Len(given) + 1
        PROVE  given'[k - 1][1].frame < given'[k][1].frame
    <3>1. CASE k = Len(given) + 1
      <4>1. k - 1 = Len(given) /\ Len(given) \in 1 .. Len(given)
        BY <2>2, <3>1
      <4>2. given # <<>>
        BY <1>1, <4>1
      <4>3. given'[k - 1][1].frame = LastGiven
        BY <2>2, <4>1, <4>2 DEF LastGiven
      <4> QED BY <2>2, <2>4, <3>1, <4>3
    <3>2. CASE k # Len(given) + 1
      <4>1. k \in 2 .. Len(given) /\ k \in 1 .. Len(given) /\ k - 1 \in 1 .. Len(given)
        BY <2>2, <3>2
      <4> QED BY <2>2, <2>5, <4>1 DEF GivenInOrder
    <3> QED BY <3>1, <3>2
  <2>8. GivenInv'
    BY <2>2, <2>6, <2>7 DEF GivenInv, GivenInOrder
  <2> QED BY <1>1, <2>3, <2>8
<1> QED BY <1>2, <1>3

\* low_level_input() returns: everything in the ring is later than what was
\* given.
LEMMA ReturnFrames == IInv /\ FrameInv /\ (RbusClear \/ Resume) => FrameInv'
<1> SUFFICES ASSUME IInv, FrameInv, RbusClear \/ Resume PROVE FrameInv'
  OBVIOUS
<1> PICK c \in 0 .. N : Window(c) /\ Segments(c)
  BY DEF IInv, RingInv
<1>0. /\ TypeOK /\ Return /\ SegCount = 0 /\ Held = 0 /\ Held' = 0
      /\ Oldest = RxDesc /\ Oldest' = RxDesc /\ pc' = "poll"
  BY DEF IInv, RbusClear, Resume, Return, Held, Oldest, DriverInv
<1>1. /\ own' = own /\ status' = status /\ buf' = buf /\ cur' = cur
      /\ Busy' = Busy /\ (dma' = "close" => dma = "close") /\ wire' = wire
  BY DEF RbusClear, Resume, PollDemand, hwvars, Busy
<1>2. GivenInv' /\ Latest' = Latest /\ LastGiven' = Latest /\ p' = <<>>
  BY <1>0, ReturnFacts
<1>3. RingFrames' /\ EngineFrames'
  BY <1>0, <1>1, <1>2, FramesSame DEF FrameInv
<1>4. \A d \in Desc : Dist(Oldest, d) >= 0 /\ ~(Dist(Oldest, d) < 0)
  BY WindowFacts
<1>5. HeldFrames'
  BY <1>0, <1>1, <1>4 DEF HeldFrames
<1>6. HandFrames'
  BY <1>0, <1>1, <1>2, <1>4 DEF FrameInv, HandFrames
<1> QED BY <1>2, <1>3, <1>5, <1>6 DEF FrameInv

\* The copy loop appends the next chunk of the frame that is held.
LEMMA CopyFrames == IInv /\ FrameInv /\ CopyBuffer => FrameInv'
<1> SUFFICES ASSUME IInv, FrameInv, CopyBuffer PROVE FrameInv'
  OBVIOUS
<1> PICK c \in 0 .. N : Window(c) /\ Segments(c)
  BY DEF IInv, RingInv
<1> DEFINE F == buf[Oldest].frame
<1>0. /\ pc = "copy" /\ p \in Seq(Chunk) /\ Len(p) \in Nat /\ Len(p) < SegCount
      /\ SegCount \in Nat /\ SegCount >= 1 /\ len \in Nat /\ SegCount <= N
      /\ dmarxdesc = Plus(FSRxDesc, Len(p)) /\ FSRxDesc \in Desc /\ dmarxdesc \in Desc
  BY NAssumption, MaxSegsAssumption DEF IInv, TypeOK, DriverInv, CopyBuffer
<1>1. /\ own' = own /\ status' = status /\ buf' = buf /\ cur' = cur /\ Oldest' = Oldest
      /\ Held' = Held /\ Busy' = Busy /\ dma' = dma /\ wire' = wire
      /\ LastGiven' = LastGiven /\ p' = Append(p, buf[dmarxdesc]) /\ given' = given
      /\ pc' = "copy" /\ Oldest = FSRxDesc /\ Held = SegCount
  BY <1>0 DEF CopyBuffer, hwvars, Oldest, Held, Busy, LastGiven
<1>2. Dist(Oldest, dmarxdesc) = Len(p)
  BY <1>0, <1>1, PlusFacts, NAssumption
<1>3. buf[dmarxdesc] = [frame |-> F, seg |-> Len(p) + 1]
  BY <1>0, <1>1, <1>2 DEF FrameInv, HeldFrames
<1>4. p = ChunksOf(F, Len(p))
  BY <1>0 DEF FrameInv, HandFrames
<1>5. Dist(Oldest, Oldest) = 0 /\ Oldest \in Desc /\ ~own[Oldest]
  BY <1>0, <1>1, DistNxt, WindowFacts
<1>6. LastGiven < F /\ F <= frame /\ (Busy => F < frame)
  BY <1>0, <1>5 DEF FrameInv, HandFrames, EngineFrames, HeldFrames
<1>7. \A d \in Desc : ~own[d] /\ Dist(Oldest, d) >= Held => F < buf[d].frame
  BY <1>0 DEF FrameInv, HeldFrames
<1> HIDE DEF F
<1>8. /\ Len(p') = Len(p) + 1 /\ DOMAIN p' = 1 .. Len(p) + 1
      /\ \A k \in 1 .. Len(p) : p'[k] = [frame |-> F, seg |-> k]
      /\ p'[Len(p) + 1] = [frame |-> F, seg |-> Len(p) + 1]
  <2>1. \A k \in 1 .. Len(p) : p[k] = [frame |-> F, seg |-> k]
    BY <1>4 DEF ChunksOf
  <2>2. Len(p') = Len(p) + 1 /\ DOMAIN p' = 1 .. Len(p) + 1
    BY <1>0, <1>1, <1>3
  <2>3. \A k \in 1 .. Len(p) : p'[k] = p[k]
    BY <1>0, <1>1
  <2>4. p'[Len(p) + 1] = buf[dmarxdesc]
    BY <1>0, <1>1
  <2> QED BY <1>3, <2>1, <2>2, <2>3, <2>4
<1>9. \A k \in 1 .. Len(p) + 1 : p'[k] = [frame |-> F, seg |-> k]
  <2> SUFFICES ASSUME NEW k \in 1 .. Len(p) + 1 PROVE p'[k] = [frame |-> F, seg |-> k]
    OBVIOUS
  <2>1. CASE k = Len(p) + 1
    BY <1>8, <2>1
  <2>2. CASE k # Len(p) + 1
    <3>1. k \in 1 .. Len(p)
      BY <1>0, <2>2
    <3> QED BY <1>8, <3>1
  <2> QED BY <2>1, <2>2
<1>10. p' = ChunksOf(F, Len(p)')
  <2>1. p' = [k \in 1 .. Len(p) + 1 |-> p'[k]]
    BY <1>0, <1>1, <1>8
  <2> QED BY <1>8, <1>9, <2>1 DEF ChunksOf
<1>11. p'[1].frame = F /\ p' # <<>>
  <2>1. 1 \in 1 .. Len(p) + 1
    BY <1>0
  <2>2. p'[1].frame = F
    <3>1. p'[1] = [frame |-> F, seg |-> 1]
      BY <1>9, <2>1
    <3> QED BY <3>1
  <2>3. p' # <<>>
    BY <1>0, <1>8
  <2> QED BY <2>2, <2>3
<1>12. Latest' = F
  BY <1>11 DEF Latest
<1>13. RingFrames' /\ EngineFrames'
  <2>1. RingFrames'
    BY <1>1 DEF FrameInv, RingFrames
  <2>2. EngineFrames'
    BY <1>1, <1>6, <1>12 DEF FrameInv, EngineFrames, frame
  <2> QED BY <2>1, <2>2
<1>14. HeldFrames'
  BY <1>0, <1>1 DEF FrameInv, HeldFrames, frame
<1>15. HandFrames'
  <2>1. buf[Oldest]'.frame = F
    BY <1>1 DEF F
  <2>2. p' = ChunksOf(buf[Oldest].frame, Len(p))'
    BY <1>10, <2>1
  <2> QED BY <1>0, <1>1, <1>6, <1>7, <1>10, <1>11, <1>12, <2>2 DEF FrameInv, HandFrames
<1>16. GivenInv'
  BY <1>1 DEF FrameInv, GivenInv, GivenInOrder
<1> QED BY <1>13, <1>14, <1>15, <1>16 DEF FrameInv

\* A frame is lost, or its reception starts, with a number above all others.
LEMMA ArriveFrames ==
  ASSUME IInv, FrameInv, NEW k, NEW pay, FrameStart(k, pay) \/ FrameLost(k, pay)
  PROVE  FrameInv'
<1>1. /\ own' = own /\ status' = status /\ buf' = buf /\ cur' = cur /\ Oldest' = Oldest
      /\ Held' = Held /\ ~Busy /\ dma' # "close" /\ Latest' = Latest
      /\ LastGiven' = LastGiven /\ p' = p /\ given' = given /\ pc' = pc
  BY DEF FrameStart, FrameLost, hwvars, cpuvars, Oldest, Held, Busy, Latest, LastGiven
<1>2. frame' = frame + 1
  BY DEF FrameStart, FrameLost, Arrive, frame, IInv, TypeOK
<1>3. /\ frame \in Nat /\ LastGiven \in Nat /\ Latest \in Nat
      /\ Oldest \in Desc /\ \A d \in Desc : buf[d].frame \in Nat
  BY FrameTypes DEF IInv, FrameInv
<1>4. RingFrames'
  BY <1>1 DEF FrameInv, RingFrames
<1>5. EngineFrames'
  BY <1>1, <1>2, <1>3 DEF FrameInv, EngineFrames
<1>6. HeldFrames'
  <2>1. buf[Oldest].frame <= frame \/ own[Oldest]
    BY <1>3 DEF FrameInv, EngineFrames
  <2>2. pc \in {"alloc", "copy"} => ~own[Oldest]
    <3> PICK c \in 0 .. N : Window(c) /\ Segments(c)
      BY DEF IInv, RingInv
    <3>1. pc \in {"alloc", "copy"} => SegCount >= 1 /\ SegCount \in Nat
      BY DEF IInv, DriverInv, TypeOK
    <3>2. pc \in {"alloc", "copy"} => Dist(Oldest, Oldest) = 0 /\ Held >= 1
      BY <1>3, <3>1, DistNxt DEF Held
    <3> QED BY <1>3, <3>2, WindowFacts
  <2>3. pc \in {"alloc", "copy"} => buf[Oldest].frame < frame'
    BY <1>2, <1>3, <2>1, <2>2
  <2> HIDE DEF Held
  <2> QED BY <1>1, <2>3 DEF FrameInv, HeldFrames
<1>7. HandFrames'
  BY <1>1 DEF FrameInv, HandFrames
<1>8. GivenInv'
  BY <1>1 DEF FrameInv, GivenInv, GivenInOrder
<1> QED BY <1>4, <1>5, <1>6, <1>7, <1>8 DEF FrameInv

\* The engine writes into a descriptor outside the window.
LEMMA FillFrames == IInv /\ FrameInv /\ DmaFill => FrameInv'
<1> SUFFICES ASSUME IInv, FrameInv, DmaFill PROVE FrameInv'
  OBVIOUS
<1> PICK c \in 0 .. N : Window(c) /\ Segments(c)
  BY DEF IInv, RingInv
<1>1. /\ own' = own /\ status' = status /\ cur' = cur /\ Oldest' = Oldest
      /\ Held' = Held /\ Busy /\ Busy' /\ Latest' = Latest /\ wire' = wire
      /\ LastGiven' = LastGiven /\ p' = p /\ given' = given /\ pc' = pc
  BY DEF DmaFill, cpuvars, Oldest, Held, Busy, Latest, LastGiven
<1>2. Oldest \in Desc /\ cur \in Desc /\ own[cur]
  <2>1. Oldest \in Desc /\ cur \in Desc
    BY DEF IInv, TypeOK, Oldest
  <2> QED BY <2>1, PlusFacts DEF DmaFill, Window
<1>3. /\ buf'[cur] = [frame |-> frame, seg |-> seg]
      /\ \A d \in Desc : d # cur => buf'[d] = buf[d]
  BY <1>2 DEF DmaFill, IInv, TypeOK, DescriptorsOK
<1>4. \A d \in Desc : ~own[d] => buf'[d] = buf[d]
  BY <1>2, <1>3
<1>5. \A d \in Desc : Dist(Oldest, d) < Held => ~own[d]
  BY WindowFacts
<1>6. RingFrames'
  BY <1>1, <1>4 DEF FrameInv, RingFrames
<1>7. EngineFrames'
  BY <1>1, <1>3, <1>4 DEF FrameInv, EngineFrames, frame
<1>8. pc \in {"alloc", "copy"} \/ (pc = "poll" /\ Held > 0) => ~own[Oldest]
  <2>1. pc \in {"alloc", "copy"} => SegCount >= 1 /\ SegCount \in Nat
    BY DEF IInv, DriverInv, TypeOK
  <2>2. pc \in {"alloc", "copy"} => Held > 0
    BY <2>1 DEF Held
  <2>3. Dist(Oldest, Oldest) = 0
    BY <1>2, DistNxt
  <2> QED BY <1>2, <1>5, <2>2, <2>3
<1>9. pc \in {"poll", "alloc", "copy"} =>
         \A d \in Desc : Dist(Oldest, d) < Held => buf'[d] = buf[d] /\ buf'[Oldest] = buf[Oldest]
  <2> SUFFICES ASSUME pc \in {"poll", "alloc", "copy"}, NEW d \in Desc, Dist(Oldest, d) < Held
               PROVE  buf'[d] = buf[d] /\ buf'[Oldest] = buf[Oldest]
    OBVIOUS
  <2>1. Dist(Oldest, d) \in Nat /\ Held \in Nat
    BY WindowFacts
  <2>2. Held > 0
    BY <2>1
  <2> QED BY <1>2, <1>4, <1>5, <1>8, <2>2
<1>10. HeldFrames'
  <2>1. pc \in {"alloc", "copy"} => buf'[Oldest] = buf[Oldest]
    BY <1>2, <1>4, <1>8
  <2> QED BY <1>1, <1>4, <1>9, <2>1 DEF FrameInv, HeldFrames, frame
<1>11. HandFrames'
  BY <1>1, <1>2, <1>4, <1>8 DEF FrameInv, HandFrames
<1>12. GivenInv'
  BY <1>1 DEF FrameInv, GivenInv, GivenInOrder
<1> QED BY <1>6, <1>7, <1>10, <1>11, <1>12 DEF FrameInv

\* The oldest descriptor leaves the window; what is in hand stays.
LEMMA ReleaseFrames == IInv /\ FrameInv /\ ReleaseDesc => FrameInv'
<1> SUFFICES ASSUME IInv, FrameInv, ReleaseDesc PROVE FrameInv'
  OBVIOUS
<1> PICK c \in 0 .. N : Window(c) /\ Segments(c)
  BY DEF IInv, RingInv
<1>0. SegCount \in Nat /\ i \in Nat /\ i < SegCount /\ dmarxdesc \in Desc
  BY DEF IInv, TypeOK, ReleaseDesc
<1>1. /\ status' = status /\ buf' = buf /\ cur' = cur /\ Oldest = dmarxdesc
      /\ Oldest' = Nxt(Oldest) /\ Held' = Held - 1 /\ Held \in Nat /\ Held > 0
      /\ Busy' = Busy /\ dma' = dma /\ wire' = wire /\ Latest' = Latest
      /\ LastGiven' = LastGiven /\ p' = p /\ given' = given /\ pc' = "release"
  BY <1>0 DEF ReleaseDesc, hwvars, Oldest, Held, Busy, Latest, LastGiven
<1>2. \A d \in Desc : ~own'[d] => d # Oldest /\ ~own[d] /\ Dist(Oldest', d) = Dist(Oldest, d) - 1
                                   /\ Dist(Oldest, d) \in Nat
  <2>1. \A d \in Desc : ~own'[d] => d # Oldest /\ ~own[d]
    BY <1>0, <1>1 DEF ReleaseDesc, IInv, TypeOK, DescriptorsOK
  <2> QED BY <1>0, <1>1, <2>1, DistNxt, DistType
<1>3. RingFrames'
  <2> SUFFICES ASSUME NEW d \in Desc, NEW e \in Desc, ~own'[d], ~own'[e]
      PROVE /\ Dist(Oldest', d) < Dist(Oldest', e) =>
                 /\ buf[d].frame <= buf[e].frame
                 /\ status[d].ls => buf[d].frame < buf[e].frame
            /\ Dist(Oldest', e) = Dist(Oldest', d) + 1 /\ ~status[d].ls =>
                 buf[e].frame = buf[d].frame
    BY <1>1 DEF RingFrames
  <2>1. /\ Dist(Oldest', d) < Dist(Oldest', e) => Dist(Oldest, d) < Dist(Oldest, e)
        /\ Dist(Oldest', e) = Dist(Oldest', d) + 1 => Dist(Oldest, e) = Dist(Oldest, d) + 1
    BY <1>2
  <2> QED BY <1>2, <2>1 DEF FrameInv, RingFrames
<1>4. EngineFrames'
  BY <1>1, <1>2 DEF FrameInv, EngineFrames, frame
<1>5. HeldFrames'
  BY <1>1 DEF HeldFrames
<1>6. HandFrames'
  <2>1. \A d \in Desc : ~own'[d] /\ Dist(Oldest', d) >= Held' => Dist(Oldest, d) >= Held /\ ~own[d]
    BY <1>1, <1>2
  <2> QED BY <1>1, <2>1 DEF FrameInv, HandFrames
<1>7. GivenInv'
  BY <1>1 DEF FrameInv, GivenInv, GivenInOrder
<1> QED BY <1>3, <1>4, <1>5, <1>6, <1>7 DEF FrameInv

\* The engine closes its descriptor: it joins the window as its youngest.
LEMMA CloseFrames == IInv /\ FrameInv /\ DmaClose => FrameInv'
<1> SUFFICES ASSUME IInv, FrameInv, DmaClose PROVE FrameInv'
  OBVIOUS
<1> PICK c \in 0 .. N : Window(c) /\ Segments(c)
  BY DEF IInv, RingInv
<1> DEFINE ends == seg = wire[frame].segs \/ ~nextOwned
<1>1. /\ buf' = buf /\ cur' = Nxt(cur) /\ Oldest' = Oldest /\ Held' = Held
      /\ Busy /\ Latest' = Latest /\ wire' = wire /\ frame' = frame
      /\ LastGiven' = LastGiven /\ p' = p /\ given' = given /\ pc' = pc
      /\ dma' # "close" /\ buf[cur].frame = frame
  BY DEF DmaClose, cpuvars, Oldest, Held, Busy, Latest, LastGiven, frame, FrameInv, EngineFrames
<1>2. Busy' <=> ~ends
  BY DEF DmaClose, Busy
<1>3. Oldest \in Desc /\ cur \in Desc /\ Nxt(cur) \in Desc /\ Nxt(cur) # cur
  BY NxtType DEF IInv, TypeOK, Oldest
<1>4. c < N /\ Dist(Oldest, cur) = c
  BY <1>3, PlusFacts, NAssumption DEF DmaClose, Window
<1>5. /\ \A d \in Desc : d # cur => status'[d] = status[d] /\ own'[d] = own[d]
      /\ ~own'[cur] /\ (status'[cur].ls <=> ends)
  BY <1>3 DEF DmaClose, IInv, TypeOK, DescriptorsOK
<1> HIDE DEF ends
<1>6. /\ Held \in Nat /\ Held <= c
      /\ \A d \in Desc : Dist(Oldest, d) \in Nat /\ (~own[d] <=> Dist(Oldest, d) < c)
      /\ \A d \in Desc : Dist(Oldest, d) < Held => ~own[d]
  BY WindowFacts
<1>7. own[cur]
  BY <1>3, <1>4, <1>6
<1>8. \A d \in Desc : ~own'[d] /\ d # cur => ~own[d] /\ Dist(Oldest, d) < c /\ status'[d] = status[d]
  BY <1>5, <1>6
<1>9. \A d \in Desc : Dist(Oldest, d) < Held => d # cur /\ status'[d] = status[d]
  BY <1>3, <1>5, <1>6, <1>7
<1>10. /\ frame \in Nat /\ LastGiven \in Nat /\ Latest \in Nat
       /\ \A d \in Desc : buf[d].frame \in Nat
  BY FrameTypes DEF IInv, FrameInv
<1>11. RingFrames'
  <2> SUFFICES ASSUME NEW d \in Desc, NEW e \in Desc, ~own'[d], ~own'[e]
      PROVE /\ Dist(Oldest, d) < Dist(Oldest, e) =>
                 /\ buf[d].frame <= buf[e].frame
                 /\ status'[d].ls => buf[d].frame < buf[e].frame
            /\ Dist(Oldest, e) = Dist(Oldest, d) + 1 /\ ~status'[d].ls =>
                 buf[e].frame = buf[d].frame
    BY <1>1 DEF RingFrames
  <2>1. CASE d # cur /\ e # cur
    BY <1>8, <2>1 DEF FrameInv, RingFrames
  <2>2. CASE d = cur
    <3>1. Dist(Oldest, e) <= Dist(Oldest, d)
      BY <1>3, <1>4, <1>6, <1>8, <2>2
    <3> QED BY <1>6, <3>1
  <2>3. CASE d # cur /\ e = cur
    <3>1. ~own[d] /\ status'[d] = status[d] /\ buf[e].frame = frame
      BY <1>1, <1>8, <2>3
    <3>2. Dist(Oldest, e) = Dist(Oldest, d) + 1 => Nxt(d) = cur
      <4> SUFFICES ASSUME c = Dist(Oldest, d) + 1 PROVE Nxt(d) = cur
        BY <1>4, <2>3
      <4>1. Dist(Oldest, Nxt(d)) = c /\ Nxt(d) \in Desc
        BY <1>3, <1>4, DistNxt, NxtType
      <4> QED BY <1>3, <1>4, <4>1, DistPlus
    <3> QED BY <1>1, <3>1, <3>2 DEF FrameInv, EngineFrames
  <2> QED BY <2>1, <2>2, <2>3
<1>12. EngineFrames'
  <2> SUFFICES ASSUME NEW d \in Desc, ~own'[d]
      PROVE /\ buf[d].frame <= frame
            /\ Busy' /\ status'[d].ls => buf[d].frame < frame
            /\ Nxt(d) = cur' => status'[d].ls \/ (Busy' /\ buf[d].frame = frame)
    BY <1>1 DEF FrameInv, EngineFrames
  <2>1. CASE d = cur
    BY <1>1, <1>2, <1>5, <1>10, <2>1
  <2>2. CASE d # cur
    <3>1. Nxt(d) # Nxt(cur)
      BY <1>3, <2>2, NAssumption DEF Nxt, Desc
    <3> QED BY <1>1, <1>8, <2>2, <3>1 DEF FrameInv, EngineFrames
  <2> QED BY <2>1, <2>2
<1>13. HeldFrames'
  <2>1. pc \in {"alloc", "copy"} => buf[Oldest].frame < frame
    BY <1>1 DEF FrameInv, HeldFrames
  <2>2. ASSUME pc \in {"alloc", "copy"}, NEW d \in Desc, ~own'[d], Dist(Oldest, d) >= Held
        PROVE  buf[Oldest].frame < buf[d].frame
    <3>1. CASE d = cur
      BY <1>1, <2>1, <2>2, <3>1
    <3>2. CASE d # cur
      BY <1>8, <2>2, <3>2 DEF FrameInv, HeldFrames
    <3> QED BY <3>1, <3>2
  <2> QED BY <1>1, <1>9, <2>1, <2>2 DEF FrameInv, HeldFrames
<1>14. HandFrames'
  <2>1. LastGiven <= Latest
    BY <1>10 DEF FrameInv, HandFrames, Latest
  <2>2. LastGiven < frame /\ Latest < frame
    BY <1>1, <1>10, <2>1 DEF FrameInv, EngineFrames
  <2>3. ASSUME NEW d \in Desc, ~own'[d]
        PROVE  /\ pc \in {"poll", "alloc", "copy"} => LastGiven < buf[d].frame
               /\ Dist(Oldest, d) >= Held => Latest < buf[d].frame
    <3>1. CASE d = cur
      BY <1>1, <2>2, <3>1
    <3>2. CASE d # cur
      BY <1>8, <2>3, <3>2 DEF FrameInv, HandFrames
    <3> QED BY <3>1, <3>2
  <2> QED BY <1>1, <2>3 DEF FrameInv, HandFrames
<1>15. GivenInv'
  BY <1>1 DEF FrameInv, GivenInv, GivenInOrder
<1> QED BY <1>11, <1>12, <1>13, <1>14, <1>15 DEF FrameInv

\* The descriptor that the driver finds continues the frame it is collecting.
LEMMA PollFrames ==
  ASSUME IInv, FrameInv, NEW c \in 0 .. N, Window(c), Segments(c), pc = "poll", ~own[RxDesc]
  PROVE  \A d \in Desc : Dist(Oldest, d) < Held + 1 =>
           /\ d # RxDesc => Dist(Oldest, d) < Held
           /\ buf[d] = [frame |-> buf[Oldest].frame, seg |-> Dist(Oldest, d) + 1]
<1>1. /\ Oldest \in Desc /\ RxDesc \in Desc
      /\ Held = SegCount /\ SegCount \in Nat /\ Held < c /\ Held < N
      /\ Dist(Oldest, RxDesc) = Held
      /\ buf[RxDesc].seg = SegCount + 1
  BY PollFacts
<1>2. \A d \in Desc : Dist(Oldest, d) \in Nat /\ (~own[d] <=> Dist(Oldest, d) < c)
  BY WindowFacts
<1>3. \A d \in Desc : Dist(Oldest, d) = Held => d = RxDesc
  BY <1>1, DistPlus
<1>4. buf[RxDesc].frame = buf[Oldest].frame
  <2>1. CASE Held = 0
    <3>1. RxDesc = Oldest
      BY <1>1, <2>1, DistNxt
    <3> QED BY <3>1
  <2>2. CASE Held # 0
    <3> DEFINE d == Plus(Oldest, Held - 1)
    <3>1. d \in Desc /\ Dist(Oldest, d) = Held - 1
      BY <1>1, <2>2, PlusFacts, NAssumption
    <3> HIDE DEF d
    <3>2. Dist(Oldest, d) < Held /\ Dist(Oldest, RxDesc) = Dist(Oldest, d) + 1 /\ Dist(Oldest, d) < c
      BY <1>1, <3>1
    <3>3. ~own[d] /\ ~status[d].ls /\ buf[d].frame = buf[Oldest].frame
      <4>1. ~own[d]
        BY <1>2, <3>1, <3>2
      <4>2. ~status[d].ls
        BY <3>1, <3>2 DEF FrameInv, HeldFrames
      <4>3. buf[d] = [frame |-> buf[Oldest].frame, seg |-> Dist(Oldest, d) + 1]
        BY <3>1, <3>2 DEF FrameInv, HeldFrames
      <4>4. buf[d].frame = buf[Oldest].frame
        BY <4>3
      <4> QED BY <4>1, <4>2, <4>4
    <3> QED BY <1>1, <3>1, <3>2, <3>3 DEF FrameInv, RingFrames
  <2> QED BY <2>1, <2>2
<1>5. buf[RxDesc] \in Chunk
  BY <1>1 DEF IInv, TypeOK, DescriptorsOK
<1>6. buf[RxDesc] = [frame |-> buf[Oldest].frame, seg |-> Dist(Oldest, RxDesc) + 1]
  BY <1>1, <1>4, <1>5 DEF Chunk
<1>7. \A d \in Desc : Dist(Oldest, d) < Held + 1 => Dist(Oldest, d) < Held \/ d = RxDesc
  BY <1>1, <1>2, <1>3
<1> QED BY <1>6, <1>7 DEF FrameInv, HeldFrames

\* HAL_ETH_GetReceivedFrame() counts a segment, or finds the last one.
LEMMA GetFrames ==
  ASSUME IInv, FrameInv, GetReceivedFrameLast \/ GetReceivedFrameMore
  PROVE  FrameInv'
<1> PICK c \in 0 .. N : Window(c) /\ Segments(c)
  BY DEF IInv, RingInv
<1>1. pc = "poll" /\ ~own[RxDesc]
  BY DEF GetReceivedFrameLast, GetReceivedFrameMore
<1>2. /\ Oldest \in Desc /\ RxDesc \in Desc
      /\ Held = SegCount /\ SegCount \in Nat /\ Held < c /\ Held < N
      /\ Dist(Oldest, RxDesc) = Held
      /\ buf[RxDesc].seg = SegCount + 1
  BY <1>1, PollFacts
<1>3. /\ own' = own /\ status' = status /\ buf' = buf /\ cur' = cur
      /\ Busy' = Busy /\ dma' = dma /\ wire' = wire /\ Latest' = Latest
      /\ LastGiven' = LastGiven /\ p' = p /\ given' = given
  BY DEF GetReceivedFrameLast, GetReceivedFrameMore, hwvars, Busy, Latest, LastGiven
<1>4. \/ pc' = "alloc" /\ status[RxDesc].ls
      \/ pc' = "poll" /\ ~status[RxDesc].ls
  BY <1>1 DEF GetReceivedFrameLast, GetReceivedFrameMore
<1>5. status[RxDesc].fs <=> SegCount = 0
  <2>1. status[RxDesc].fs <=> buf[RxDesc].seg = 1
    BY <1>2 DEF Segments, SegStatus
  <2> QED BY <1>2, <2>1
<1>6. SegCount' = SegCount + 1 /\ FSRxDesc' = IF SegCount = 0 THEN RxDesc ELSE FSRxDesc
  BY <1>2, <1>5 DEF GetReceivedFrameLast, GetReceivedFrameMore
<1>7. Held' = Held + 1 /\ Oldest' = Oldest
  BY <1>1, <1>2, <1>4, <1>6 DEF Held, Oldest
<1>8. \A d \in Desc : Dist(Oldest, d) < Held + 1 =>
        /\ d # RxDesc => Dist(Oldest, d) < Held
        /\ buf[d] = [frame |-> buf[Oldest].frame, seg |-> Dist(Oldest, d) + 1]
  BY <1>1, PollFrames
<1>9. \A d \in Desc : Dist(Oldest, d) \in Nat
  BY <1>2, DistType
<1>10. buf[RxDesc].frame = buf[Oldest].frame
  <2>1. buf[RxDesc] = [frame |-> buf[Oldest].frame, seg |-> Dist(Oldest, RxDesc) + 1]
    BY <1>2, <1>8
  <2> QED BY <2>1
<1>11. RingFrames' /\ EngineFrames'
  BY <1>3, <1>7, FramesSame DEF FrameInv
<1>12. \A d \in Desc : Dist(Oldest, d) >= Held + 1 =>
         Dist(Oldest, d) >= Held /\ Dist(Oldest, RxDesc) < Dist(Oldest, d)
  BY <1>2, <1>9
<1>13. HeldFrames'
  <2>1. pc' = "poll" => \A d \in Desc : Dist(Oldest, d) < Held + 1 => ~status[d].ls
    BY <1>1, <1>4, <1>8 DEF FrameInv, HeldFrames
  <2>2. pc' = "alloc" =>
          /\ \A d \in Desc : ~own[d] /\ Dist(Oldest, d) >= Held + 1 => buf[Oldest].frame < buf[d].frame
          /\ Busy => buf[Oldest].frame < frame
    BY <1>1, <1>2, <1>4, <1>10, <1>12 DEF FrameInv, RingFrames, EngineFrames
  <2>3. pc' # "copy" /\ frame' = frame
    BY <1>3, <1>4 DEF frame
  <2> QED BY <1>3, <1>7, <1>8, <2>1, <2>2, <2>3 DEF HeldFrames
<1>14. HandFrames'
  <2>1. pc' # "copy"
    BY <1>4
  <2> QED BY <1>1, <1>3, <1>7, <1>12, <2>1 DEF FrameInv, HandFrames
<1>15. GivenInv'
  BY <1>3 DEF FrameInv, GivenInv, GivenInOrder
<1> QED BY <1>11, <1>13, <1>14, <1>15 DEF FrameInv

\* Every step keeps the order of the frames.
LEMMA NextFrames == IInv /\ FrameInv /\ [Next]_vars => FrameInv'
<1> SUFFICES ASSUME IInv, FrameInv, [Next]_vars PROVE FrameInv'
  OBVIOUS
<1>1. CASE Cpu
  BY <1>1, StutterFrames, GetFrames, AllocOkFrames, AllocFailFrames, CopyFrames,
     ReleaseFrames, ClearFrames, ReturnFrames
  DEF Cpu, GetReceivedFrameNone
<1>2. CASE DmaStep
  BY <1>2, FillFrames, CloseFrames DEF DmaStep
<1>3. CASE Wire
  BY <1>3, ArriveFrames DEF Wire
<1>4. CASE UNCHANGED vars
  BY <1>4, StutterFrames
<1> QED BY <1>1, <1>2, <1>3, <1>4 DEF Next

\* What is handed to netif->input() is the beginning of one frame, in order and
\* unmixed, and frames are handed up in the order of the wire, none twice,
\* whatever the DMA does between two reads of the driver.
THEOREM HandedUpInOrder == Spec => []GivenInOrder
<1>1. Init => FrameInv
  BY InitFrames
<1>2. IInv /\ FrameInv /\ [Next]_vars => FrameInv'
  BY NextFrames
<1>3. FrameInv => GivenInOrder
  BY DEF FrameInv, GivenInv
<1> QED BY <1>1, <1>2, <1>3, RingInvariant, PTL DEF Spec

----------------------------------------------------------------------------
(* The queue that the ring implements.  FramesFrom() is a recursion over the *)
(* descriptors of the window: closing a descriptor continues it at its end,  *)
(* and the driver's next descriptor takes one away at its beginning.         *)

\* The frame that descriptor d ends, and the beginning of such a recursion
Ended(st, bf, d) == ChunksOf(bf[d].frame, st[d].pay)

IsFrames(st, bf, a, m, f) ==
  f = [n \in 0 .. m |->
        IF n = 0 THEN <<>>
        ELSE LET d == Plus(a, n - 1)
             IN  IF st[d].ls THEN Append(f[n - 1], ChunksOf(bf[d].frame, st[d].pay))
                 ELSE f[n - 1]]

\* There is a least number in a set that is not empty.
LEMMA LeastNat ==
  ASSUME NEW T, T \subseteq Nat, T # {}
  PROVE  \E x \in T : \A y \in T : x <= y
<1>1. IsWellFoundedOn(OpToRel(<, Nat), Nat)
  BY NatLessThanWellFounded
<1>2. PICK x \in T : \A y \in T : ~(<<y, x>> \in OpToRel(<, Nat))
  BY <1>1, WFMin
<1>3. \A y \in T : ~(y < x)
  BY <1>2 DEF OpToRel
<1> QED BY <1>3

\* Every recursion over n - 1 descriptors continues over n.
LEMMA FramesExist ==
  ASSUME NEW st, NEW bf, NEW a
  PROVE  \A m \in Nat : \E f : IsFrames(st, bf, a, m, f)
<1> DEFINE Good(m) == \E f : IsFrames(st, bf, a, m, f)
           T == {m \in Nat : ~Good(m)}
<1> SUFFICES ASSUME T # {} PROVE FALSE
  OBVIOUS
<1>1. PICK m \in T : \A y \in T : m <= y
  <2> HIDE DEF Good
  <2> QED BY LeastNat
<1>2. CASE m = 0
  <2>1. IsFrames(st, bf, a, 0, [n \in 0 .. 0 |-> <<>>])
    BY DEF IsFrames
  <2> QED BY <1>1, <1>2, <2>1
<1>3. CASE m # 0
  <2>1. m \in Nat /\ m - 1 \in Nat /\ m - 1 < m
    BY <1>3
  <2>2. m - 1 \notin T
    BY <1>1, <2>1
  <2>3. PICK g : IsFrames(st, bf, a, m - 1, g)
    BY <2>1, <2>2
  <2> DEFINE New(f, n) == IF st[Plus(a, n - 1)].ls
                            THEN Append(f, Ended(st, bf, Plus(a, n - 1))) ELSE f
             h == [n \in 0 .. m |-> IF n = m THEN New(g[m - 1], m) ELSE g[n]]
  <2>4. \A n \in 0 .. m - 1 : g[n] = IF n = 0 THEN <<>> ELSE New(g[n - 1], n)
    BY <2>3 DEF IsFrames, Ended
  <2> HIDE DEF New
  <2>5. \A n \in 0 .. m : h[n] = IF n = 0 THEN <<>> ELSE New(h[n - 1], n)
    <3> SUFFICES ASSUME NEW n \in 0 .. m PROVE h[n] = IF n = 0 THEN <<>> ELSE New(h[n - 1], n)
      OBVIOUS
    <3>1. CASE n = m
      <4>1. h[m] = New(g[m - 1], m) /\ h[m - 1] = g[m - 1]
        BY <2>1
      <4> QED BY <1>3, <3>1, <4>1
    <3>2. CASE n # m
      <4>1. n \in 0 .. m - 1 /\ h[n] = g[n] /\ (n # 0 => h[n - 1] = g[n - 1])
        BY <2>1, <3>2
      <4> QED BY <2>4, <4>1
    <3> QED BY <3>1, <3>2
  <2>6. h = [n \in 0 .. m |-> h[n]]
    OBVIOUS
  <2> HIDE DEF h
  <2>7. h = [n \in 0 .. m |-> IF n = 0 THEN <<>> ELSE New(h[n - 1], n)]
    BY <2>5, <2>6
  <2>8. IsFrames(st, bf, a, m, h)
    BY <2>7 DEF IsFrames, New, Ended
  <2> QED BY <1>1, <2>8
<1> QED BY <1>2, <1>3

\* What the recursion computes, one descriptor at a time
LEMMA FramesFacts ==
  ASSUME NEW st, NEW bf, NEW a
  PROVE  /\ FramesFrom(st, bf, a)[0] = <<>>
         /\ \A n \in 1 .. N :
              FramesFrom(st, bf, a)[n] =
                IF st[Plus(a, n - 1)].ls
                  THEN Append(FramesFrom(st, bf, a)[n - 1], Ended(st, bf, Plus(a, n - 1)))
                  ELSE FramesFrom(st, bf, a)[n - 1]
<1> DEFINE F == FramesFrom(st, bf, a)
<1>1. F = CHOOSE f : IsFrames(st, bf, a, N, f)
  BY DEF FramesFrom, IsFrames
<1>2. \E f : IsFrames(st, bf, a, N, f)
  BY FramesExist, NAssumption
<1> HIDE DEF F
<1>3. IsFrames(st, bf, a, N, F)
  BY <1>1, <1>2
<1>4. \A n \in 0 .. N :
        F[n] = IF n = 0 THEN <<>>
               ELSE IF st[Plus(a, n - 1)].ls
                      THEN Append(F[n - 1], Ended(st, bf, Plus(a, n - 1))) ELSE F[n - 1]
  BY <1>3 DEF IsFrames, Ended
<1>5. F[0] = <<>>
  BY <1>4, NAssumption
<1>6. \A n \in 1 .. N : n \in 0 .. N /\ n # 0
  OBVIOUS
<1>7. \A n \in 1 .. N :
        F[n] = IF st[Plus(a, n - 1)].ls
                 THEN Append(F[n - 1], Ended(st, bf, Plus(a, n - 1))) ELSE F[n - 1]
  BY <1>4, <1>6
<1> QED BY <1>5, <1>7 DEF F

\* The frames of n descriptors are a sequence of at most n.
LEMMA FramesType ==
  ASSUME NEW st, NEW bf, NEW a \in Desc, NEW n \in 0 .. N
  PROVE  /\ FramesFrom(st, bf, a)[n] \in Seq({Ended(st, bf, d) : d \in Desc})
         /\ Len(FramesFrom(st, bf, a)[n]) <= n
<1> DEFINE F == FramesFrom(st, bf, a)
           S == {Ended(st, bf, d) : d \in Desc}
           T == {m \in Nat : m <= N /\ ~(F[m] \in Seq(S) /\ Len(F[m]) <= m)}
<1>1. /\ F[0] = <<>>
      /\ \A m \in 1 .. N :
           F[m] = IF st[Plus(a, m - 1)].ls
                    THEN Append(F[m - 1], Ended(st, bf, Plus(a, m - 1))) ELSE F[m - 1]
  BY FramesFacts
<1> HIDE DEF F
<1>2. T = {}
  <2> SUFFICES ASSUME T # {} PROVE FALSE
    OBVIOUS
  <2>1. PICK m \in T : \A y \in T : m <= y
    BY LeastNat
  <2>2. m \in Nat /\ m <= N /\ ~(F[m] \in Seq(S) /\ Len(F[m]) <= m)
    BY <2>1
  <2>3. CASE m = 0
    <3>1. F[m] = <<>>
      BY <1>1, <2>3
    <3>2. F[m] \in Seq(S) /\ Len(F[m]) = 0
      BY <3>1
    <3> QED BY <2>2, <2>3, <3>2
  <2>4. CASE m # 0
    <3>1. m \in 1 .. N /\ m - 1 \in Nat /\ m - 1 <= N /\ m - 1 < m /\ m - 1 \in 0 .. N
      BY <2>2, <2>4, NAssumption
    <3>2. m - 1 \notin T
      BY <2>1, <3>1
    <3>3. F[m - 1] \in Seq(S) /\ Len(F[m - 1]) <= m - 1
      BY <3>1, <3>2
    <3>4. Plus(a, m - 1) \in Desc
      BY <3>1, PlusFacts
    <3>5. Ended(st, bf, Plus(a, m - 1)) \in S
      BY <3>4
    <3> HIDE DEF S
    <3>6. CASE st[Plus(a, m - 1)].ls
      <4>1. F[m] = Append(F[m - 1], Ended(st, bf, Plus(a, m - 1)))
        BY <1>1, <3>1, <3>6
      <4>2. F[m] \in Seq(S) /\ Len(F[m]) = Len(F[m - 1]) + 1
        BY <3>3, <3>5, <4>1
      <4> QED BY <2>2, <3>3, <4>2
    <3>7. CASE ~st[Plus(a, m - 1)].ls
      <4>1. F[m] = F[m - 1]
        BY <1>1, <3>1, <3>7
      <4> QED BY <2>2, <3>3, <4>1
    <3> QED BY <3>6, <3>7
  <2> QED BY <2>3, <2>4
<1> QED BY <1>2, NAssumption DEF F

\* Two rings have the same status words and chunks in m descriptors from a on.
Alike(st, bf, st2, bf2, a, m) ==
  \A n \in 1 .. m : /\ st2[Plus(a, n - 1)] = st[Plus(a, n - 1)]
                    /\ bf2[Plus(a, n - 1)] = bf[Plus(a, n - 1)]

\* Only the descriptors of the window count.
LEMMA FramesAgree ==
  ASSUME NEW st, NEW bf, NEW st2, NEW bf2, NEW a, NEW m \in 0 .. N,
         Alike(st, bf, st2, bf2, a, m)
  PROVE  FramesFrom(st2, bf2, a)[m] = FramesFrom(st, bf, a)[m]
<1> DEFINE F == FramesFrom(st, bf, a)
           G == FramesFrom(st2, bf2, a)
           T == {n \in Nat : n <= m /\ G[n] # F[n]}
<1>1. /\ F[0] = <<>> /\ G[0] = <<>>
      /\ \A n \in 1 .. N :
           /\ F[n] = IF st[Plus(a, n - 1)].ls
                       THEN Append(F[n - 1], Ended(st, bf, Plus(a, n - 1))) ELSE F[n - 1]
           /\ G[n] = IF st2[Plus(a, n - 1)].ls
                       THEN Append(G[n - 1], Ended(st2, bf2, Plus(a, n - 1))) ELSE G[n - 1]
  BY FramesFacts
<1> HIDE DEF F, G
<1>2. T = {}
  <2> SUFFICES ASSUME T # {} PROVE FALSE
    OBVIOUS
  <2>1. PICK n \in T : \A y \in T : n <= y
    BY LeastNat
  <2>2. n \in Nat /\ n <= m /\ G[n] # F[n]
    BY <2>1
  <2>3. n # 0
    BY <1>1, <2>2
  <2>4. n \in 1 .. N /\ n \in 1 .. m /\ n - 1 \in Nat /\ n - 1 <= m /\ n - 1 < n
    BY <2>2, <2>3, NAssumption
  <2>5. G[n - 1] = F[n - 1]
    <3>1. n - 1 \notin T
      BY <2>1, <2>4
    <3> QED BY <2>4, <3>1
  <2>6. Ended(st2, bf2, Plus(a, n - 1)) = Ended(st, bf, Plus(a, n - 1))
        /\ st2[Plus(a, n - 1)] = st[Plus(a, n - 1)]
    BY <2>4 DEF Ended, Alike
  <2> QED BY <1>1, <2>2, <2>4, <2>5, <2>6
<1> QED BY <1>2, NAssumption DEF F, G

\* Without its first descriptor a window has lost the frame that this one ends,
\* if it ends one, and no other.
LEMMA FramesShift ==
  ASSUME NEW st, NEW bf, NEW a \in Desc, NEW m \in 1 .. N
  PROVE  /\ st[a].ls =>
              /\ FramesFrom(st, bf, a)[m] # <<>>
              /\ Head(FramesFrom(st, bf, a)[m]) = Ended(st, bf, a)
              /\ FramesFrom(st, bf, Nxt(a))[m - 1] = Tail(FramesFrom(st, bf, a)[m])
         /\ ~st[a].ls => FramesFrom(st, bf, Nxt(a))[m - 1] = FramesFrom(st, bf, a)[m]
<1> DEFINE F == FramesFrom(st, bf, a)
           G == FramesFrom(st, bf, Nxt(a))
           S == {Ended(st, bf, d) : d \in Desc}
           Good(n) == /\ st[a].ls =>
                           F[n] # <<>> /\ Head(F[n]) = Ended(st, bf, a) /\ G[n - 1] = Tail(F[n])
                      /\ ~st[a].ls => G[n - 1] = F[n]
           T == {n \in Nat : 1 <= n /\ n <= N /\ ~Good(n)}
<1>1. /\ F[0] = <<>> /\ G[0] = <<>>
      /\ \A n \in 1 .. N :
           /\ F[n] = IF st[Plus(a, n - 1)].ls
                       THEN Append(F[n - 1], Ended(st, bf, Plus(a, n - 1))) ELSE F[n - 1]
           /\ G[n] = IF st[Plus(Nxt(a), n - 1)].ls
                       THEN Append(G[n - 1], Ended(st, bf, Plus(Nxt(a), n - 1))) ELSE G[n - 1]
  BY FramesFacts
<1>2. \A n \in 0 .. N : F[n] \in Seq(S)
  BY FramesType
<1> HIDE DEF F, G, S
<1>3. T = {}
  <2> SUFFICES ASSUME T # {} PROVE FALSE
    OBVIOUS
  <2>1. PICK n \in T : \A y \in T : n <= y
    <3> HIDE DEF Good
    <3> QED BY LeastNat
  <2>2. n \in 1 .. N /\ ~Good(n)
    <3> HIDE DEF Good
    <3> QED BY <2>1, NAssumption
  <2>3. CASE n = 1
    <3>1. Plus(a, n - 1) = a /\ n - 1 = 0
      BY <2>3, PlusFacts, NAssumption
    <3>2. F[n] = IF st[a].ls THEN Append(<<>>, Ended(st, bf, a)) ELSE <<>>
      BY <1>1, <2>2, <3>1
    <3>3. G[n - 1] = <<>>
      BY <1>1, <3>1
    <3>4. /\ Append(<<>>, Ended(st, bf, a)) # <<>>
          /\ Head(Append(<<>>, Ended(st, bf, a))) = Ended(st, bf, a)
          /\ Tail(Append(<<>>, Ended(st, bf, a))) = <<>>
      OBVIOUS
    <3> QED BY <2>2, <3>2, <3>3, <3>4
  <2>4. CASE n # 1
    <3>1. n \in Nat /\ n - 1 \in 1 .. N /\ n - 1 \in 0 .. N /\ n - 1 < n /\ n - 2 < N /\ n - 2 \in 0 .. N
      BY <2>2, <2>4, NAssumption
    <3>2. Good(n - 1)
      <4>1. n - 1 \notin T
        <5> HIDE DEF Good
        <5> QED BY <2>1, <3>1
      <4> HIDE DEF Good
      <4> QED BY <3>1, <4>1
    <3>3. Plus(Nxt(a), n - 2) = Plus(a, n - 1) /\ Plus(a, n - 1) \in Desc
      <4>1. (n - 2) + 1 = n - 1
        BY <3>1
      <4> QED BY <3>1, <4>1, PlusFacts
    <3> DEFINE e == Ended(st, bf, Plus(a, n - 1))
    <3>4. F[n] = IF st[Plus(a, n - 1)].ls THEN Append(F[n - 1], e) ELSE F[n - 1]
      BY <1>1, <2>2
    <3>5. G[n - 1] = IF st[Plus(a, n - 1)].ls THEN Append(G[n - 2], e) ELSE G[n - 2]
      <4>1. (n - 1) - 1 = n - 2
        BY <3>1
      <4> QED BY <1>1, <3>1, <3>3, <4>1
    <3>6. (n - 1) - 1 = n - 2
      BY <3>1
    <3>7. F[n - 1] \in Seq(S)
      BY <1>2, <3>1
    <3>8. F[n - 1] # <<>> =>
            /\ Append(F[n - 1], e) # <<>>
            /\ Head(Append(F[n - 1], e)) = Head(F[n - 1])
            /\ Tail(Append(F[n - 1], e)) = Append(Tail(F[n - 1]), e)
      <4>1. e \in S
        BY <3>3 DEF S
      <4> HIDE DEF e
      <4>2. Append(F[n - 1], e) # <<>>
        BY <3>7, <4>1, AppendProperties
      <4> QED BY <3>7, <4>2, HeadTailAppend
    <3> HIDE DEF e
    <3>9. Good(n)
      BY <3>2, <3>4, <3>5, <3>6, <3>8
    <3> QED BY <2>2, <3>9
  <2> QED BY <2>3, <2>4
<1>4. Good(m)
  <2>1. m \in Nat /\ m \notin T
    BY <1>3, NAssumption
  <2> HIDE DEF Good
  <2> QED BY <2>1
<1> QED BY <1>4 DEF F, G

\* What the driver has not looked at is the rest of the window.
LEMMA UnreadFacts ==
  ASSUME IInv, NEW c \in 0 .. N, Window(c)
  PROVE  /\ Unread = c - Held /\ Unread \in 0 .. N
         /\ RxDesc \in Desc /\ (FullFrame <=> Held = N)
         /\ \A n \in 1 .. Unread : Plus(RxDesc, n - 1) \in Desc /\ ~own[Plus(RxDesc, n - 1)]
         /\ Unread < N => Plus(RxDesc, Unread) = cur
<1>1. /\ Held \in Nat /\ Held <= c /\ Oldest \in Desc /\ RxDesc \in Desc /\ cur \in Desc
      /\ N \in Nat /\ N >= 2 /\ c <= N /\ c \in Nat
      /\ \A d \in Desc : ~own[d] <=> Dist(Oldest, d) < c
  BY WindowFacts, NAssumption DEF IInv, TypeOK
<1>2. RxDesc = Plus(Oldest, Held) /\ cur = Plus(Oldest, c)
  BY DEF Window
<1>3. FullFrame <=> Held = N
  <2>1. SegCount \in 0 .. N /\ i \in 0 .. N /\ (pc = "release" => i <= SegCount)
    BY DEF IInv, TypeOK, DriverInv
  <2> QED BY <1>1, <2>1 DEF FullFrame, Held
<1>4. Unread = c - Held
  <2>1. CASE Held = N
    BY <1>1, <1>3, <2>1 DEF Unread
  <2>2. CASE Held < N
    <3>1. Dist(Oldest, RxDesc) = Held
      BY <1>1, <1>2, <2>2, PlusFacts
    <3>2. own[RxDesc] <=> Held = c
      BY <1>1, <3>1
    <3>3. CASE Held = c
      BY <1>1, <1>3, <2>2, <3>2, <3>3 DEF Unread
    <3>4. CASE Held < c
      <4>1. Unread = IF cur = RxDesc THEN N ELSE Dist(RxDesc, cur)
        BY <1>1, <1>3, <2>2, <3>2, <3>4 DEF Unread
      <4>2. cur = RxDesc => c - Held = N
        BY <1>1, <1>2, <2>2, <3>4 DEF Plus, Desc
      <4>3. cur # RxDesc => Dist(RxDesc, cur) = c - Held
        BY <1>1, <1>2, <2>2, <3>4 DEF Plus, Dist, Desc
      <4> QED BY <4>1, <4>2, <4>3
    <3> QED BY <1>1, <3>3, <3>4
  <2> QED BY <1>1, <2>1, <2>2
<1>5. ASSUME NEW n \in 1 .. Unread
      PROVE  Plus(RxDesc, n - 1) \in Desc /\ ~own[Plus(RxDesc, n - 1)]
  <2>1. n - 1 \in Nat /\ Held + (n - 1) < c /\ Held + (n - 1) < N /\ Held + (n - 1) \in 0 .. N
    BY <1>1, <1>4
  <2>2. Plus(RxDesc, n - 1) = Plus(Oldest, Held + (n - 1))
    BY <1>1, <1>2, <2>1 DEF Plus, Desc
  <2>3. Plus(Oldest, Held + (n - 1)) \in Desc /\ Dist(Oldest, Plus(Oldest, Held + (n - 1))) = Held + (n - 1)
    BY <1>1, <2>1, PlusFacts
  <2> QED BY <1>1, <2>1, <2>2, <2>3
<1>6. Unread < N => Plus(RxDesc, Unread) = cur
  BY <1>1, <1>2, <1>4 DEF Plus, Desc
<1> QED BY <1>1, <1>3, <1>4, <1>5, <1>6

\* The same of every state, and so of the state after a step
LEMMA UnreadIs == IInv => \A c \in 0 .. N : Window(c) => Unread = c - Held
BY UnreadFacts

\* The state after a step
LEMMA UnreadLater == (IInv => \A c \in 0 .. N : Window(c) => Unread = c - Held)'
BY UnreadIs, PTL

\* The window is determined by the descriptors that the DMA does not own.
LEMMA WindowUnique ==
  ASSUME IInv, IInv', NEW c \in 0 .. N, Window(c), own' = own, Oldest' = Oldest
  PROVE  Window(c)'
<1>1. PICK b \in 0 .. N : Window(b)'
  BY DEF IInv, RingInv
<1>2. /\ Oldest \in Desc /\ \A d \in Desc : own[d] <=> Dist(Oldest, d) >= c
      /\ \A d \in Desc : own[d] <=> Dist(Oldest, d) >= b
  BY <1>1 DEF Window, IInv, TypeOK, Oldest
<1>3. ~(b < c)
  <2> SUFFICES ASSUME b < c PROVE FALSE
    OBVIOUS
  <2>1. b < N /\ Plus(Oldest, b) \in Desc /\ Dist(Oldest, Plus(Oldest, b)) = b
    BY <1>2, PlusFacts, NAssumption
  <2> QED BY <1>2, <2>1
<1>4. ~(c < b)
  <2> SUFFICES ASSUME c < b PROVE FALSE
    OBVIOUS
  <2>1. c < N /\ Plus(Oldest, c) \in Desc /\ Dist(Oldest, Plus(Oldest, c)) = c
    BY <1>2, PlusFacts, NAssumption
  <2> QED BY <1>2, <2>1
<1>5. b = c
  BY <1>3, <1>4, NAssumption
<1> QED BY <1>1, <1>5

\* The queue stays the same while what is unread does.
LEMMA QueueSame ==
  ASSUME IInv, Unread' = Unread, RxDesc' = RxDesc,
         \A d \in Desc : ~own[d] => status'[d] = status[d] /\ buf'[d] = buf[d]
  PROVE  queueBar' = queueBar
<1> PICK c \in 0 .. N : Window(c)
  BY DEF IInv, RingInv
<1>1. /\ Unread \in 0 .. N
      /\ \A n \in 1 .. Unread : Plus(RxDesc, n - 1) \in Desc /\ ~own[Plus(RxDesc, n - 1)]
  BY UnreadFacts
<1>2. FramesFrom(status', buf', RxDesc)[Unread] = FramesFrom(status, buf, RxDesc)[Unread]
  <2>1. Alike(status, buf, status', buf', RxDesc, Unread)
    BY <1>1 DEF Alike
  <2> QED BY <1>1, <2>1, FramesAgree
<1> QED BY <1>2 DEF queueBar

\* The frame in hand is the one that the first descriptor held begins.
LEMMA HandFacts ==
  ASSUME IInv, pc \in {"alloc", "copy"}
  PROVE  /\ FSRxDesc = Oldest /\ FSRxDesc \in Desc /\ ~own[FSRxDesc]
         /\ handBar = ChunksOf(buf[Oldest].frame, len)
<1> PICK c \in 0 .. N : Window(c)
  BY DEF IInv, RingInv
<1>1. SegCount \in Nat /\ SegCount > 0 /\ FSRxDesc \in Desc
  BY DEF IInv, DriverInv, TypeOK
<1>2. Oldest = FSRxDesc /\ Held = SegCount
  BY <1>1 DEF Oldest, Held
<1>3. Dist(Oldest, Oldest) = 0
  BY <1>1, <1>2, DistNxt
<1>4. ~own[Oldest]
  BY <1>1, <1>2, <1>3, WindowFacts
<1> QED BY <1>1, <1>2, <1>4 DEF handBar

\* An arriving frame is stored from now on, or lost.
LEMMA ArriveRefines ==
  ASSUME IInv, NEW k \in 1 .. MaxSegs, NEW pay \in {k - 1, k},
         FrameStart(k, pay) \/ FrameLost(k, pay)
  PROVE  Queue!Arrive \/ Queue!Lose
<1>1. Len(wire') = Len(wire) + 1
  <2>1. [segs |-> k, pay |-> pay] \in WireFrame
    BY MaxSegsAssumption DEF WireFrame
  <2>2. wire \in Seq(WireFrame) /\ wire' = Append(wire, [segs |-> k, pay |-> pay])
    BY DEF IInv, TypeOK, FrameStart, FrameLost, Arrive
  <2> QED BY <2>1, <2>2
<1>2. queueBar' = queueBar /\ handBar' = handBar /\ given' = given
  BY DEF FrameStart, FrameLost, hwvars, cpuvars, queueBar, handBar, Unread, FullFrame
<1>3. CASE FrameStart(k, pay)
  BY <1>1, <1>2, <1>3 DEF FrameStart, Queue!Arrive
<1>4. CASE FrameLost(k, pay)
  BY <1>1, <1>2, <1>4 DEF FrameLost, hwvars, Queue!Lose
<1> QED BY <1>3, <1>4

\* The buffer that is written is not one of the queue.
LEMMA FillRefines == IInv /\ DmaFill => UNCHANGED Queue!vars
<1> SUFFICES ASSUME IInv, DmaFill PROVE UNCHANGED Queue!vars
  OBVIOUS
<1>1. own[cur] /\ (\A d \in Desc : ~own[d] => status'[d] = status[d] /\ buf'[d] = buf[d])
  <2>1. own[cur]
    <3> PICK c \in 0 .. N : Window(c)
      BY DEF IInv, RingInv
    <3>1. Dist(Oldest, cur) = c /\ cur \in Desc
      BY WindowFacts, PlusFacts, NAssumption DEF DmaFill, Window, IInv, TypeOK
    <3> QED BY <3>1, WindowFacts, NAssumption
  <2> QED BY <2>1 DEF DmaFill, IInv, TypeOK, DescriptorsOK
<1>2. Unread' = Unread /\ RxDesc' = RxDesc
  BY DEF DmaFill, cpuvars, Unread, FullFrame
<1>3. queueBar' = queueBar
  BY <1>1, <1>2, QueueSame
<1>4. handBar' = handBar
  BY <1>1, HandFacts DEF DmaFill, cpuvars, handBar
<1> QED BY <1>3, <1>4 DEF DmaFill, Queue!vars

\* Closing the last descriptor of a frame, or the last there is room for, stores
\* what was received of it.
LEMMA CloseRefines ==
  ASSUME IInv, FrameInv, DmaClose
  PROVE  Queue!Store \/ UNCHANGED Queue!vars
<1> PICK c \in 0 .. N : Window(c)
  BY DEF IInv, RingInv
<1> DEFINE last == seg = wire[frame].segs
           ends == last \/ ~nextOwned
           n == IF last THEN wire[frame].pay ELSE seg
<1>1. /\ buf' = buf /\ cur' = Nxt(cur) /\ RxDesc' = RxDesc /\ wire' = wire /\ given' = given
      /\ FullFrame' = FullFrame /\ handBar' = handBar /\ dma = "close"
      /\ dma' \in {"suspended", "idle", "fill"} /\ (dma' = "fill" <=> ~ends)
  BY DEF DmaClose, cpuvars, FullFrame, handBar
<1>2. /\ cur \in Desc /\ Nxt(cur) \in Desc /\ Nxt(cur) # cur /\ Oldest \in Desc
      /\ N \in Nat /\ N >= 2
  BY NxtType, NAssumption DEF IInv, TypeOK, Oldest
<1>3. c < N /\ Dist(Oldest, cur) = c /\ own[cur]
  <2>1. c < N /\ Dist(Oldest, cur) = c
    BY <1>2, PlusFacts, NAssumption DEF DmaClose, Window
  <2> QED BY <1>2, <2>1, WindowFacts
<1>4. /\ \A d \in Desc : d # cur => status'[d] = status[d] /\ own'[d] = own[d]
      /\ ~own'[cur] /\ (status'[cur].ls <=> ends) /\ status'[cur].pay = n
  BY <1>2 DEF DmaClose, IInv, TypeOK, DescriptorsOK
<1>5. n \in 0 .. MaxSegs /\ Len(wire) \in Nat /\ buf[cur].frame = Len(wire)
  <2>1. frame \in 1 .. Len(wire) /\ Len(wire) \in Nat /\ seg \in 0 .. MaxSegs
        /\ wire \in Seq(WireFrame)
    BY DEF DmaClose, IInv, TypeOK, EngineInv, frame
  <2>2. wire[frame] \in WireFrame
    BY <2>1
  <2>3. buf[cur].frame = Len(wire)
    BY <1>1 DEF FrameInv, EngineFrames, frame
  <2> QED BY <2>1, <2>2, <2>3 DEF WireFrame
<1> HIDE DEF last, ends, n
<1>6. /\ Unread = c - Held /\ Unread \in 0 .. N /\ RxDesc \in Desc
      /\ (FullFrame <=> Held = N) /\ Held \in Nat /\ Held <= c /\ c \in Nat
      /\ \A k \in 1 .. Unread : Plus(RxDesc, k - 1) \in Desc /\ ~own[Plus(RxDesc, k - 1)]
      /\ Unread < N /\ Plus(RxDesc, Unread) = cur
  BY <1>2, <1>3, UnreadFacts, WindowFacts
<1>7. Unread' = Unread + 1
  <2>1. ~FullFrame'
    BY <1>1, <1>2, <1>3, <1>6
  <2>2. CASE RxDesc = cur
    <3>1. Unread' = Dist(cur, Nxt(cur))
      BY <1>1, <1>2, <1>4, <2>1, <2>2 DEF Unread
    <3>2. Dist(cur, Nxt(cur)) = 1
      BY <1>2 DEF Dist, Nxt, Desc
    <3>3. Unread = 0
      BY <1>3, <2>2 DEF Unread
    <3> QED BY <3>1, <3>2, <3>3
  <2>3. CASE RxDesc # cur
    <3>1. ~own[RxDesc]
      <4>1. Unread # 0
        BY <1>6, <2>3, PlusFacts
      <4> QED BY <4>1 DEF Unread
    <3>2. Unread = Dist(RxDesc, cur)
      BY <1>1, <2>1, <2>3, <3>1 DEF Unread
    <3>3. Unread' = IF Nxt(cur) = RxDesc THEN N ELSE Dist(RxDesc, Nxt(cur))
      BY <1>1, <1>4, <1>6, <2>1, <2>3, <3>1 DEF Unread
    <3>4. /\ Nxt(cur) = RxDesc => Dist(RxDesc, cur) = N - 1
          /\ Nxt(cur) # RxDesc => Dist(RxDesc, Nxt(cur)) = Dist(RxDesc, cur) + 1
      BY <1>2, <1>6, <2>3 DEF Dist, Nxt, Desc
    <3> QED BY <1>2, <3>2, <3>3, <3>4
  <2> QED BY <2>2, <2>3
<1> DEFINE F == FramesFrom(status', buf, RxDesc)
<1>8. F[Unread] = queueBar
  <2>1. Alike(status, buf, status', buf, RxDesc, Unread)
    BY <1>3, <1>4, <1>6 DEF Alike
  <2>2. F[Unread] = FramesFrom(status, buf, RxDesc)[Unread]
    BY <1>6, <2>1, FramesAgree
  <2> QED BY <2>2 DEF queueBar
<1>9. queueBar' = F[Unread + 1]
  BY <1>1, <1>7 DEF queueBar
<1>10. F[Unread + 1] = IF ends THEN Append(queueBar, ChunksOf(Len(wire), n)) ELSE queueBar
  <2>1. Unread + 1 \in 1 .. N /\ (Unread + 1) - 1 = Unread
    BY <1>2, <1>6
  <2> HIDE DEF F
  <2>2. F[Unread + 1] = IF status'[Plus(RxDesc, Unread)].ls
                          THEN Append(F[Unread], Ended(status', buf, Plus(RxDesc, Unread)))
                          ELSE F[Unread]
    BY <2>1, FramesFacts DEF F
  <2>3. Ended(status', buf, cur) = ChunksOf(Len(wire), n)
    BY <1>4, <1>5 DEF Ended
  <2> QED BY <1>4, <1>6, <1>8, <2>2, <2>3
<1>11. Len(queueBar) < N
  <2>1. queueBar \in Seq({Ended(status, buf, d) : d \in Desc}) /\ Len(queueBar) <= Unread
    BY <1>6, FramesType DEF queueBar
  <2>2. Len(queueBar) \in Nat
    BY <2>1
  <2> QED BY <1>2, <1>6, <2>1, <2>2
<1>12. CASE ends
  <2>1. queueBar' = Append(queueBar, [j \in 1 .. n |-> [frame |-> Len(wire), seg |-> j]])
    BY <1>9, <1>10, <1>12 DEF ChunksOf
  <2>2. dma \in {"fill", "close"} /\ (dma' \in {"fill", "close"}) = FALSE
    BY <1>1, <1>12
  <2>3. \E m \in 0 .. MaxSegs :
          queueBar' = Append(queueBar, [j \in 1 .. m |-> [frame |-> Len(wire), seg |-> j]])
    BY <1>5, <2>1
  <2>4. UNCHANGED <<Len(wire), handBar, given>>
    BY <1>1
  <2>5. Queue!Store
    BY <1>11, <2>2, <2>3, <2>4, Zenon DEF Queue!Store
  <2> QED BY <2>5
<1>13. CASE ~ends
  BY <1>1, <1>9, <1>10, <1>13 DEF Queue!vars
<1> QED BY <1>12, <1>13

\* The driver moves on to the next descriptor: of a segment that is not the last
\* it takes no notice in the queue, with the last it takes the frame.
LEMMA GetRefines ==
  ASSUME IInv, FrameInv, IInv', GetReceivedFrameLast \/ GetReceivedFrameMore
  PROVE  Queue!Take \/ UNCHANGED Queue!vars
<1> PICK c \in 0 .. N : Window(c) /\ Segments(c)
  BY DEF IInv, RingInv
<1>1. pc = "poll" /\ ~own[RxDesc]
  BY DEF GetReceivedFrameLast, GetReceivedFrameMore
<1>2. /\ Oldest \in Desc /\ RxDesc \in Desc
      /\ Held = SegCount /\ SegCount \in Nat /\ Held < c /\ Held < N
      /\ Dist(Oldest, RxDesc) = Held
      /\ buf[RxDesc].seg = SegCount + 1
  BY <1>1, PollFacts
<1>3. /\ own' = own /\ status' = status /\ buf' = buf /\ RxDesc' = Nxt(RxDesc)
      /\ dma' = dma /\ wire' = wire /\ p' = p /\ given' = given
  BY DEF GetReceivedFrameLast, GetReceivedFrameMore, hwvars
<1>4. status[RxDesc].fs <=> SegCount = 0
  <2>1. status[RxDesc].fs <=> buf[RxDesc].seg = 1
    BY <1>2 DEF Segments, SegStatus
  <2> QED BY <1>2, <2>1
<1>5. SegCount' = SegCount + 1 /\ FSRxDesc' = IF SegCount = 0 THEN RxDesc ELSE FSRxDesc
  BY <1>2, <1>4 DEF GetReceivedFrameLast, GetReceivedFrameMore
<1>6. pc' \in {"poll", "alloc"} /\ (pc' = "alloc" <=> status[RxDesc].ls)
  BY <1>1 DEF GetReceivedFrameLast, GetReceivedFrameMore
<1>7. Held' = Held + 1 /\ Oldest' = Oldest
  BY <1>1, <1>2, <1>5, <1>6 DEF Held, Oldest
<1>8. Unread' = Unread - 1 /\ Unread \in 1 .. N
  <2>1. Unread = c - Held /\ Unread \in 0 .. N
    BY UnreadFacts
  <2>2. Window(c)'
    BY <1>3, <1>7, WindowUnique
  <2>3. Unread' = c - Held'
    BY <2>2, UnreadLater
  <2> QED BY <1>2, <1>7, <2>1, <2>3
<1>9. queueBar' = FramesFrom(status, buf, Nxt(RxDesc))[Unread - 1]
  BY <1>3, <1>8 DEF queueBar
<1>10. handBar = p /\ p = <<>>
  BY <1>1 DEF handBar, IInv, DriverInv
<1>11. CASE status[RxDesc].ls
  <2>1. /\ queueBar # <<>> /\ queueBar' = Tail(queueBar)
        /\ Head(queueBar) = Ended(status, buf, RxDesc)
    BY <1>2, <1>8, <1>9, <1>11, FramesShift DEF queueBar
  <2>2. len' = status[RxDesc].pay
    BY <1>11 DEF GetReceivedFrameLast, GetReceivedFrameMore
  <2>3. FSRxDesc' = Oldest
    <3>1. pc' = "alloc" /\ SegCount' > 0
      BY <1>2, <1>5, <1>6, <1>11
    <3>2. FSRxDesc' = Oldest'
      BY <3>1 DEF Oldest
    <3> QED BY <1>7, <3>2
  <2>4. buf[Oldest].frame = buf[RxDesc].frame
    <3>1. Dist(Oldest, RxDesc) < Held + 1
      BY <1>2
    <3>2. buf[RxDesc] = [frame |-> buf[Oldest].frame, seg |-> Dist(Oldest, RxDesc) + 1]
      BY <1>1, <1>2, <3>1, PollFrames
    <3> QED BY <3>2
  <2>5. handBar' = Ended(status, buf, RxDesc)
    BY <1>3, <1>6, <1>11, <2>2, <2>3, <2>4 DEF handBar, Ended
  <2> QED BY <1>3, <1>10, <2>1, <2>5 DEF Queue!Take
<1>12. CASE ~status[RxDesc].ls
  <2>1. queueBar' = queueBar
    BY <1>2, <1>8, <1>9, <1>12, FramesShift DEF queueBar
  <2>2. handBar' = p
    BY <1>3, <1>6, <1>12 DEF handBar
  <2> QED BY <1>3, <1>10, <2>1, <2>2 DEF Queue!vars
<1> QED BY <1>11, <1>12

\* The steps of the driver that leave the ring and its position in it alone
LEMMA PlaceSame ==
  ASSUME IInv, status' = status, buf' = buf, RxDesc' = RxDesc, cur' = cur, own' = own,
         FullFrame' = FullFrame
  PROVE  queueBar' = queueBar
BY DEF queueBar, Unread

\* Allocation and copying are no steps of the queue, and a frame without a pbuf
\* is dropped.
LEMMA AllocRefines ==
  ASSUME IInv, FrameInv, AllocOk \/ AllocFail \/ CopyBuffer \/ CopyDone
  PROVE  Queue!Drop \/ UNCHANGED Queue!vars
<1>1. /\ pc \in {"alloc", "copy"} /\ own' = own /\ status' = status /\ buf' = buf
      /\ RxDesc' = RxDesc /\ FSRxDesc' = FSRxDesc /\ SegCount' = SegCount /\ len' = len
      /\ wire' = wire /\ given' = given /\ dma' = dma /\ cur' = cur
      /\ pc' \in {"alloc", "copy", "release"} /\ (pc' = "release" => i' = 0)
  BY DEF AllocOk, AllocFail, CopyBuffer, CopyDone, hwvars
<1>2. queueBar' = queueBar
  BY <1>1, PlaceSame DEF FullFrame
<1>3. CASE AllocOk \/ CopyBuffer
  <2>1. handBar' = handBar
    BY <1>1, <1>3 DEF AllocOk, CopyBuffer, handBar
  <2> QED BY <1>1, <1>2, <2>1 DEF Queue!vars
<1>4. CASE AllocFail
  <2>1. handBar' = <<>>
    BY <1>4 DEF AllocFail, handBar, IInv, DriverInv
  <2> QED BY <1>1, <1>2, <2>1 DEF Queue!Drop
<1>5. CASE CopyDone
  <2>1. handBar' = p
    BY <1>5 DEF CopyDone, handBar
  <2>2. handBar = ChunksOf(buf[Oldest].frame, len)
    BY <1>1, HandFacts
  <2>3. p = ChunksOf(buf[Oldest].frame, Len(p)) /\ Len(p) = len
    BY <1>5 DEF CopyDone, FrameInv, HandFrames
  <2> QED BY <1>1, <1>2, <2>1, <2>2, <2>3 DEF Queue!vars
<1> QED BY <1>3, <1>4, <1>5

\* A descriptor that is given back has left the queue before.
LEMMA ReleaseRefines == IInv /\ ReleaseDesc => UNCHANGED Queue!vars
<1> SUFFICES ASSUME IInv, ReleaseDesc PROVE UNCHANGED Queue!vars
  OBVIOUS
<1> PICK c \in 0 .. N : Window(c)
  BY DEF IInv, RingInv
<1>1. /\ pc = "release" /\ pc' = "release" /\ i < SegCount /\ i' = i + 1
      /\ own' = [own EXCEPT ![dmarxdesc] = TRUE]
      /\ status' = status /\ buf' = buf /\ RxDesc' = RxDesc /\ SegCount' = SegCount
      /\ wire' = wire /\ given' = given /\ dma' = dma /\ cur' = cur /\ p' = p
  BY DEF ReleaseDesc, hwvars
<1>2. /\ i \in 0 .. N /\ SegCount \in 0 .. N /\ N \in Nat /\ N >= 2
      /\ dmarxdesc = Oldest /\ Held = SegCount - i
      /\ RxDesc \in Desc /\ Oldest \in Desc /\ own \in [Desc -> BOOLEAN]
  BY <1>1, NAssumption DEF IInv, TypeOK, DescriptorsOK, Oldest, Held
<1>3. ~FullFrame'
  BY <1>1, <1>2 DEF FullFrame
<1>4. Unread' = Unread
  <2>1. CASE Held = N
    <3>1. RxDesc = Oldest
      BY <1>2, <2>1, PlusFacts DEF Window
    <3>2. own'[RxDesc]
      BY <1>1, <1>2, <3>1
    <3>3. FullFrame
      BY <1>1, <1>2, <2>1 DEF FullFrame
    <3> QED BY <1>1, <3>2, <3>3 DEF Unread
  <2>2. CASE Held # N
    <3>1. Held \in 1 .. N - 1
      BY <1>1, <1>2, <2>2
    <3>2. RxDesc # Oldest
      <4>1. Dist(Oldest, RxDesc) = Held
        BY <1>2, <3>1, PlusFacts DEF Window
      <4> QED BY <1>2, <3>1, <4>1, DistNxt
    <3>3. own'[RxDesc] = own[RxDesc]
      BY <1>1, <1>2, <3>2
    <3>4. ~FullFrame
      BY <1>1, <1>2, <2>2 DEF FullFrame
    <3> QED BY <1>1, <1>3, <3>3, <3>4 DEF Unread
  <2> QED BY <2>1, <2>2
<1>5. queueBar' = queueBar /\ handBar' = handBar
  BY <1>1, <1>4 DEF queueBar, handBar
<1> QED BY <1>1, <1>5 DEF Queue!vars

\* The end of low_level_input() is none of the queue's business either.
LEMMA ClearRefines == IInv /\ (ClearSegCount \/ RbusSet) => UNCHANGED Queue!vars
<1> SUFFICES ASSUME IInv, ClearSegCount \/ RbusSet PROVE UNCHANGED Queue!vars
  OBVIOUS
<1>1. /\ own' = own /\ status' = status /\ buf' = buf /\ RxDesc' = RxDesc /\ wire' = wire
      /\ given' = given /\ dma' = dma /\ cur' = cur /\ p' = p
      /\ pc \in {"release", "rbus"} /\ pc' \in {"rbus", "resume"}
  BY DEF ClearSegCount, RbusSet, hwvars
<1>2. ~FullFrame /\ ~FullFrame'
  BY NAssumption DEF ClearSegCount, RbusSet, FullFrame, IInv, DriverInv, TypeOK
<1>3. queueBar' = queueBar
  <2>1. Unread' = Unread
    BY <1>1, <1>2 DEF Unread
  <2> QED BY <1>1, <2>1 DEF queueBar
<1>4. handBar' = handBar
  BY <1>1 DEF handBar
<1> QED BY <1>1, <1>3, <1>4 DEF Queue!vars

\* ethernetif_input() passes on what low_level_input() returns.
LEMMA ReturnRefines ==
  ASSUME IInv, RbusClear \/ Resume
  PROVE  Queue!Deliver \/ UNCHANGED Queue!vars
<1>1. /\ own' = own /\ status' = status /\ buf' = buf /\ RxDesc' = RxDesc /\ wire' = wire
      /\ cur' = cur /\ SegCount' = SegCount
      /\ pc \in {"rbus", "resume"} /\ pc' = "poll" /\ p' = <<>>
      /\ given' = IF p = <<>> THEN given ELSE Append(given, p)
  BY DEF RbusClear, Resume, Return, hwvars
<1>2. (dma' \in {"fill", "close"}) = (dma \in {"fill", "close"})
  BY DEF RbusClear, Resume, PollDemand, hwvars
<1>3. FullFrame' = FullFrame
  BY <1>1 DEF FullFrame
<1>4. queueBar' = queueBar /\ handBar' = <<>> /\ handBar = p
  BY <1>1, <1>3, PlaceSame DEF handBar
<1>5. CASE p = <<>>
  BY <1>1, <1>2, <1>4, <1>5 DEF Queue!vars
<1>6. CASE p # <<>>
  BY <1>1, <1>2, <1>4, <1>6 DEF Queue!Deliver
<1> QED BY <1>5, <1>6

\* Every step of driver or engine is a step of the queue or none.
LEMMA StepRefines ==
  IInv /\ FrameInv /\ IInv' /\ [Next]_vars => [Queue!Next]_(Queue!vars)
<1> SUFFICES ASSUME IInv, FrameInv, IInv', [Next]_vars
      PROVE Queue!Next \/ UNCHANGED Queue!vars
  OBVIOUS
<1>1. CASE Cpu
  <2>1. CASE GetReceivedFrameNone
    BY <2>1 DEF GetReceivedFrameNone, vars, hwvars, cpuvars, Queue!vars, queueBar, handBar,
                Unread, FullFrame
  <2>2. CASE GetReceivedFrameLast \/ GetReceivedFrameMore
    BY <2>2, GetRefines DEF Queue!Next
  <2>3. CASE AllocOk \/ AllocFail \/ CopyBuffer \/ CopyDone
    BY <2>3, AllocRefines DEF Queue!Next
  <2>4. CASE ReleaseDesc \/ ClearSegCount \/ RbusSet
    BY <2>4, ReleaseRefines, ClearRefines
  <2>5. CASE RbusClear \/ Resume
    BY <2>5, ReturnRefines DEF Queue!Next
  <2> QED BY <1>1, <2>1, <2>2, <2>3, <2>4, <2>5 DEF Cpu
<1>2. CASE DmaStep
  BY <1>2, FillRefines, CloseRefines DEF DmaStep, Queue!Next
<1>3. CASE Wire
  <2>1. PICK k \in 1 .. MaxSegs :
          \E pay \in {k - 1, k} : FrameStart(k, pay) \/ FrameLost(k, pay)
    BY <1>3 DEF Wire
  <2>2. PICK pay \in {k - 1, k} : FrameStart(k, pay) \/ FrameLost(k, pay)
    BY <2>1
  <2> QED BY <2>2, ArriveRefines DEF Queue!Next
<1>4. CASE UNCHANGED vars
  BY <1>4 DEF vars, hwvars, cpuvars, Queue!vars, queueBar, handBar, Unread, FullFrame
<1> QED BY <1>1, <1>2, <1>3, <1>4 DEF Next

\* The receive ring is a bounded queue of frames that may lose frames, but never
\* reorders, repeats or mixes them: the steps in which the DMA closes the last
\* descriptor of a frame, and in which the driver finds it, are those of the queue.
THEOREM Refinement == Spec => ImplementsQueue
<1>1. Init => Queue!Init
  <2> SUFFICES ASSUME Init PROVE Queue!Init
    OBVIOUS
  <2>1. Unread = 0
    BY NAssumption DEF Init, Unread, Desc
  <2>2. queueBar = <<>>
    BY <2>1, FramesFacts DEF queueBar
  <2>3. handBar = <<>> /\ Len(wire) = 0 /\ (dma \in {"fill", "close"}) = FALSE /\ given = <<>>
    BY DEF Init, handBar
  <2> QED BY <2>2, <2>3, Zenon DEF Queue!Init
<1>2. Init => FrameInv
  BY InitFrames
<1>3. IInv /\ FrameInv /\ [Next]_vars => FrameInv'
  BY NextFrames
<1> QED BY <1>1, <1>2, <1>3, StepRefines, RingInvariant, PTL
        DEF Spec, ImplementsQueue, Queue!Spec
=============================================================================
