-------------------------- MODULE EthRxRefinement --------------------------
(***************************************************************************)
(* The descriptor ring of EthRx implements the frame queue of RxQueue.     *)
(***************************************************************************)
EXTENDS EthRx

\* Steps from a forward to b along the chain, and the descriptor n steps on.
Dist(a, b) == IF b >= a THEN b - a ELSE b - a + N
Plus(a, n) == IF a + n >= N THEN a + n - N ELSE a + n

\* The frame in hand fills the whole ring: RxDesc is its first descriptor.
FullFrame == SegCount = N /\ (pc = "release" => i = 0)

\* Number of descriptors closed by the DMA that the driver has not looked at
\* yet: those from RxDesc up to the engine's current one.
Unread == IF own[RxDesc] \/ FullFrame THEN 0
          ELSE IF cur = RxDesc THEN N ELSE Dist(RxDesc, cur)

\* The frames that end in the first n descriptors from a on, for status words st
\* and buffers bf: each descriptor with LS ends one.
FramesFrom(st, bf, a) ==
  LET f[n \in 0 .. N] ==
        IF n = 0 THEN <<>>
        ELSE LET d == Plus(a, n - 1)
             IN  IF st[d].ls THEN Append(f[n - 1], ChunksOf(bf[d].frame, st[d].pay))
                 ELSE f[n - 1]
  IN  f

queueBar == FramesFrom(status, buf, RxDesc)[Unread]

handBar == IF pc \in {"alloc", "copy"} THEN ChunksOf(buf[FSRxDesc].frame, len) ELSE p

Queue == INSTANCE RxQueue WITH
           Capacity <- N, MaxChunks <- MaxSegs,
           seen <- Len(wire), arriving <- dma \in {"fill", "close"},
           queue <- queueBar, hand <- handBar

\* The ring of descriptors is a lossy bounded FIFO of frames: whatever the
\* interleaving of the two sides, a step of the DMA or of the driver is a step
\* of RxQueue or changes nothing that the IP stack could see.
ImplementsQueue == Queue!Spec
=============================================================================
