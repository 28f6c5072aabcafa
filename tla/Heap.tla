-------------------------------- MODULE Heap --------------------------------
(***************************************************************************)
(* The heap of the stack (src/middle/lwip-2.1.2/src/core/mem.c): mem_malloc,*)
(* mem_free and mem_trim on the list of struct mem that divides the heap.  *)
(* es, the copies of udp_server_recv() and tcp_server_recv() and all       *)
(* packets to be sent come from it.                                        *)
(*                                                                         *)
(* mem maps the offset of each struct mem of the list to its contents.  A  *)
(* struct that is merged with another leaves the domain, so that a use of  *)
(* it would be an error of evaluation.  The structs are in the order of    *)
(* their offsets (WellLinked): a loop along next is a choice of the lowest *)
(* struct with what the loop looks for.  The heap is not shared: NO_SYS is *)
(* set, no interrupt handler frees memory, and sys_mutex_lock() is empty.  *)
(***************************************************************************)
EXTENDS Integers

CONSTANTS
  MEM_SIZE_ALIGNED, MEM_ALIGNMENT, SIZEOF_STRUCT_MEM, MIN_SIZE,
  Width,   \* mem_size_t holds 0..Width-1
  Sizes    \* sizes that are asked for

ASSUME HeapAssumption ==
  /\ {MEM_SIZE_ALIGNED, MEM_ALIGNMENT, SIZEOF_STRUCT_MEM, MIN_SIZE, Width} \subseteq Nat \ {0}
  /\ MEM_SIZE_ALIGNED % MEM_ALIGNMENT = 0 /\ SIZEOF_STRUCT_MEM % MEM_ALIGNMENT = 0
  /\ SIZEOF_STRUCT_MEM + MIN_SIZE + MEM_ALIGNMENT <= MEM_SIZE_ALIGNED
  /\ MEM_SIZE_ALIGNED < Width
  /\ Sizes \subseteq 0..(Width - 1)

VARIABLES
  mem,     \* the list of struct mem, by offset
  lfree,   \* offset of the lowest free struct
  blocks,  \* history: the size asked for each block in use, by its address
  failed   \* history: size for which the last mem_malloc() failed, or 0

vars == <<mem, lfree, blocks, failed>>
-----------------------------------------------------------------------------
\* Mutant: sizes are taken as they are
Aligned_Not(n) == n % Width
\* LWIP_MEM_ALIGN_SIZE, converted to mem_size_t
Aligned(n) == (((n + MEM_ALIGNMENT - 1) \div MEM_ALIGNMENT) * MEM_ALIGNMENT) % Width

MIN_SIZE_ALIGNED == Aligned(MIN_SIZE)

\* The size of the data of a block for which n bytes are asked
DataSize(n) == IF Aligned(n) < MIN_SIZE_ALIGNED THEN MIN_SIZE_ALIGNED ELSE Aligned(n)

\* Sizes that no heap can hold, one that wraps when it is aligned among them
Impossible(n) == DataSize(n) > MEM_SIZE_ALIGNED \/ DataSize(n) < n

\* Bytes of data after the struct at o
Room(m, o) == m[o].next - (o + SIZEOF_STRUCT_MEM)

\* The struct after o points back to it, unless the heap ends there.
LinkBack(m, o) ==
  IF m[o].next = MEM_SIZE_ALIGNED THEN m ELSE [m EXCEPT ![m[o].next].prev = o]

\* f with the value e at d, which may be new
With(f, d, e) == [x \in DOMAIN f \cup {d} |-> IF x = d THEN e ELSE f[x]]

\* A free struct is made at offset at, within the data of the one at o.
Insert(m, o, at) ==
  LinkBack(With([m EXCEPT ![o].next = at], at, [next |-> m[o].next, prev |-> o, used |-> FALSE]),
           at)

\* The struct at b becomes part of the one at a before it.
Absorb(m, a, b) ==
  LinkBack([x \in DOMAIN m \ {b} |-> IF x = a THEN [m[a] EXCEPT !.next = m[b].next] ELSE m[x]],
           a)

\* plug_holes(): a struct that was freed is combined with the one after it and
\* then with the one before it, when they are free.
plug_holes(m, low, o) ==
  LET n == m[o].next
      forward == o # n /\ ~m[n].used /\ n # MEM_SIZE_ALIGNED
      m1 == IF forward THEN Absorb(m, o, n) ELSE m
      low1 == IF forward /\ low = n THEN o ELSE low
      q == m1[o].prev
      backward == q # o /\ ~m1[q].used
  IN [mem |-> IF backward THEN Absorb(m1, q, o) ELSE m1,
      lfree |-> IF backward /\ low1 = o THEN q ELSE low1]

Least(S) == CHOOSE x \in S : \A y \in S : x <= y

\* Mutant: asks for more room than is needed
Fitting_Strict(size) ==
  {o \in DOMAIN mem : /\ o >= lfree /\ o < MEM_SIZE_ALIGNED - size
                      /\ ~mem[o].used /\ Room(mem, o) > size}
\* The structs that can hold size bytes, among those the scan of mem_malloc()
\* comes to
Fitting(size) ==
  {o \in DOMAIN mem : /\ o >= lfree /\ o < MEM_SIZE_ALIGNED - size
                      /\ ~mem[o].used /\ Room(mem, o) >= size}

\* Whether the rest of a struct of which size bytes are used becomes one of its own
SplitOff(o, size) == Room(mem, o) >= size + SIZEOF_STRUCT_MEM + MIN_SIZE_ALIGNED

\* Mutant: the struct after the one that was taken becomes the lowest free one
NextFree_Successor(m, o) == m[o].next
\* The loop that looks for the next free struct after the one at o, up to ram_end
NextFree(m, o) == Least({MEM_SIZE_ALIGNED} \cup {x \in DOMAIN m : x >= o /\ ~m[x].used})
-----------------------------------------------------------------------------
\* mem_init()
Init ==
  /\ mem = [o \in {0, MEM_SIZE_ALIGNED} |->
              [next |-> MEM_SIZE_ALIGNED, prev |-> o, used |-> o = MEM_SIZE_ALIGNED]]
  /\ lfree = 0 /\ blocks = << >> /\ failed = 0

\* mem_malloc(): first fit, from the lowest free struct on
mem_malloc(n) ==
  LET size == DataSize(n)
      fit == Fitting(size)
  IN \/ /\ n = 0
        /\ failed' = 0
        /\ UNCHANGED <<mem, lfree, blocks>>
     \/ /\ n # 0 /\ (Impossible(n) \/ fit = {})
        /\ failed' = n
        /\ UNCHANGED <<mem, lfree, blocks>>
     \/ /\ n # 0 /\ ~Impossible(n) /\ fit # {}
        /\ \E o \in {Least(fit)} :
             \E m \in {[mem EXCEPT ![o].used = TRUE]} :
               /\ mem' = IF SplitOff(o, size) THEN Insert(m, o, o + SIZEOF_STRUCT_MEM + size)
                         ELSE m
               /\ lfree' = IF o = lfree THEN NextFree(mem', o) ELSE lfree
               /\ blocks' = With(blocks, o + SIZEOF_STRUCT_MEM, n)
        /\ failed' = 0

\* mem_free() of the block at address a
mem_free(a) ==
  LET o == a - SIZEOF_STRUCT_MEM
      s == plug_holes([mem EXCEPT ![o].used = FALSE], IF o < lfree THEN o ELSE lfree, o)
  IN /\ mem' = s.mem /\ lfree' = s.lfree
     /\ blocks' = [b \in DOMAIN blocks \ {a} |-> blocks[b]]
     /\ failed' = 0

\* lfree follows the struct that mem_trim() moves from n to at
Moved(at, n) == IF lfree = n THEN at ELSE lfree

\* mem_trim() of the block at address a to n bytes: a free struct after it grows,
\* otherwise the rest becomes a free struct if there is room for one.
mem_trim(a, n) ==
  LET o == a - SIZEOF_STRUCT_MEM
      size == DataSize(n)
      after == mem[o].next
      at == o + SIZEOF_STRUCT_MEM + size
  IN /\ n <= blocks[a] /\ n > 0
     /\ \/ /\ size = Room(mem, o)
           /\ UNCHANGED <<mem, lfree>>
        \/ /\ size < Room(mem, o) /\ ~mem[after].used
           /\ mem' = Insert(Absorb(mem, o, after), o, at)
           /\ lfree' = Moved(at, after)
        \/ /\ size < Room(mem, o) /\ mem[after].used
           /\ IF SplitOff(o, size)
              THEN /\ mem' = Insert(mem, o, at)
                   /\ lfree' = IF at < lfree THEN at ELSE lfree
              ELSE UNCHANGED <<mem, lfree>>
     /\ blocks' = [blocks EXCEPT ![a] = n]
     /\ failed' = 0

Next ==
  \/ \E n \in Sizes : mem_malloc(n)
  \/ \E a \in DOMAIN blocks : mem_free(a)
  \/ \E a \in DOMAIN blocks, n \in Sizes : mem_trim(a, n)

Spec == Init /\ [][Next]_vars
-----------------------------------------------------------------------------
TypeOK ==
  /\ DOMAIN mem \subseteq 0..MEM_SIZE_ALIGNED
  /\ \A o \in DOMAIN mem : mem[o] \in [next : DOMAIN mem, prev : DOMAIN mem, used : BOOLEAN]
  /\ lfree \in DOMAIN mem
  /\ failed \in 0..(Width - 1)

\* The structs form one list over the whole heap, linked both ways and in the
\* order of their offsets, with room for data after each and no two free ones in
\* a row: what mem_sanity() would assert and plug_holes() promises.
WellLinked ==
  /\ {0, MEM_SIZE_ALIGNED} \subseteq DOMAIN mem /\ mem[0].prev = 0
  /\ \A o \in DOMAIN mem \ {MEM_SIZE_ALIGNED} :
       /\ Room(mem, o) >= MIN_SIZE_ALIGNED
       /\ \A x \in DOMAIN mem : x <= o \/ x >= mem[o].next
       /\ mem[o].next # MEM_SIZE_ALIGNED =>
            mem[mem[o].next].prev = o /\ (mem[o].used \/ mem[mem[o].next].used)

\* The scan of mem_malloc() starts at the lowest free struct, so that it misses
\* none.
LowestFree ==
  /\ \A o \in DOMAIN mem : o < lfree => mem[o].used
  /\ mem[lfree].used => lfree = MEM_SIZE_ALIGNED

\* Every used struct belongs to a block that was not yet freed, and has room for
\* what was asked for: no memory is lost and none is held twice.
UsedIsHeld ==
  /\ DOMAIN blocks = {o + SIZEOF_STRUCT_MEM : o \in {x \in DOMAIN mem \ {MEM_SIZE_ALIGNED} :
                                                        mem[x].used}}
  /\ \A a \in DOMAIN blocks : blocks[a] <= Room(mem, a - SIZEOF_STRUCT_MEM)

\* The heap is consistent, for every sequence of mem_malloc(), mem_free() and
\* mem_trim().
HeapConsistent == TypeOK /\ WellLinked /\ LowestFree /\ UsedIsHeld

\* mem_malloc() fails only when no free struct has room for what is asked for.
FailsOnlyWhenFull ==
  failed # 0 => \A o \in DOMAIN mem : mem[o].used \/ Room(mem, o) < failed

\* The heap is an allocator: no block overlaps another or is moved.
Abstract == INSTANCE Allocator
ImplementsAllocator == Abstract!Spec
=============================================================================
