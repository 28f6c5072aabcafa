----------------------------- MODULE Allocator ------------------------------
(***************************************************************************)
(* What the users of the heap rely on: mem_malloc() returns aligned memory *)
(* that nobody else holds, mem_free() and mem_trim() give back no memory   *)
(* but their own, and no call moves or shortens the block of another.      *)
(***************************************************************************)
EXTENDS Integers

CONSTANTS
  MEM_SIZE_ALIGNED,  \* bytes of the heap
  MEM_ALIGNMENT,
  Sizes              \* sizes that are asked for

VARIABLE
  blocks             \* the size of each block in use, by its address

Bytes(a, n) == a..(a + n - 1)

Init == blocks = << >>

Malloc(a, n) ==
  /\ a % MEM_ALIGNMENT = 0
  /\ Bytes(a, n) \subseteq 0..(MEM_SIZE_ALIGNED - 1)
  /\ \A b \in DOMAIN blocks : Bytes(a, n) \cap Bytes(b, blocks[b]) = {}
  /\ blocks' = [b \in DOMAIN blocks \cup {a} |-> IF b = a THEN n ELSE blocks[b]]

Free(a) == blocks' = [b \in DOMAIN blocks \ {a} |-> blocks[b]]

Trim(a, n) ==
  /\ n <= blocks[a]
  /\ blocks' = [blocks EXCEPT ![a] = n]

Next ==
  \/ \E a \in 0..(MEM_SIZE_ALIGNED - 1), n \in Sizes : Malloc(a, n)
  \/ \E a \in DOMAIN blocks : Free(a)
  \/ \E a \in DOMAIN blocks, n \in Sizes : Trim(a, n)

Spec == Init /\ [][Next]_blocks
=============================================================================
