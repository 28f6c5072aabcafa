-------------------------------- MODULE Pbuf --------------------------------
(***************************************************************************)
(* Chains of packet buffers and their reference counts                     *)
(* (src/middle/lwip-2.1.2/src/core/pbuf.c), for buffers of PBUF_POOL: what *)
(* the echo servers, the driver, ARP queueing and reassembly do with a     *)
(* packet they hold.                                                       *)
(*                                                                         *)
(* A caller follows the notes of pbuf.c: it frees only what it holds, and  *)
(* it concatenates and shortens only whole packets, which are not the tail *)
(* of another one.  Which of the free buffers is allocated does not        *)
(* matter, it is the lowest one.  The contents of a free buffer are        *)
(* normalised: no live buffer leads to it (RefIsTrue).                     *)
(***************************************************************************)
EXTENDS Integers, FiniteSets

CONSTANTS
  PoolSize,   \* buffers of PBUF_POOL
  BufSize,    \* PBUF_POOL_BUFSIZE, in units of data
  MaxLength,  \* bound: the largest packet that is allocated
  MaxHeld     \* bound: references of callers to one buffer

ASSUME PbufAssumption ==
  {PoolSize, BufSize, MaxHeld} \subseteq Nat \ {0} /\ MaxLength \in Nat

Pbufs == 1..PoolSize
NULL == 0

VARIABLES
  next, len, tot_len, ref,  \* the fields of struct pbuf; ref is 0 in a free one
  held                      \* history: references that callers hold

vars == <<next, len, tot_len, ref, held>>
-----------------------------------------------------------------------------
\* The n-th buffer of the chain that starts with p
Walk(p) ==
  LET w[n \in 0..PoolSize] ==
        IF n = 0 THEN p ELSE IF w[n - 1] = NULL THEN NULL ELSE next[w[n - 1]]
  IN w

Chain(p) == {Walk(p)[n] : n \in 0..PoolSize} \ {NULL}

Least(S) == CHOOSE x \in S : \A y \in S : x <= y

Sum(f, n) == LET s[i \in 0..n] == IF i = 0 THEN 0 ELSE s[i - 1] + f[i - 1] IN s[n]

\* pbuf_free() goes along the chain as long as it takes the last reference away:
\* the buffers it deallocates.
Released(p) ==
  LET w == Walk(p)
      stop == Least({n \in 0..PoolSize : w[n] = NULL \/ ref[w[n]] # 1})
  IN {w[n] : n \in 0..(stop - 1)}

\* References after pbuf_free(p); the buffer at which it stops loses one.
RefAfterFree(p) ==
  [x \in Pbufs |-> IF x \in Released(p) THEN 0
                   ELSE IF x = p \/ \E y \in Released(p) : next[y] = x THEN ref[x] - 1
                   ELSE ref[x]]

\* A deallocated buffer loses its contents.
Cleared(f, gone) == [x \in Pbufs |-> IF x \in gone THEN 0 ELSE f[x]]

\* No other packet continues with p.
Whole(p) == \A x \in Pbufs : next[x] # p

Free == {p \in Pbufs : ref[p] = 0}
-----------------------------------------------------------------------------
Init ==
  /\ next = [p \in Pbufs |-> NULL] /\ len = [p \in Pbufs |-> 0]
  /\ tot_len = [p \in Pbufs |-> 0] /\ ref = [p \in Pbufs |-> 0]
  /\ held = [p \in Pbufs |-> 0]

Lesser(m, n) == IF m < n THEN m ELSE n

\* Number of buffers for a packet, at least one
Needed(length) == IF length = 0 THEN 1 ELSE (length + BufSize - 1) \div BufSize

\* The n-th of the free buffers, from 0
NthFree(n) == CHOOSE p \in Free : Cardinality({x \in Free : x < p}) = n

\* pbuf_alloc(PBUF_POOL); when the pool is too small for the packet, the part of
\* the chain that was already allocated is freed again.
pbuf_alloc(length) ==
  LET k == Needed(length)
      index == [p \in Free |-> Cardinality({x \in Free : x < p})]
      new == {p \in Free : index[p] < k}
      rest(p) == length - index[p] * BufSize
  IN /\ k <= Cardinality(Free)
     /\ next' = [p \in Pbufs |-> IF p \notin new THEN next[p]
                                 ELSE IF index[p] = k - 1 THEN NULL ELSE NthFree(index[p] + 1)]
     /\ tot_len' = [p \in Pbufs |-> IF p \in new THEN rest(p) ELSE tot_len[p]]
     /\ len' = [p \in Pbufs |-> IF p \in new THEN Lesser(rest(p), BufSize) ELSE len[p]]
     /\ ref' = [p \in Pbufs |-> IF p \in new THEN 1 ELSE ref[p]]
     /\ held' = [held EXCEPT ![NthFree(0)] = 1]

\* pbuf_free() by a caller that holds p
pbuf_free(p) ==
  /\ held[p] > 0
  /\ ref' = RefAfterFree(p)
  /\ next' = Cleared(next, Released(p)) /\ len' = Cleared(len, Released(p))
  /\ tot_len' = Cleared(tot_len, Released(p))
  /\ held' = [held EXCEPT ![p] = @ - 1]

\* pbuf_ref() of a buffer in a chain that some caller holds
pbuf_ref(p) ==
  /\ \E h \in Pbufs : held[h] > 0 /\ p \in Chain(h)
  /\ held[p] < MaxHeld
  /\ ref' = [ref EXCEPT ![p] = @ + 1]
  /\ held' = [held EXCEPT ![p] = @ + 1]
  /\ UNCHANGED <<next, len, tot_len>>

\* Mutant: the totals of the first chain stay, but for its last buffer
Lengthened_Last(h, t) ==
  [x \in Pbufs |-> IF x \in Chain(h) /\ next[x] = NULL THEN tot_len[x] + tot_len[t]
                   ELSE tot_len[x]]
\* The totals of the chain h after t was appended to it
Lengthened(h, t) ==
  [x \in Pbufs |-> IF x \in Chain(h) THEN tot_len[x] + tot_len[t] ELSE tot_len[x]]

\* pbuf_cat(): the caller's reference to t becomes that of the chain h.
pbuf_cat(h, t) ==
  /\ held[h] > 0 /\ held[t] > 0 /\ Whole(h) /\ Whole(t) /\ Chain(h) \cap Chain(t) = {}
  /\ tot_len' = Lengthened(h, t)
  /\ next' = [x \in Pbufs |-> IF x \in Chain(h) /\ next[x] = NULL THEN t ELSE next[x]]
  /\ held' = [held EXCEPT ![t] = @ - 1]
  /\ UNCHANGED <<len, ref>>

\* Mutant: t gets no reference of its own
pbuf_chain_NoRef(h, t) ==
  /\ held[h] > 0 /\ held[t] > 0 /\ Whole(h) /\ Whole(t) /\ Chain(h) \cap Chain(t) = {}
  /\ tot_len' = Lengthened(h, t)
  /\ next' = [x \in Pbufs |-> IF x \in Chain(h) /\ next[x] = NULL THEN t ELSE next[x]]
  /\ UNCHANGED <<len, held, ref>>
\* pbuf_chain(): the caller goes on holding t.
pbuf_chain(h, t) ==
  /\ held[h] > 0 /\ held[t] > 0 /\ Whole(h) /\ Whole(t) /\ Chain(h) \cap Chain(t) = {}
  /\ tot_len' = Lengthened(h, t)
  /\ next' = [x \in Pbufs |-> IF x \in Chain(h) /\ next[x] = NULL THEN t ELSE next[x]]
  /\ ref' = [ref EXCEPT ![t] = @ + 1]
  /\ UNCHANGED <<len, held>>

\* Buffer q becomes the last one of its packet, with n units of data; the rest
\* of the chain is freed.
CutAfter(q, n, totals) ==
  LET gone == IF next[q] = NULL THEN {} ELSE Released(next[q])
  IN /\ ref' = IF next[q] = NULL THEN ref ELSE RefAfterFree(next[q])
     /\ next' = [Cleared(next, gone) EXCEPT ![q] = NULL]
     /\ len' = [Cleared(len, gone) EXCEPT ![q] = n]
     /\ tot_len' = [Cleared(totals, gone) EXCEPT ![q] = n]

\* pbuf_realloc() of a packet to a smaller length: buffers stay as long as there
\* is more data than they hold.
pbuf_realloc(p, new_len) ==
  LET w == Walk(p)
      data == [n \in 0..PoolSize |-> IF w[n] = NULL THEN 0 ELSE len[w[n]]]
      last == Least({n \in 0..PoolSize : new_len <= Sum(data, n + 1)})
      kept == {w[n] : n \in 0..(last - 1)}
      shrink == tot_len[p] - new_len
  IN /\ held[p] > 0 /\ Whole(p) /\ new_len < tot_len[p]
     /\ CutAfter(w[last], new_len - Sum(data, last),
                 [x \in Pbufs |-> IF x \in kept THEN tot_len[x] - shrink ELSE tot_len[x]])
     /\ UNCHANGED held

\* pbuf_dechain(): the first buffer of a packet is separated from the rest,
\* which is freed unless somebody else holds it.
pbuf_dechain(p) ==
  /\ held[p] > 0 /\ Whole(p) /\ next[p] # NULL
  /\ CutAfter(p, len[p], [tot_len EXCEPT ![next[p]] = tot_len[p] - len[p]])
  /\ UNCHANGED held

Next ==
  \/ \E length \in 0..MaxLength : pbuf_alloc(length)
  \/ \E p \in Pbufs : pbuf_free(p) \/ pbuf_ref(p) \/ pbuf_dechain(p)
  \/ \E h, t \in Pbufs : pbuf_cat(h, t) \/ pbuf_chain(h, t)
  \/ \E p \in Pbufs, n \in 0..MaxLength : pbuf_realloc(p, n)

Spec == Init /\ [][Next]_vars
-----------------------------------------------------------------------------
TypeOK ==
  /\ next \in [Pbufs -> Pbufs \cup {NULL}]
  /\ len \in [Pbufs -> 0..BufSize] /\ tot_len \in [Pbufs -> 0..(PoolSize * BufSize)]
  /\ ref \in [Pbufs -> 0..(MaxHeld + PoolSize)] /\ held \in [Pbufs -> 0..MaxHeld]

\* "The reference counter of a pbuf equals the number of pointers that refer to
\* the pbuf" (pbuf_free): no buffer is deallocated that a caller or a chain leads
\* to, and none stays that nothing leads to.
RefIsTrue ==
  \A p \in Pbufs : ref[p] = held[p] + Cardinality({x \in Pbufs : ref[x] > 0 /\ next[x] = p})

\* The total of every buffer is its own data and that of the chain after it, the
\* invariant that pbuf_dechain() asserts.
TotLenIsTrue ==
  \A p \in Pbufs : tot_len[p] = len[p] + (IF next[p] = NULL THEN 0 ELSE tot_len[next[p]])

\* Every allocated buffer is in a chain that some caller holds: what all callers
\* have freed is back in the pool.
NothingLost ==
  \A p \in Pbufs : ref[p] > 0 => \E h \in Pbufs : held[h] > 0 /\ p \in Chain(h)

\* The pool is consistent, for every sequence of pbuf_alloc(), pbuf_ref(),
\* pbuf_chain(), pbuf_free() and the others.
PoolConsistent == TypeOK /\ RefIsTrue /\ NothingLost
=============================================================================
