-------------------------------- MODULE Mem --------------------------------
(***************************************************************************)
(* The memory manager of mem.c and the kernel code that calls it: the     *)
(* free list is made of mem_header_t headers kept in the memory it        *)
(* manages, so the header fields are functions over the paragraphs.       *)
(* kmalloc is first fit over the address-ordered list and splits off the  *)
(* leftover; kfree inserts in order and coalesces with both neighbours.   *)
(* Its callers are create (a stack, then a signal table, freed again when *)
(* no PCB is free) and cleanup_pcb (both freed when a process stops).     *)
(***************************************************************************)
EXTENDS MemConst, SequencesExt

VARIABLES
  free_list,      \* mem.c's free_list: the first free header, or NULL
  size,           \* size[a]: the size field of a header at a (header included)
  prev,           \* prev[a], next[a]: the links of a free header
  next,
  sanity_check,   \* sanity_check[a]: what kfree compares a pointer with
  allocated,      \* ghost: the chunks kmalloc returned and kfree did not take back
  low_store,      \* ghost: a header store went through NULL, below the heap
  stack_start,    \* pcb->stack_start of each slot
  signal_table,   \* pcb->signal_table of each slot
  stopped_queue   \* the stopped queue get_free_pcb polls

heap == <<free_list, size, prev, next, sanity_check, allocated, low_store>>
vars == <<heap, stack_start, signal_table, stopped_queue>>

\* The heap as a record, so that kmalloc and kfree are operators on it.
Heap == [free_list |-> free_list, size |-> size, prev |-> prev, next |-> next,
         sanity_check |-> sanity_check, allocated |-> allocated,
         low_store |-> low_store]

HeapIs(h) ==
  /\ free_list = h.free_list /\ size = h.size /\ prev = h.prev
  /\ next = h.next /\ sanity_check = h.sanity_check /\ allocated = h.allocated
  /\ low_store = h.low_store

SetHeap(h) ==
  /\ free_list' = h.free_list /\ size' = h.size /\ prev' = h.prev
  /\ next' = h.next /\ sanity_check' = h.sanity_check /\ allocated' = h.allocated
  /\ low_store' = h.low_store

\* p->f = v where the code first tests p against NULL (mem.c:72, 121, 157).
Put(h, f, p, v) == IF p = NULL THEN h ELSE [h EXCEPT ![f][p] = v]

\* curr->next->prev = curr->prev (mem.c:86), untested: when curr is the
\* last free block the store goes through NULL to address 4, below the heap.
StoreNextPrev(h, curr) ==
  IF h.next[curr] = NULL THEN [h EXCEPT !.low_store = TRUE]
  ELSE [h EXCEPT !.prev[h.next[curr]] = h.prev[curr]]

\* kmeminit: the two regions, linked. Header fields of memory no code has
\* written yet hold NULL; no path reads them before writing them.
kmeminit ==
  LET blank == [a \in Addr |-> NULL]
  IN [free_list |-> MEMSTART,
      size |-> [blank EXCEPT ![MEMSTART] = HOLESTART - MEMSTART,
                             ![HOLEEND] = SECOND_SIZE],
      prev |-> [blank EXCEPT ![HOLEEND] = MEMSTART],
      next |-> [blank EXCEPT ![MEMSTART] = HOLEEND],
      sanity_check |-> blank,
      allocated |-> {}, low_store |-> FALSE]

\* kmalloc's walk: the first free header whose size holds the request.
RECURSIVE FirstFit(_, _, _)
FirstFit(h, curr, required) ==
  IF curr = NULL \/ required <= h.size[curr] THEN curr
  ELSE FirstFit(h, h.next[curr], required)

\* Mutant: the search compares the block with the aligned size alone,
\* forgetting the header the chunk also needs.
kmalloc_fit_without_header(h, sz) ==
  LET required == Required(sz)
      curr == FirstFit(h, h.free_list, align_to_paragraph(sz))
      leftover == curr + required
      nxt == h.next[curr]
      split == Put(Put(Put(Put(Put(h, "size", leftover, h.size[curr] - required),
                       "prev", leftover, curr), "next", leftover, nxt),
                       "prev", nxt, leftover), "next", curr, leftover)
      h1 == IF required # h.size[curr] THEN split ELSE h
      h2 == IF h1.prev[curr] # NULL
            THEN Put(h1, "next", h1.prev[curr], h1.next[curr])
            ELSE [h1 EXCEPT !.free_list = h1.next[curr]]
      h3 == Put(StoreNextPrev(Put(h2, "size", curr, required), curr),
                "sanity_check", curr, curr + HDR)
  IN IF sz <= 0 \/ curr = NULL THEN <<h, NULL>>
     ELSE <<[h3 EXCEPT !.allocated = @ \cup {curr}], curr + HDR>>

\* Mutant: the unlink leaves the next block's prev pointing at the chunk
\* just handed out (curr->next->prev = curr->prev dropped).
kmalloc_no_back_link(h, sz) ==
  LET required == Required(sz)
      curr == FirstFit(h, h.free_list, required)
      leftover == curr + required
      nxt == h.next[curr]
      split == Put(Put(Put(Put(Put(h, "size", leftover, h.size[curr] - required),
                       "prev", leftover, curr), "next", leftover, nxt),
                       "prev", nxt, leftover), "next", curr, leftover)
      h1 == IF required # h.size[curr] THEN split ELSE h
      h2 == IF h1.prev[curr] # NULL
            THEN Put(h1, "next", h1.prev[curr], h1.next[curr])
            ELSE [h1 EXCEPT !.free_list = h1.next[curr]]
      h3 == Put(Put(h2, "size", curr, required), "sanity_check", curr, curr + HDR)
  IN IF sz <= 0 \/ curr = NULL THEN <<h, NULL>>
     ELSE <<[h3 EXCEPT !.allocated = @ \cup {curr}], curr + HDR>>

\* Mutant: the leftover starts after the aligned size, without the header.
kmalloc_leftover_no_header(h, sz) ==
  LET required == Required(sz)
      curr == FirstFit(h, h.free_list, required)
      leftover == curr + align_to_paragraph(sz)
      nxt == h.next[curr]
      split == Put(Put(Put(Put(Put(h, "size", leftover, h.size[curr] - required),
                       "prev", leftover, curr), "next", leftover, nxt),
                       "prev", nxt, leftover), "next", curr, leftover)
      h1 == IF required # h.size[curr] THEN split ELSE h
      h2 == IF h1.prev[curr] # NULL
            THEN Put(h1, "next", h1.prev[curr], h1.next[curr])
            ELSE [h1 EXCEPT !.free_list = h1.next[curr]]
      h3 == Put(StoreNextPrev(Put(h2, "size", curr, required), curr),
                "sanity_check", curr, curr + HDR)
  IN IF sz <= 0 \/ curr = NULL THEN <<h, NULL>>
     ELSE <<[h3 EXCEPT !.allocated = @ \cup {curr}], curr + HDR>>

\* kmalloc(size): <<heap, pointer or NULL>>.
kmalloc(h, sz) ==
  LET required == Required(sz)
      curr == FirstFit(h, h.free_list, required)
      leftover == curr + required
      nxt == h.next[curr]
      split == Put(Put(Put(Put(Put(h, "size", leftover, h.size[curr] - required),
                       "prev", leftover, curr), "next", leftover, nxt),
                       "prev", nxt, leftover), "next", curr, leftover)
      h1 == IF required # h.size[curr] THEN split ELSE h
      h2 == IF h1.prev[curr] # NULL
            THEN Put(h1, "next", h1.prev[curr], h1.next[curr])
            ELSE [h1 EXCEPT !.free_list = h1.next[curr]]
      h3 == Put(StoreNextPrev(Put(h2, "size", curr, required), curr),
                "sanity_check", curr, curr + HDR)
  IN IF sz <= 0 \/ curr = NULL THEN <<h, NULL>>
     ELSE <<[h3 EXCEPT !.allocated = @ \cup {curr}], curr + HDR>>

\* kfree's walk: the last free header below node and the first after it.
RECURSIVE FreeNeighbours(_, _, _, _)
FreeNeighbours(h, p, n, node) ==
  IF n # NULL /\ n < node THEN FreeNeighbours(h, n, h.next[n], node)
  ELSE <<p, n>>

\* Mutant: blocks that touch are not merged (<= for <).
coalesce_blocks_touching(h, first, second) ==
  IF first = NULL \/ second = NULL \/ first + HDR + h.size[first] <= second + HDR
  THEN h
  ELSE Put(Put(Put(h, "size", first, second + HDR + h.size[second] - (first + HDR)),
               "next", first, h.next[second]),
           "prev", h.next[second], first)

\* coalesce_blocks: merge second into first when first ends where second
\* begins (data_start + size reaches the next data_start).
coalesce_blocks(h, first, second) ==
  IF first = NULL \/ second = NULL \/ first + HDR + h.size[first] < second + HDR
  THEN h
  ELSE Put(Put(Put(h, "size", first, second + HDR + h.size[second] - (first + HDR)),
               "next", first, h.next[second]),
           "prev", h.next[second], first)

\* kfree(ptr): <<heap, 1 or 0>>. The sanity check stays set after the free.
kfree(h, ptr) ==
  LET node == ptr - HDR
      nb == FreeNeighbours(h, NULL, h.free_list, node)
      h1 == IF nb[1] # NULL THEN Put(h, "next", nb[1], node)
            ELSE [h EXCEPT !.free_list = node]
      h2 == Put(Put(Put(h1, "prev", nb[2], node), "prev", node, nb[1]),
                "next", node, nb[2])
      h3 == coalesce_blocks(coalesce_blocks(h2, node, nb[2]), nb[1], node)
  IN IF h.sanity_check[node] # ptr THEN <<h, 0>>
     ELSE <<[h3 EXCEPT !.allocated = @ \ {node}], 1>>

\* The boot allocations, none of which is ever freed.
Boot == FoldLeft(LAMBDA h, sz : kmalloc(h, sz)[1], kmeminit, BootSizes)

\* initpcb offers every slot to the stopped queue in index order.
Init ==
  /\ HeapIs(Boot)
  /\ stack_start = [s \in Slots |-> NULL]
  /\ signal_table = [s \in Slots |-> NULL]
  /\ stopped_queue = [i \in 1 .. PCB_TABLE_SIZE |-> i - 1]

\* create(fp, stack) as far as memory goes: the stack, then the signal
\* table; when the table cannot be had create returns with the stack still
\* allocated; when get_free_pcb finds no stopped PCB both are freed.
Create(stack) ==
  LET r1 == kmalloc(Heap, StackRequest(stack))
      r2 == kmalloc(r1[1], SIGNAL_TABLE_SIZE * WORD)
      s == Head(stopped_queue)
  IN CASE r1[2] = NULL -> UNCHANGED vars
       [] r2[2] = NULL -> /\ SetHeap(r2[1])
                          /\ UNCHANGED <<stack_start, signal_table, stopped_queue>>
       [] stopped_queue = <<>> ->
            /\ SetHeap(kfree(kfree(r2[1], r1[2])[1], r2[2])[1])
            /\ UNCHANGED <<stack_start, signal_table, stopped_queue>>
       [] OTHER -> /\ SetHeap(r2[1])
                   /\ stack_start' = [stack_start EXCEPT ![s] = r1[2]]
                   /\ signal_table' = [signal_table EXCEPT ![s] = r2[2]]
                   /\ stopped_queue' = Tail(stopped_queue)

\* cleanup_pcb of a live process (sysstop, or KILL): back on the stopped
\* queue, then its stack and its signal table freed.
Stop(s) ==
  /\ s \notin Range(stopped_queue)
  /\ SetHeap(kfree(kfree(Heap, stack_start[s])[1], signal_table[s])[1])
  /\ stopped_queue' = Append(stopped_queue, s)
  /\ UNCHANGED <<stack_start, signal_table>>

Next ==
  \/ \E stack \in StackArgs : Create(stack)
  \/ \E s \in Slots : Stop(s)

Spec == Init /\ [][Next]_vars
-----------------------------------------------------------------------------
\* The free list as a sequence, walking next from free_list (cut off after
\* as many steps as there are paragraphs, should the links form a cycle).
RECURSIVE ListFrom(_, _)
ListFrom(a, fuel) ==
  IF a = NULL \/ fuel = 0 THEN <<>> ELSE <<a>> \o ListFrom(next[a], fuel - 1)

FreeBlocks == ListFrom(free_list, Cardinality(Addr))

\* The paragraphs of the chunk whose header is at a.
Chunk(a) == Run(a, size[a])

FreeSet == UNION {Chunk(b) : b \in Range(FreeBlocks)}

TypeOK ==
  /\ free_list \in Addr \cup {NULL}
  /\ size \in [Addr -> Nat]
  /\ prev \in [Addr -> Addr \cup {NULL}]
  /\ next \in [Addr -> Addr \cup {NULL}]
  /\ allocated \subseteq Addr
  /\ low_store \in BOOLEAN
  /\ stack_start \in [Slots -> Addr \cup {NULL}]
  /\ signal_table \in [Slots -> Addr \cup {NULL}]
  /\ stopped_queue \in Seq(Slots)

\* kmalloc, kfree and coalesce_blocks keep the list they share well formed:
\* the walk from free_list ends in NULL, every prev link points back to
\* the block before, and the blocks ascend with a gap between any two
\* (kfree coalesced every pair of neighbours it made adjacent).
FreeListWellFormed ==
  LET L == FreeBlocks
  IN /\ L # <<>> => next[L[Len(L)]] = NULL
     /\ \A i \in 1 .. Len(L) : prev[L[i]] = IF i = 1 THEN NULL ELSE L[i - 1]
     /\ \A i \in 1 .. Len(L) - 1 : L[i] + size[L[i]] < L[i + 1]

\* The free blocks and the allocated chunks tile both regions exactly:
\* nothing is handed out twice or lost, every allocated chunk still has
\* the header kfree checks, and every live process's stack and table are
\* allocated chunks, so cleanup_pcb's kfree calls succeed.
HeapTiled ==
  LET C == Range(FreeBlocks) \cup allocated
  IN /\ UNION {Chunk(c) : c \in C} = Regions
     /\ \A c, d \in C : c # d => Chunk(c) \cap Chunk(d) = {}
     /\ Range(FreeBlocks) \cap allocated = {}
     /\ \A c \in allocated : sanity_check[c] = c + HDR
     /\ \A s \in Slots \ Range(stopped_queue) :
          {stack_start[s] - HDR, signal_table[s] - HDR} \subseteq allocated

\* The chunks allocated before the first process runs, never freed
\* (kbd.c:85, "this kmalloc will intentionally never be kfree'd").
BootChunks == Boot.allocated

\* Every store of the heap lands on the heap and no chunk is orphaned: the
\* allocated chunks are the boot chunks and the stacks and signal tables
\* of live processes, so what create takes and cleanup_pcb gives back is
\* all there is (create.c:41 returning with its stack still allocated
\* would leave a chunk nothing points to).
HeapOwned ==
  /\ ~low_store
  /\ allocated = BootChunks \cup
        UNION {{stack_start[s] - HDR, signal_table[s] - HDR} :
                 s \in Slots \ Range(stopped_queue)}

\* The free list implements the first-fit allocator of MemSpec: the free
\* paragraphs are those its blocks cover, and each allocated chunk keeps
\* the size its header records.
Abstract == INSTANCE MemSpec
              WITH free <- FreeSet, chunks <- [c \in allocated |-> size[c]]

\* Every create and every stop changes free memory exactly as the abstract
\* allocator does: kmalloc finds the lowest free run that fits and fails
\* only when none does, and kfree gives back the whole chunk.
ImplementsMemSpec == Abstract!Spec
====
