------------------------------ MODULE MemSpec ------------------------------
(***************************************************************************)
(* What the memory manager promises its callers, without the free list:   *)
(* free memory is a set of paragraphs; an allocation takes the lowest     *)
(* stretch of free paragraphs that starts a free run and holds the        *)
(* request with its header, and fails only when no free run is long       *)
(* enough; a free gives the whole chunk back. The callers are create and  *)
(* cleanup_pcb, as in Mem.                                                 *)
(***************************************************************************)
EXTENDS MemConst, SequencesExt

VARIABLES
  free,           \* the free paragraphs
  chunks,         \* chunk start -> its length in bytes, for live allocations
  stack_start, signal_table, stopped_queue

vars == <<free, chunks, stack_start, signal_table, stopped_queue>>

\* A free run starts at a (the paragraph before it is not free) and holds
\* len bytes.
StartsFit(fr, a, len) ==
  (a - PARAGRAPH_SIZE) \notin fr /\ Run(a, len) \subseteq fr

\* Allocate sz bytes: <<free, chunks, pointer or NULL>>.
Alloc(fr, ch, sz) ==
  LET req == Required(sz)
      fits == {a \in fr : StartsFit(fr, a, req)}
      a == Min(fits)
  IN IF fits = {} THEN <<fr, ch, NULL>>
     ELSE <<fr \ Run(a, req), ch @@ (a :> req), a + HDR>>

\* Give back the chunk whose data starts at ptr.
Release(fr, ch, ptr) ==
  LET c == ptr - HDR
  IN <<fr \cup Run(c, ch[c]), [x \in DOMAIN ch \ {c} |-> ch[x]]>>

Boot == FoldLeft(LAMBDA st, sz : Alloc(st[1], st[2], sz), <<Regions, <<>>, NULL>>,
                 BootSizes)

Init ==
  /\ free = Boot[1]
  /\ chunks = Boot[2]
  /\ stack_start = [s \in Slots |-> NULL]
  /\ signal_table = [s \in Slots |-> NULL]
  /\ stopped_queue = [i \in 1 .. PCB_TABLE_SIZE |-> i - 1]

\* create: a stack and a table, both given back when no PCB is free, the
\* stack kept when the table cannot be had.
Create(stack) ==
  LET r1 == Alloc(free, chunks, StackRequest(stack))
      r2 == Alloc(r1[1], r1[2], SIGNAL_TABLE_SIZE * WORD)
      back == Release(Release(r2[1], r2[2], r1[3])[1],
                      Release(r2[1], r2[2], r1[3])[2], r2[3])
  IN CASE r1[3] = NULL -> UNCHANGED vars
       [] r2[3] = NULL -> /\ free' = r2[1] /\ chunks' = r2[2]
                          /\ UNCHANGED <<stack_start, signal_table, stopped_queue>>
       [] stopped_queue = <<>> ->
            /\ free' = back[1] /\ chunks' = back[2]
            /\ UNCHANGED <<stack_start, signal_table, stopped_queue>>
       [] OTHER -> /\ free' = r2[1] /\ chunks' = r2[2]
                   /\ stack_start' = [stack_start EXCEPT ![Head(stopped_queue)] = r1[3]]
                   /\ signal_table' = [signal_table EXCEPT ![Head(stopped_queue)] = r2[3]]
                   /\ stopped_queue' = Tail(stopped_queue)

\* cleanup_pcb: both chunks of the slot given back.
Stop(s) ==
  LET r1 == Release(free, chunks, stack_start[s])
      r2 == Release(r1[1], r1[2], signal_table[s])
  IN /\ s \notin Range(stopped_queue)
     /\ free' = r2[1] /\ chunks' = r2[2]
     /\ stopped_queue' = Append(stopped_queue, s)
     /\ UNCHANGED <<stack_start, signal_table>>

Next ==
  \/ \E stack \in StackArgs : Create(stack)
  \/ \E s \in Slots : Stop(s)

Spec == Init /\ [][Next]_vars
=============================================================================
