------------------------------- MODULE MCMem -------------------------------
(***************************************************************************)
(* The heap of Mem for TLC: two PCB slots, and stack requests below the    *)
(* default and above it.                                                   *)
(***************************************************************************)
EXTENDS Mem

\* Only live headers are ever read: kmalloc reads the free blocks, kfree the
\* header of a chunk the kernel holds and the free blocks. Fields left in
\* paragraphs that no longer start a block (merged, split or handed out)
\* are never read, so states that differ only there are the same state.
HeapView ==
  <<free_list, allocated, low_store, stack_start, signal_table, stopped_queue,
    [b \in Range(FreeBlocks) |-> <<size[b], prev[b], next[b]>>],
    [c \in allocated |-> <<size[c], sanity_check[c]>>]>>
====
