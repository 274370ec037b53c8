------------------------------ MODULE MemConst ------------------------------
(***************************************************************************)
(* The memory layout the heap of mem.c manages, shared by the detailed    *)
(* model (Mem) and the abstract allocator it implements (MemSpec).        *)
(* Addresses are bytes; the sizes of xeroskernel.h are scaled down so     *)
(* that a few processes fill the heap, but stay byte counts that          *)
(* align_to_paragraph rounds.                                              *)
(***************************************************************************)
EXTENDS XerosConst, FiniteSets

CONSTANTS
  FREEMEM,              \* freemem: the first byte after the kernel image
  HOLESTART, HOLEEND,   \* the ISA hole [HOLESTART, HOLEEND) kmeminit skips
  MAXADDR,              \* maxaddr: the top of memory
  DEFAULT_STACK_SIZE,   \* the smallest stack create gives a process
  IDLE_PROC_STACK_SIZE, \* the idle process's stack
  StackArgs             \* stack sizes user programs pass to syscreate

PARAGRAPH_SIZE == 16
NULL == 0
WORD == 4   \* sizeof a pointer, an int and a funcptr_args on i386
HDR == 16   \* sizeof(mem_header_t): size, prev, next, sanity_check

ASSUME /\ FREEMEM \in Nat \ {0}
       /\ \A a \in {HOLESTART, HOLEEND, MAXADDR} : a % PARAGRAPH_SIZE = 0
       /\ FREEMEM < HOLESTART /\ HOLESTART < HOLEEND /\ HOLEEND < MAXADDR

\* (address + PARAGRAPH_SIZE) & ~(PARAGRAPH_SIZE - 1) rounds up to the next
\* multiple of PARAGRAPH_SIZE; the mask clears the low four bits.
align_to_paragraph(address) ==
  IF address % PARAGRAPH_SIZE # 0
  THEN (address + PARAGRAPH_SIZE) - ((address + PARAGRAPH_SIZE) % PARAGRAPH_SIZE)
  ELSE address

\* The paragraphs where a header may lie.
Addr == {PARAGRAPH_SIZE * i : i \in 1 .. MAXADDR \div PARAGRAPH_SIZE}

\* The two free regions kmeminit builds: from the aligned freemem to the
\* hole, and from the hole to maxaddr rounded down to a paragraph.
MEMSTART == align_to_paragraph(FREEMEM)
SECOND_SIZE == (MAXADDR - HOLEEND) - ((MAXADDR - HOLEEND) % PARAGRAPH_SIZE)
Regions == {a \in Addr : \/ MEMSTART <= a /\ a < HOLESTART
                         \/ HOLEEND <= a /\ a < HOLEEND + SECOND_SIZE}

\* The paragraphs of a chunk of len bytes at a.
Run(a, len) == {x \in Addr : a <= x /\ x < a + len}

\* The chunk kmalloc carves for a request: the aligned size and a header.
Required(size) == align_to_paragraph(size) + HDR

\* The allocations made before the first process runs, in order:
\* di_init_devtable's two kbd_dvioblk_t, initpcb's three pcb_queue_t and
\* sleepinit's one, and idleinit's stack.
BootSizes == <<WORD, WORD, 3 * WORD, 3 * WORD, 3 * WORD, 3 * WORD,
               IDLE_PROC_STACK_SIZE>>

\* create's stack request: at least DEFAULT_STACK_SIZE.
StackRequest(stack) ==
  IF stack < DEFAULT_STACK_SIZE THEN DEFAULT_STACK_SIZE ELSE stack
=============================================================================
