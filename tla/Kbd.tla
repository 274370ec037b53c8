--------------------------------- MODULE Kbd ---------------------------------
(***************************************************************************)
(* The device layer: the device-independent calls of c/di_calls.c and the *)
(* keyboard driver of c/kbd.c, acting on the kernel record k of module    *)
(* Pcb.  Both entries of dev_table are the keyboard (device 0 without     *)
(* echo, device 1 with echo), so fd_table[p][fd] holds the device number *)
(* or NODEV.  The driver statics are fields of k under their C names:     *)
(*   kbd_task_list[i]      the reader task of the pids i mod N: its pcb,  *)
(*                         bufflen, the characters written into its      *)
(*                         buffer (buff, so buff_count = Len(buff)), and  *)
(*                         waiting_on_read;                               *)
(*   kbd_task_refcount, kbd_refcount, kbd_current_type, kbd_done;          *)
(*   keyboard_buffer       the characters of the circular buffer from     *)
(*                         tail to head (it holds KEYBOARD_BUFFER_SIZE-1);*)
(*   keyboard_keystate_flag the set of modifier bits that are set;        *)
(*   keyboard_eof          the EOF character;                             *)
(*   kbd_int               whether setKbdInt last enabled the IRQ.        *)
(* Characters are their codes; echo only prints and is left out.          *)
(***************************************************************************)
EXTENDS Pcb

CONSTANT PCB_MAX_FDS          \* fd slots per PCB (4 in the code)

ASSUME PCB_MAX_FDS \in Nat \ {0}

Fds == 0 .. PCB_MAX_FDS - 1
NUM_DEVICES == 2              \* DEV_ID_KEYBOARD_NO_ECHO = 0, DEV_ID_KEYBOARD = 1
NODEV == -1                   \* a NULL fd_table entry
KBD_TASK_LIST_SIZE == PCB_TABLE_SIZE
KEYBOARD_BUFFER_SIZE == 4 + 1
KBD_DEFAULT_EOF == 4          \* Ctrl-D
NL == 10                      \* '\n'
KEYBOARD_IOCTL_SET_EOF == 53
KEYBOARD_IOCTL_DISABLE_ECHO == 55
KEYBOARD_IOCTL_ENABLE_ECHO == 56
SHIFT_BIT == 0
CTRL_BIT == 1
CAPLOCK_BIT == 2

\* The entries of the lower, upper and ctrl tables of
\* keyboard_process_scancode for the scancodes the model types:
\* 'a', 'd', Enter, and the modifier keys (which map to 0).
ScanLower == (\h1C :> NL) @@ (\h1E :> 97) @@ (\h20 :> 100)
ScanUpper == (\h1C :> NL) @@ (\h1E :> 65) @@ (\h20 :> 68)
ScanCtrl  == (\h1C :> NL) @@ (\h1E :> 1)  @@ (\h20 :> 4)
TableAt(t, data) == IF data \in DOMAIN t THEN t[data] ELSE 0

\* keyboard_process_scancode: <<character, new modifier bits>>.  The ctrl
\* release clears the ctrl bit and then `flag &= ~KEYBOARD_STATE_CTRL_BIT`
\* (~1) clears bit 0, the shift bit.
keyboard_process_scancode(flag, data) ==
  LET c == IF data >= \h54 THEN 0
           ELSE IF CTRL_BIT \in flag THEN TableAt(ScanCtrl, data)
           ELSE IF (SHIFT_BIT \in flag) # (CAPLOCK_BIT \in flag)
                THEN TableAt(ScanUpper, data)
           ELSE TableAt(ScanLower, data)
  IN  <<c, IF c # 0 THEN flag
           ELSE CASE data \in {\h2A, \h36} -> flag \cup {SHIFT_BIT}
                  [] data \in {\hAA, \hB6} -> flag \ {SHIFT_BIT}
                  [] data = \h1D            -> flag \cup {CTRL_BIT}
                  [] data = \h9D            -> flag \ {CTRL_BIT, SHIFT_BIT}
                  [] data = \h3A            -> (flag \ {CAPLOCK_BIT}) \cup ({CAPLOCK_BIT} \ flag)
                  [] OTHER                   -> flag>>

TaskOf(k, p) == k.pid[p] % KBD_TASK_LIST_SIZE

\* keyboard_unblock_proc: the task stops waiting, its pcb's ret is the
\* count, and a BLOCKED pcb goes to the ready queue.
keyboard_unblock_proc(k, i) ==
  LET t  == k.kbd_task_list[i]
      k1 == [k EXCEPT !.kbd_task_refcount = @ - 1,
                      !.kbd_task_list[i].waiting_on_read = FALSE,
                      !.ret[t.pcb] = Len(t.buff)]
  IN  IF k.state[t.pcb] = "BLOCKED" THEN add_pcb_to_ready_queue(k1, t.pcb) ELSE k1

TaskIndices == [j \in 1 .. KBD_TASK_LIST_SIZE |-> j - 1]

\* keyboard_handle_eof: disable the IRQ, mark EOF, unblock every waiter.
keyboard_handle_eof(k) ==
  FoldLeft(LAMBDA acc, i : IF acc.kbd_task_list[i].waiting_on_read
                           THEN keyboard_unblock_proc(acc, i) ELSE acc,
           [k EXCEPT !.kbd_int = FALSE, !.kbd_done = TRUE], TaskIndices)

\* keyboard_process_char: EOF, or one byte into every waiting task, which
\* is unblocked when its buffer is full or the byte is a newline.
keyboard_process_char(k, c) ==
  IF c = k.keyboard_eof THEN keyboard_handle_eof(k)
  ELSE FoldLeft(
         LAMBDA acc, i :
           IF ~acc.kbd_task_list[i].waiting_on_read THEN acc
           ELSE LET a1 == [acc EXCEPT !.kbd_task_list[i].buff = Append(@, c)]
                    t  == a1.kbd_task_list[i]
                IN  IF Len(t.buff) = t.bufflen \/ c = NL
                    THEN keyboard_unblock_proc(a1, i) ELSE a1,
         k, TaskIndices)

\* keyboard_flush_buffer: hand buffered bytes, oldest first, to the
\* waiting tasks while anyone waits.
keyboard_flush_buffer(k) ==
  FoldLeft(LAMBDA acc, c : IF acc.kbd_task_refcount > 0
                           THEN keyboard_process_char(
                                  [acc EXCEPT !.keyboard_buffer = Tail(@)], c)
                           ELSE acc,
           k, k.keyboard_buffer)

\* Mutant: the full test compares with the array size, so all five slots
\* fill and head catches up with tail.
keyboard_isr_overfill(k, data) ==
  LET r  == keyboard_process_scancode(k.keyboard_keystate_flag, data)
      c  == r[1]
      k1 == [k EXCEPT !.keyboard_keystate_flag = r[2]]
  IN  CASE c = 0 -> k1
        [] k.kbd_task_refcount > 0 -> keyboard_process_char(k1, c)
        [] Len(k.keyboard_buffer) < KEYBOARD_BUFFER_SIZE ->
             [k1 EXCEPT !.keyboard_buffer = Append(@, c)]
        [] OTHER -> k1

\* keyboard_isr for one scancode: a character goes to the waiting tasks
\* if the refcount says there are any, else into the buffer if it has room.
keyboard_isr(k, data) ==
  LET r  == keyboard_process_scancode(k.keyboard_keystate_flag, data)
      c  == r[1]
      k1 == [k EXCEPT !.keyboard_keystate_flag = r[2]]
  IN  CASE c = 0 -> k1
        [] k.kbd_task_refcount > 0 -> keyboard_process_char(k1, c)
        [] Len(k.keyboard_buffer) < KEYBOARD_BUFFER_SIZE - 1 ->
             [k1 EXCEPT !.keyboard_buffer = Append(@, c)]
        [] OTHER -> k1

\* kbd_open: the same mode only adds a reference; the first open resets
\* the driver and enables the IRQ.  Returns <<k', rc>>.
kbd_open(k, p, echo) ==
  IF k.kbd_refcount > 0
  THEN IF k.kbd_current_type # echo THEN <<k, SYSERR>>
       ELSE <<[k EXCEPT !.kbd_refcount = @ + 1], 0>>
  ELSE <<[k EXCEPT !.kbd_current_type = echo, !.kbd_done = FALSE,
                   !.keyboard_buffer = <<>>, !.keyboard_keystate_flag = {},
                   !.keyboard_eof = KBD_DEFAULT_EOF, !.kbd_refcount = 1,
                   !.kbd_int = TRUE,
                   !.panic = IF k.kbd_task_list[TaskOf(k, p)].waiting_on_read
                             THEN "assert" ELSE @], 0>>

\* Mutant: the IRQ is switched off when the count was 0 before the
\* decrement rather than after it.
kbd_close_late_irq(k, p) ==
  IF k.kbd_refcount <= 0 THEN <<k, SYSERR>>
  ELSE LET i == TaskOf(k, p) IN
       <<[k EXCEPT !.kbd_refcount = @ - 1,
                   !.kbd_int = IF k.kbd_refcount = 0 THEN FALSE ELSE @,
                   !.kbd_task_refcount =
                      IF k.kbd_task_list[i].waiting_on_read THEN @ - 1 ELSE @,
                   !.kbd_task_list[i].waiting_on_read = FALSE], 0>>

kbd_close(k, p) ==
  IF k.kbd_refcount <= 0 THEN <<k, SYSERR>>
  ELSE LET i == TaskOf(k, p) IN
       <<[k EXCEPT !.kbd_refcount = @ - 1,
                   !.kbd_int = IF k.kbd_refcount = 1 THEN FALSE ELSE @,
                   !.kbd_task_refcount =
                      IF k.kbd_task_list[i].waiting_on_read THEN @ - 1 ELSE @,
                   !.kbd_task_list[i].waiting_on_read = FALSE], 0>>

\* kbd_read: register the task, flush the buffer into it, and return the
\* count if the buffer is full or EOF was seen, else BLOCKERR.
kbd_read(k, p, bufflen) ==
  LET i  == TaskOf(k, p)
      k1 == keyboard_flush_buffer(
              [k EXCEPT !.kbd_task_refcount = @ + 1,
                        !.kbd_task_list[i] = [pcb |-> p, bufflen |-> bufflen,
                                              buff |-> <<>>,
                                              waiting_on_read |-> TRUE]])
      n  == Len(k1.kbd_task_list[i].buff)
  IN  <<k1, CASE n = bufflen -> bufflen
              [] k1.kbd_done -> n
              [] OTHER       -> BLOCKERR>>

\* kbd_ioctl: set the EOF character (arg NIL: a NULL argument pointer),
\* or switch echo, which only affects printing.
kbd_ioctl(k, command, arg) ==
  CASE command = KEYBOARD_IOCTL_SET_EOF /\ arg = NIL -> <<k, SYSERR>>
    [] command = KEYBOARD_IOCTL_SET_EOF -> <<[k EXCEPT !.keyboard_eof = arg], 0>>
    [] command \in {KEYBOARD_IOCTL_ENABLE_ECHO, KEYBOARD_IOCTL_DISABLE_ECHO} -> <<k, 0>>
    [] OTHER -> <<k, SYSERR>>

\* verify_sysptr (mem.c): ASSERT(len > 0), then the address checks, which
\* the model folds into where = "bad".  Returns <<k', rc>>.
verify_sysptr(k, where, len) ==
  CASE len <= 0      -> <<[k EXCEPT !.panic = "assert"], SYSERR>>
    [] where = "bad" -> <<k, SYSERR>>
    [] OTHER         -> <<k, OK>>

valid_fd(k, p, fd) == fd \in Fds /\ k.fd_table[p][fd] # NODEV

\* di_open: the lowest free fd gets the device if its open succeeds.
di_open(k, p, device_no) ==
  LET free == {fd \in Fds : k.fd_table[p][fd] = NODEV}
      fd   == Min(free)
      r    == kbd_open(k, p, device_no)
  IN  CASE device_no \notin 0 .. NUM_DEVICES - 1 -> <<k, SYSERR>>
        [] free = {}                             -> <<k, SYSERR>>
        [] r[2] # 0                              -> <<r[1], SYSERR>>
        [] OTHER -> <<[r[1] EXCEPT !.fd_table[p][fd] = device_no], fd>>

di_close(k, p, fd) ==
  LET r == kbd_close(k, p)
  IN  CASE ~valid_fd(k, p, fd) -> <<k, SYSERR>>
        [] r[2] # 0            -> <<r[1], SYSERR>>
        [] OTHER -> <<[r[1] EXCEPT !.fd_table[p][fd] = NODEV], 0>>

di_read(k, p, fd, bufflen) ==
  IF valid_fd(k, p, fd) THEN kbd_read(k, p, bufflen) ELSE <<k, SYSERR>>

\* di_write: kbd_write always returns -1.
di_write(k, p, fd) == IF valid_fd(k, p, fd) THEN -1 ELSE SYSERR

di_ioctl(k, p, fd, command, arg) ==
  IF valid_fd(k, p, fd) THEN kbd_ioctl(k, command, arg) ELSE <<k, SYSERR>>
=============================================================================
