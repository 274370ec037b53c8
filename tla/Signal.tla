------------------------------- MODULE Signal -------------------------------
(***************************************************************************)
(* Signals (c/signal.c).  signals_pending and signals_enabled are the two *)
(* bit masks of a PCB, as sets of signal numbers.  frames[p] stands for   *)
(* the signal frames signal() pushes on the user stack of p, innermost    *)
(* last: the signal, the handler pointer pushed, and the saved ret.       *)
(***************************************************************************)
EXTENDS Sleep

\* Mutant: a signalled waiter is made ready without leaving blocked_queue.
signalled_unblock_keep_waiter(k, p) ==
  CASE k.blocked_status[p] = "SLEEP" -> wake(k, p)
    [] k.blocked_status[p] \in {"RECEIVE", "SEND"} ->
         add_pcb_to_ready_queue(
           remove_pcb_from_blocked_queue([k EXCEPT !.ret[p] = BLOCKED_PROC_SIGNALED], p), p)
    [] k.blocked_status[p] = "WAITING" -> add_pcb_to_ready_queue(k, p)
    [] OTHER -> [k EXCEPT !.panic = "assert"]

\* Mutant: a signalled sender or receiver is made ready without leaving
\* blocked_queue.
signalled_unblock_keep_blocked(k, p) ==
  CASE k.blocked_status[p] = "SLEEP" -> wake(k, p)
    [] k.blocked_status[p] \in {"RECEIVE", "SEND"} ->
         add_pcb_to_ready_queue([k EXCEPT !.ret[p] = BLOCKED_PROC_SIGNALED], p)
    [] k.blocked_status[p] = "WAITING" ->
         add_pcb_to_ready_queue(remove_pcb_from_blocked_queue(k, p), p)
    [] OTHER -> [k EXCEPT !.panic = "assert"]

\* The switch of set_pcb_signal on a blocked target: a sleeper is woken,
\* a sender or receiver gets BLOCKED_PROC_SIGNALED, a waiter is made
\* ready; a target blocked on a device hits ASSERT(0).
signalled_unblock(k, p) ==
  CASE k.blocked_status[p] = "SLEEP" -> wake(k, p)
    [] k.blocked_status[p] \in {"RECEIVE", "SEND"} ->
         add_pcb_to_ready_queue(
           remove_pcb_from_blocked_queue([k EXCEPT !.ret[p] = BLOCKED_PROC_SIGNALED], p), p)
    [] k.blocked_status[p] = "WAITING" ->
         add_pcb_to_ready_queue(remove_pcb_from_blocked_queue(k, p), p)
    [] OTHER -> [k EXCEPT !.panic = "assert"]

\* set_pcb_signal returns <<k', rc>>: for a signal number in range whose
\* handler slot is non-NULL it sets the pending bit and unblocks a
\* blocked target.
set_pcb_signal(k, p, sig) ==
  LET k1 == [k EXCEPT !.signals_pending[p] = @ \cup {sig}]
  IN  CASE sig \notin Sigs                   -> <<k, SYSKILL_SIG_INVALID>>
        [] k.signal_table[p][sig] = NULLH    -> <<k, 0>>
        [] k.state[p] # "BLOCKED"            -> <<k1, 0>>
        [] OTHER                             -> <<signalled_unblock(k1, p), 0>>

\* signal(): mark the signal in flight and push the trampoline frame
\* holding the saved ret and the handler pointer.
signal(k, p, sig) ==
  [k EXCEPT !.signals_enabled[p] = @ \cup {sig},
            !.frames[p] = Append(@, [sig |-> sig,
                                     handler |-> k.signal_table[p][sig],
                                     ret |-> k.ret[p]])]

\* Mutant: the two masks compared the other way round.
deliver_highest_priority_signal_swapped(k, p) ==
  LET hs == Max(k.signals_pending[p]) IN
  IF MaskValue(k.signals_enabled[p]) > MaskValue(k.signals_pending[p])
  THEN signal([k EXCEPT !.signals_pending[p] = @ \ {hs}], p, hs)
  ELSE k

\* deliver_highest_priority_signal: the highest pending bit is delivered
\* when the pending mask, read as a number, exceeds the enabled mask.
deliver_highest_priority_signal(k, p) ==
  LET hs == Max(k.signals_pending[p]) IN
  IF MaskValue(k.signals_pending[p]) > MaskValue(k.signals_enabled[p])
  THEN signal([k EXCEPT !.signals_pending[p] = @ \ {hs}], p, hs)
  ELSE k
=============================================================================
