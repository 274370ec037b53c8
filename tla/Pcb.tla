-------------------------------- MODULE Pcb ---------------------------------
(***************************************************************************)
(* The PCB table and its FIFO queues (c/pcb.c, c/pcbqueue.c).             *)
(*                                                                         *)
(* Every operator here is a function of k, a record holding the whole     *)
(* kernel state (one field per variable of module Kernel), and returns    *)
(* the record after the C function has run, so that a handler that calls *)
(* several of them is written as their composition, in the code's order. *)
(*                                                                         *)
(* A queue is the sequence of slots reached from its head.  The code     *)
(* links a PCB through its single `next` field; pcb_offer of a PCB that  *)
(* is still linked in some queue cuts that list short (see README), so   *)
(* pcb_offer records such a step as panic "queue" and the model stops      *)
(* following the behaviour there.                                         *)
(***************************************************************************)
EXTENDS XerosConst

QueueNames == {"ready_queue", "blocked_queue", "sleep_queue", "stopped_queue"}

InQueue(k, q, e) == Contains(k[q], e)

Linked(k, e) == \E q \in QueueNames : InQueue(k, q, e)

\* pcb_offer: append at the tail.
pcb_offer(k, q, e) ==
  [k EXCEPT ![q] = Append(@, e),
            !.panic = IF Linked(k, e) THEN "queue" ELSE @]

\* pcb_remove: unlink the first occurrence, if any.
pcb_remove(k, q, e) == [k EXCEPT ![q] = RemoveFirst(@, e)]

\* Mutant: the pid recycling without its final + 1.
add_pcb_to_stopped_queue_nowrap(k, p) ==
  pcb_offer([k EXCEPT !.pid[p] = (@ + PCB_TABLE_SIZE - 1) % PID_MAX,
                      !.state[p] = "STOPPED"], "stopped_queue", p)

add_pcb_to_stopped_queue(k, p) ==
  pcb_offer([k EXCEPT !.pid[p] = ((@ + PCB_TABLE_SIZE - 1) % PID_MAX) + 1,
                      !.state[p] = "STOPPED"], "stopped_queue", p)

add_pcb_to_ready_queue(k, p) ==
  pcb_offer([k EXCEPT !.state[p] = "READY", !.blocked_status[p] = "NONE"],
            "ready_queue", p)

add_pcb_to_blocked_queue(k, p) ==
  pcb_offer([k EXCEPT !.state[p] = "BLOCKED"], "blocked_queue", p)

remove_pcb_from_ready_queue(k, p) == pcb_remove(k, "ready_queue", p)
remove_pcb_from_blocked_queue(k, p) == pcb_remove(k, "blocked_queue", p)
remove_pcb_from_sleep_queue(k, p) == pcb_remove(k, "sleep_queue", p)

\* The first PCB of queue q that is in S, or NIL.  peek_next_sender and
\* peek_any_receiver poll and re-offer every entry, which leaves a
\* well-formed queue in its original order.
FirstWith(q, S) ==
  LET i == SelectInSeq(q, LAMBDA e: e \in S) IN IF i = 0 THEN NIL ELSE q[i]

peek_next_sender(k) ==
  FirstWith(k.blocked_queue, {e \in Slots : k.blocked_status[e] = "SEND"})

peek_any_receiver(k) ==
  FirstWith(k.blocked_queue, {e \in Slots : k.blocked_id[e] = 0})

\* Every blocked PCB whose blocked_id is pid goes, in queue order, to the
\* ready queue with blocked_id 0; the others are re-offered in order.
unblock_pcb_waiting_for_pid(k, pid) ==
  LET bq    == k.blocked_queue
      Waits(e) == k.blocked_id[e] = pid
      woken == SelectSeq(bq, Waits)
      W     == Range(woken)
  IN  [k EXCEPT !.blocked_queue   = SelectSeq(bq, LAMBDA e: ~Waits(e)),
                !.ready_queue     = @ \o woken,
                !.state           = [s \in Slots |-> IF s \in W THEN "READY" ELSE @[s]],
                !.blocked_status  = [s \in Slots |-> IF s \in W THEN "NONE" ELSE @[s]],
                !.blocked_id      = [s \in Slots |-> IF s \in W THEN 0 ELSE @[s]]]

\* get_next_pcb: poll the ready queue.  On an empty queue the code writes
\* through the NULL it polled (low memory, unused in protected mode) and
\* returns NULL, after which the dispatcher runs the idle process.
get_next_pcb(k) ==
  IF k.ready_queue = <<>>
  THEN [k EXCEPT !.process = IDLE]
  ELSE LET n == Head(k.ready_queue)
       IN  [k EXCEPT !.ready_queue = Tail(@), !.process = n,
                     !.state[n] = "RUNNING"]

\* pid_to_pcb: the slot (pid-1) % PCB_TABLE_SIZE if it is not stopped.  It
\* never compares the slot's pid with the pid asked for.
pid_to_pcb(k, pid) ==
  IF pid >= 1 /\ k.state[(pid - 1) % PCB_TABLE_SIZE] # "STOPPED"
  THEN (pid - 1) % PCB_TABLE_SIZE
  ELSE NIL

\* cleanup_pcb: unlink from every queue, wake the PCBs whose blocked_id is
\* this pid, recycle the slot.  The stack and signal table are kfree'd
\* (the heap is not part of this model); signals_pending is left as is.
cleanup_pcb(k, p) ==
  LET k1 == remove_pcb_from_sleep_queue(
              remove_pcb_from_blocked_queue(
                remove_pcb_from_ready_queue(k, p), p), p)
  IN  add_pcb_to_stopped_queue(unblock_pcb_waiting_for_pid(k1, k.pid[p]), p)

\* fill_processStatus returns the index of the last slot it filled: the
\* idle process is slot 0, then one per live PCB.
fill_processStatus(k) == Cardinality({s \in Slots : k.state[s] # "STOPPED"})
=============================================================================
