-------------------------------- MODULE Msg ---------------------------------
(***************************************************************************)
(* Synchronous send/recv (c/msg.c).  send and recv return <<k', rv>>:     *)
(* the kernel state after the call and the value the C function returns *)
(* (a byte count or BLOCKERR).  The peer's buffer and length are read    *)
(* from the peer's saved syscall arguments, whatever call it was blocked *)
(* in; a peer blocked in a call with fewer than three arguments gives    *)
(* blkcopy a garbage buffer (panic "copy").  xfer is a ghost recording *)
(* the transfer a step made.                                               *)
(***************************************************************************)
EXTENDS Signal

ThreeArgCalls == {"send", "recv"}

MinLen(a, b) == IF a > b THEN b ELSE a

\* The copy both functions end with: blkcopy min(len) bytes, then make the
\* blocked peer ready with blocked_id 0 and the byte count as its result.
Transfer(k, sender, receiver, peer, len) ==
  LET n  == MinLen(len, k.args[peer].len)
      k1 == add_pcb_to_ready_queue(k, peer)
  IN  <<[k1 EXCEPT !.blocked_id[peer] = 0, !.ret[peer] = n,
                   !.panic = IF k.args[peer].call \in ThreeArgCalls THEN @ ELSE "copy",
                   !.xfer = [sender |-> sender, receiver |-> receiver,
                             sargs |-> k.args[sender], rargs |-> k.args[receiver],
                             spid |-> k.pid[sender], rpid |-> k.pid[receiver]]],
        n>>

BlockAs(k, p, status, id) ==
  add_pcb_to_blocked_queue([k EXCEPT !.blocked_status[p] = status,
                                     !.blocked_id[p] = id], p)

\* Mutant: a blocked receiver counts as waiting for the sender only when
\* it receives from any sender.
send_any_only(k, cur, dest, len) ==
  LET any    == peek_any_receiver(k)
      exists == dest # NIL /\ InQueue(k, "blocked_queue", dest)
      k1     == IF exists THEN remove_pcb_from_blocked_queue(k, dest) ELSE k
      d      == IF exists THEN dest ELSE any
  IN  IF exists \/ any # NIL
      THEN IF k.pid[d] # 0 /\ k.blocked_id[d] # 0
           THEN <<BlockAs(add_pcb_to_blocked_queue(k1, d), cur, "SEND", k.pid[d]),
                  BLOCKERR>>
           ELSE Transfer(k1, cur, d, d, len)
      ELSE <<BlockAs(k, cur, "SEND", k.pid[dest]), BLOCKERR>>

send(k, cur, dest, len) ==
  LET any    == peek_any_receiver(k)
      exists == dest # NIL /\ InQueue(k, "blocked_queue", dest)
      k1     == IF exists THEN remove_pcb_from_blocked_queue(k, dest) ELSE k
      d      == IF exists THEN dest ELSE any
  IN  IF exists \/ any # NIL
      THEN IF k.pid[d] # 0 /\ k.blocked_id[d] # k.pid[cur]
           THEN <<BlockAs(add_pcb_to_blocked_queue(k1, d), cur, "SEND", k.pid[d]),
                  BLOCKERR>>
           ELSE Transfer(k1, cur, d, d, len)
      ELSE <<BlockAs(k, cur, "SEND", k.pid[dest]), BLOCKERR>>

\* Mutant: a receiver that blocks always records blocked_id 0.
recv_forget_sender(k, from, cur, len) ==
  LET exists == from # NIL
      f      == IF exists THEN from ELSE peek_next_sender(k)
  IN  IF f # NIL /\ InQueue(k, "blocked_queue", f)
      THEN LET k1 == remove_pcb_from_blocked_queue(k, f) IN
           IF exists /\ k.blocked_id[f] # k.pid[cur]
           THEN <<BlockAs(add_pcb_to_blocked_queue(k1, f), cur, "RECEIVE", k.pid[f]),
                  BLOCKERR>>
           ELSE Transfer(k1, f, cur, f, len)
      ELSE <<BlockAs(k, cur, "RECEIVE", 0), BLOCKERR>>

recv(k, from, cur, len) ==
  LET exists == from # NIL
      f      == IF exists THEN from ELSE peek_next_sender(k)
  IN  IF f # NIL /\ InQueue(k, "blocked_queue", f)
      THEN LET k1 == remove_pcb_from_blocked_queue(k, f) IN
           IF exists /\ k.blocked_id[f] # k.pid[cur]
           THEN <<BlockAs(add_pcb_to_blocked_queue(k1, f), cur, "RECEIVE", k.pid[f]),
                  BLOCKERR>>
           ELSE Transfer(k1, f, cur, f, len)
      ELSE <<BlockAs(k, cur, "RECEIVE", IF exists THEN k.pid[f] ELSE 0), BLOCKERR>>
=============================================================================
