------------------------------- MODULE Sleep --------------------------------
(***************************************************************************)
(* The sleep delta-queue (c/sleep.c).  A sleeping PCB keeps in pcb->ret   *)
(* the number of ticks it must wait after its predecessor in sleep_queue. *)
(* due is a ghost: the ticks each sleeper still has to wait according to  *)
(* the spec, kept to state what the deltas must add up to.                *)
(***************************************************************************)
EXTENDS Pcb

\* Where the walk of add_pcb_to_sleep_queue stops, and the delta left:
\* it passes node j while the deltas up to j (sum[j]) stay below req.
SleepWalk(k, req) ==
  LET sq == k.sleep_queue
      n  == Len(sq)
      sum[j \in 0 .. n] == IF j = 0 THEN 0 ELSE sum[j - 1] + k.ret[sq[j]]
      stop == CHOOSE j \in 1 .. n + 1 :
                /\ j = n + 1 \/ sum[j] >= req
                /\ \A i \in 1 .. j - 1 : sum[i] < req
  IN  <<stop, req - sum[stop - 1]>>

\* add_pcb_to_sleep_queue: ASSERT(entry->next == NULL), then the insertion
\* that leaves `rem` in the new node and takes it off its successor.
add_pcb_to_sleep_queue(k, e) ==
  LET w   == SleepWalk(k, k.ret[e])
      i   == w[1]
      rem == w[2]
      sq  == k.sleep_queue
  IN  IF Linked(k, e) THEN [k EXCEPT !.panic = "assert"]
      ELSE [k EXCEPT !.state[e] = "BLOCKED", !.blocked_status[e] = "SLEEP",
                     !.sleep_queue = InsertAt(sq, i, e),
                     !.ret = IF i <= Len(sq)
                             THEN [@ EXCEPT ![e] = rem, ![sq[i]] = @ - rem]
                             ELSE [@ EXCEPT ![e] = rem]]

\* sleep: ret := ceil(ms / MS_PER_CLOCK_TICK), then insert.
sleep(k, p, ms) ==
  LET ticks == ms \div MS_PER_CLOCK_TICK
               + (IF ms % MS_PER_CLOCK_TICK # 0 THEN 1 ELSE 0)
  IN  add_pcb_to_sleep_queue([k EXCEPT !.ret[p] = ticks,
                                       !.due[p] = ticks], p)

wake(k, p) == add_pcb_to_ready_queue(remove_pcb_from_sleep_queue(k, p), p)

\* The while loop of tick: wake (unlink and make ready) the heads while
\* their delta is <= 0, that is the longest such prefix, in order.
WakeExpired(k) ==
  LET sq    == k.sleep_queue
      m     == CHOOSE j \in 0 .. Len(sq) :
                 /\ \A i \in 1 .. j : k.ret[sq[i]] <= 0
                 /\ j = Len(sq) \/ k.ret[sq[j + 1]] > 0
      woken == SubSeq(sq, 1, m)
      W     == Range(woken)
  IN  [k EXCEPT !.sleep_queue    = SubSeq(sq, m + 1, Len(sq)),
                !.ready_queue    = @ \o woken,
                !.state          = [s \in Slots |-> IF s \in W THEN "READY" ELSE @[s]],
                !.blocked_status = [s \in Slots |-> IF s \in W THEN "NONE" ELSE @[s]]]

\* tick: decrement the head's delta, then wake the expired heads.  The
\* ghost due of every sleeper goes down by one.
tick(k) ==
  IF k.sleep_queue = <<>> THEN k
  ELSE LET hd == Head(k.sleep_queue)
           S  == Range(k.sleep_queue)
       IN  WakeExpired([k EXCEPT !.ret[hd] = @ - 1,
                                 !.due = [s \in Slots |-> IF s \in S THEN @[s] - 1 ELSE 0]])
=============================================================================
