------------------------------- MODULE ChSchd -------------------------------
(***************************************************************************)
(* The scheduler of chschd.c, as operators on the kernel's state.  The     *)
(* operations of the other objects are compositions of these, as they are  *)
(* compositions of calls in the code.                                      *)
(*                                                                         *)
(* A kernel k is a record of                                               *)
(*   cur     currp                                                         *)
(*   ready   the ready list ch.rlist                                       *)
(*   state   p_state of each thread                                        *)
(*   prio    p_prio of each thread                                         *)
(*   u       p_u of each thread: the object waited for, or rdymsg          *)
(*   q       the queue of threads of each object                           *)
(*   cnt     s_cnt of each object that is a semaphore                      *)
(*   vt      the threads with an armed timeout: the timer is a local of    *)
(*           chSchGoSleepTimeoutS                                          *)
(*   cb      the thread whose timeout has triggered and whose callback     *)
(*           wakeup is about to run, or NONE                               *)
(***************************************************************************)
EXTENDS Integers, FiniteSets, SequencesExt

NONE == "none"

(* Place t before the first element of s that is not one of `before', like  *)
(* the scans of the queues.                                                 *)
InsertAfter(s, t, before) ==
  LET i == SelectInSeq(s, LAMBDA x : x \notin before)
  IN InsertAt(s, IF i = 0 THEN Len(s) + 1 ELSE i, t)

(* queue_prio_insert: behind those of the same priority.                    *)
PrioInsert(k, s, t) == InsertAfter(s, t, {x \in ToSet(s) : k.prio[x] >= k.prio[t]})

(* queue_dequeue.                                                           *)
Dequeue(k, t) == [k EXCEPT !.q = [o \in DOMAIN @ |-> Remove(@[o], t)]]

(* chSchReadyI.                                                             *)
ReadyI(k, t) == [k EXCEPT !.state[t] = "READY", !.ready = PrioInsert(k, @, t)]

(* The wake-ups that also leave a message: p_u.rdymsg and chSchReadyI.      *)
ReadyMsgI(k, t, msg) == ReadyI([k EXCEPT !.u[t] = msg], t)

(* The first thread of the ready list becomes the current one.              *)
Dispatch(k) ==
  [k EXCEPT !.cur = Head(k.ready), !.ready = Tail(@), !.state[Head(k.ready)] = "CURRENT"]

(* chSchGoSleepS.                                                           *)
GoSleepS(k, newstate) == Dispatch([k EXCEPT !.state[k.cur] = newstate])

(* chSchGoSleepTimeoutS up to the switch: the timer is armed unless the     *)
(* time is TIME_INFINITE.                                                   *)
GoSleepTimeoutS(k, newstate, time) ==
  GoSleepS([k EXCEPT !.vt = IF time = "INFINITE" THEN @ ELSE @ \cup {k.cur}], newstate)

(* Variant of Slept that leaves the timer armed.                            *)
Slept_Armed(k) == k

(* chSchGoSleepTimeoutS after the switch: a timer still armed is reset.     *)
Slept(k) == [k EXCEPT !.vt = @ \ {k.cur}]

(* chSchIsPreemptionRequired, chSchIsRescRequiredI.                         *)
RescRequired(k) == k.ready # << >> /\ k.prio[Head(k.ready)] > k.prio[k.cur]

(* chSchDoRescheduleAhead: the current thread goes ahead of its peers.      *)
DoRescheduleAhead(k) ==
  LET d == Dispatch(k)
  IN [d EXCEPT !.state[k.cur] = "READY",
               !.ready = InsertAfter(@, k.cur, {x \in ToSet(@) : k.prio[x] > k.prio[k.cur]})]

(* chSchDoRescheduleBehind.                                                 *)
DoRescheduleBehind(k) == ReadyI(Dispatch(k), k.cur)

(* Variant of RescheduleS that forgets to switch.                           *)
RescheduleS_Never(k) == k

(* chSchRescheduleS.                                                        *)
RescheduleS(k) == IF RescRequired(k) THEN DoRescheduleAhead(k) ELSE k

(* chSchDoYieldS, chSchCanYieldS.                                           *)
DoYieldS(k) ==
  IF k.ready # << >> /\ k.prio[Head(k.ready)] >= k.prio[k.cur]
  THEN DoRescheduleBehind(k) ELSE k

(* chSchWakeupS.                                                            *)
WakeupS(k, t, msg) ==
  LET m == [k EXCEPT !.u[t] = msg]
  IN IF k.prio[t] <= k.prio[k.cur] THEN ReadyI(m, t)
     ELSE [ReadyI(m, k.cur) EXCEPT !.cur = t, !.state[t] = "CURRENT"]

(* chVTDoTickI triggers the timeout of t: the timer is disarmed, and its    *)
(* callback runs after the critical section.                                *)
Trigger(k, t) == [k EXCEPT !.vt = @ \ {t}, !.cb = t]

(* Variant of Expel that does not give the count of the semaphore back.     *)
Expel_Uncounted(k, t) ==
  IF k.state[t] \in {"WTSEM", "WTCOND", "QUEUED"} THEN Dequeue(k, t) ELSE k

(* The switch of wakeup: the thread leaves what it waits for.               *)
Expel(k, t) ==
  LET signalled == IF k.state[t] = "WTSEM" THEN [k EXCEPT !.cnt[k.u[t]] = @ + 1] ELSE k
  IN IF k.state[t] \in {"WTSEM", "WTCOND", "QUEUED"} THEN Dequeue(signalled, t) ELSE k

(* Variant of Timeout without the special case of a ready thread.           *)
Timeout_Ready(k) == [ReadyMsgI(Expel(k, k.cb), k.cb, "TIMEOUT") EXCEPT !.cb = NONE]

(* The callback wakeup.                                                     *)
Timeout(k) ==
  [IF k.state[k.cb] = "READY" THEN k ELSE ReadyMsgI(Expel(k, k.cb), k.cb, "TIMEOUT")
   EXCEPT !.cb = NONE]

-----------------------------------------------------------------------------
(* Every thread is in one place: it is current, or once in the ready list,  *)
(* or once in the queue of the object it waits for, or in none when it      *)
(* sleeps, and its state says which (chschd.c:223 "invalid state").         *)
InOnePlace(k) ==
  \A t \in DOMAIN k.state :
    LET ready == {i \in DOMAIN k.ready : k.ready[i] = t}
        waits == UNION {{<<o, i>> : i \in {j \in DOMAIN k.q[o] : k.q[o][j] = t}} :
                        o \in DOMAIN k.q}
    IN /\ (k.state[t] = "CURRENT") = (k.cur = t)
       /\ Cardinality(ready) = IF k.state[t] = "READY" THEN 1 ELSE 0
       /\ Cardinality(waits) =
            IF k.state[t] \in {"WTSEM", "WTMTX", "WTCOND", "QUEUED"} THEN 1 ELSE 0
       /\ k.state[t] \in {"WTSEM", "WTMTX", "WTCOND"} => Contains(k.q[k.u[t]], t)

(* A queue ordered by priority.                                             *)
ByPriority(k, s) == IsSorted(s, LAMBDA x, y : k.prio[x] >= k.prio[y])
=============================================================================
