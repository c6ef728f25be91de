-------------------------------- MODULE ChSem --------------------------------
(***************************************************************************)
(* The counting semaphores of chsem.c, as operators on the kernel of       *)
(* ChSchd: q[s] is s_queue and cnt[s] is s_cnt.                            *)
(***************************************************************************)
EXTENDS ChSchd

(* Variant of WaitTimeoutS that queues the newcomer first.                  *)
WaitTimeoutS_Lifo(k, s, time) ==
  LET dec == [k EXCEPT !.cnt[s] = @ - 1]
  IN IF dec.cnt[s] >= 0 THEN dec
     ELSE IF time = "IMMEDIATE" THEN k
     ELSE GoSleepTimeoutS([dec EXCEPT !.u[k.cur] = s, !.q[s] = <<k.cur>> \o @], "WTSEM", time)

(* chSemWaitTimeoutS, and chSemWaitS with TIME_INFINITE, up to the switch.  *)
WaitTimeoutS(k, s, time) ==
  LET dec == [k EXCEPT !.cnt[s] = @ - 1]
  IN IF dec.cnt[s] >= 0 THEN dec
     ELSE IF time = "IMMEDIATE" THEN k
     ELSE GoSleepTimeoutS([dec EXCEPT !.u[k.cur] = s, !.q[s] = Append(@, k.cur)], "WTSEM", time)

(* Variant of SignalI that forgets the last waiter.                         *)
SignalI_Less(k, s) ==
  LET inc == [k EXCEPT !.cnt[s] = @ + 1]
  IN IF inc.cnt[s] >= 0 THEN inc
     ELSE ReadyMsgI([inc EXCEPT !.q[s] = Tail(@)], Head(k.q[s]), "OK")

(* chSemSignalI.                                                            *)
SignalI(k, s) ==
  LET inc == [k EXCEPT !.cnt[s] = @ + 1]
  IN IF inc.cnt[s] > 0 THEN inc
     ELSE ReadyMsgI([inc EXCEPT !.q[s] = Tail(@)], Head(k.q[s]), "OK")

(* chSemSignal.                                                             *)
Signal(k, s) ==
  LET inc == [k EXCEPT !.cnt[s] = @ + 1]
  IN IF inc.cnt[s] > 0 THEN inc
     ELSE WakeupS([inc EXCEPT !.q[s] = Tail(@)], Head(k.q[s]), "OK")

(* chSemAddCounterI.                                                        *)
AddCounterI(k, s, n) ==
  LET add[i \in 0 .. n] == IF i = 0 THEN k ELSE SignalI(add[i - 1], s)
  IN add[n]

(* chSemResetI: the waiters are resumed from the last to the first.         *)
SemResetI(k, s, n) ==
  FoldLeft(LAMBDA r, t : ReadyMsgI(r, t, "RESET"),
           [k EXCEPT !.cnt[s] = n, !.q[s] = << >>], Reverse(k.q[s]))

(* chSemSignalWait up to the switch.                                        *)
SignalWait(k, s, w) ==
  LET done == WaitTimeoutS(SignalI(k, s), w, "INFINITE")
  IN IF done.cur = k.cur THEN RescheduleS(done) ELSE done

(* chsem.c:152 "inconsistent semaphore", with the number of waiters.        *)
Consistent(k, s) == Len(k.q[s]) = IF k.cnt[s] < 0 THEN -k.cnt[s] ELSE 0
=============================================================================
