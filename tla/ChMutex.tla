------------------------------- MODULE ChMutex -------------------------------
(***************************************************************************)
(* The mutexes of chmtx.c with priority inheritance, the condition         *)
(* variables of chcond.c, and the thread calls of chthreads.c that change  *)
(* a priority or give up the processor.                                    *)
(*                                                                         *)
(* The kernel k of ChSchd has three more fields: realprio (p_realprio),    *)
(* mtxlist (p_mtxlist) and owner (m_owner).  A call is one step up to the  *)
(* switch to another thread; at[t] is what is left of the call of t, which *)
(* it does when it is current again, still inside the critical section.    *)
(* irq says that interrupts are being served: their epilogue reschedules.  *)
(*                                                                         *)
(* Threads call in any order what the API allows: a thread never locks a   *)
(* mutex it owns and unlocks the last one it locked.  Two threads may nest *)
(* the same mutexes in different orders, and wait for each other for ever. *)
(***************************************************************************)
EXTENDS ChSchd

CONSTANTS Threads, IDLE, Mutexes, Conds,
          BasePrio,      \* the priorities of the threads at their creation
          NewPrios       \* the arguments of chThdSetPriority

ASSUME MutexAssumption ==
  /\ IDLE \notin Threads
  /\ BasePrio \in [Threads -> Nat \ {0}] /\ NewPrios \subseteq Nat \ {0}

VARIABLES k, at, irq,
          lowered   \* history: the owners that lowered themselves below a waiter

vars == <<k, at, irq, lowered>>

All == Threads \cup {IDLE}

Rest(op, m) == [op |-> op, m |-> m]
User == Rest("user", NONE)

(* The threads as chThdCreateStatic leaves them in the ready list.          *)
Created == SetToSortSeq(Threads, LAMBDA x, y : BasePrio[x] > BasePrio[y])

Init ==
  /\ k = [cur |-> Head(Created), ready |-> Tail(Created) \o <<IDLE>>,
          state |-> [t \in All |-> IF t = Head(Created) THEN "CURRENT" ELSE "READY"],
          prio |-> [t \in All |-> IF t = IDLE THEN 0 ELSE BasePrio[t]],
          realprio |-> [t \in All |-> IF t = IDLE THEN 0 ELSE BasePrio[t]],
          u |-> [t \in All |-> NONE],
          q |-> [o \in Mutexes \cup Conds |-> << >>],
          cnt |-> << >>, vt |-> {}, cb |-> NONE,
          owner |-> [m \in Mutexes |-> NONE],
          mtxlist |-> [t \in All |-> << >>]]
  /\ at = [t \in All |-> User] /\ irq = FALSE /\ lowered = {}

-----------------------------------------------------------------------------
(* Variant of Requeue that leaves the thread where it is.                   *)
Requeue_Never(r, t) == r

(* The switch of chMtxLockS: a thread whose priority changed is moved in    *)
(* the queue it is in.                                                      *)
Requeue(r, t) ==
  CASE r.state[t] \in {"WTMTX", "WTCOND"} ->
         [r EXCEPT !.q[r.u[t]] = PrioInsert(r, Remove(@, t), t)]
    [] r.state[t] = "READY" -> [r EXCEPT !.ready = PrioInsert(r, Remove(@, t), t)]
    [] OTHER -> r

(* Variant of Boost that stops at the owner.                                *)
Boost_Owner(r, t, p) ==
  IF r.prio[t] < p THEN Requeue([r EXCEPT !.prio[t] = p], t) ELSE r

(* The loop of chMtxLockS: along the owners, as long as they have a lower   *)
(* priority and wait for a mutex themselves.                                *)
Boost(r, t, p) ==
  LET step(s) ==
        IF s.tp = NONE THEN s
        ELSE IF s.r.prio[s.tp] >= p THEN s
        ELSE [r |-> Requeue([s.r EXCEPT !.prio[s.tp] = p], s.tp),
              tp |-> IF s.r.state[s.tp] = "WTMTX" THEN s.r.owner[s.r.u[s.tp]] ELSE NONE]
      loop[n \in 0 .. Cardinality(All)] ==
        IF n = 0 THEN [r |-> r, tp |-> t] ELSE step(loop[n - 1])
  IN loop[Cardinality(All)].r

(* Variant of Take that puts the mutex at the end of the list.              *)
Take_Last(r, m, t) == [r EXCEPT !.owner[m] = t, !.mtxlist[t] = Append(@, m)]

(* The mutex gets its owner and is pushed on the owner's list.              *)
Take(r, m, t) == [r EXCEPT !.owner[m] = t, !.mtxlist[t] = <<m>> \o @]

(* chMtxLockS up to the switch.                                             *)
LockS(r, m) ==
  IF r.owner[m] = NONE THEN Take(r, m, r.cur)
  ELSE LET b == Boost(r, r.owner[m], r.prio[r.cur])
       IN GoSleepS([b EXCEPT !.q[m] = PrioInsert(b, @, r.cur), !.u[r.cur] = m], "WTMTX")

(* The mutex is given to its first waiter, or to nobody.                    *)
Release(r, m) ==
  IF r.q[m] = << >> THEN [r EXCEPT !.owner[m] = NONE]
  ELSE ReadyI(Take([r EXCEPT !.q[m] = Tail(@)], m, Head(r.q[m])), Head(r.q[m]))

(* The optimal priority: that of the thread and of the first waiters of the *)
(* mutexes it owns.                                                         *)
OwnPrio(r, t) ==
  Max({r.realprio[t]} \cup
      {r.prio[Head(r.q[l])] : l \in {m \in ToSet(r.mtxlist[t]) : r.q[m] # << >>}})

(* chMtxUnlockS of the last mutex locked.                                   *)
UnlockS(r) ==
  LET t == r.cur
      m == Head(r.mtxlist[t])
      popped == [r EXCEPT !.mtxlist[t] = Tail(@)]
  IN Release(IF r.q[m] = << >> THEN popped
             ELSE [popped EXCEPT !.prio[t] = OwnPrio(popped, t)], m)

(* chMtxUnlockAll.                                                          *)
UnlockAll(r) ==
  LET t == r.cur
      freed == FoldLeft(Release, [r EXCEPT !.mtxlist[t] = << >>], r.mtxlist[t])
  IN RescheduleS([freed EXCEPT !.prio[t] = r.realprio[t]])
-----------------------------------------------------------------------------
(* t runs outside the kernel.                                               *)
Runs(t) == k.cur = t /\ at[t] = User /\ ~irq

(* The mutexes t may lock next.                                             *)
Lockable(t) == Mutexes \ ToSet(k.mtxlist[t])

Becomes(r) == k' = r /\ UNCHANGED irq

(* A call of t that may leave it asleep with `rest' still to do.            *)
Calls(t, r, rest) ==
  /\ Becomes(r)
  /\ at' = IF r.state[t] \in {"READY", "CURRENT"} THEN at ELSE [at EXCEPT ![t] = rest]
  /\ lowered' = {o \in lowered : r.mtxlist[o] # << >>}

Lock(t) == Runs(t) /\ \E m \in Lockable(t) : Calls(t, LockS(k, m), Rest("lock", m))

(* chMtxTryLock of a free mutex; of an owned one it changes nothing.        *)
TryLock(t) ==
  Runs(t) /\ \E m \in Lockable(t) : k.owner[m] = NONE /\ Calls(t, Take(k, m, t), User)

Unlock(t) ==
  /\ Runs(t) /\ k.mtxlist[t] # << >>
  /\ Calls(t, IF k.q[Head(k.mtxlist[t])] = << >> THEN UnlockS(k)
              ELSE RescheduleS(UnlockS(k)), User)

UnlockEvery(t) ==
  Runs(t) /\ k.mtxlist[t] # << >> /\ Calls(t, UnlockAll(k), User)

(* chThdSetPriority.                                                        *)
SetPriority(t) ==
  /\ Runs(t)
  /\ \E p \in NewPrios :
       LET set == [k EXCEPT !.prio[t] = IF @ = k.realprio[t] \/ p > @ THEN p ELSE @,
                            !.realprio[t] = p]
       IN /\ Becomes(RescheduleS(set))
          /\ lowered' = IF set.prio[t] < OwnPrio(set, t) THEN lowered \cup {t} ELSE lowered
  /\ UNCHANGED at

(* chThdYield.                                                              *)
Yield(t) == Runs(t) /\ Calls(t, DoYieldS(k), User)

(* chThdSleep.                                                              *)
Sleep(t) == Runs(t) /\ Calls(t, GoSleepTimeoutS(k, "SLEEPING", "FINITE"), Rest("sleep", NONE))

(* chCondWait and chCondWaitTimeout up to the switch.                       *)
CondWait(t) ==
  /\ Runs(t) /\ k.mtxlist[t] # << >>
  /\ \E c \in Conds, time \in {"FINITE", "INFINITE"} :
       LET out == UnlockS(k)
           waits == [out EXCEPT !.u[t] = c, !.q[c] = PrioInsert(out, @, t)]
       IN Calls(t, GoSleepTimeoutS(waits, "WTCOND", time),
                Rest(IF time = "FINITE" THEN "condtimeout" ELSE "cond", Head(k.mtxlist[t])))

(* chCondSignal.                                                            *)
CondSignal(t) ==
  /\ Runs(t)
  /\ \E c \in Conds :
       /\ k.q[c] # << >>
       /\ Calls(t, WakeupS([k EXCEPT !.q[c] = Tail(@)], Head(k.q[c]), "OK"), User)

(* chCondBroadcastI.                                                        *)
BroadcastI(r, c) ==
  FoldLeft(LAMBDA s, t : ReadyMsgI(s, t, "RESET"), [r EXCEPT !.q[c] = << >>], r.q[c])

CondBroadcast(t) ==
  Runs(t) /\ \E c \in Conds : k.q[c] # << >> /\ Calls(t, RescheduleS(BroadcastI(k, c)), User)

(* The rest of a call, once the thread is current again.                    *)
Return(t) ==
  /\ k.cur = t /\ at[t] # User /\ ~irq
  /\ LET woken == IF at[t].op \in {"sleep", "condtimeout"} THEN Slept(k) ELSE k
         relock == at[t].op = "cond" \/ (at[t].op = "condtimeout" /\ k.u[t] # "TIMEOUT")
         back == IF relock THEN LockS(woken, at[t].m) ELSE woken
     IN /\ Becomes(back)
        /\ at' = [at EXCEPT ![t] = IF back.state[t] = "WTMTX" THEN Rest("lock", at[t].m)
                                   ELSE User]
  /\ UNCHANGED lowered

-----------------------------------------------------------------------------
(* Interrupts come when the current thread is not in a critical section.    *)
Served(r) == at[k.cur] = User /\ k' = r /\ irq' = TRUE /\ UNCHANGED <<at, lowered>>

TimerTriggers == k.cb = NONE /\ \E t \in k.vt : Served(Trigger(k, t))
TimerCallback == k.cb # NONE /\ Served(Timeout(k))

CondSignalI ==
  \E c \in Conds :
    k.q[c] # << >> /\ Served(ReadyMsgI([k EXCEPT !.q[c] = Tail(@)], Head(k.q[c]), "OK"))
CondBroadcastI == \E c \in Conds : k.q[c] # << >> /\ Served(BroadcastI(k, c))

(* _port_irq_epilogue of the last interrupt.                                *)
Epilogue ==
  /\ irq /\ k.cb = NONE /\ irq' = FALSE
  /\ k' = RescheduleS(k) /\ UNCHANGED <<at, lowered>>

Interrupts == TimerTriggers \/ TimerCallback \/ CondSignalI \/ CondBroadcastI \/ Epilogue

Thread(t) ==
  \/ Lock(t) \/ TryLock(t) \/ Unlock(t) \/ UnlockEvery(t) \/ SetPriority(t) \/ Yield(t)
  \/ Sleep(t) \/ CondWait(t) \/ CondSignal(t) \/ CondBroadcast(t) \/ Return(t)

Next == Interrupts \/ \E t \in Threads : Thread(t)

Spec == Init /\ [][Next]_vars
-----------------------------------------------------------------------------
Ops == {"user", "lock", "sleep", "cond", "condtimeout"}

(* The ready list and the queues hold threads, each in the one place its    *)
(* state says (chSchReadyI, queue_prio_insert, queue_dequeue).              *)
TypeOK ==
  /\ k.cur \in All /\ k.ready \in Seq(All)
  /\ k.prio \in [All -> Nat] /\ k.realprio \in [All -> Nat]
  /\ k.owner \in [Mutexes -> Threads \cup {NONE}]
  /\ k.vt \subseteq Threads /\ k.cb \in Threads \cup {NONE}
  /\ irq \in BOOLEAN /\ lowered \subseteq Threads
  /\ \A t \in All : at[t].op \in Ops
  /\ InOnePlace(k)

(* A mutex is on the list of its owner and on no other, and it has an owner *)
(* as long as threads wait for it: a waiter is never left behind by the     *)
(* hand-over (chmtx.c:340-390).  One that waited and goes on owns it, as    *)
(* the last it locked (chmtx.c:218 "not owner", "not owned").               *)
OwnersListed ==
  /\ \A t \in All : IsInjective(k.mtxlist[t])
  /\ \A m \in Mutexes, t \in All : Contains(k.mtxlist[t], m) <=> k.owner[m] = t
  /\ \A m \in Mutexes : k.owner[m] = NONE => k.q[m] = << >>
  /\ \A t \in Threads :
       at[t].op = "lock" /\ k.state[t] \in {"READY", "CURRENT"} =>
         k.owner[at[t].m] = t /\ Head(k.mtxlist[t]) = at[t].m

(* The ready list and the queues stay ordered by priority while the         *)
(* priorities of the threads in them change.                                *)
QueuesOrdered == ByPriority(k, k.ready) /\ \A o \in DOMAIN k.q : ByPriority(k, k.q[o])

(* Outside interrupts no ready thread has a higher priority than the        *)
(* current one (chSysUnlock "priority violation, missing reschedule").      *)
HighestRuns == ~irq /\ at[k.cur] = User => ~RescRequired(k)

(* Priority inheritance (chmtx.c:57): a thread has exactly the highest of   *)
(* its own priority and the priorities of those that wait for its mutexes,  *)
(* directly or through other owners, also when they wait in a circle, round *)
(* which chMtxLockS then goes.  Excepted is an owner that lowered its own   *)
(* priority below a waiter's (chthreads.c:267).                             *)
PriorityInherited ==
  \A t \in Threads :
    IF t \in lowered THEN k.prio[t] <= OwnPrio(k, t) ELSE k.prio[t] = OwnPrio(k, t)
====
