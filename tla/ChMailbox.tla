------------------------------ MODULE ChMailbox ------------------------------
(***************************************************************************)
(* The mailboxes of chmboxes.c: a circular buffer between two semaphores,  *)
(* used by threads with and without timeouts and by interrupt handlers,    *)
(* and plain semaphores next to it.                                        *)
(*                                                                         *)
(* A call is one step up to the switch to another thread; at[t] is what is *)
(* left of it, done inside the critical section once t is current again.   *)
(* In between the semaphore has given t its unit (p_u.rdymsg is MSG_OK),   *)
(* and t has not used it yet.  irq says that interrupts are being served.  *)
(***************************************************************************)
EXTENDS ChSem

CONSTANTS Threads, IDLE,
          Prio,       \* the priorities of the threads
          Messages,
          N,          \* the size of the buffer
          Sems,       \* plain semaphores
          MaxCount    \* bound on their counters

ASSUME MailboxAssumption ==
  /\ IDLE \notin Threads /\ Prio \in [Threads -> Nat \ {0}]
  /\ N \in Nat \ {0} /\ MaxCount \in Nat

VARIABLES k, at, irq,
          mb,          \* the buffer, mb_rdptr and mb_wrptr
          queued,      \* history: the messages posted and not fetched, until
          overtaken    \* history: a reset came between a unit and its use

vars == <<k, at, irq, mb, queued, overtaken>>

All == Threads \cup {IDLE}
Created == SetToSortSeq(Threads, LAMBDA x, y : Prio[x] > Prio[y])

Rest(op, m, time) == [op |-> op, m |-> m, timed |-> time = "FINITE"]
User == Rest("user", NONE, "INFINITE")

Init ==
  /\ k = [cur |-> Head(Created), ready |-> Tail(Created) \o <<IDLE>>,
          state |-> [t \in All |-> IF t = Head(Created) THEN "CURRENT" ELSE "READY"],
          prio |-> [t \in All |-> IF t = IDLE THEN 0 ELSE Prio[t]],
          u |-> [t \in All |-> NONE],
          q |-> [s \in {"empty", "full"} \cup Sems |-> << >>],
          cnt |-> [s \in {"empty", "full"} \cup Sems |-> IF s = "empty" THEN N ELSE 0],
          vt |-> {}, cb |-> NONE]
  /\ at = [t \in All |-> User] /\ irq = FALSE
  /\ mb = [buf |-> [i \in 0 .. N - 1 |-> NONE], rd |-> 0, wr |-> 0]
  /\ queued = << >> /\ overtaken = FALSE

-----------------------------------------------------------------------------
Ops == {"post", "ahead", "fetch"}

(* The semaphore an operation waits for, and the one it signals.            *)
Waits(op) == IF op = "fetch" THEN "full" ELSE "empty"
Signals(op) == IF op = "fetch" THEN "empty" ELSE "full"

(* Variant of Step that does not wrap the pointer.                          *)
Step_Ahead(p, n) == IF n = 1 THEN (p + 1) % N ELSE 0

(* A pointer moved by one, at the end of the buffer to its other end.       *)
Step(p, n) == (p + n) % N

(* The pointers and the buffer: chMBPostS, chMBPostAheadS, chMBFetchS.      *)
Move(op, m) ==
  /\ mb' = CASE op = "post" -> [mb EXCEPT !.buf[mb.wr] = m, !.wr = Step(@, 1)]
             [] op = "ahead" -> [mb EXCEPT !.buf[Step(mb.rd, -1)] = m, !.rd = Step(@, -1)]
             [] op = "fetch" -> [mb EXCEPT !.rd = Step(@, 1)]
  /\ queued' = CASE overtaken -> << >>
                 [] op = "post" /\ ~overtaken -> Append(queued, m)
                 [] op = "ahead" /\ ~overtaken -> <<m>> \o queued
                 [] op = "fetch" /\ ~overtaken -> Tail(queued)

MessageOf(op) == IF op = "fetch" THEN {NONE} ELSE Messages

(* The threads that have got a unit of s and have not used it yet.          *)
Granted(s) ==
  {t \in Threads : /\ at[t].op \in Ops /\ Waits(at[t].op) = s
                   /\ k.state[t] \in {"READY", "CURRENT"} /\ k.u[t] = "OK"}

(* chMBResetI: the semaphores.                                              *)
Reset(r) == SemResetI(SemResetI(r, "empty", N), "full", 0)

Restart ==
  /\ mb' = [mb EXCEPT !.rd = 0, !.wr = 0] /\ queued' = << >>
  /\ overtaken' = (overtaken \/ Granted("empty") \cup Granted("full") # {})

-----------------------------------------------------------------------------
(* t runs outside the kernel.                                               *)
Runs(t) == k.cur = t /\ at[t] = User /\ ~irq

(* The end of chMBPostS, chMBPostAheadS and chMBFetchS.                     *)
Complete(r, op) == RescheduleS(SignalI(r, Signals(op)))

(* chMBPost, chMBPostAhead and chMBFetch that need not wait.                *)
Now(t) ==
  /\ Runs(t) /\ UNCHANGED <<at, irq, overtaken>>
  /\ \E op \in Ops : \E m \in MessageOf(op) :
       /\ k.cnt[Waits(op)] > 0 /\ Move(op, m)
       /\ k' = Complete(WaitTimeoutS(k, Waits(op), "IMMEDIATE"), op)

(* The same that have to wait.  With TIME_IMMEDIATE they only return.       *)
Wait(t) ==
  /\ Runs(t) /\ UNCHANGED <<irq, mb, queued, overtaken>>
  /\ \E op \in Ops, time \in {"FINITE", "INFINITE"} : \E m \in MessageOf(op) :
       /\ k.cnt[Waits(op)] <= 0
       /\ k' = WaitTimeoutS(k, Waits(op), time)
       /\ at' = [at EXCEPT ![t] = Rest(op, m, time)]

(* The rest of a call, once the thread is current again: with MSG_OK the    *)
(* message is moved.                                                        *)
Return(t) ==
  /\ k.cur = t /\ at[t] # User /\ ~irq
  /\ at' = [at EXCEPT ![t] = User] /\ UNCHANGED <<irq, overtaken>>
  /\ LET woken == IF at[t].timed THEN Slept(k) ELSE k
         op == at[t].op
     IN \/ op \in Ops /\ k.u[t] = "OK" /\ Move(op, at[t].m) /\ k' = Complete(woken, op)
        \/ ~(op \in Ops /\ k.u[t] = "OK") /\ k' = woken /\ UNCHANGED <<mb, queued>>

(* chMBReset.                                                               *)
MBReset(t) == Runs(t) /\ Restart /\ k' = RescheduleS(Reset(k)) /\ UNCHANGED <<at, irq>>

(* chSemWait, chSemWaitTimeout, chSemSignal, chSemSignalWait, chSemReset.   *)
SemCall(t) ==
  /\ Runs(t) /\ UNCHANGED <<irq, mb, queued, overtaken>>
  /\ \E s \in Sems :
       \/ \E time \in {"FINITE", "INFINITE"} :
            /\ k' = WaitTimeoutS(k, s, time)
            /\ at' = IF k.cnt[s] > 0 THEN at ELSE [at EXCEPT ![t] = Rest("sem", NONE, time)]
       \/ k.cnt[s] < MaxCount /\ k' = Signal(k, s) /\ UNCHANGED at
       \/ \E w \in Sems :
            /\ k.cnt[s] < MaxCount /\ k' = SignalWait(k, s, w)
            /\ at' = IF k'.state[t] # "WTSEM" THEN at
                     ELSE [at EXCEPT ![t] = Rest("sem", NONE, "INFINITE")]
       \/ k' = RescheduleS(SemResetI(k, s, 0)) /\ UNCHANGED at

-----------------------------------------------------------------------------
(* Interrupts come when the current thread is not in a critical section.    *)
Served(r) == at[k.cur] = User /\ k' = r /\ irq' = TRUE /\ UNCHANGED at

TimerTriggers ==
  /\ k.cb = NONE /\ \E t \in k.vt : Served(Trigger(k, t))
  /\ UNCHANGED <<mb, queued, overtaken>>
TimerCallback == k.cb # NONE /\ Served(Timeout(k)) /\ UNCHANGED <<mb, queued, overtaken>>

(* chMBPostI, chMBPostAheadI and chMBFetchI that find the counter positive. *)
OperationI ==
  /\ \E op \in Ops : \E m \in MessageOf(op) :
       /\ k.cnt[Waits(op)] > 0 /\ Move(op, m)
       /\ Served(SignalI([k EXCEPT !.cnt[Waits(op)] = @ - 1], Signals(op)))
  /\ UNCHANGED overtaken

MBResetI == Served(Reset(k)) /\ Restart

(* chSemAddCounterI, and chSemSignalI with n = 1.                           *)
SemAddI ==
  /\ \E s \in Sems, n \in 1 .. 2 : k.cnt[s] + n <= MaxCount /\ Served(AddCounterI(k, s, n))
  /\ UNCHANGED <<mb, queued, overtaken>>

(* _port_irq_epilogue of the last interrupt.                                *)
Epilogue ==
  /\ irq /\ k.cb = NONE /\ irq' = FALSE
  /\ k' = RescheduleS(k) /\ UNCHANGED <<at, mb, queued, overtaken>>

Next ==
  \/ TimerTriggers \/ TimerCallback \/ OperationI \/ MBResetI \/ SemAddI \/ Epilogue
  \/ \E t \in Threads : Now(t) \/ Wait(t) \/ Return(t) \/ MBReset(t) \/ SemCall(t)

Spec == Init /\ [][Next]_vars
-----------------------------------------------------------------------------
(* Every thread is in the one place its state says, and the pointers stay   *)
(* inside the buffer, resets included.                                      *)
TypeOK ==
  /\ k.cur \in All /\ k.ready \in Seq(All)
  /\ k.vt \subseteq Threads /\ k.cb \in Threads \cup {NONE}
  /\ irq \in BOOLEAN /\ overtaken \in BOOLEAN
  /\ mb.rd \in 0 .. N - 1 /\ mb.wr \in 0 .. N - 1
  /\ queued \in Seq(Messages)
  /\ InOnePlace(k)

(* chsem.c:152 "inconsistent semaphore": a negative counter is the number   *)
(* of waiters, also after timeouts and resets.                              *)
SemaphoresConsistent == \A s \in DOMAIN k.cnt : Consistent(k, s)

Positive(n) == IF n > 0 THEN n ELSE 0

(* No slot of the buffer is lost or invented: the free ones, the messages,  *)
(* and the units that woken threads have not used yet make N, whatever      *)
(* timeouts and interrupts come in between.  Excepted are resets that       *)
(* overtake such a thread.                                                  *)
SlotsConserved ==
  ~overtaken =>
    Positive(k.cnt["empty"]) + Cardinality(Granted("empty"))
      + Positive(k.cnt["full"]) + Cardinality(Granted("full")) = N

(* The buffer holds the posted messages in their order, from mb_rdptr to    *)
(* mb_wrptr, so that a fetch returns the right one and no post overwrites   *)
(* another (chmboxes.c:36-40).                                              *)
BufferHoldsQueued ==
  ~overtaken =>
    /\ Len(queued) = Positive(k.cnt["full"]) + Cardinality(Granted("full"))
    /\ \A i \in DOMAIN queued : mb.buf[(mb.rd + i - 1) % N] = queued[i]
    /\ mb.wr = (mb.rd + Len(queued)) % N

(* Units are granted in the order of the waits (CH_CFG_USE_SEMAPHORES_      *)
(* PRIORITY is FALSE): a thread that begins to wait comes behind the others *)
(* and no thread is granted a unit before one that came earlier.            *)
GrantedInOrder ==
  [][\A s \in DOMAIN k.q :
       /\ \A i \in DOMAIN k.q[s] :
            LET t == k.q[s][i]
            IN k'.state[t] # "WTSEM" /\ k'.u[t] = "OK" =>
                 \A j \in 1 .. i : k'.state[k.q[s][j]] # "WTSEM"
       /\ \A i, j \in DOMAIN k'.q[s] :
            Contains(k.q[s], k'.q[s][i]) /\ ~Contains(k.q[s], k'.q[s][j]) => i < j]_vars
=============================================================================
