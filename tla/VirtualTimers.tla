---------------------------- MODULE VirtualTimers ----------------------------
(***************************************************************************)
(* The virtual timers of chvt.c in tickless mode and the free running      *)
(* counter of st_lld.c they are driven by.                                 *)
(*                                                                         *)
(* Every operation is a critical section.  The counter goes on meanwhile:  *)
(* `now' is read at its start, up to CRIT ticks before its other effects.  *)
(* The handler is one section per turn of its loop, and the callbacks,     *)
(* other handlers and threads run in between.  An interrupt is served      *)
(* completely within LATENCY ticks.                                        *)
(*                                                                         *)
(* lasttime only moves when a timer triggers or the list was empty.  LAG   *)
(* bounds how old it gets: a program that keeps the list non-empty and     *)
(* resets every timer before it triggers exceeds any such bound.           *)
(***************************************************************************)
EXTENDS Integers, SequencesExt, TLC

CONSTANTS Timers,          \* virtual_timer_t objects
          TIME_MODULUS,    \* 2^32, systime_t
          TIMEDELTA,       \* CH_CFG_ST_TIMEDELTA
          Delays,          \* the delays asked for
          CRIT, LATENCY,
          LAG              \* how far lasttime may be behind when a timer is added

ASSUME TimersAssumption ==
  /\ TIME_MODULUS \in Nat \ {0} /\ TIMEDELTA \in Nat /\ CRIT \in Nat /\ LATENCY \in Nat
  /\ TIMEDELTA > CRIT
  /\ Delays \subseteq 1 .. TIME_MODULUS - 1

VARIABLES
  list,       \* ch.vtlist: the armed timers in order, each with its vt_delta
  lasttime,   \* ch.vtlist.vt_lasttime
  tim,        \* the counter CNT, its compare register CCR, the flag SR.CC1IF, the
              \* enable bit DIER.CC1IE, and whether the interrupt is latched
  calling,    \* the timer whose callback chVTDoTickI runs, or OFF
  since,      \* ticks since the last critical section, up to CRIT
  waited,     \* ticks since the interrupt was latched or its service began
  due         \* history: the ticks left of the delay asked of each armed timer

vars == <<list, lasttime, tim, calling, since, waited, due>>

OFF == "off"

(* systime_t arithmetic.                                                    *)
Wrap(x) == x % TIME_MODULUS

(* Variant of AtLeast without the minimum safe delta.                       *)
AtLeast_Bare(x, min) == x

AtLeast(x, min) == IF x < min THEN min ELSE x

Armed == {list[i].vt : i \in DOMAIN list}
Position(l, t) == SelectInSeq(l, LAMBDA e : e.vt = t)

(* The ticks from lasttime to the i-th timer of l.                          *)
Until(l, i) ==
  LET sum[j \in 0 .. Len(l)] == IF j = 0 THEN 0 ELSE sum[j - 1] + l[j].delta
  IN sum[i]

(* Variant of Unlink that forgets the timers after the removed one.         *)
Unlink_Bare(l, i) == RemoveAt(l, i)

(* Removing the i-th timer: its delta is added to the next one.             *)
Unlink(l, i) ==
  LET rest == RemoveAt(l, i)
  IN IF i > Len(rest) THEN rest ELSE [rest EXCEPT ![i].delta = Wrap(@ + l[i].delta)]

(* Variant of Expired that takes the next tick into the time window.        *)
Expired_Soon(s, now) ==
  s.list # << >> /\ Head(s.list).delta <= Wrap(now + 1 - s.lasttime)

(* The first timer is within the time window.                               *)
Expired(s, now) == s.list # << >> /\ Head(s.list).delta <= Wrap(now - s.lasttime)

(* The interrupt request of the counter.                                    *)
Latch(r) == [r EXCEPT !.irq = @ \/ (r.flag /\ r.on)]

(* st_lld_start_alarm, st_lld_stop_alarm, st_lld_set_alarm.                 *)
StartAlarm(r, time) == Latch([r EXCEPT !.ccr = Wrap(time), !.flag = FALSE, !.on = TRUE])
StopAlarm(r) == [r EXCEPT !.on = FALSE]
SetAlarm(r, time) == [r EXCEPT !.ccr = Wrap(time)]

-----------------------------------------------------------------------------
(* Operations on s, a record of list, lasttime and tim, at the time now.    *)

(* chVTDoResetI.                                                            *)
DoResetI(s, t, now) ==
  LET i == Position(s.list, t)
      rest == Unlink(s.list, i)
      nowdelta == Wrap(now - s.lasttime)
      delta == AtLeast(rest[1].delta - nowdelta, TIMEDELTA)
  IN [s EXCEPT !.list = rest,
               !.tim = IF i # 1 THEN @
                       ELSE IF rest = << >> THEN StopAlarm(@)
                       ELSE IF nowdelta >= rest[1].delta THEN @
                       ELSE SetAlarm(@, s.lasttime + nowdelta + delta)]

(* chVTDoSetI.  The scan of the list stops at the first timer that is not   *)
(* before the new one, or at the header, whose delta is the largest.        *)
DoSetI(s, t, asked, now) ==
  LET delay == AtLeast(asked, TIMEDELTA)
      delta == Wrap(now + delay - s.lasttime)
      later == {i \in DOMAIN s.list : Until(s.list, i) >= delta}
      p == IF later = {} THEN Len(s.list) + 1 ELSE Min(later)
      own == delta - Until(s.list, p - 1)
      shifted == IF later = {} THEN s.list ELSE [s.list EXCEPT ![p].delta = @ - own]
  IN IF s.list = << >>
     THEN [list |-> <<[vt |-> t, delta |-> delay]>>, lasttime |-> now,
           tim |-> StartAlarm(s.tim, now + delay)]
     ELSE [s EXCEPT !.list = InsertAt(shifted, p, [vt |-> t, delta |-> own]),
                    !.tim = IF delta < s.list[1].delta
                            THEN SetAlarm(@, s.lasttime + delta) ELSE @]

-----------------------------------------------------------------------------
Init ==
  /\ list = << >> /\ lasttime = 0
  /\ tim = [cnt |-> 0, ccr |-> 0, flag |-> FALSE, on |-> FALSE, irq |-> FALSE]
  /\ calling = OFF /\ since = 0 /\ waited = 0
  /\ due = << >>

Kernel == [list |-> list, lasttime |-> lasttime, tim |-> tim]

Becomes(s) ==
  /\ list' = s.list /\ lasttime' = s.lasttime /\ tim' = s.tim
  /\ since' = 0

(* The counter, and the match that sets the flag.                           *)
Tick ==
  /\ (tim.irq \/ calling # OFF) => waited < LATENCY
  /\ LET cnt == Wrap(tim.cnt + 1)
     IN tim' = Latch([tim EXCEPT !.cnt = cnt, !.flag = @ \/ cnt = tim.ccr])
  /\ waited' = IF tim.irq \/ calling # OFF THEN waited + 1 ELSE 0
  /\ since' = IF since < CRIT THEN since + 1 ELSE CRIT
  /\ due' = [t \in DOMAIN due |-> due[t] - 1]
  /\ UNCHANGED <<list, lasttime, calling>>

(* chVTSetI, from a thread, a handler or the callback: an armed timer is    *)
(* reset first.                                                             *)
SetI(t, delay) ==
  /\ list # << >> => Wrap(tim.cnt - lasttime) <= LAG
  /\ \E ago \in 0 .. since :
    LET now == Wrap(tim.cnt - ago)
        clear == IF t \in Armed THEN DoResetI(Kernel, t, now) ELSE Kernel
    IN /\ Becomes(DoSetI(clear, t, delay, now))
       /\ due' = Restrict(due, DOMAIN due \ {t}) @@ (t :> AtLeast(delay, TIMEDELTA) - ago)
       /\ UNCHANGED <<calling, waited>>

(* chVTResetI.                                                              *)
ResetI(t) ==
  /\ t \in Armed
  /\ \E ago \in 0 .. since : Becomes(DoResetI(Kernel, t, Wrap(tim.cnt - ago)))
  /\ due' = Restrict(due, DOMAIN due \ {t})
  /\ UNCHANGED <<calling, waited>>

(* One turn of the loop of chVTDoTickI: the first timer is triggered if it  *)
(* is within the time window, else the alarm is programmed for it.  With    *)
(* no timer the header is compared, and would be called.                    *)
Turn(s) ==
  \E ago \in 0 .. since :
    LET now == Wrap(s.tim.cnt - ago)
        first == Head(s.list)
        rest == Tail(s.list)
        delta == AtLeast(Wrap(s.lasttime + first.delta - now), TIMEDELTA)
    IN \/ /\ Expired(s, now)
          /\ Becomes([list |-> rest, lasttime |-> Wrap(s.lasttime + first.delta),
                      tim |-> IF rest = << >> THEN StopAlarm(s.tim) ELSE s.tim])
          /\ calling' = first.vt /\ due' = Restrict(due, DOMAIN due \ {first.vt})
          /\ UNCHANGED waited
       \/ /\ s.list # << >> /\ ~Expired(s, now)
          /\ Becomes([s EXCEPT !.tim = SetAlarm(@, now + delta)])
          /\ calling' = OFF /\ waited' = 0 /\ UNCHANGED due
       \/ /\ s.list = << >>
          /\ Becomes(s)
          /\ calling' = IF Wrap(now - s.lasttime) = TIME_MODULUS - 1 THEN "header" ELSE OFF
          /\ waited' = 0 /\ UNCHANGED due

(* ST_HANDLER: the flag is tested and cleared, and the handler is entered.  *)
Interrupt ==
  /\ tim.irq /\ calling = OFF
  /\ tim.flag
  /\ Turn([Kernel EXCEPT !.tim.flag = FALSE, !.tim.irq = FALSE])

(* ST_HANDLER: a latched interrupt whose flag was cleared meanwhile.        *)
Ignored ==
  /\ tim.irq /\ calling = OFF
  /\ ~tim.flag
  /\ tim' = [tim EXCEPT !.irq = FALSE] /\ waited' = 0
  /\ UNCHANGED <<list, lasttime, calling, since, due>>

(* The callback returns and the loop goes on.                               *)
Returned == calling # OFF /\ Turn(Kernel)

Operation(t) == ResetI(t) \/ \E delay \in Delays : SetI(t, delay)

Next == Tick \/ Interrupt \/ Ignored \/ Returned \/ \E t \in Timers : Operation(t)

Spec == Init /\ [][Next]_vars

-----------------------------------------------------------------------------
(* The ticks from now to the i-th timer, from the deltas (chvt.c): what the *)
(* list says of a deadline.                                                 *)
TicksLeft(i) == Until(list, i) - Wrap(tim.cnt - lasttime)

(* The delta list is the set of deadlines asked for: an armed timer is in   *)
(* it once, and the deltas up to it give the ticks that are left of its     *)
(* delay, whatever was inserted, removed and triggered before it            *)
(* (chVTDoSetI, chVTDoResetI, chVTDoTickI).                                 *)
DeltasGiveDeadlines ==
  /\ \A i, j \in DOMAIN list : i # j => list[i].vt # list[j].vt
  /\ DOMAIN due = Armed
  /\ \A i \in DOMAIN list : TicksLeft(i) = due[list[i].vt]

(* Between interrupts an alarm is always on its way for the first timer: it *)
(* is latched, or the compare register is ahead of the counter by no more   *)
(* than the first deadline or TIMEDELTA.  An alarm set behind the counter   *)
(* would fire a whole turn of the counter late (chvt.h:547 "exceeding       *)
(* delta").                                                                 *)
AlarmAhead ==
  list # << >> /\ calling = OFF /\ ~(tim.irq /\ tim.flag) =>
    /\ tim.on
    /\ Wrap(tim.ccr - tim.cnt) \in 1 .. AtLeast(TicksLeft(1), TIMEDELTA)

(* No callback runs before the delay of its timer has elapsed (chvt.c:75    *)
(* "The timer is enabled and programmed to trigger after the delay          *)
(* specified as parameter").                                                *)
NeverEarly ==
  [][\A t \in Armed : calling # t /\ calling' = t => due[t] <= 0]_vars
=============================================================================
