---------------------------- MODULE TimerService ----------------------------
(***************************************************************************)
(* What the virtual timers of chvt.c promise: the callback of a timer that *)
(* is set is called once its delay has elapsed, never before and at most   *)
(* MaxLate ticks after, unless the timer is reset or set again.            *)
(***************************************************************************)
EXTENDS Integers, TLC

CONSTANTS Timers, MaxDelay, MaxLate

VARIABLES due,      \* the ticks left of each timer that is set
          calling   \* the timer whose callback is running, or OFF

OFF == "off"

Init == due = << >> /\ calling = OFF

Without(t) == [u \in DOMAIN due \ {t} |-> due[u]]

Elapse ==
  /\ \A t \in DOMAIN due : due[t] > -MaxLate
  /\ due' = [t \in DOMAIN due |-> due[t] - 1]
  /\ UNCHANGED calling

Set(t) ==
  /\ \E d \in 1 .. MaxDelay : due' = Without(t) @@ (t :> d)
  /\ UNCHANGED calling

Reset(t) == due' = Without(t) /\ UNCHANGED calling

Call(t) ==
  /\ t \in DOMAIN due /\ due[t] <= 0
  /\ due' = Without(t) /\ calling' = t

Return == calling # OFF /\ calling' = OFF /\ UNCHANGED due

Next == Elapse \/ Return \/ \E t \in Timers : Set(t) \/ Reset(t) \/ Call(t)

Spec == Init /\ [][Next]_<<due, calling>>
=============================================================================
