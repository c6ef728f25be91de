------------------------------ MODULE MCTimers ------------------------------
(* The virtual timers with a short counter.                                 *)
EXTENDS VirtualTimers

MaxLate == TIMEDELTA + LATENCY

(* The delta list implements the timer service: no callback before its      *)
(* delay has elapsed nor more than MaxLate ticks after (chvt.c:75 "The      *)
(* timer is enabled and programmed to trigger after the delay specified").  *)
P == INSTANCE TimerService WITH
       MaxDelay <- Max(Delays),
       due <- [t \in Armed |-> TicksLeft(Position(list, t))]
NeverEarlyNorLate == P!Spec

Symmetry == Permutations(Timers)

(* Times relative to the counter: nothing depends on where it stands.       *)
View ==
  <<list, Wrap(tim.cnt - lasttime), Wrap(tim.ccr - tim.cnt), tim.flag, tim.on, tim.irq,
    calling, since, waited, due>>
=============================================================================
