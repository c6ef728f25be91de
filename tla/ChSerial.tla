------------------------------ MODULE ChSerial ------------------------------
(***************************************************************************)
(* The serial driver as the program uses it: the threads Writers print     *)
(* with chprintf, one chOQPutTimeout per character and no lock around the  *)
(* message, the interrupt handler of USARTv1 empties the output queue, and *)
(* Reader gets what arrives and listens to the events of the driver.       *)
(*                                                                         *)
(* The handler is one step per critical section: it reads CR1 and SR once, *)
(* receives, transmits, and looks for the end of the transmission, while   *)
(* the USART goes on.  A call of a thread is one step up to the switch to  *)
(* another thread; at[t] is what is left of it.                            *)
(*                                                                         *)
(* The kernel k of ChSchd has two more fields for the listener: flags      *)
(* (whether el_flags has any) and pend (whether its event is pending).     *)
(* What the program never reads again is cleared: p_u of a thread after    *)
(* its call, and places of a queue that were read.                         *)
(***************************************************************************)
EXTENDS ChSchd

CONSTANTS Writers, Reader, IDLE,
          Prio,      \* the priorities of the threads
          IN_SIZE, OUT_SIZE,   \* the sizes of the queues, both SERIAL_BUFFERS_SIZE
          CHARS,     \* the length of each writer's message
          BYTES      \* bound: the bytes that arrive

ASSUME SerialAssumption ==
  /\ IN_SIZE \in Nat \ {0} /\ OUT_SIZE \in Nat \ {0} /\ CHARS \in [Writers -> Nat] /\ BYTES \in Nat
  /\ Prio \in [Writers \cup {Reader} -> Nat \ {0}]

VARIABLES
  k, at, irq,
  iq, oq,       \* the queues: q_counter, q_rdptr, q_wrptr and the buffer
  usart,        \* its data, shift and receive registers, flags and enable bits
  isr,          \* serve_interrupt: where it is, and its cr1 and sr
  printed,      \* history: the characters each writer has put
  sent,         \* history: the last character of each writer on the line
  arrived, got, \* history: the last byte that arrived, the last one read
  reported      \* history: SD_OVERRUN_ERROR was broadcast; CHN_TRANSMISSION_END
                \* was, since the last character left

vars == <<k, at, irq, iq, oq, usart, isr, printed, sent, arrived, got, reported>>

Threads == Writers \cup {Reader}
All == Threads \cup {IDLE}
Created == SetToSortSeq(Threads, LAMBDA x, y : Prio[x] > Prio[y])

Free == <<NONE, 0>>
Queue(size, n) ==
  [cnt |-> n, rd |-> 0, wr |-> 0, top |-> size, buf |-> [i \in 0 .. size - 1 |-> Free]]
Idle == [pc |-> "off", txeie |-> FALSE, rxne |-> FALSE, ore |-> FALSE,
         txe |-> FALSE, tc |-> FALSE]

(* After sdStart; the idle frame that TE makes the USART send may be over.  *)
Init ==
  /\ k = [cur |-> Head(Created), ready |-> Tail(Created) \o <<IDLE>>,
          state |-> [t \in All |-> IF t = Head(Created) THEN "CURRENT" ELSE "READY"],
          prio |-> [t \in All |-> IF t = IDLE THEN 0 ELSE Prio[t]],
          u |-> [t \in All |-> NONE],
          q |-> [o \in {"iq", "oq"} |-> << >>],
          cnt |-> << >>, vt |-> {}, cb |-> NONE, flags |-> FALSE, pend |-> FALSE]
  /\ at = [t \in All |-> "user"] /\ irq = FALSE
  /\ iq = Queue(IN_SIZE, 0) /\ oq = Queue(OUT_SIZE, OUT_SIZE)
  /\ usart \in [dr : {<< >>}, shift : {<< >>}, rdr : {<< >>}, ore : {FALSE},
                tc : BOOLEAN, txeie : {FALSE}, tcie : {FALSE}]
  /\ isr = Idle
  /\ printed = [t \in Writers |-> 0] /\ sent = [t \in Writers |-> 0]
  /\ arrived = 0 /\ got = 0 /\ reported = [overrun |-> FALSE, end |-> FALSE]

-----------------------------------------------------------------------------
(* The queues of chqueues.c: q_counter counts the bytes of an input queue   *)
(* and the free places of an output queue.                                  *)
After(q, p) == IF p + 1 >= q.top THEN 0 ELSE p + 1
Put(q, x, n) == [q EXCEPT !.cnt = @ + n, !.buf[q.wr] = x, !.wr = After(q, @)]
Get(q, n) == [q EXCEPT !.cnt = @ + n, !.buf[q.rd] = Free, !.rd = After(q, @)]

IQIsEmpty == iq.cnt = 0

(* Variant of IQIsFull that never says so.                                  *)
IQIsFull_Never == FALSE

IQIsFull == iq.wr = iq.rd /\ iq.cnt # 0

(* Variant of OQIsEmpty that leaves the last character in the queue.        *)
OQIsEmpty_One == oq.cnt >= oq.top - 1

OQIsEmpty == oq.wr = oq.rd /\ oq.cnt # 0

OQIsFull == oq.cnt = 0

(* Variant of DequeueNextI that wakes a writer only when the queue was full. *)
DequeueNextI_Full(r, o) ==
  IF r.q[o] = << >> \/ (o = "oq" /\ oq.cnt # 0) THEN r
  ELSE ReadyMsgI([r EXCEPT !.q[o] = Tail(@)], Head(r.q[o]), "OK")

(* chThdDequeueNextI.                                                       *)
DequeueNextI(r, o) ==
  IF r.q[o] = << >> THEN r
  ELSE ReadyMsgI([r EXCEPT !.q[o] = Tail(@)], Head(r.q[o]), "OK")

(* chThdEnqueueTimeoutS up to the switch.                                   *)
EnqueueTimeoutS(r, o, time) ==
  GoSleepTimeoutS([r EXCEPT !.q[o] = Append(@, r.cur)], "QUEUED", time)

(* Variant of AddFlagsI whose event is lost if the listener is not waiting. *)
AddFlagsI_Lost(r) ==
  LET s == [r EXCEPT !.flags = TRUE]
  IN IF s.state[Reader] = "WTOREVT" THEN ReadyMsgI([s EXCEPT !.pend = TRUE], Reader, "OK") ELSE s

(* chnAddFlagsI: chEvtBroadcastFlagsI and chEvtSignalI for the listener.    *)
AddFlagsI(r) ==
  LET s == [r EXCEPT !.flags = TRUE, !.pend = TRUE]
  IN IF s.state[Reader] = "WTOREVT" THEN ReadyMsgI(s, Reader, "OK") ELSE s

-----------------------------------------------------------------------------
(* A call of t returns.                                                     *)
Returns(r, t) == k' = [r EXCEPT !.u[t] = NONE] /\ at' = [at EXCEPT ![t] = "user"]

(* Outside the critical sections, where interrupts are served.              *)
Unlocked == at[k.cur] \in {"user", "flags"}
Runs(t) == k.cur = t /\ at[t] = "user" /\ ~irq
Resumes(t, rest) == k.cur = t /\ at[t] \in rest /\ ~irq

(* notify1.                                                                 *)
Notify(u) == [u EXCEPT !.txeie = TRUE]

(* Variant of MustWait that looks at the queue only once.                   *)
MustWait_Once(t) == OQIsFull /\ at[t] = "user"

(* The condition of the loop of chOQPutTimeout.                             *)
MustWait(t) == OQIsFull

(* chOQPutTimeout for the next character of the message: the loop waits     *)
(* while the queue is full, then stores and notifies the driver.            *)
PutChar(t) ==
  /\ (Runs(t) /\ printed[t] < CHARS[t]) \/ Resumes(t, {"put"})
  /\ UNCHANGED <<irq, iq, isr, sent, arrived, got, reported>>
  /\ \/ /\ MustWait(t)
        /\ k' = EnqueueTimeoutS(k, "oq", "INFINITE") /\ at' = [at EXCEPT ![t] = "put"]
        /\ UNCHANGED <<oq, usart, printed>>
     \/ /\ ~MustWait(t)
        /\ oq' = Put(oq, <<t, printed[t] + 1>>, -1) /\ usart' = Notify(usart)
        /\ printed' = [printed EXCEPT ![t] = @ + 1]
        /\ Returns(k, t)

(* chThdSleep before and after a message.                                   *)
Sleep(t) ==
  /\ Runs(t) /\ printed[t] \in {0, CHARS[t]}
  /\ k' = GoSleepTimeoutS(k, "SLEEPING", "FINITE") /\ at' = [at EXCEPT ![t] = "sleep"]
  /\ UNCHANGED <<irq, iq, oq, usart, isr, printed, sent, arrived, got, reported>>

Awake(t) ==
  /\ Resumes(t, {"sleep"}) /\ Returns(Slept(k), t)
  /\ UNCHANGED <<irq, iq, oq, usart, isr, printed, sent, arrived, got, reported>>

(* chIQGetTimeout with a finite timeout; an infinite one is that of a timer *)
(* that does not trigger.  The loop waits with the whole timeout again.     *)
Read ==
  /\ UNCHANGED <<irq, oq, usart, isr, printed, sent, arrived, reported>>
  /\ LET woken == Resumes(Reader, {"get"})
         s == IF woken THEN Slept(k) ELSE k
         timeout == woken /\ k.u[Reader] = "TIMEOUT"
     IN /\ Runs(Reader) \/ woken
        /\ \/ timeout /\ Returns(s, Reader) /\ UNCHANGED <<iq, got>>
           \/ /\ ~timeout /\ IQIsEmpty /\ UNCHANGED <<iq, got>>
              /\ k' = EnqueueTimeoutS(s, "iq", "FINITE") /\ at' = [at EXCEPT ![Reader] = "get"]
           \/ /\ ~timeout /\ ~IQIsEmpty /\ Returns(s, Reader)
              /\ got' = iq.buf[iq.rd][2] /\ iq' = Get(iq, -1)

(* chEvtWaitAny: it sleeps if no event is pending, and takes the event.     *)
WaitAny ==
  /\ Runs(Reader) \/ Resumes(Reader, {"wait"})
  /\ IF ~k.pend /\ at[Reader] = "user"
     THEN k' = GoSleepS(k, "WTOREVT") /\ at' = [at EXCEPT ![Reader] = "wait"]
     ELSE k' = [k EXCEPT !.pend = FALSE, !.u[Reader] = NONE] /\ at' = [at EXCEPT ![Reader] = "flags"]
  /\ UNCHANGED <<irq, iq, oq, usart, isr, printed, sent, arrived, got, reported>>

(* chEvtGetAndClearFlags, after the wait.                                   *)
GetAndClearFlags ==
  /\ Resumes(Reader, {"flags"})
  /\ k' = [k EXCEPT !.flags = FALSE] /\ at' = [at EXCEPT ![Reader] = "user"]
  /\ UNCHANGED <<irq, iq, oq, usart, isr, printed, sent, arrived, got, reported>>

-----------------------------------------------------------------------------
(* The USART.  TXE is that the data register is empty; TC is set when the   *)
(* shift register runs empty and cleared by a read of SR and a write of DR. *)
Transmit ==
  /\ usart.shift # << >>
  /\ sent' = [sent EXCEPT ![usart.shift[1][1]] = usart.shift[1][2]]
  /\ usart' = [usart EXCEPT !.shift = usart.dr, !.dr = << >>, !.tc = @ \/ usart.dr = << >>]
  /\ reported' = [reported EXCEPT !.end = FALSE]
  /\ UNCHANGED <<k, at, irq, iq, oq, isr, printed, arrived, got>>

(* A byte that finds the receive register full is lost, and ORE is set.     *)
Arrive ==
  /\ arrived < BYTES /\ arrived' = arrived + 1
  /\ usart' = IF usart.rdr = << >> THEN [usart EXCEPT !.rdr = <<arrived'>>]
              ELSE [usart EXCEPT !.ore = TRUE]
  /\ UNCHANGED <<k, at, irq, iq, oq, isr, printed, sent, got, reported>>

WriteDR(u, x) ==
  IF u.shift = << >> THEN [u EXCEPT !.shift = <<x>>, !.tc = FALSE]
  ELSE [u EXCEPT !.dr = <<x>>, !.tc = FALSE]

Requests ==
  \/ usart.txeie /\ usart.dr = << >>
  \/ usart.tcie /\ usart.tc
  \/ usart.rdr # << >> \/ usart.ore

(* cr1 and sr of the handler: what it reads now.                            *)
Sample(u, pc, txeie) ==
  [pc |-> pc, txeie |-> txeie, rxne |-> u.rdr # << >>, ore |-> u.ore,
   txe |-> u.dr = << >>, tc |-> u.tc]

-----------------------------------------------------------------------------
(* serve_interrupt: it reads CR1 and SR.                                    *)
Enter ==
  /\ isr.pc = "off" /\ Requests /\ Unlocked /\ k.cb = NONE
  /\ irq' = TRUE /\ isr' = Sample(usart, "rx", usart.txeie)
  /\ UNCHANGED <<k, at, iq, oq, usart, printed, sent, arrived, got, reported>>

(* Variant of Flags that does not report a byte the queue cannot take.      *)
Flags_Silent ==
  (IF isr.rxne /\ IQIsEmpty THEN {"INPUT_AVAILABLE"} ELSE {})
    \cup (IF isr.ore THEN {"OVERRUN"} ELSE {})

(* The flags of set_error and of sdIncomingDataI.                           *)
Flags ==
  (IF isr.rxne /\ IQIsEmpty THEN {"INPUT_AVAILABLE"} ELSE {})
    \cup (IF isr.ore \/ (isr.rxne /\ IQIsFull) THEN {"OVERRUN"} ELSE {})

(* One round of the loop "Data available", with sdIncomingDataI.            *)
Receive ==
  /\ isr.pc = "rx" /\ (isr.rxne \/ isr.ore)
  /\ LET s == IF Flags = {} THEN k ELSE AddFlagsI(k)
     IN IF isr.rxne /\ ~IQIsFull
        THEN k' = DequeueNextI(s, "iq") /\ iq' = Put(iq, <<Reader, usart.rdr[1]>>, 1)
        ELSE k' = s /\ UNCHANGED iq
  /\ usart' = [usart EXCEPT !.rdr = << >>, !.ore = @ /\ ~isr.ore]
  /\ isr' = Sample(usart', "rx", isr.txeie)
  /\ reported' = [reported EXCEPT !.overrun = @ \/ "OVERRUN" \in Flags]
  /\ UNCHANGED <<at, irq, oq, printed, sent, arrived, got>>

(* Variant of Drained that does not ask for the end of the transmission.    *)
Drained_Silent(u) == [u EXCEPT !.txeie = FALSE]

(* CR1 when the output queue is empty.                                      *)
Drained(u) == [u EXCEPT !.txeie = FALSE, !.tcie = TRUE]

(* "Transmission buffer empty", with chOQGetI.                              *)
Fill ==
  /\ isr.pc = "rx" /\ ~isr.rxne /\ ~isr.ore /\ isr' = [Idle EXCEPT !.pc = "tc", !.txeie = isr.txeie, !.tc = isr.tc]
  /\ \/ /\ isr.txeie /\ isr.txe /\ OQIsEmpty
        /\ k' = AddFlagsI(k) /\ usart' = Drained(usart)
        /\ UNCHANGED oq
     \/ /\ isr.txeie /\ isr.txe /\ ~OQIsEmpty
        /\ usart' = WriteDR(usart, oq.buf[oq.rd])
        /\ oq' = Get(oq, 1) /\ k' = DequeueNextI(k, "oq")
     \/ ~(isr.txeie /\ isr.txe) /\ UNCHANGED <<k, oq, usart>>
  /\ UNCHANGED <<at, irq, iq, printed, sent, arrived, got, reported>>

(* Variant of Ended that disables both interrupts.                          *)
Ended_Both(u) == [u EXCEPT !.txeie = FALSE, !.tcie = FALSE, !.tc = FALSE]

(* CR1 from the copy of the entry, and SR.                                  *)
Ended(u) == [u EXCEPT !.txeie = isr.txeie, !.tcie = FALSE, !.tc = FALSE]

(* "Physical transmission end", and the return.                             *)
End ==
  /\ isr.pc = "tc" /\ isr' = Idle
  /\ k' = IF isr.tc /\ OQIsEmpty THEN AddFlagsI(k) ELSE k
  /\ reported' = [reported EXCEPT !.end = @ \/ (isr.tc /\ OQIsEmpty)]
  /\ usart' = IF isr.tc THEN Ended(usart) ELSE usart
  /\ UNCHANGED <<at, irq, iq, oq, printed, sent, arrived, got>>

(* The timeouts: chVTDoTickI and the callback wakeup.                       *)
TimerTriggers(t) ==
  /\ Unlocked /\ k.cb = NONE /\ t \in k.vt /\ irq' = TRUE /\ k' = Trigger(k, t)
  /\ UNCHANGED <<at, iq, oq, usart, isr, printed, sent, arrived, got, reported>>
TimerCallback ==
  /\ k.cb # NONE /\ k' = Timeout(k)
  /\ UNCHANGED <<at, irq, iq, oq, usart, isr, printed, sent, arrived, got, reported>>

(* _port_irq_epilogue of the last interrupt.                                *)
Epilogue ==
  /\ irq /\ k.cb = NONE /\ isr.pc = "off" /\ irq' = FALSE /\ k' = RescheduleS(k)
  /\ UNCHANGED <<at, iq, oq, usart, isr, printed, sent, arrived, got, reported>>

(* The timer has the higher interrupt priority (mcuconf.h:238, 268).        *)
Handler == (k.cb = NONE /\ (Receive \/ Fill \/ End)) \/ TimerCallback \/ Epilogue
Client == Read \/ WaitAny \/ GetAndClearFlags
Writer(t) == PutChar(t) \/ Sleep(t) \/ Awake(t)

Next ==
  \/ Transmit \/ Arrive \/ Enter \/ Handler \/ Client
  \/ \E t \in Threads : TimerTriggers(t)
  \/ \E t \in Writers : Writer(t)

Spec == Init /\ [][Next]_vars

(* The USART and the processor do not stop; a pending interrupt is served   *)
(* and a timeout triggers; writers that run again and again get on with     *)
(* their messages, as ticks are far apart.  Nothing is assumed of one       *)
(* writer against the other: that both come to run is up to the scheduler.  *)
FairSpec ==
  /\ Spec /\ WF_vars(Transmit) /\ WF_vars(Handler) /\ WF_vars(Client)
  /\ SF_vars(Enter)
  /\ SF_vars(\E t \in Writers : Writer(t)) /\ SF_vars(\E t \in Writers : PutChar(t))
  /\ \A t \in Writers : SF_vars(TimerTriggers(t))
-----------------------------------------------------------------------------
Used == [i \in 1 .. oq.top - oq.cnt |-> oq.buf[(oq.rd + i - 1) % oq.top]]
Unread == [i \in 1 .. iq.cnt |-> iq.buf[(iq.rd + i - 1) % iq.top][2]]
Granted(o) ==
  {t \in Threads : /\ at[t] \in IF o = "oq" THEN {"put"} ELSE {"get"}
                   /\ k.state[t] \in {"READY", "CURRENT"} /\ k.u[t] = "OK"}

(* Every thread is in the one place its state says.                         *)
TypeOK ==
  /\ k.cur \in All /\ k.ready \in Seq(All) /\ k.vt \subseteq Threads
  /\ irq \in BOOLEAN /\ arrived \in 0 .. BYTES /\ got \in 0 .. BYTES
  /\ \A t \in Writers : sent[t] \in 0 .. CHARS[t] /\ printed[t] \in sent[t] .. CHARS[t]
  /\ InOnePlace(k)

(* The counters of the queues agree with their pointers (chqueues.h:303):   *)
(* writers, reader and handler each move one pointer and share the counter. *)
QueuesConsistent ==
  /\ iq.cnt \in 0 .. iq.top /\ iq.wr - iq.rd \in {iq.cnt, iq.cnt - iq.top}
  /\ oq.cnt \in 0 .. oq.top /\ oq.rd - oq.wr \in {oq.cnt, oq.cnt - oq.top}

(* Two threads that print at once (main.cpp:75, main.cpp:130) may mix their *)
(* messages, but no character of either is lost, repeated or out of order.  *)
OutputInOrder ==
  \A t \in Writers :
    SelectSeq(usart.shift \o usart.dr \o Used, LAMBDA c : c[1] = t)
      = [i \in 1 .. printed[t] - sent[t] |-> <<t, sent[t] + i>>]

(* The bytes that arrive are read in their order, and if one is missing     *)
(* SD_OVERRUN_ERROR has been or will be broadcast.                          *)
InputInOrder ==
  LET rest == <<got>> \o Unread \o usart.rdr
  IN /\ \A i \in 1 .. Len(rest) - 1 : rest[i] < rest[i + 1]
     /\ reported.overrun \/ usart.ore \/ rest = [i \in 1 .. arrived - got + 1 |-> got + i - 1]

(* The transmitter is never left off with characters in the queue, though   *)
(* the handler writes CR1 back from a copy.                                 *)
TransmitterOn == oq.cnt # oq.top => usart.txeie

(* No thread waits for a queue that has what it waits for, unless a thread  *)
(* that was woken has not used it yet; and a listener that clears its flags *)
(* after every wait never sleeps on flags.                                  *)
NoLostWakeup ==
  /\ k.q["oq"] # << >> => oq.cnt <= Cardinality(Granted("oq"))
  /\ k.q["iq"] # << >> => iq.cnt <= Cardinality(Granted("iq"))
  /\ k.state[Reader] = "WTOREVT" => ~k.flags

(* Every character is sent in the end, though the writers overtake each     *)
(* other at the queue.                                                      *)
EverythingSent == <>(\A t \in Writers : sent[t] = CHARS[t])

(* CHN_TRANSMISSION_END is broadcast after the last character has left, also *)
(* when one broadcast came too early: no interrupt gets lost between TXEIE  *)
(* and TCIE, though the handler clears TC and writes CR1 from old copies.   *)
EndReported == <>[](reported.end)
=============================================================================
