--------------------------- MODULE ChSerialProofs ---------------------------
(* Proofs about ChSerial, for every number of writers, queue size, message  *)
(* length and number of bytes that arrive.                                  *)
EXTENDS ChSerial, TLAPS

-----------------------------------------------------------------------------
(* A queue object of some size, as far as the pointers go.                  *)
IsQueue(q, size) ==
  /\ DOMAIN q = {"cnt", "rd", "wr", "top", "buf"} /\ q = [x \in DOMAIN q |-> q[x]]
  /\ q.top = size /\ q.rd \in 0 .. size - 1 /\ q.wr \in 0 .. size - 1
  /\ q.cnt \in 0 .. size

(* The bytes, or for an output queue the free places, are those between the *)
(* two pointers.                                                            *)
Between(q, from, to) == to - from \in {q.cnt, q.cnt - q.top}

(* While serve_interrupt runs no thread does, and its copy of CR1 has TXEIE *)
(* unless the output queue is empty.                                        *)
CopyGood ==
  isr.pc # "off" => irq /\ (oq.cnt # oq.top => isr.txeie)

(* The inductive invariant.                                                 *)
SerialInv ==
  /\ IsQueue(iq, IN_SIZE) /\ Between(iq, iq.rd, iq.wr)
  /\ IsQueue(oq, OUT_SIZE) /\ Between(oq, oq.wr, oq.rd)
  /\ "txeie" \in DOMAIN usart /\ usart = [x \in DOMAIN usart |-> usart[x]]
  /\ CopyGood /\ TransmitterOn

-----------------------------------------------------------------------------
(* A pointer behind the last byte is wrapped around to the first.           *)
LEMMA AfterInRange ==
  ASSUME NEW size \in Nat \ {0}, NEW q, q.top = size, NEW p \in 0 .. size - 1
  PROVE  /\ After(q, p) \in 0 .. size - 1
         /\ After(q, p) = p + 1 \/ After(q, p) = p + 1 - size
BY DEF After

(* Storing a byte moves only q_wrptr and the counter ...                    *)
LEMMA PutMoves ==
  ASSUME NEW size \in Nat \ {0}, NEW q, IsQueue(q, size), NEW x,
         NEW n \in Int, q.cnt + n \in 0 .. size
  PROVE  /\ IsQueue(Put(q, x, n), size)
         /\ Put(q, x, n).cnt = q.cnt + n /\ Put(q, x, n).rd = q.rd
         /\ Put(q, x, n).wr = After(q, q.wr)
BY AfterInRange DEF Put, IsQueue

(* ... and taking one moves only q_rdptr and the counter.                   *)
LEMMA GetMoves ==
  ASSUME NEW size \in Nat \ {0}, NEW q, IsQueue(q, size),
         NEW n \in Int, q.cnt + n \in 0 .. size
  PROVE  /\ IsQueue(Get(q, n), size)
         /\ Get(q, n).cnt = q.cnt + n /\ Get(q, n).wr = q.wr
         /\ Get(q, n).rd = After(q, q.rd)
BY AfterInRange DEF Get, IsQueue

-----------------------------------------------------------------------------
(* After sdStart both queues are empty and no handler runs.                 *)
LEMMA InitGood == Init => SerialInv
<1> SUFFICES ASSUME Init PROVE SerialInv
  OBVIOUS
<1>1. IsQueue(iq, IN_SIZE) /\ Between(iq, iq.rd, iq.wr)
  BY SerialAssumption DEF Init, Queue, IsQueue, Between
<1>2. /\ IsQueue(oq, OUT_SIZE) /\ Between(oq, oq.wr, oq.rd)
      /\ oq.cnt = oq.top
  BY SerialAssumption DEF Init, Queue, IsQueue, Between
<1>3. "txeie" \in DOMAIN usart /\ usart = [x \in DOMAIN usart |-> usart[x]]
  BY DEF Init
<1>4. isr.pc = "off"
  BY DEF Init, Idle
<1> QED BY <1>1, <1>2, <1>3, <1>4 DEF SerialInv, CopyGood, TransmitterOn

(* Steps of threads and of the timer that touch neither queue nor USART.    *)
LEMMA OthersKeep ==
  ASSUME SerialInv, UNCHANGED <<iq, oq, usart, isr>>, isr.pc # "off" => irq'
  PROVE  SerialInv'
BY DEF SerialInv, IsQueue, Between, CopyGood, TransmitterOn

(* A step of the current thread comes only when no handler runs.            *)
LEMMA ThreadsWait ==
  ASSUME SerialInv, ~irq
  PROVE  isr.pc = "off"
BY DEF SerialInv, CopyGood

(* chOQPutTimeout stores only where the loop has seen a free place, and its *)
(* notification turns the transmitter on.                                   *)
LEMMA PutCharKeeps ==
  ASSUME SerialInv, NEW t \in Writers, PutChar(t)
  PROVE  SerialInv'
<1>1. ~irq /\ isr.pc = "off"
  BY ThreadsWait DEF PutChar, Runs, Resumes
<1>2. CASE MustWait(t)
  BY <1>1, <1>2, OthersKeep DEF PutChar
<1>3. CASE ~MustWait(t)
  <2>1. /\ oq' = Put(oq, <<t, printed[t] + 1>>, -1)
        /\ usart' = Notify(usart) /\ UNCHANGED <<iq, isr>>
    BY <1>3 DEF PutChar
  <2>2. IsQueue(oq, OUT_SIZE) /\ Between(oq, oq.wr, oq.rd) /\ oq.cnt + -1 \in 0 .. OUT_SIZE
    BY <1>3, SerialAssumption DEF SerialInv, IsQueue, MustWait, OQIsFull
  <2>3. /\ IsQueue(oq', OUT_SIZE)
        /\ oq'.cnt = oq.cnt + -1 /\ oq'.rd = oq.rd /\ oq'.wr = After(oq, oq.wr)
    BY <2>1, <2>2, PutMoves, SerialAssumption
  <2>4. Between(oq, oq.wr, oq.rd)'
    BY <2>2, <2>3, AfterInRange, SerialAssumption DEF IsQueue, Between
  <2>5. /\ "txeie" \in DOMAIN usart' /\ usart' = [x \in DOMAIN usart' |-> usart'[x]]
        /\ usart'.txeie = TRUE
    BY <2>1 DEF SerialInv, Notify
  <2> QED
    BY <1>1, <2>1, <2>3, <2>4, <2>5
    DEF SerialInv, CopyGood, TransmitterOn, IsQueue, Between
<1> QED BY <1>2, <1>3

(* chIQGetTimeout takes only where it has seen a byte.                      *)
LEMMA ReadKeeps ==
  ASSUME SerialInv, Read
  PROVE  SerialInv'
<1>1. UNCHANGED <<irq, oq, usart, isr>>
  BY DEF Read
<1>2. CASE UNCHANGED iq
  BY <1>1, <1>2, OthersKeep DEF SerialInv, CopyGood
<1>3. CASE ~IQIsEmpty /\ iq' = Get(iq, -1)
  <2>1. IsQueue(iq, IN_SIZE) /\ Between(iq, iq.rd, iq.wr) /\ iq.cnt + -1 \in 0 .. IN_SIZE
    BY <1>3, SerialAssumption DEF SerialInv, IsQueue, IQIsEmpty
  <2>2. /\ IsQueue(iq', IN_SIZE)
        /\ iq'.cnt = iq.cnt + -1 /\ iq'.wr = iq.wr /\ iq'.rd = After(iq, iq.rd)
    BY <1>3, <2>1, GetMoves, SerialAssumption
  <2>3. Between(iq, iq.rd, iq.wr)'
    BY <2>1, <2>2, AfterInRange, SerialAssumption DEF IsQueue, Between
  <2> QED
    BY <1>1, <2>2, <2>3 DEF SerialInv, CopyGood, TransmitterOn, IsQueue, Between
<1> QED BY <1>2, <1>3 DEF Read

-----------------------------------------------------------------------------
(* What the USART does by itself leaves the enable bits alone.              *)
LEMMA LineKeeps ==
  ASSUME SerialInv, Transmit \/ Arrive
  PROVE  SerialInv'
<1>1. UNCHANGED <<irq, iq, oq, isr>>
  BY DEF Transmit, Arrive
<1>2. /\ "txeie" \in DOMAIN usart' /\ usart' = [x \in DOMAIN usart' |-> usart'[x]]
      /\ usart'.txeie = usart.txeie
  BY DEF SerialInv, Transmit, Arrive
<1> QED BY <1>1, <1>2 DEF SerialInv, CopyGood, TransmitterOn, IsQueue, Between

(* The copy of CR1 is good when it is made.                                 *)
LEMMA EnterKeeps ==
  ASSUME SerialInv, Enter
  PROVE  SerialInv'
<1>1. UNCHANGED <<iq, oq, usart>> /\ irq' = TRUE /\ isr' = Sample(usart, "rx", usart.txeie)
  BY DEF Enter
<1>2. isr'.txeie = usart.txeie
  BY <1>1 DEF Sample
<1> QED BY <1>1, <1>2 DEF SerialInv, CopyGood, TransmitterOn, IsQueue, Between

(* An input queue that is not full has a free place.                        *)
LEMMA NotFull ==
  ASSUME SerialInv, ~IQIsFull
  PROVE  iq.cnt + 1 \in 0 .. IN_SIZE
BY SerialAssumption DEF SerialInv, IsQueue, Between, IQIsFull

(* sdIncomingDataI stores only into a queue that is not full.               *)
LEMMA ReceiveKeeps ==
  ASSUME SerialInv, Receive
  PROVE  SerialInv'
<1>1. /\ UNCHANGED <<irq, oq>> /\ isr' = Sample(usart', "rx", isr.txeie) /\ isr.pc = "rx"
      /\ usart' = [usart EXCEPT !.rdr = << >>, !.ore = @ /\ ~isr.ore]
  BY DEF Receive
<1>2. /\ "txeie" \in DOMAIN usart' /\ usart' = [x \in DOMAIN usart' |-> usart'[x]]
      /\ usart'.txeie = usart.txeie
  BY <1>1 DEF SerialInv
<1>3. isr'.txeie = isr.txeie /\ isr'.pc = "rx"
  BY <1>1 DEF Sample
<1>4. IsQueue(iq', IN_SIZE) /\ Between(iq, iq.rd, iq.wr)'
  <2>1. CASE UNCHANGED iq
    BY <2>1 DEF SerialInv, IsQueue, Between
  <2>2. CASE ~IQIsFull /\ iq' = Put(iq, <<Reader, usart.rdr[1]>>, 1)
    <3>1. IsQueue(iq, IN_SIZE) /\ Between(iq, iq.rd, iq.wr) /\ iq.cnt + 1 \in 0 .. IN_SIZE
      BY <2>2, NotFull DEF SerialInv
    <3>2. /\ IsQueue(iq', IN_SIZE)
          /\ iq'.cnt = iq.cnt + 1 /\ iq'.rd = iq.rd /\ iq'.wr = After(iq, iq.wr)
      BY <2>2, <3>1, PutMoves, SerialAssumption
    <3> QED
      BY <3>1, <3>2, AfterInRange, SerialAssumption DEF IsQueue, Between
  <2> QED BY <2>1, <2>2 DEF Receive
<1> QED
  BY <1>1, <1>2, <1>3, <1>4 DEF SerialInv, CopyGood, TransmitterOn, IsQueue, Between

(* "Transmission buffer empty" turns the transmitter off only when q_counter *)
(* says that the queue is empty.                                            *)
LEMMA FillKeeps ==
  ASSUME SerialInv, Fill
  PROVE  SerialInv'
<1>1. /\ UNCHANGED <<irq, iq>> /\ isr.pc = "rx"
      /\ isr' = [Idle EXCEPT !.pc = "tc", !.txeie = isr.txeie, !.tc = isr.tc]
  BY DEF Fill
<1>2. isr'.txeie = isr.txeie
  BY <1>1 DEF Idle
<1>3. CASE OQIsEmpty /\ UNCHANGED oq /\ usart' = Drained(usart)
  <2>1. oq.cnt = oq.top
    BY <1>3, SerialAssumption DEF SerialInv, IsQueue, Between, OQIsEmpty
  <2>2. "txeie" \in DOMAIN usart' /\ usart' = [x \in DOMAIN usart' |-> usart'[x]]
    BY <1>3 DEF SerialInv, Drained
  <2> QED
    BY <1>1, <1>3, <2>1, <2>2 DEF SerialInv, CopyGood, TransmitterOn, IsQueue, Between
<1>4. CASE /\ isr.txeie /\ ~OQIsEmpty /\ oq' = Get(oq, 1)
           /\ usart' = WriteDR(usart, oq.buf[oq.rd])
  <2>1. oq.cnt # oq.top
    BY <1>4, SerialAssumption DEF SerialInv, IsQueue, Between, OQIsEmpty
  <2>2. IsQueue(oq, OUT_SIZE) /\ Between(oq, oq.wr, oq.rd) /\ oq.cnt + 1 \in 0 .. OUT_SIZE
    BY <2>1, SerialAssumption DEF SerialInv, IsQueue
  <2>3. /\ IsQueue(oq', OUT_SIZE)
        /\ oq'.cnt = oq.cnt + 1 /\ oq'.wr = oq.wr /\ oq'.rd = After(oq, oq.rd)
    BY <1>4, <2>2, GetMoves, SerialAssumption
  <2>4. Between(oq, oq.wr, oq.rd)'
    BY <2>2, <2>3, AfterInRange, SerialAssumption DEF IsQueue, Between
  <2>5. /\ "txeie" \in DOMAIN usart' /\ usart' = [x \in DOMAIN usart' |-> usart'[x]]
        /\ usart'.txeie = usart.txeie
    BY <1>4 DEF SerialInv, WriteDR
  <2>6. usart.txeie
    BY <2>1 DEF SerialInv, TransmitterOn
  <2> QED
    BY <1>1, <1>2, <1>4, <2>3, <2>4, <2>5, <2>6
    DEF SerialInv, CopyGood, TransmitterOn, IsQueue, Between
<1>5. CASE UNCHANGED <<oq, usart>>
  BY <1>1, <1>2, <1>5 DEF SerialInv, CopyGood, TransmitterOn, IsQueue, Between
<1> QED BY <1>3, <1>4, <1>5 DEF Fill

(* "Physical transmission end" writes TXEIE back from the copy.             *)
LEMMA EndKeeps ==
  ASSUME SerialInv, End
  PROVE  SerialInv'
<1>1. /\ UNCHANGED <<irq, iq, oq>> /\ isr' = Idle /\ isr.pc = "tc"
      /\ usart' = IF isr.tc THEN Ended(usart) ELSE usart
  BY DEF End
<1>2. isr'.pc = "off"
  BY <1>1 DEF Idle
<1>3. "txeie" \in DOMAIN usart' /\ usart' = [x \in DOMAIN usart' |-> usart'[x]]
  BY <1>1 DEF SerialInv, Ended
<1>4. usart'.txeie = isr.txeie \/ usart'.txeie = usart.txeie
  BY <1>1 DEF SerialInv, Ended
<1>5. oq.cnt # oq.top => isr.txeie /\ usart.txeie
  BY <1>1 DEF SerialInv, CopyGood, TransmitterOn
<1> QED
  BY <1>1, <1>2, <1>3, <1>4, <1>5 DEF SerialInv, CopyGood, TransmitterOn, IsQueue, Between

-----------------------------------------------------------------------------
(* Every step keeps the invariant.                                          *)
LEMMA NextKeeps == SerialInv /\ [Next]_vars => SerialInv'
<1> SUFFICES ASSUME SerialInv, [Next]_vars PROVE SerialInv'
  OBVIOUS
<1>1. CASE Transmit \/ Arrive
  BY <1>1, LineKeeps
<1>2. CASE Enter
  BY <1>2, EnterKeeps
<1>3. CASE Handler
  <2>1. CASE Receive
    BY <2>1, ReceiveKeeps
  <2>2. CASE Fill
    BY <2>2, FillKeeps
  <2>3. CASE End
    BY <2>3, EndKeeps
  <2>4. CASE TimerCallback
    BY <2>4, OthersKeep DEF TimerCallback, SerialInv, CopyGood
  <2>5. CASE Epilogue
    BY <2>5, OthersKeep DEF Epilogue
  <2> QED BY <1>3, <2>1, <2>2, <2>3, <2>4, <2>5 DEF Handler
<1>4. CASE Client
  <2>1. CASE Read
    BY <2>1, ReadKeeps
  <2>2. CASE WaitAny
    BY <2>2, OthersKeep DEF WaitAny, SerialInv, CopyGood
  <2>3. CASE GetAndClearFlags
    BY <2>3, OthersKeep DEF GetAndClearFlags, SerialInv, CopyGood
  <2> QED BY <1>4, <2>1, <2>2, <2>3 DEF Client
<1>5. ASSUME NEW t \in Threads, TimerTriggers(t) PROVE SerialInv'
  BY <1>5, OthersKeep DEF TimerTriggers
<1>6. ASSUME NEW t \in Writers, Writer(t) PROVE SerialInv'
  <2>1. CASE PutChar(t)
    BY <2>1, PutCharKeeps
  <2>2. CASE Sleep(t)
    BY <2>2, OthersKeep DEF Sleep, SerialInv, CopyGood
  <2>3. CASE Awake(t)
    BY <2>3, OthersKeep DEF Awake, SerialInv, CopyGood
  <2> QED BY <1>6, <2>1, <2>2, <2>3 DEF Writer
<1>7. CASE UNCHANGED vars
  BY <1>7, OthersKeep DEF vars, SerialInv, CopyGood
<1> QED BY <1>1, <1>2, <1>3, <1>4, <1>5, <1>6, <1>7 DEF Next

(* The invariant holds.                                                     *)
LEMMA SerialInvariant == Spec => []SerialInv
BY InitGood, NextKeeps, PTL DEF Spec

(* The queues are right for every size: writers, reader and handler, each   *)
(* with its own pointer and all with one counter, never make the counter    *)
(* disagree with the pointers (chqueues.c:134, 173, 331, 366).              *)
THEOREM QueuesStayConsistent == Spec => []QueuesConsistent
<1>1. SerialInv => QueuesConsistent
  BY DEF SerialInv, IsQueue, Between, QueuesConsistent
<1> QED BY <1>1, SerialInvariant, PTL

(* Whatever serve_interrupt writes back to CR1 from the copy it took at its *)
(* entry, TXEIE is on as long as the output queue has characters, so that   *)
(* they go out (serial_lld.c:153-205).                                      *)
THEOREM TransmitterStaysOn == Spec => []TransmitterOn
<1>1. SerialInv => TransmitterOn
  BY DEF SerialInv
<1> QED BY <1>1, SerialInvariant, PTL
=============================================================================
