----------------------------- MODULE Application -----------------------------
(***************************************************************************)
(* The program of main.cpp: main builds a DataFilter and starts Thread1,   *)
(* which attaches it to a filter object, feeds its samples and calls the   *)
(* destructor.  Filter is the library it calls.                            *)
(*                                                                         *)
(* live is the set of heap blocks the program holds, by the name of the    *)
(* pointer they are assigned to.  Time and output are abstracted: a sleep  *)
(* ends at any time, and chprintf only takes part as a place where the     *)
(* other thread may run.  The program ends with its first undefined step.  *)
(***************************************************************************)
EXTENDS Filter

CONSTANTS TiposFiltro,   \* the values TipoFiltro may be compiled with
          EntradasX,     \* _EntradasX
          NumEntradas    \* its length, 50

ASSUME ApplicationAssumption ==
  /\ TiposFiltro \subseteq {0, 1, 2}
  /\ NumEntradas \in Nat
  /\ EntradasX \in [0 .. NumEntradas - 1 -> Samples]

VARIABLES
  TipoFiltro,
  mainAt, threadAt,   \* where main and Thread1 are
  Cont,               \* _Cont
  led,                \* the pin GPIOG_LED1
  live,               \* the blocks allocated and not freed
  attached,           \* the object that got the DataFilter
  target, pending     \* the object being destroyed, what is still to free

appVars == <<TipoFiltro, mainAt, threadAt, Cont, led, live, attached, target,
             pending>>
allVars == <<vars, appVars>>

AppInit ==
  /\ Init
  /\ TipoFiltro \in TiposFiltro
  /\ mainAt = "alloc" /\ threadAt = "none"
  /\ Cont = 0 /\ led = FALSE
  /\ live = {} /\ attached = "none"
  /\ target = "none" /\ pending = << >>

(* Whether chHeapAlloc(NULL, sizeof(...)) returned an object.               *)
ObjectAlloc == IF HeapMayFail THEN BOOLEAN ELSE {TRUE}

-----------------------------------------------------------------------------
(* main: the DataFilter.  A NULL is used without a test.                    *)
MainAlloc ==
  /\ mainAt = "alloc" /\ mainAt' = "new"
  /\ \E ok \in ObjectAlloc :
       \/ ok /\ live' = {"DataFilter"} /\ UNCHANGED vars
       \/ ~ok /\ live' = {} /\ Undefined
  /\ UNCHANGED <<TipoFiltro, threadAt, Cont, led, attached, target, pending>>

MainNew ==
  /\ mainAt = "new" /\ mainAt' = "create"
  /\ \E n \in Orders, pX \in ArraysX, pB \in ArraysB, pY \in ArraysY, pA \in ArraysA :
       \/ /\ TipoFiltro = 1 /\ newDataFilterIIR1(n, pX, pB, pY, pA)
          /\ live' = live \cup {"ArrayB", "ArrayX", "ArrayA", "ArrayY"}
       \/ /\ TipoFiltro = 0 /\ newDataFilterFIR(n, pX, pB)
          /\ live' = live \cup {"ArrayB", "ArrayX"}
       \/ /\ TipoFiltro = 2 /\ newDataFilterIIR2(n, pX, pB, pA)
          /\ live' = live \cup {"ArrayB", "ArrayX", "ArrayA", "ArrayY", "AuxMath"}
  /\ UNCHANGED <<TipoFiltro, threadAt, Cont, led, attached, target, pending>>

(* Variant of MainCreate that loses the thread.                             *)
MainCreate_NoThread ==
  /\ mainAt = "create" /\ mainAt' = "poll"
  /\ UNCHANGED <<vars, TipoFiltro, threadAt, Cont, led, live, attached, target,
                 pending>>

(* chThdCreateStatic(waThread1, ..., Thread1, _DataFilter).                 *)
MainCreate ==
  /\ mainAt = "create" /\ mainAt' = "poll"
  /\ threadAt' = "start"
  /\ UNCHANGED <<vars, TipoFiltro, Cont, led, live, attached, target, pending>>

(* The loop of main: the button, a message and a pause if it is pressed,    *)
(* and a pause.                                                             *)
MainLoop ==
  /\ \/ mainAt = "poll" /\ mainAt' \in {"pressed", "pause"}
     \/ mainAt = "pressed" /\ mainAt' = "pause"
     \/ mainAt = "pause" /\ mainAt' = "poll"
  /\ UNCHANGED <<vars, TipoFiltro, threadAt, Cont, led, live, attached, target,
                 pending>>

-----------------------------------------------------------------------------
(* Thread1: both filter objects, whichever is needed.                       *)
ThreadAlloc ==
  /\ threadAt = "start" /\ threadAt' = "attach"
  /\ \E iir, fir \in ObjectAlloc :
       live' = live \cup (IF iir THEN {"IIR"} ELSE {})
                    \cup (IF fir THEN {"FIR"} ELSE {})
  /\ UNCHANGED <<vars, TipoFiltro, mainAt, Cont, led, attached, target, pending>>

(* The object that gets the DataFilter; a variant that tests as the         *)
(* destruction at the end does.                                             *)
Attached_AtEnd == IF TipoFiltro = 1 THEN "IIR" ELSE "FIR"

Attached == IF TipoFiltro = 0 THEN "FIR" ELSE "IIR"

ThreadAttach ==
  /\ threadAt = "attach" /\ threadAt' = "sleep"
  /\ \/ /\ Attached \in live
        /\ setInitialDataFilter
        /\ attached' = Attached
        /\ live' = IF MathOperation' THEN live \cup {"Math"} ELSE live
     \/ Attached \notin live /\ Undefined /\ UNCHANGED <<attached, live>>
  /\ UNCHANGED <<TipoFiltro, mainAt, Cont, led, target, pending>>

(* The loop over the samples: awake after the first pause of a sample ...   *)
ThreadWake ==
  /\ threadAt = "sleep" /\ Cont < NumEntradas
  /\ threadAt' = "feed" /\ led' = ~led
  /\ UNCHANGED <<vars, TipoFiltro, mainAt, Cont, live, attached, target, pending>>

(* ... the object and the form it calls, by a test of its own ...           *)
Called ==
  CASE TipoFiltro = 1 -> [object |-> "IIR", form |-> "IIR_I"]
    [] TipoFiltro = 0 -> [object |-> "FIR", form |-> "FIR"]
    [] OTHER -> [object |-> "IIR", form |-> "IIR_II"]

(* ... the call (the members of an object that was never attached are stale *)
(* words), on the data the form is for: see FormMatchesData ...             *)
ThreadFeed ==
  /\ threadAt = "feed" /\ threadAt' = "rest"
  /\ IF Called.object # attached THEN Undefined
     ELSE \/ Called.form = "IIR_I" /\ IIR_directFormI(EntradasX[Cont])
          \/ Called.form = "FIR" /\ FIR_directForm(EntradasX[Cont])
          \/ Called.form = "IIR_II" /\ IIR_directFormII(EntradasX[Cont])
  /\ UNCHANGED <<TipoFiltro, mainAt, Cont, led, live, attached, target, pending>>

(* Variant of ThreadRest that steps past the next sample.                   *)
ThreadRest_Skips ==
  /\ threadAt = "rest" /\ threadAt' = "sleep"
  /\ led' = ~led /\ Cont' = Cont + 2
  /\ UNCHANGED <<vars, TipoFiltro, mainAt, live, attached, target, pending>>

(* ... the second pause, after the result was printed.                      *)
ThreadRest ==
  /\ threadAt = "rest" /\ threadAt' = "sleep"
  /\ led' = ~led /\ Cont' = Cont + 1
  /\ UNCHANGED <<vars, TipoFiltro, mainAt, live, attached, target, pending>>

-----------------------------------------------------------------------------
(* What ~Filter frees, and ~FIR and ~IIR: the same two members in the body  *)
(* of the class, and again in the base destructor that runs after it.       *)
BaseFrees == <<"Math", "DataFilter">>
DerivedFrees == <<"Math", "DataFilter">> \o BaseFrees

(* The object ~Filter is called for.                                        *)
Destroyed == IF TipoFiltro = 1 THEN "IIR" ELSE "FIR"

(* The call is virtual, through a table pointer no constructor has set:     *)
(* the stale word leads to the destructor of FIR or IIR, to that of Filter, *)
(* or nowhere.                                                              *)
ThreadDestroy ==
  /\ threadAt = "sleep" /\ Cont = NumEntradas
  /\ threadAt' = "free" /\ target' = Destroyed
  /\ \/ pending' \in {DerivedFrees, BaseFrees} /\ UNCHANGED vars
     \/ pending' = << >> /\ Undefined
  /\ UNCHANGED <<TipoFiltro, mainAt, Cont, led, live, attached>>

(* One chHeapFree.  The members of an object that was never attached are    *)
(* stale words; the header of a block in the free list holds a link where   *)
(* chHeapFree expects the heap.                                             *)
ThreadFree ==
  /\ threadAt = "free" /\ pending # << >>
  /\ pending' = Tail(pending)
  /\ \/ /\ target = attached /\ Head(pending) \in live
        /\ live' = live \ {Head(pending)}
        /\ UNCHANGED vars
     \/ /\ target # attached \/ Head(pending) \notin live
        /\ Undefined /\ UNCHANGED live
  /\ UNCHANGED <<TipoFiltro, mainAt, threadAt, Cont, led, attached, target>>

(* Thread1 returns.  No other block is ever freed.                          *)
ThreadExit ==
  /\ threadAt = "free" /\ pending = << >>
  /\ threadAt' = "done"
  /\ UNCHANGED <<vars, TipoFiltro, mainAt, Cont, led, live, attached, target,
                 pending>>

-----------------------------------------------------------------------------
Running == status # "undefined"

Main == Running /\ (MainAlloc \/ MainNew \/ MainCreate \/ MainLoop)

Thread1 ==
  /\ Running
  /\ \/ ThreadAlloc \/ ThreadAttach \/ ThreadWake \/ ThreadFeed \/ ThreadRest
     \/ ThreadDestroy \/ ThreadFree \/ ThreadExit

AppNext == Main \/ Thread1

(* Both threads have the same priority and give up the processor at every   *)
(* pause, so neither keeps the other from running.                          *)
AppSpec ==
  AppInit /\ [][AppNext]_allVars /\ WF_allVars(Main) /\ WF_allVars(Thread1)

-----------------------------------------------------------------------------
(* The three tests of TipoFiltro, in main and twice in Thread1, agree: when *)
(* a sample is fed, the object called is the one that got the DataFilter,   *)
(* and the form called is the one the DataFilter was built for.             *)
FormMatchesData ==
  threadAt = "feed" /\ Running => Called.object = attached /\ Called.form = kind

(* A sample is read inside _EntradasX, and every one before _Cont has been  *)
(* filtered once, in its place: behind the initial conditions, the signal   *)
(* the library has seen is the beginning of _EntradasX.                     *)
EachSampleOnce ==
  /\ threadAt = "feed" => Cont \in DOMAIN EntradasX
  /\ threadAt = "sleep" /\ Running =>
       /\ Len(xs) = FilterOrder + Cont
       /\ \A i \in 0 .. Cont - 1 : xs[FilterOrder + i + 1] = EntradasX[i]

(* Thread1 gets through all its samples to the destructor, whatever main    *)
(* does at the same time, unless one of its steps is undefined.             *)
AllSamplesFiltered ==
  <>((Cont = NumEntradas /\ threadAt = "free") \/ ~Running)

=============================================================================
