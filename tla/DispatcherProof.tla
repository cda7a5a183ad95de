---------------------------- MODULE DispatcherProof ----------------------------
(* Proofs about the flush clock: what Dispatcher's runs check for one minute  *)
(* of 60 s and a handful of clock readings holds for every length of the      *)
(* interval and every sequence of readings.                                   *)
EXTENDS Dispatcher, TLAPS

(* A capture file's first frame may move beggining_time backwards; nothing    *)
(* has been flushed then.                                                     *)
FirstFrameUnflushed ==
    (build = "offline" /\ ~isfirsttime) => processing_time = 0

Inv == TypeOK /\ StampBeforeIntervalEnd /\ FirstFrameUnflushed

(* A flush is delayed at most once because the call that delays it resets     *)
(* the flag, whatever value the clock then takes.                             *)
DelayInv ==
    /\ overdue = 0 \/ overdue = 1
    /\ overdue = 1 => flag = 0

-----------------------------------------------------------------------------
(* The begin of an interval is a time of the epoch, and no later than the     *)
(* frame when that frame is the first of a capture file.                      *)
LEMMA BeginType ==
    ASSUME TypeOK, NEW t \in Readings
    PROVE  /\ t \in Nat
           /\ Begin(t) \in Nat
           /\ Begin(t) # beggining_time => build = "offline" /\ ~isfirsttime
<1>1. t \in Nat
  BY DispatcherAssumption
<1>2. t \div 10 \in Nat
  BY <1>1
<1>3. (t \div 10) * 10 \in Nat
  BY <1>2
<1> QED
  BY <1>1, <1>3 DEF Begin, TypeOK

(* A flush keeps the new stamp inside the new interval and after the old one; *)
(* it leaves the clock inside the new interval too.                           *)
LEMMA FlushArithmetic ==
    ASSUME Inv, NEW t \in Readings, Due(t)
    PROVE  /\ Stamp(t) \in Nat /\ NextBegin(t) \in Nat
           /\ Stamp(t) > processing_time
           /\ Stamp(t) <= t
           /\ Stamp(t) < NextBegin(t) + Casovac
           /\ NextBegin(t) <= t
           /\ t < NextBegin(t) + Casovac
<1> USE DispatcherAssumption
<1>1. /\ t \in Nat /\ Begin(t) \in Nat /\ processing_time \in Nat
      /\ Casovac \in Nat /\ LateStep \in Nat
      /\ 0 < LateStep /\ LateStep <= Casovac
  BY BeginType DEF Inv, TypeOK
<1>2. processing_time < Begin(t) + Casovac
  <2>1. CASE Begin(t) = beggining_time
    BY <2>1 DEF Inv, StampBeforeIntervalEnd
  <2>2. CASE Begin(t) # beggining_time
    <3>1. processing_time = 0
      BY <2>2, BeginType DEF Inv, FirstFrameUnflushed
    <3> QED
      BY <1>1, <3>1
  <2> QED
    BY <2>1, <2>2
<1>3. CASE Late(t)
  <2>1. t >= Begin(t) + 2 * Casovac
    BY <1>1, <1>3 DEF Late
  <2>2. Stamp(t) = processing_time + LateStep /\ NextBegin(t) = (t - Casovac) + Casovac
    BY <1>3 DEF Stamp, NextBegin
  <2> QED
    BY <1>1, <1>2, <2>1, <2>2
<1>4. CASE ~Late(t)
  <2>1. t >= Begin(t) + Casovac /\ t < Begin(t) + 2 * Casovac
    BY <1>1, <1>4 DEF Late, Due
  <2>2. Stamp(t) = t /\ NextBegin(t) = Begin(t) + Casovac
    BY <1>4 DEF Stamp, NextBegin
  <2> QED
    BY <1>1, <1>2, <2>1, <2>2
<1> QED
  BY <1>3, <1>4

(* The four ways the handler and the outside world move the clock.            *)
LEMMA InitInv == Init => Inv
<1> SUFFICES ASSUME Init PROVE Inv
  OBVIOUS
<1> USE DispatcherAssumption
<1>1. started \in Nat /\ started \in Readings
  BY DEF Init
<1>2. beggining_time \in Nat
  BY <1>1 DEF Init, MainSetsBegin
<1>3. TypeOK
  <2>1. isfirsttime \in BOOLEAN
    BY DEF Init
  <2> QED
    BY <1>1, <1>2, <2>1 DEF Init, TypeOK
<1>4. StampBeforeIntervalEnd
  BY <1>2 DEF Init, StampBeforeIntervalEnd
<1>5. FirstFrameUnflushed
  BY DEF Init, FirstFrameUnflushed
<1> QED
  BY <1>3, <1>4, <1>5 DEF Inv

(* A call that does not flush leaves stamp and interval where they are.      *)
LEMMA KeepInv ==
    ASSUME Inv, NEW t \in Readings, NEW counted \in BOOLEAN, Keep(t, counted)
    PROVE  Inv'
<1> USE DispatcherAssumption
<1>1. t \in Nat /\ Begin(t) \in Nat
  BY BeginType DEF Inv
<1>2. TypeOK'
  <2>1. flag' \in {0, 1}
    BY DEF Keep, FlagAfter, Inv, TypeOK
  <2>2. z_protokoly' \in Readings \cup {NoFrame}
    BY DEF Keep, Booked, Inv, TypeOK
  <2>3. overdue' \in 0 .. 2
    BY DEF Keep
  <2>4. isfirsttime' \in BOOLEAN
    BY DEF Keep, Inv, TypeOK
  <2> QED
    BY <1>1, <2>1, <2>2, <2>3, <2>4 DEF Keep, Inv, TypeOK
<1>3. StampBeforeIntervalEnd'
  <2>1. CASE Begin(t) = beggining_time
    BY <2>1 DEF Keep, Inv, StampBeforeIntervalEnd
  <2>2. CASE Begin(t) # beggining_time
    <3>1. processing_time = 0
      BY <2>2, BeginType DEF Inv, FirstFrameUnflushed
    <3>2. processing_time' = 0 /\ beggining_time' = Begin(t)
      BY <3>1 DEF Keep
    <3> QED
      BY <1>1, <3>2 DEF StampBeforeIntervalEnd
  <2> QED
    BY <2>1, <2>2
<1>4. FirstFrameUnflushed'
  BY DEF Keep, FirstFrameUnflushed
<1> QED
  BY <1>2, <1>3, <1>4 DEF Inv

(* A call that flushes moves both the stamp and the interval on.             *)
LEMMA FlushInv ==
    ASSUME Inv, NEW t \in Readings, Flush(t)
    PROVE  Inv'
<1> USE DispatcherAssumption
<1>1. Due(t)
  BY DEF Flush
<1>2. /\ Stamp(t) \in Nat
      /\ NextBegin(t) \in Nat
      /\ Stamp(t) < NextBegin(t) + Casovac
  BY <1>1, FlushArithmetic
<1>3. TypeOK'
  <2>1. flag' \in {0, 1}
    BY DEF Flush, FlagAfter
  <2>2. isfirsttime' \in BOOLEAN
    BY DEF Flush, Inv, TypeOK
  <2> QED
    BY <1>2, <2>1, <2>2 DEF Flush, TakenOff, Inv, TypeOK
<1>4. StampBeforeIntervalEnd'
  BY <1>2 DEF Flush, StampBeforeIntervalEnd
<1>5. FirstFrameUnflushed'
  BY DEF Flush, FirstFrameUnflushed
<1> QED
  BY <1>3, <1>4, <1>5 DEF Inv

(* A restarted process has no stamp, which is before any interval.           *)
LEMMA RestartInv ==
    ASSUME Inv, NEW t \in StartReadings, Restart(t)
    PROVE  Inv'
<1>1. t \in Nat /\ t \in Readings
  BY DispatcherAssumption
<1>2. MainSetsBegin(build, t) \in Nat
  BY <1>1 DEF MainSetsBegin
<1>3. TypeOK'
  <2>1. isfirsttime' \in BOOLEAN
    BY DEF Restart
  <2> QED
    BY <1>1, <1>2, <2>1 DEF Restart, Inv, TypeOK
<1>4. StampBeforeIntervalEnd'
  BY <1>2, DispatcherAssumption DEF Restart, StampBeforeIntervalEnd
<1>5. FirstFrameUnflushed'
  BY DEF Restart, FirstFrameUnflushed
<1> QED
  BY <1>3, <1>4, <1>5 DEF Inv

(* The invariant is inductive.                                                *)
LEMMA InvNext == Inv /\ [Next]_vars => Inv'
<1> SUFFICES ASSUME Inv, [Next]_vars PROVE Inv'
  OBVIOUS
<1>1. ASSUME NEW t \in Readings, Flush(t) PROVE Inv'
  BY <1>1, FlushInv
<1>2. ASSUME NEW t \in Readings, NEW counted \in BOOLEAN, Keep(t, counted) PROVE Inv'
  BY <1>2, KeepInv
<1>3. ASSUME NEW t \in StartReadings, Restart(t) PROVE Inv'
  BY <1>3, RestartInv
<1>4. CASE UNCHANGED vars
  BY <1>4 DEF vars, Inv, TypeOK, StampBeforeIntervalEnd, FirstFrameUnflushed
<1> QED
  BY <1>1, <1>2, <1>3, <1>4 DEF Next, Handler

(* What a step that counts an interval is: the flush of the handler.          *)
LEMMA CountingIsFlushing ==
    ASSUME Inv, [Next]_vars, interval' > interval
    PROVE  \E t \in Readings : Flush(t) /\ Due(t)
<1>1. interval \in Nat
  BY DEF Inv, TypeOK
<1>2. ASSUME NEW t \in Readings, NEW counted \in BOOLEAN PROVE ~Keep(t, counted)
  BY <1>1 DEF Keep
<1>3. ASSUME NEW t \in StartReadings PROVE ~Restart(t)
  BY <1>1 DEF Restart
<1>4. ~UNCHANGED vars
  BY <1>1 DEF vars
<1> QED
  BY <1>2, <1>3, <1>4 DEF Next, Handler, Flush

-----------------------------------------------------------------------------
(* The handler keeps its types, for every clock and length of the interval.   *)
THEOREM HandlerTypes == Spec => []TypeOK
<1>1. Inv => TypeOK
  BY DEF Inv
<1> QED
  BY <1>1, InitInv, InvNext, PTL DEF Spec

(* The flush clock keeps its types and its stamp inside the interval it       *)
(* measures, for every clock and every length of the interval.                *)
THEOREM FlushClockInvariant == Spec => [](TypeOK /\ StampBeforeIntervalEnd)
<1>1. Inv => TypeOK /\ StampBeforeIntervalEnd
  BY DEF Inv
<1> QED
  BY <1>1, InitInv, InvNext, PTL DEF Spec

(* Stamps never repeat within the life of the process: no two intervals of    *)
(* one run compete for a primary key, even when the clock is set back.        *)
THEOREM StampsStrictlyIncrease == Spec => StampsIncrease
<1>1. Inv /\ [Next]_vars => [interval' > interval => processing_time' > processing_time]_vars
  <2> SUFFICES ASSUME Inv, [Next]_vars, interval' > interval
               PROVE  processing_time' > processing_time
    OBVIOUS
  <2>1. PICK t \in Readings : Flush(t) /\ Due(t)
    BY CountingIsFlushing
  <2> QED
    BY <2>1, FlushArithmetic DEF Flush
<1> QED
  BY <1>1, InitInv, InvNext, PTL DEF Spec, StampsIncrease

(* A stamp is a time that has passed when it is chosen.                       *)
THEOREM StampsHavePassed == Spec => StampNotInFuture
<1>1. Inv /\ [Next]_vars => [interval' > interval => processing_time' <= actual_time']_vars
  <2> SUFFICES ASSUME Inv, [Next]_vars, interval' > interval
               PROVE  processing_time' <= actual_time'
    OBVIOUS
  <2>1. PICK t \in Readings : Flush(t) /\ Due(t)
    BY CountingIsFlushing
  <2> QED
    BY <2>1, FlushArithmetic DEF Flush
<1> QED
  BY <1>1, InitInv, InvNext, PTL DEF Spec, StampNotInFuture

(* One flush is enough to catch up with any silence.                          *)
THEOREM OneFlushCatchesUp == Spec => FlushCatchesUp
<1>1. Inv /\ [Next]_vars =>
        [interval' > interval => actual_time' - beggining_time' \in 0 .. Casovac - 1]_vars
  <2> SUFFICES ASSUME Inv, [Next]_vars, interval' > interval
               PROVE  actual_time' - beggining_time' \in 0 .. Casovac - 1
    OBVIOUS
  <2>1. PICK t \in Readings : Flush(t) /\ Due(t)
    BY CountingIsFlushing
  <2>2. /\ NextBegin(t) \in Nat /\ t \in Nat /\ Casovac \in Nat
        /\ NextBegin(t) <= t /\ t < NextBegin(t) + Casovac
    BY <2>1, FlushArithmetic, DispatcherAssumption
  <2>3. actual_time' = t /\ beggining_time' = NextBegin(t)
    BY <2>1 DEF Flush
  <2> QED
    BY <2>2, <2>3
<1> QED
  BY <1>1, InitInv, InvNext, PTL DEF Spec, FlushCatchesUp

-----------------------------------------------------------------------------
(* A call that leaves a finished interval unflushed found the flag set, and   *)
(* resets it, so the next such call flushes.                                  *)
LEMMA DelayStep == Inv /\ DelayInv /\ [Next]_vars => DelayInv'
<1> SUFFICES ASSUME Inv, DelayInv, [Next]_vars PROVE DelayInv'
  OBVIOUS
<1>1. ASSUME NEW t \in Readings, NEW counted \in BOOLEAN, Keep(t, counted)
      PROVE  DelayInv'
  <2>1. /\ t \in Nat /\ Begin(t) \in Nat /\ Casovac \in Nat /\ Guard \in Nat
        /\ Guard <= Casovac /\ flag \in {0, 1}
    BY BeginType, DispatcherAssumption DEF Inv, TypeOK
  <2>2. CASE t - Begin(t) < Casovac
    BY <1>1, <2>2 DEF Keep, DelayInv
  <2>3. CASE ~(t - Begin(t) < Casovac)
    <3>1. t - Begin(t) >= Casovac /\ t - Begin(t) >= Guard
      BY <2>1, <2>3
    <3>2. flag = 1
      BY <1>1, <2>1, <3>1 DEF Keep, Due
    <3>3. overdue = 0
      BY <3>2 DEF DelayInv
    <3>4. flag' = 0 /\ overdue' = 1
      BY <1>1, <2>3, <3>1, <3>2, <3>3 DEF Keep, FlagAfter
    <3> QED
      BY <3>4 DEF DelayInv
  <2> QED
    BY <2>2, <2>3
<1>2. ASSUME NEW t \in Readings, Flush(t) PROVE DelayInv'
  BY <1>2 DEF Flush, DelayInv
<1>3. ASSUME NEW t \in StartReadings, Restart(t) PROVE DelayInv'
  BY <1>3 DEF Restart, DelayInv
<1>4. CASE UNCHANGED vars
  BY <1>4 DEF vars, DelayInv
<1> QED
  BY <1>1, <1>2, <1>3, <1>4 DEF Next, Handler

(* A finished interval waits for the second frame after its end at most.      *)
THEOREM FlushIsDelayedOnce == Spec => []FlushDelayedOnce
<1>1. Init => DelayInv
  BY DEF Init, DelayInv
<1>2. DelayInv => FlushDelayedOnce
  BY DEF DelayInv, FlushDelayedOnce
<1> QED
  BY <1>1, <1>2, InitInv, InvNext, DelayStep, PTL DEF Spec

-----------------------------------------------------------------------------
(* With a steady clock the interval being measured has begun, and the frames  *)
(* booked belong to it.                                                       *)
SteadyInv ==
    /\ beggining_time <= actual_time
    /\ BookedInInterval
    /\ (build = "offline" /\ ~isfirsttime) => z_protokoly = NoFrame

(* While the clock does not go back, neither does what is booked.            *)
LEMMA SteadyStep ==
    ASSUME SteadyClock, Inv, SteadyInv, [Next]_vars
    PROVE  SteadyInv'
<1> USE DispatcherAssumption
<1>1. /\ beggining_time \in Nat /\ actual_time \in Nat
      /\ z_protokoly \in Nat \cup {NoFrame}
  BY DEF Inv, TypeOK
<1>2. ASSUME NEW t \in Readings, NEW counted \in BOOLEAN, Keep(t, counted)
      PROVE  SteadyInv'
  <2>1. t \in Nat /\ Begin(t) \in Nat
    BY BeginType DEF Inv
  <2>2. t >= actual_time
    BY <1>2 DEF Keep, CanRead
  <2>3. Begin(t) <= t
    <3>1. CASE Begin(t) = beggining_time
      BY <1>1, <2>1, <2>2, <3>1 DEF SteadyInv
    <3>2. CASE Begin(t) # beggining_time
      <4>1. Begin(t) = (t \div 10) * 10
        BY <3>2 DEF Begin
      <4>2. t = 10 * (t \div 10) + (t % 10) /\ t % 10 \in 0 .. 9 /\ t \div 10 \in Nat
        BY <2>1
      <4> QED
        BY <2>1, <4>1, <4>2
    <3> QED
      BY <3>1, <3>2
  <2>4. BookedInInterval'
    <3>1. CASE z_protokoly = NoFrame
      BY <1>2, <2>1, <2>3, <3>1 DEF Keep, Booked, BookedInInterval
    <3>2. CASE z_protokoly # NoFrame
      <4>1. ~(build = "offline" /\ ~isfirsttime)
        BY <3>2 DEF SteadyInv
      <4>2. Begin(t) = beggining_time /\ Booked(t, counted) = z_protokoly
        BY <3>2, <4>1 DEF Begin, Booked
      <4> QED
        BY <1>2, <3>2, <4>2 DEF Keep, SteadyInv, BookedInInterval
    <3> QED
      BY <3>1, <3>2
  <2>5. ((build = "offline" /\ ~isfirsttime) => z_protokoly = NoFrame)'
    BY <1>2 DEF Keep
  <2> QED
    BY <1>2, <2>3, <2>4, <2>5 DEF Keep, SteadyInv
<1>3. ASSUME NEW t \in Readings, Flush(t) PROVE SteadyInv'
  <2>1. NextBegin(t) <= t
    BY <1>3, FlushArithmetic DEF Flush
  <2> QED
    BY <1>3, <2>1 DEF Flush, TakenOff, SteadyInv, BookedInInterval
<1>4. ASSUME NEW t \in StartReadings, Restart(t) PROVE SteadyInv'
  <2>1. t \in Nat
    OBVIOUS
  <2>2. MainSetsBegin(build, t) <= t
    BY <2>1 DEF MainSetsBegin
  <2> QED
    BY <1>4, <2>2 DEF Restart, SteadyInv, BookedInInterval
<1>5. CASE UNCHANGED vars
  BY <1>5 DEF vars, SteadyInv, BookedInInterval
<1> QED
  BY <1>2, <1>3, <1>4, <1>5 DEF Next, Handler

(* When time() never goes back, a frame is stored with the interval in which  *)
(* it was captured: nothing booked is older than the interval being measured. *)
THEOREM FramesStayInTheirInterval ==
    ASSUME SteadyClock
    PROVE  Spec => []BookedInInterval
<1>1. Init => SteadyInv
  <2> SUFFICES ASSUME Init PROVE SteadyInv
    OBVIOUS
  <2>1. started \in Nat
    BY DispatcherAssumption DEF Init
  <2> QED
    BY <2>1 DEF Init, SteadyInv, BookedInInterval, MainSetsBegin
<1>2. Inv /\ SteadyInv /\ [Next]_vars => SteadyInv'
  BY SteadyStep
<1>3. SteadyInv => BookedInInterval
  BY DEF SteadyInv
<1> QED
  BY <1>1, <1>2, <1>3, InitInv, InvNext, PTL DEF Spec

=============================================================================
