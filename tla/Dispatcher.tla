------------------------------- MODULE Dispatcher -------------------------------
(*****************************************************************************)
(* The flush clock of the capture thread (src/backend/katalyzer.c).          *)
(*                                                                           *)
(* Every captured frame makes one call of dispatcher_handler.  The call      *)
(* reads the clock (set_param), books the frame in z_protokoly, and decides  *)
(* whether the interval that began at beggining_time is over; if so it calls *)
(* database(), which chooses the stamp under which the writer thread stores  *)
(* the interval (processing_time), empties z_protokoly and moves             *)
(* beggining_time on.  Nothing else drives the flush: with no frame there is *)
(* no flush.                                                                 *)
(*                                                                           *)
(* The frames on z_protokoly are abstracted to the capture time of the first *)
(* of them.  Decoding, the pairing array and the database are left out; the  *)
(* writer threads are modelled by Pipeline, sum_table by SumTable.           *)
(*****************************************************************************)
EXTENDS Integers

CONSTANTS
    Casovac,        \* casovac_zapisu: length of an interval, 60 s
    LateStep,       \* what set_time adds to the stamp of a late flush, 60 s
    Guard,          \* age of an interval that re-arms the flush, 10 s
    Builds,         \* the ways the program is run: "pcap", "sock", "offline"
    Readings,       \* the values time() or a capture file's time stamp takes
    StartReadings,  \* the values of time() when main() leaves waiting()
    SteadyClock     \* TRUE: no reading is smaller than the one before it

ASSUME DispatcherAssumption ==
    /\ Casovac \in Nat \ {0}
    /\ LateStep \in 1 .. Casovac
    /\ Guard \in 0 .. Casovac
    /\ Builds \subseteq {"pcap", "sock", "offline"}
    /\ Readings \subseteq Nat
    /\ StartReadings \subseteq Readings
    /\ SteadyClock \in BOOLEAN

VARIABLES
    build,            \* how this program was built and started
    started,          \* when main() began to measure
    actual_time,      \* the clock as the last call read it
    beggining_time,   \* begin of the interval being measured
    processing_time,  \* stamp of the last interval handed to a writer
    flag,             \* 1: this interval has been flushed already
    interval,         \* number of flushes, counted by sum_table
    isfirsttime,      \* offline mode: the first frame has been seen
    z_protokoly,      \* capture time of the first frame booked, or NoFrame
    overdue           \* calls in a row that left a finished interval unflushed

vars == <<build, started, actual_time, beggining_time, processing_time, flag,
          interval, isfirsttime, z_protokoly, overdue>>

NoFrame == -1

-----------------------------------------------------------------------------
(* main(): only the pcap build, and only when it listens to an interface,    *)
(* reads the clock into beggining_time; in the other cases the variable      *)
(* keeps the zero of static storage.                                         *)

MainSetsBegin(b, t) == IF b = "pcap" THEN t ELSE 0

Init ==
    /\ build \in Builds
    /\ started \in StartReadings
    /\ actual_time = started
    /\ beggining_time = MainSetsBegin(build, started)
    /\ processing_time = 0
    /\ flag = 0
    /\ interval = 0
    /\ isfirsttime = FALSE
    /\ z_protokoly = NoFrame
    /\ overdue = 0

-----------------------------------------------------------------------------
(* The pieces of dispatcher_handler.  A definition marked "faulty" is not    *)
(* part of the specification: it is the definition after it with a mistake,  *)
(* kept to see that the properties notice the mistake.                       *)

CanRead(t) == SteadyClock => t >= actual_time

\* set_param: the first frame of a capture file begins the measurement, at its
\* time stamp rounded down to ten seconds.
Begin(t) == IF build = "offline" /\ ~isfirsttime THEN (t \div 10) * 10
                                                 ELSE beggining_time

\* m_protokoly: counted says whether an enabled protocol matched the frame.
Booked(t, counted) == IF counted /\ z_protokoly = NoFrame THEN t ELSE z_protokoly

Late(t) == t - Begin(t) >= 2 * Casovac

\* The condition under which the handler calls database().
\* faulty
DueOnlyWhenLate(t) == Late(t)
Due(t) == \/ flag = 0 /\ t - Begin(t) >= Casovac
          \/ Late(t)

\* set_time: a late flush does not use the clock for its stamp.
\* faulty
StampBack(t) == IF Late(t) THEN processing_time - LateStep ELSE t
\* faulty
StampAhead(t) == IF Late(t) THEN processing_time + 2 * LateStep ELSE t
Stamp(t) == IF Late(t) THEN processing_time + LateStep ELSE t

\* set_time and the last lines of database(): the interval that follows.
\* faulty
BeginNotSkipping(t) == Begin(t) + Casovac
\* faulty
BeginNotAdvanced(t) == IF Late(t) THEN t - Casovac ELSE Begin(t)
NextBegin(t) == (IF Late(t) THEN t - Casovac ELSE Begin(t)) + Casovac

\* The handler's last test: an interval older than Guard re-arms the flush.
\* faulty
FlagNeverReset(f, begin, t) == f
FlagAfter(f, begin, t) == IF f = 1 /\ t - begin >= Guard THEN 0 ELSE f

\* flush_data_into_db: the capture thread is left with an empty list.
\* faulty
NotTakenOff == z_protokoly
TakenOff == NoFrame

-----------------------------------------------------------------------------
(* A call of dispatcher_handler that does not flush.                         *)
Keep(t, counted) ==
    /\ CanRead(t)
    /\ ~Due(t)
    /\ actual_time' = t
    /\ beggining_time' = Begin(t)
    /\ isfirsttime' = (build = "offline" \/ isfirsttime)
    /\ z_protokoly' = Booked(t, counted)
    /\ flag' = FlagAfter(flag, Begin(t), t)
    /\ overdue' = IF t - Begin(t) < Casovac THEN 0
                  ELSE IF overdue = 0 THEN 1 ELSE 2
    /\ UNCHANGED <<build, started, processing_time, interval>>

(* A call that flushes: the frame is booked first, so it leaves with the     *)
(* interval it ends.                                                         *)
Flush(t) ==
    /\ CanRead(t)
    /\ Due(t)
    /\ actual_time' = t
    /\ beggining_time' = NextBegin(t)
    /\ processing_time' = Stamp(t)
    /\ z_protokoly' = TakenOff
    /\ isfirsttime' = (build = "offline" \/ isfirsttime)
    /\ interval' = interval + 1
    /\ flag' = FlagAfter(1, NextBegin(t), t)
    /\ overdue' = 0
    /\ UNCHANGED <<build, started>>

(* The init script or the configuration page restarts the daemon: every      *)
(* variable has its initial value again, and what was booked is lost.        *)
Restart(t) ==
    /\ build # "offline"
    /\ CanRead(t)
    /\ started' = t
    /\ actual_time' = t
    /\ beggining_time' = MainSetsBegin(build, t)
    /\ processing_time' = 0
    /\ flag' = 0
    /\ interval' = 0
    /\ isfirsttime' = FALSE
    /\ z_protokoly' = NoFrame
    /\ overdue' = 0
    /\ UNCHANGED build

Handler == \E t \in Readings : Flush(t) \/ \E counted \in BOOLEAN : Keep(t, counted)

Next == Handler \/ \E t \in StartReadings : Restart(t)

Spec == Init /\ [][Next]_vars

(* The capture loop never ends and calls the handler for every frame: frames *)
(* keep coming (katalyzer.c: "minimum ARP packets arrive very often").       *)
FairSpec == Spec /\ WF_vars(Handler)

-----------------------------------------------------------------------------
(* Types: the variables keep the ranges the C declarations and the handler   *)
(* give them; in particular no time ever becomes negative.                   *)
TypeOK ==
    /\ build \in Builds
    /\ started \in Readings
    /\ actual_time \in Readings
    /\ beggining_time \in Nat
    /\ processing_time \in Nat
    /\ flag \in {0, 1}
    /\ interval \in Nat
    /\ isfirsttime \in BOOLEAN
    /\ z_protokoly \in Readings \cup {NoFrame}
    /\ overdue \in 0 .. 2

(* The stamp of the last flush lies before the end of the interval being     *)
(* measured, whatever the clock did: this is what keeps stamps apart.        *)
StampBeforeIntervalEnd == processing_time < beggining_time + Casovac

(* Every flush gets a stamp greater than the previous one of this process:   *)
(* processing_time is the PRIMARY KEY of the <protocol>_1m_time tables, and  *)
(* a second row with the same key would be refused and its data orphaned.    *)
StampsIncrease ==
    [][interval' > interval => processing_time' > processing_time]_vars

(* No interval is stored under a time that has not come yet, even when the   *)
(* stamp is extrapolated from the previous one (a late flush).               *)
StampNotInFuture ==
    [][interval' > interval => processing_time' <= actual_time']_vars

(* However long the link was silent, one flush brings the flush clock back   *)
(* into step: the interval it opens contains the present.                    *)
FlushCatchesUp ==
    [][interval' > interval => actual_time' - beggining_time' \in 0 .. Casovac - 1]_vars

(* The flag may delay the flush of a finished interval by one frame, never   *)
(* by two: the call that declines to flush re-arms the flush.                *)
FlushDelayedOnce == overdue <= 1

(* With a clock that does not go back, every frame still booked was captured *)
(* inside the interval that is being measured.                               *)
BookedInInterval == z_protokoly # NoFrame => z_protokoly >= beggining_time

(* A frame booked in an interval that is over is eventually handed to a      *)
(* writer (or lost with the process), as long as frames keep coming.         *)
BookedIsFlushed ==
    (z_protokoly # NoFrame /\ actual_time - beggining_time >= Casovac)
        ~> (z_protokoly = NoFrame)

(* variables.c says of beggining_time "time of beginning of measuring the    *)
(* traffic": the measurement, and with it every stamp that is derived from   *)
(* it, begins when the program starts to measure.                            *)
MeasurementBeginsAtStart == interval > 0 => processing_time >= started

=============================================================================
