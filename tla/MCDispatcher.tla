------------------------------ MODULE MCDispatcher ------------------------------
(* Instances of Dispatcher for TLC: the real 60 s and 10 s of the program and *)
(* clock readings on both sides of every threshold the handler compares with. *)
EXTENDS Dispatcher

\* One minute (0), the re-arming limit (10), the end of an interval (60) and the
\* late limit (120), each with the second before it, over five minutes.
MCReadings == {600, 609, 610, 659, 660, 669, 670, 719, 720, 779, 780, 790, 840, 910}

\* Leaving waiting() on a full minute, and (option -w) at any second.
MCStartReadings == {600, 609, 720}

\* The sock build needs only its first minutes.
MCFewReadings == {600, 660, 720, 780}

=============================================================================
