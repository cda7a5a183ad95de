------------------------------ MODULE MCCronovanie ------------------------------
(* Instances of Cronovanie for TLC.                                          *)
EXTENDS Cronovanie

MCProtocols == <<"ETH", "IP">>

\* The first level, with windows of two intervals instead of five, so that three
\* windows are over after seven flushes.  One protocol may miss an interval.
First == [step |-> 60, group |-> 2, konst |-> 110, margin |-> 110, raced |-> TRUE,
          kinds |-> {{"ETH"}, {"ETH", "IP"}}, junk |-> {0, 100000},
          flushes |-> 7, restarts |-> 0]

\* The same for one protocol and a process that is restarted.
FirstLives == [First EXCEPT !.kinds = {{"ETH"}}, !.flushes = 9, !.restarts = 2]

\* The third level as it is: two hours of half hours.
Third == [step |-> 1800, group |-> 4, konst |-> 7190, margin |-> 290, raced |-> FALSE,
          kinds |-> {{"ETH", "IP"}}, junk |-> {0}, flushes |-> 12, restarts |-> 1]

\* The same, with a protocol that is silent now and then.
ThirdWithSilence == [Third EXCEPT !.kinds = {{"ETH"}, {"ETH", "IP"}}, !.restarts = 0]

MCLevels == {First, FirstLives, Third, ThirdWithSilence}
MCSilence == {ThirdWithSilence}
\* The first level as it is, until the first thread.
MCFirst == {[First EXCEPT !.group = 5, !.konst = 290, !.margin = 290, !.junk = {0}]}

=============================================================================
