------------------------------- MODULE MCPipeline -------------------------------
(* Instances of Pipeline for TLC.                                             *)
EXTENDS Pipeline

\* processingl reads MAC, IP, MAC_SD, IP_SD and fills IP, IP_SD, MAC, MAC_SD.  The
\* tables are independent, so fewer will do: three for the races of writers,
MCReadOrder == <<"MAC", "IP", "MAC_SD">>
MCInsertOrder == <<"IP", "MAC", "MAC_SD">>

\* and two, one of which is read first and filled last, for the other runs.
MCTwoRead == <<"MAC", "IP">>
MCTwoInsert == <<"IP", "MAC">>

=============================================================================
