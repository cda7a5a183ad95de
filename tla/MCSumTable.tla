------------------------------- MODULE MCSumTable -------------------------------
(* Instance of SumTable for TLC: a little over one day of flushes, so that    *)
(* the slowest level (interval 1560) is due.                                  *)
EXTENDS SumTable

MCMaxInterval == 1563

=============================================================================
