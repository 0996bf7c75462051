---------------------------- MODULE MCStreamFeed ----------------------------
(* StreamFeed for TLC: which reports are written, and when they say they   *)
(* were made.                                                              *)
EXTENDS StreamFeed

\* A later report may have the same time stamp, or come late.
MCReports == [ts : {0, 1}, tag : {1, 2, 3}]
=============================================================================
