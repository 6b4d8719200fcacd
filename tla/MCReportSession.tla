-------------------------- MODULE MCReportSession --------------------------
\* ReportSession with symmetric requests and ids.
EXTENDS ReportSession, TLC

Symmetry == Permutations(Requests) \cup Permutations(Ids)
=============================================================================
