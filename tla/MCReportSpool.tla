----------------------------- MODULE MCReportSpool -----------------------------
(* Instances of ReportSpool for TLC. *)
EXTENDS ReportSpool

CONSTANTS la, lb

Report(onePost, does) == [onePost |-> onePost, daemon |-> does]

\* A report with memory beside one the daemon never answers for good, and one the
\* daemon cannot read beside one with memory.
Mixed == {[l \in Leases |-> IF l = la THEN Report(TRUE, "reads") ELSE Report(FALSE, "stuck")],
          [l \in Leases |-> IF l = la THEN Report(TRUE, "reads") ELSE Report(FALSE, "refuses")]}

\* One report with memory that no replica reads.
Unreadable == {[l \in Leases |-> Report(TRUE, "refuses")]}
=============================================================================
