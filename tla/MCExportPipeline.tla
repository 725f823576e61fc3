--------------------------- MODULE MCExportPipeline ---------------------------
(* ExportPipeline on small instances. *)
EXTENDS ExportPipeline

\* What happens together: faults of the way and of the disk; changes of
\* attachment and of interface with stops, or with lost answers.
MCMixes == {{"refused", "lost", "crash", "diskfull", "enroll"},
            {"enroll", "forget", "interface", "unplugged", "crash"},
            {"lost", "interface", "enroll"}}
=============================================================================
