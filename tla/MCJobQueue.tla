----------------------------- MODULE MCJobQueue -----------------------------
(* JobQueue on a small instance: the jobs of one source on successive days   *)
(* compete like those of several sources on one day.                         *)
EXTENDS JobQueue

CONSTANTS devto, cron, http

MCSources     == {devto}
MCDispatchers == {cron, http}
=============================================================================
