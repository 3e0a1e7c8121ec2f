----------------------------- MODULE MCIngestion -----------------------------
(* Ingestion on a small instance. *)
EXTENDS Ingestion

CONSTANTS devto, a1, a2, cron

MCSources     == {devto}
MCIds         == {a1, a2}
MCDispatchers == {cron}
=============================================================================
