--------------------------- MODULE MCQueueListener ---------------------------
(* QueueListener with one source and a message that holds one entry.         *)
EXTENDS QueueListener

CONSTANT devto

MCSources == {devto}
=============================================================================
