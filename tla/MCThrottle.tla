------------------------------ MODULE MCThrottle ------------------------------
(* Throttle with a limit of three: an instance in which a window ends in the     *)
(* middle of a second and a client can ask at every millisecond.               *)
EXTENDS Throttle
=============================================================================
