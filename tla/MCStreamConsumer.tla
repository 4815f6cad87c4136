-------------------------- MODULE MCStreamConsumer --------------------------
(* StreamConsumer on small instances, for TLC. *)
EXTENDS StreamConsumer

(* every kind of fault once *)
MCOneOfEach == [f \in Faults |-> 1]

(* a handler that throws once *)
MCHandlerFails == [f \in Faults |-> IF f = "unhandled" THEN 1 ELSE 0]

=============================================================================
