-------------------------- MODULE MCEventPipeline ---------------------------
(* EventPipeline on small instances, for TLC. *)
EXTENDS EventPipeline

(* complaint-service dies once *)
MCWorkerCrashes == [f \in {"lost", "refused", "unmarked", "crash"} |-> IF f = "crash" THEN 1 ELSE 0]

(* an acknowledgement fails once *)
MCNotAcknowledged ==
  [f \in {"unread", "unchecked", "unhandled", "unrecorded", "unacked", "crash", "expired"} |->
     IF f = "unacked" THEN 1 ELSE 0]

=============================================================================
