----------------------- MODULE MCNotificationService -----------------------
(* NotificationService on small instances, for TLC. *)
EXTENDS NotificationService

(* a user who registers, and an event that is announced on all channels *)
MCEvents == {[kind |-> k, user |-> "u1"] : k \in {"registered", "resolved"}}

(* ... the first of them delivered twice *)
MCDeliveries == [e \in MCEvents |-> IF e.kind = "registered" THEN 2 ELSE 1]

(* the log fails twice, so that both rows of a message may be missing *)
MCLogFailsTwice == [f \in Faults |-> IF f = "log" THEN 2 ELSE 1]

=============================================================================
