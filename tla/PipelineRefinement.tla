------------------------- MODULE PipelineRefinement -------------------------
(***************************************************************************)
(* The pipeline implements AtLeastOnce: a pending or scheduled row is in   *)
(* the custody of the database (the ticker will find it), a notification   *)
(* with a copy that is still to be handled in that of the broker.          *)
(***************************************************************************)
EXTENDS NotificationPipeline

Custody(n) == {w \in {"database", "broker"} :
                  (w = "database" /\ Recoverable(n)) \/ (w = "broker" /\ Carried(n))}

Promise == INSTANCE AtLeastOnce WITH
    accepted <- {n \in Notification : Accepted(n)},
    custody  <- [n \in Notification |-> Custody(n)],
    sent     <- {n \in Notification : delivered[n] > 0},
    closed   <- {n \in Notification :
                    events[n] \cap {"cancelled", "failed", "lost"} # {}}

\* Whatever creator, ticker, consumers, cancellers and outages do, every step is
\* a step of AtLeastOnce: custody passes from the database to the broker and is
\* given up only for notifications that are settled, and only the broker's
\* copies are sent (processing_service.go, consumer.go).
ImplementsAtLeastOnce == Promise!ASpec

=============================================================================
