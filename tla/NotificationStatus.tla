------------------------- MODULE NotificationStatus -------------------------
(***************************************************************************)
(* The status machine of a notification (internal/notification/domain).    *)
(*                                                                         *)
(* The table is what the code declares.  Only MarkAsProcessing asks it     *)
(* before it writes; every other handler writes the status it wants, so    *)
(* the table is not an invariant of the rows: see NotificationPipeline.    *)
(***************************************************************************)

Status == {"pending", "scheduled", "queued", "processing", "sent", "failed",
           "retrying", "cancelled"}

Transition ==
    ({"pending", "scheduled"} \X {"queued", "cancelled"})
      \cup ({"queued"} \X {"processing", "cancelled"})
      \cup ({"processing"} \X {"sent", "failed"})
      \cup ({"failed"} \X {"retrying", "cancelled"})
      \cup ({"retrying"} \X {"processing"})

CanTransitionTo(s, target) == <<s, target>> \in Transition

=============================================================================
