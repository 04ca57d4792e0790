-------------------------- MODULE MCNotificationHub --------------------------
(***************************************************************************)
(* Instances of NotificationHub for TLC: two notifications of one batch,   *)
(* or one of a batch and one of its own.                                   *)
(***************************************************************************)
EXTENDS NotificationHub

CONSTANTS n1, n2, b1

OneBatch == {[id |-> n1, batch |-> b1], [id |-> n2, batch |-> b1]}

BatchAndSingle == {[id |-> n1, batch |-> b1], [id |-> n2, batch |-> NoTopic]}

=============================================================================
