----------------------- MODULE MCNotificationPipeline -----------------------
(***************************************************************************)
(* Instances of NotificationPipeline for TLC.                              *)
(***************************************************************************)
EXTENDS PipelineRefinement, TLC

CONSTANTS n1, n2, c1, c2, c3, c4

\* One notification, or two in one batch.
Single == {{n1}}
Batch == {{n1, n2}}

Everything == FaultKind
AnyOutage == OutageKind
CrashOnly == {"crash"}
StopOnly == {"stop"}
NoFault == {}
PublishFaults == {"publish"}
ProviderFaults == {"rejected", "timeout"}
NoOutage == {}
\* The failures a notification survives without being sent twice.
HarmlessFaults == {"publish", "unconfirmed", "rejected"}

CopySymmetry == Permutations(Copy)

=============================================================================
