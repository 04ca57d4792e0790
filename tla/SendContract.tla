---------------------------- MODULE SendContract ----------------------------
(***************************************************************************)
(* What one provider.Send call may do, seen from ProcessAndSend: the       *)
(* provider takes the request at most MaxRequests times, nil is returned   *)
(* only if it did or answered with a redirection nobody follows, and an    *)
(* error says nothing: the provider may have taken a request, or may still *)
(* take one that is on its way.  These are the outcomes of action Send of  *)
(* NotificationPipeline.                                                   *)
(***************************************************************************)
EXTENDS Naturals

CONSTANT MaxRequests

VARIABLES
    accepted,  \* how often the provider took the request
    outcome    \* "asking" until Send returns: nil for a notification that is
               \* "sent" or for a request "redirected", or an error, "failed"

cvars == <<accepted, outcome>>

CInit == accepted = 0 /\ outcome = "asking"

Taken ==
    /\ accepted < MaxRequests
    /\ accepted' = accepted + 1
    /\ UNCHANGED outcome

Succeeded ==
    /\ outcome = "asking" /\ accepted > 0
    /\ outcome' = "sent"
    /\ UNCHANGED accepted

\* The provider may have taken the request before it answered so, or not.
Redirected ==
    /\ outcome = "asking"
    /\ outcome' = "redirected"
    /\ UNCHANGED accepted

Failed ==
    /\ outcome = "asking"
    /\ outcome' = "failed"
    /\ UNCHANGED accepted

CSpec == CInit /\ [][Taken \/ Succeeded \/ Redirected \/ Failed]_cvars

=============================================================================
