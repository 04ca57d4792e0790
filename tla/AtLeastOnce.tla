----------------------------- MODULE AtLeastOnce -----------------------------
(***************************************************************************)
(* What the hub promises of every notification it accepts: until it is     *)
(* sent or closed (withdrawn, given up, or a copy of it lost), the         *)
(* database or the broker answers for it.                                  *)
(***************************************************************************)

CONSTANT Notification

VARIABLES
    accepted,  \* the notifications that have been created
    custody,   \* who answers for each: the database, the broker, or both
    sent,      \* those the provider accepted
    closed     \* those nobody owes a delivery any more

avars == <<accepted, custody, sent, closed>>

Custodian == {"database", "broker"}

Settled == sent \cup closed

AInit ==
    /\ accepted = {}
    /\ custody = [n \in Notification |-> {}]
    /\ sent = {}
    /\ closed = {}

\* New notifications start in the database.
Accept(N) ==
    /\ N \cap accepted = {}
    /\ accepted' = accepted \cup N
    /\ custody' = [n \in Notification |->
                      IF n \in N THEN {"database"} ELSE custody[n]]
    /\ UNCHANGED <<sent, closed>>

\* The broker takes over from a custodian; the database never takes over from
\* the broker, and the last custodian stays until the notification is settled.
HandOver(n) ==
    /\ n \in accepted
    /\ custody[n] # {} \/ n \in Settled
    /\ \E C \in SUBSET (custody[n] \cup {"broker"}) :
          /\ C # {} \/ n \in Settled
          /\ custody' = [custody EXCEPT ![n] = C]
    /\ UNCHANGED <<accepted, sent, closed>>

\* Only what the broker holds is sent.  It may be sent again.
Deliver(n) ==
    /\ "broker" \in custody[n]
    /\ sent' = sent \cup {n}
    /\ custody' \in {custody, [custody EXCEPT ![n] = @ \ {"broker"}]}
    /\ UNCHANGED <<accepted, closed>>

Close(n) ==
    /\ n \in accepted
    /\ closed' = closed \cup {n}
    /\ \E C \in SUBSET custody[n] : custody' = [custody EXCEPT ![n] = C]
    /\ UNCHANGED <<accepted, sent>>

\* A crash gives settled notifications back to the broker.
Reclaim(N) ==
    /\ N \subseteq Settled
    /\ custody' = [n \in Notification |->
                      IF n \in N THEN custody[n] \cup {"broker"} ELSE custody[n]]
    /\ UNCHANGED <<accepted, sent, closed>>

ANext ==
    \/ \E N \in SUBSET Notification : Accept(N) \/ Reclaim(N)
    \/ \E n \in Notification : HandOver(n) \/ Deliver(n) \/ Close(n)

ASpec == AInit /\ [][ANext]_avars

=============================================================================
