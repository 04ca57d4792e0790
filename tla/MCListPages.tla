---------------------------- MODULE MCListPages ----------------------------
(***************************************************************************)
(* An instance of ListPages for TLC: two seedings of a template and two    *)
(* notifications (a failed one that refers to the template, a pending one  *)
(* of the batch), and one other notification.                              *)
(***************************************************************************)
EXTENDS ListPages, TLC

CONSTANTS o1

SomeIds == {o1} \cup ({1, 2} \X {3, 13})
SomeTemplates == {1, 2} \X {"sms"}

\* Below, within and above what is allowed.
SomeLimits == {0, 3}
SomeOffsets == {-1, 1}
SomeFilters == {{"pending"}}

\* Those that set more than the status, one that does not, and Cancel.
SomeMethods == {"Cancel", "MarkAsSent", "MarkAsFailed", "MarkAsRetrying"}

AnyWriter == Permutations(Writer)

=============================================================================
