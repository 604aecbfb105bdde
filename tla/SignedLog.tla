----------------------------- MODULE SignedLog -----------------------------
(***************************************************************************)
(* What a hash-chained log promises: events are signed one after the       *)
(* other, each over the one signed before it, and what is written is       *)
(* written in that order.  An event that was signed may be missing from    *)
(* the log (its writer was cut off), but no event is signed twice, and no  *)
(* two events are ever signed over the same predecessor.                   *)
(***************************************************************************)
EXTENDS Sequences

CONSTANTS Event, Genesis

VARIABLES tip,    \* the last event signed
          signed, \* every event signed
          log     \* the log: events with their predecessors

vars == <<tip, signed, log>>

Init == tip = Genesis /\ signed = {} /\ log = <<>>

Sign(e) == /\ e \notin signed
           /\ signed' = signed \cup {e}
           /\ tip' = e
           /\ \/ log' = Append(log, [event |-> e, prev |-> tip])
              \/ log' = log

Next == \E e \in Event : Sign(e)

Spec == Init /\ [][Next]_vars

=============================================================================
