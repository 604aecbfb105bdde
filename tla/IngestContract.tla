--------------------------- MODULE IngestContract ---------------------------
(***************************************************************************)
(* What a process that moves events from a queue to storage promises about *)
(* the events it has taken: an event leaves its memory only for the        *)
(* record, or together with everything else in memory when the process     *)
(* dies.  A line that is not a valid event may also be discarded.  What is *)
(* on record stays there.                                                  *)
(***************************************************************************)
CONSTANTS Payload, \* everything that may be taken
          Invalid  \* the lines that are not valid events

VARIABLES held,    \* taken, and in the memory of the process
          settled  \* on record

vars == <<held, settled>>

Init == held = {} /\ settled = {}

Take(p) == /\ held' = held \cup {p}
           /\ UNCHANGED settled

\* Some of what is held reaches the record; what is on record may be let go.
Settle == /\ settled \subseteq settled'
          /\ settled' \subseteq settled \cup held
          /\ held' \subseteq held
          /\ held \subseteq held' \cup settled'

Discard(p) == /\ p \in Invalid
              /\ held' = held \ {p}
              /\ UNCHANGED settled

Die == held' = {} /\ UNCHANGED settled

Next == \/ \E p \in Payload : Take(p) \/ Discard(p)
        \/ Settle
        \/ Die

Spec == Init /\ [][Next]_vars

=============================================================================
