--------------------------- MODULE FlightHistory ---------------------------
(***************************************************************************)
(* What the strict logbook promises a reader of the logbook: while strict  *)
(* mode is on, a change or a deletion of a flight keeps the state that it  *)
(* replaces, in order and for good.  Nothing is ever taken out of the      *)
(* history, and nothing is added to it but what was shown before.          *)
(***************************************************************************)
EXTENDS Sequences

CONSTANTS Flights, States, NoFlight

VARIABLES shown,    \* what the logbook shows of a flight, or NoFlight
          past,     \* the replaced states of each flight, oldest first
          strict    \* strict logbook mode

historyVars == <<shown, past, strict>>

HistoryInit == /\ shown \in [Flights -> States \cup {NoFlight}]
               /\ past = [f \in Flights |-> <<>>]
               /\ strict \in BOOLEAN

\* A new flight; an id that has a history is not given out again.
Enter(f) == /\ shown[f] = NoFlight /\ past[f] = <<>>
            /\ shown'[f] \in States
            /\ shown' = [shown EXCEPT ![f] = shown'[f]]
            /\ UNCHANGED <<past, strict>>

\* One transaction changes or deletes flights.
Replace ==
  LET F == {f \in Flights : shown'[f] # shown[f]} IN
    /\ F # {}
    /\ \A f \in F : shown[f] # NoFlight /\ shown'[f] \in States \cup {NoFlight}
    /\ shown' = [f \in Flights |-> shown'[f]]
    /\ past' = [f \in Flights |-> IF strict /\ f \in F THEN Append(past[f], shown[f]) ELSE past[f]]
    /\ strict' = strict

Switch == strict' = ~strict /\ UNCHANGED <<shown, past>>

HistoryNext == (\E f \in Flights : Enter(f)) \/ Replace \/ Switch

HistorySpec == HistoryInit /\ [][HistoryNext]_historyVars
=============================================================================
