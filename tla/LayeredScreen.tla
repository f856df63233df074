---------------------------- MODULE LayeredScreen ----------------------------
(* What a runtime's display promises: among the temporary layers that are    *)
(* active the one of highest priority is visible, otherwise the persistent   *)
(* layer that was activated last, and the display catches up with it.        *)
EXTENDS Naturals

CONSTANTS
  Layer,      \* the layers of the manifest
  Temporary,  \* those that expire
  Priority,   \* their priorities
  Lifetime,   \* how long each stays once activated, in ticks
  Place,      \* the layers' fields, as the display knows them
  Value,      \* what a field can hold
  Nil,        \* what it holds if it holds nothing
  Uses,       \* Uses[l]: the fields that the picture of layer l shows
  First,      \* the persistent layer that is active at first
  Initial,    \* what the fields hold at first
  Nothing     \* on a display that has drawn no picture

VARIABLES content, base, left, shown
vars == <<content, base, left, shown>>

Visible ==
  LET active == {l \in Temporary : left[l] > 0} IN
  IF active = {}
    THEN base
    ELSE CHOOSE l \in active : \A k \in active : Priority[k] <= Priority[l]

Picture ==
  [layer |-> Visible, fields |-> [p \in Uses[Visible] |-> content[p]]]

Drawable == \A p \in Uses[Visible] : content[p] # Nil

Init ==
  /\ content = Initial
  /\ base = First
  /\ left = [l \in Layer |-> 0]
  /\ shown = Nothing

\* A script sets fields and activates layers, all at once.
Change ==
  /\ content' \in [Place -> Value \cup {Nil}]
  /\ base' \in Layer \ Temporary
  /\ left' \in [Layer -> Nat]
  /\ \A l \in Layer :
       left'[l] # left[l] => l \in Temporary /\ left'[l] = Lifetime[l]
  /\ UNCHANGED shown

\* The device starts the runtime anew, and keeps showing what it showed.
Restart ==
  /\ content' = Initial
  /\ base' = First
  /\ left' = [l \in Layer |-> 0]
  /\ UNCHANGED shown

Tick ==
  /\ left' = [l \in Layer |-> IF left[l] > 0 THEN left[l] - 1 ELSE 0]
  /\ UNCHANGED <<content, base, shown>>

\* A picture that cannot be drawn leaves the last one standing.
Show ==
  /\ Drawable
  /\ shown' = Picture
  /\ UNCHANGED <<content, base, left>>

Next == Change \/ Restart \/ Tick \/ Show

Spec == Init /\ [][Next]_vars /\ WF_vars(Show)
=============================================================================
