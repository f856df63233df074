------------------------------ MODULE MCSlotIO ------------------------------
(* Two slots, each with an old script and the one the bundle has for it. *)
EXTENDS SlotIO, TLC

CONSTANTS s1, s2, old, new

MCSlots == <<s1, s2>>
MCGoal == [s \in {s1, s2} |-> new]

\* Modules are interchangeable: no formula names one of them.
Symmetry == Permutations(Module)

\* Once an answer is late, no property says anything about the install.
InTime == ~late
=============================================================================
