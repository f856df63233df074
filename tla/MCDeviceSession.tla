-------------------------- MODULE MCDeviceSession --------------------------
(* Model values, symmetry and initial calls for checking DeviceSession. *)
EXTENDS DeviceSession, TLC

\* Requests, and workers, are interchangeable: no formula names one of them.
Symmetry == Permutations(Request) \cup Permutations(Worker)

\* One request of each kind that writes.
LiveInit ==
  /\ Init
  /\ \E r \in Request : call[r] = "write_immediate"
  /\ \E r \in Request : call[r] = "with_transport"

LiveSpec == LiveInit /\ [][Next]_vars /\ Fairness
=============================================================================
