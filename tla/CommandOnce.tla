---------------------------- MODULE CommandOnce ----------------------------
(***************************************************************************)
(* What vsn1-cli promises about one command that needs a serial port, with *)
(* no daemon, socket or fallback in it: the command is carried out at most *)
(* once, a success is reported only for one that was carried out, and      *)
(* nothing happens any more after an error has been reported.              *)
(* DaemonRouting implements this specification.                            *)
(***************************************************************************)
CONSTANTS
  Client,      \* invocations of vsn1-cli, one command each
  None

VARIABLES
  carriedOut,  \* the commands that reached the device
  result       \* result[c]: "ok" or "error" reported to the user, or None

commandVars == <<carriedOut, result>>

CommandInit ==
  /\ carriedOut = {}
  /\ result = [c \in Client |-> None]

\* An invocation that was interrupted reports nothing; its command may still
\* be carried out, like that of any other whose user waits for an answer.
CarryOut(c) ==
  /\ c \notin carriedOut
  /\ result[c] = None
  /\ carriedOut' = carriedOut \cup {c}
  /\ UNCHANGED result

Report(c, verdict) ==
  /\ result[c] = None
  /\ verdict = "ok" => c \in carriedOut
  /\ result' = [result EXCEPT ![c] = verdict]
  /\ UNCHANGED carriedOut

\* A cold run carries the command out and reports it in one go.
CarryOutAndReport(c, verdict) ==
  /\ c \notin carriedOut
  /\ result[c] = None
  /\ carriedOut' = carriedOut \cup {c}
  /\ result' = [result EXCEPT ![c] = verdict]

CommandNext ==
  \E c \in Client :
    \/ CarryOut(c)
    \/ \E verdict \in {"ok", "error"} :
         Report(c, verdict) \/ CarryOutAndReport(c, verdict)

CommandSpec == CommandInit /\ [][CommandNext]_commandVars
=============================================================================
