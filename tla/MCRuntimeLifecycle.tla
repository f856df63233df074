------------------------ MODULE MCRuntimeLifecycle ------------------------
(* Two slots on two pages; a runtime that owns one of them and one that   *)
(* owns both.                                                              *)
EXTENDS RuntimeLifecycle, TLC

CONSTANTS s1, s2, p1, p2, small, large, plain, framed, blank

MCPageOf == (s1 :> p1) @@ (s2 :> p2)

\* The user's script plain lacks the callback prefix; runtimes have it.
MCFramed == [x \in Content |-> CASE x = Empty -> blank
                                 [] x = plain -> framed
                                 [] OTHER     -> x]

\* small owns s1, large owns s1 and s2; what they put there differs.
MCRuntime == {s1 :> small, (s1 :> large) @@ (s2 :> large)}
=============================================================================
