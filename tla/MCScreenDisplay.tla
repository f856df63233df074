-------------------------- MODULE MCScreenDisplay --------------------------
(* Two persistent and two temporary layers with three fields, one numeric.  *)
(* The picture of fast is an overlay: it shows the base's number as well.   *)
EXTENDS ScreenDisplay

MCLayer == {"base", "alt", "slow", "fast"}
MCTemporary == {"slow", "fast"}
MCPriority == [base |-> 0, alt |-> 1, slow |-> 10, fast |-> 20]
MCField == {"base.title", "base.duration", "fast.action"}
MCFieldSpec ==
  [f \in MCField |->
     CASE f = "base.title" ->
            [layer |-> "base", key |-> "t", kind |-> "text", clear_value |-> ""]
       [] f = "base.duration" ->
            [layer |-> "base", key |-> "d", kind |-> "float", clear_value |-> "0"]
       [] f = "fast.action" ->
            [layer |-> "fast", key |-> "a", kind |-> "text", clear_value |-> ""]]
MCTimeout == [base |-> 0, alt |-> 0, slow |-> 2, fast |-> 1]
MCOrder == <<"slow", "fast">>
MCInitial ==
  [p \in MCLayer \X {"t", "d", "a"} |->
     CASE p = <<"base", "t">> -> ""
       [] p = <<"base", "d">> -> "0"
       [] p = <<"fast", "a">> -> ""
       [] OTHER -> Nil]
MCUses ==
  [base |-> {<<"base", "t">>, <<"base", "d">>},
   alt  |-> {},
   slow |-> {},
   fast |-> {<<"base", "d">>, <<"fast", "a">>}]
MCRaw ==
  {<<[call |-> "activate_layer", layer |-> "unknown"]>>,
   <<[call |-> "set_field", layer |-> "unknown", key |-> "t", value |-> "abc"],
     [call |-> "activate_layer", layer |-> "fast"],
     [call |-> "activate_layer", layer |-> "slow"]>>}
=============================================================================
