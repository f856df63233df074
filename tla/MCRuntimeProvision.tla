------------------------- MODULE MCRuntimeProvision -------------------------
EXTENDS RuntimeProvision

At0 == [page |-> 0, element |-> 13, event |-> 0]
At1 == [page |-> 0, element |-> 13, event |-> 6]

MCHere == [dx |-> 1, dy |-> 0]
MCLocations == {At0, At1}

\* Broadcast, the module, a place with no module, one coordinate only.
MCTargetArgs ==
  {<<>>, [dx |-> 1, dy |-> 0], [dx |-> 2, dy |-> 0], [dx |-> 1]}

Script(name, ascii) ==
  [EmptyText EXCEPT !.name = name, !.ascii = ascii]

\* As the editor stores it; too long for the prefix; not ASCII.
Own == [Script("own", 2) EXCEPT !.wrapped = TRUE, !.prefixed = TRUE]
Long == Script("long", MaxLua - 1)
Accent == [Script("accent", 1) EXCEPT !.other = 1]
MCUserTexts == {Own, Long, Accent}

Draw == Script("draw", 2)
Setup == [Script("init", 1) EXCEPT !.crlf = TRUE, !.wrapped = TRUE]

BaseLayer ==
  [name |-> "base", priority |-> 0, activation |-> "persistent", timeout |-> FALSE]
FastLayer ==
  [name |-> "fast", priority |-> 1, activation |-> "temporary", timeout |-> TRUE]
Title == [name |-> <<"base", "title">>, layer |-> "base", kind |-> "text",
          key |-> "t", clear |-> [type |-> "string", literal |-> "-"]]
Level == [name |-> <<"base", "level">>, layer |-> "base", kind |-> "int",
          key |-> "v", clear |-> [type |-> "integer", literal |-> "0"]]
Action == [name |-> <<"fast", "action">>, layer |-> "fast", kind |-> "text",
           key |-> "t", clear |-> [type |-> "string", literal |-> "-"]]

InitFile == <<"init.lua">>
DrawFile == <<"draw.lua">>
InitSlot == [name |-> "init", location |-> At0, asset |-> InitFile, order |-> 10]
DrawSlot == [name |-> "draw", location |-> At1, asset |-> DrawFile, order |-> 20]

\* A runtime of the shipped shape, its slots listed in the other order.
Good ==
  [toml |-> "ok",
   manifest |-> [layers |-> <<BaseLayer, FastLayer>>,
                 slots  |-> <<DrawSlot, InitSlot>>,
                 fields |-> <<Title, Level, Action>>],
   files |-> (InitFile :> Setup @@ DrawFile :> Draw)]

With(field, value) == [Good EXCEPT !.manifest[field] = value]
Single(path, t) ==
  [Good EXCEPT !.manifest.slots = <<[DrawSlot EXCEPT !.asset = path]>>,
               !.files = path :> t]

\* Directories that are not as good, each for another reason.
Odd ==
  {[Good EXCEPT !.toml = "absent"], [Good EXCEPT !.toml = "garbled"],
   With("slots", <<InitSlot, [DrawSlot EXCEPT !.location = At0]>>),
   With("slots", <<InitSlot, [DrawSlot EXCEPT !.asset = InitFile]>>),
   With("slots", <<InitSlot, [DrawSlot EXCEPT !.location.page = 1]>>),
   With("layers", <<[BaseLayer EXCEPT !.timeout = TRUE], FastLayer>>),
   With("fields", <<Title, [Level EXCEPT !.clear.type = "string"]>>),
   With("fields", <<Title, [Level EXCEPT !.key = "t"]>>),
   With("fields", <<Title, [Level EXCEPT !.layer = "slow"]>>),
   [With("fields", <<Title, [Level EXCEPT !.key = "t^"]>>) EXCEPT
      !.manifest.layers[2].name = "fast^"],
   Single(<<"lua", "draw.lua">>, Draw), Single(<<"..", "draw.lua">>, Draw),
   Single(DrawFile, Accent), Single(DrawFile, Long)}

\* One name is everywhere but in the system's directories, the other only there.
MCTrees ==
  {[system |-> "plain" :> Single(DrawFile, Script("plain", 1)),
    user   |-> "media" :> Single(DrawFile, Draw),
    dev    |-> "media" :> dir] : dir \in Odd \cup {Good}}

\* Commands that change nothing lead nowhere new.
Changed == last.command \in {"none", "edit", "install", "upgrade", "repair",
                            "restore", "clear"}

Assignment(name, literal) == [equals |-> TRUE, name |-> name, literal |-> literal]
\* A ^ stands for a character that is not ASCII: what is left is another text,
\* the key of another field, the name of another layer.
MCAsciiOf == ("hi^" :> "hi") @@ ("^" :> "") @@ ("t^" :> "t") @@ ("fast^" :> "fast")

MCInputs ==
  LET title == Assignment(Title.name, "hi")
      level == Assignment(Level.name, "7")
  IN {<<title>>, <<title, level>>, <<level, title>>,
      <<Assignment(Title.name, "hi^")>>, <<Assignment(Title.name, "^"), level>>,
      <<title, Assignment(Title.name, "7")>>, <<Assignment(Level.name, "hi")>>,
      <<Assignment(<<"base", "none">>, "hi")>>, <<[title EXCEPT !.equals = FALSE]>>}

Holding(first, second) == (At0 :> first @@ At1 :> second)
MCHoldings ==
  {Holding(None, None), Holding(Own, None), Holding(Own, Long),
   Holding(Accent, Own)}
=============================================================================
