------------------------ MODULE ScreenDisplayProofs ------------------------
(***************************************************************************)
(* That the screen commands, lcd-init and lcd-draw implement LayeredScreen *)
(* for any manifest, scripts and values, as far as safety goes.  A script  *)
(* of any length is one step of LayeredScreen, which is shown by induction *)
(* on the calls that have run; the search from the end of z.o for a layer  *)
(* with time left finds the one of highest priority.                       *)
(***************************************************************************)
EXTENDS ScreenDisplay, FiniteSetTheorems, FunctionTheorems,
        WellFoundedInduction, TLAPS

-----------------------------------------------------------------------------
(* Induction, for a set in place of a predicate                            *)

LEMMA Induct ==
  ASSUME NEW S, 0 \in S, \A n \in Nat : n \in S => n + 1 \in S
  PROVE  Nat \subseteq S
<1> DEFINE T == Nat \ S
<1> SUFFICES ASSUME T # {} PROVE FALSE
  OBVIOUS
<1>1. PICK x \in T : \A y \in T : ~ (<<y, x>> \in OpToRel(<, Nat))
  BY NatLessThanWellFounded, WFMin
<1>2. x # 0 /\ x \in Nat
  OBVIOUS
<1>3. x - 1 \in Nat /\ <<x - 1, x>> \in OpToRel(<, Nat)
  BY <1>2 DEF OpToRel
<1>4. x - 1 \in S
  BY <1>1, <1>3
<1>5. x - 1 + 1 = x
  BY <1>2
<1>6. QED
  BY <1>3, <1>4, <1>5

\* A nonempty set of positions has a last one.
LEMMA MaxExists ==
  ASSUME NEW n \in Nat, NEW S \in SUBSET (1 .. n), S # {}
  PROVE  Max(S) \in S /\ \A y \in S : Max(S) >= y
<1> DEFINE Good == {k \in Nat : \A T \in SUBSET (1 .. k) :
                       T # {} => \E x \in T : \A y \in T : x >= y}
<1>1. 0 \in Good
  <2>1. ASSUME NEW T \in SUBSET (1 .. 0), NEW x \in T PROVE FALSE
    <3>1. x \in 1 .. 0
      OBVIOUS
    <3> QED BY <3>1
  <2> QED BY <2>1
<1>2. ASSUME NEW k \in Nat, k \in Good PROVE k + 1 \in Good
  <2> SUFFICES ASSUME NEW T \in SUBSET (1 .. k + 1), T # {}
               PROVE  \E x \in T : \A y \in T : x >= y
    OBVIOUS
  <2>1. CASE k + 1 \in T
    BY <2>1
  <2>2. CASE k + 1 \notin T
    <3>1. T \in SUBSET (1 .. k)
      BY <2>2
    <3> QED BY <1>2, <3>1
  <2> QED BY <2>1, <2>2
<1>3. Nat \subseteq Good
  <2> HIDE DEF Good
  <2> QED BY <1>1, <1>2, Induct
<1>4. \E x \in S : \A y \in S : x >= y
  BY <1>3
<1> QED BY <1>4 DEF Max

-----------------------------------------------------------------------------
(* What runs on the device                                                 *)

State ==
  [fields : [Place -> Value \cup {Nil}],
   base   : Layer \ Temporary,
   left   : [Layer -> Nat],
   redraw : BOOLEAN,
   drawn  : Layer \cup {None}]

\* The states that a script can lead to from s: layers that expire may have
\* their full time, nothing else has another time than before.
Later(s) ==
  {t \in State : \A l \in Layer :
     t.left[l] # s.left[l] => l \in Temporary /\ t.left[l] = Timeout[l]}

LEMMA PerformLater ==
  ASSUME NEW s \in State, NEW t \in Later(s), NEW c \in Call
  PROVE  Perform(t, c) \in Later(s)
<1>1. t \in State
  BY DEF Later
<1>2. CASE c.call = "set_field"
  <2>1. CASE c.layer \notin Layer
    BY <1>2, <2>1 DEF Perform, SetField
  <2>2. CASE c.layer \in Layer
    <3>1. c.key \in Key /\ c.value \in Value \cup {Nil}
      BY <1>2 DEF Call
    <3>2. <<c.layer, c.key>> \in Place
      BY <2>2, <3>1 DEF Place
    <3> DEFINE u == [t EXCEPT !.fields[<<c.layer, c.key>>] = c.value, !.redraw = TRUE]
    <3>3. Perform(t, c) = u
      BY <1>2, <2>2 DEF Perform, SetField
    <3>4. u \in State /\ u.left = t.left
      BY <1>1, <3>1, <3>2 DEF State
    <3> QED BY <3>3, <3>4 DEF Later
  <2> QED BY <2>1, <2>2
<1>3. CASE c.call # "set_field"
  <2>1. Perform(t, c) = ActivateLayer(t, c)
    BY <1>3 DEF Perform
  <2>2. Timeout \in [Layer -> Nat] /\ \A l \in Layer : l \in Temporary <=> Timeout[l] > 0
    BY ScreenAssumption DEF LuaAgrees
  <2>3. CASE c.layer \notin Layer
    BY <2>1, <2>2, <2>3 DEF ActivateLayer
  <2>4. CASE c.layer \in Layer /\ Timeout[c.layer] > 0
    <3> DEFINE u == [t EXCEPT !.left[c.layer] = Timeout[c.layer], !.redraw = TRUE]
    <3>1. Perform(t, c) = u
      BY <2>1, <2>2, <2>4 DEF ActivateLayer
    <3>2. u \in State
      BY <1>1, <2>2, <2>4 DEF State
    <3>3. \A l \in Layer : u.left[l] = IF l = c.layer THEN Timeout[l] ELSE t.left[l]
      BY <1>1, <2>4 DEF State
    <3> HIDE DEF u
    <3>4. \A l \in Layer : u.left[l] # s.left[l] => l \in Temporary /\ u.left[l] = Timeout[l]
      BY <2>2, <2>4, <3>3 DEF Later
    <3> QED BY <3>1, <3>2, <3>4 DEF Later
  <2>5. CASE c.layer \in Layer /\ ~ Timeout[c.layer] > 0
    <3> DEFINE u == [t EXCEPT !.base = c.layer, !.redraw = TRUE]
    <3>1. Perform(t, c) = u
      BY <2>1, <2>2, <2>5 DEF ActivateLayer
    <3>2. u \in State /\ u.left = t.left
      BY <1>1, <2>2, <2>5 DEF State
    <3> QED BY <3>1, <3>2 DEF Later
  <2> QED BY <2>3, <2>4, <2>5
<1> QED BY <1>2, <1>3

\* A script of any length, by induction on the calls that have run.
LEMMA EffectLater ==
  ASSUME NEW s \in State, NEW script \in Seq(Call)
  PROVE  Effect(s, script) \in Later(s)
<1> DEFINE N == Len(script)
           Runs(f) == f = [n \in 0 .. N |->
                             IF n = 0 THEN s ELSE Perform(f[n - 1], script[n])]
           after == CHOOSE f : Runs(f)
           Upto(k) == {f \in [0 .. k -> Later(s)] :
                         /\ f[0] = s
                         /\ \A n \in 1 .. k : f[n] = Perform(f[n - 1], script[n])}
           Good == {k \in Nat : k <= N => Upto(k) # {}}
<1>1. N \in Nat /\ \A n \in 1 .. N : script[n] \in Call
  OBVIOUS
<1>2. s \in Later(s)
  BY DEF Later
<1>3. Nat \subseteq Good
  <2>1. 0 \in Good
    <3>1. [n \in 0 .. 0 |-> s] \in Upto(0)
      BY <1>2
    <3> QED BY <3>1
  <2>2. ASSUME NEW k \in Nat, k \in Good PROVE k + 1 \in Good
    <3> SUFFICES ASSUME k + 1 <= N PROVE Upto(k + 1) # {}
      OBVIOUS
    <3>1. k <= N
      BY <1>1
    <3>2. PICK f : f \in Upto(k)
      BY <2>2, <3>1
    <3> DEFINE g == [n \in 0 .. k + 1 |->
                       IF n = k + 1 THEN Perform(f[k], script[k + 1]) ELSE f[n]]
    <3>3. f[k] \in Later(s) /\ script[k + 1] \in Call
      BY <1>1, <3>1, <3>2
    <3>4. Perform(f[k], script[k + 1]) \in Later(s)
      BY <3>3, PerformLater
    <3>5. g \in [0 .. k + 1 -> Later(s)]
      <4>1. \A n \in 0 .. k + 1 : n # k + 1 => n \in 0 .. k
        OBVIOUS
      <4> QED BY <3>2, <3>4, <4>1
    <3>6. g[0] = s
      BY <3>2
    <3>7. ASSUME NEW n \in 1 .. k + 1 PROVE g[n] = Perform(g[n - 1], script[n])
      <4>1. CASE n = k + 1
        BY <4>1
      <4>2. CASE n # k + 1
        <5>1. n \in 1 .. k /\ n - 1 \in 0 .. k + 1 /\ n - 1 # k + 1 /\ n \in 0 .. k + 1
          BY <4>2
        <5>2. g[n] = f[n] /\ g[n - 1] = f[n - 1]
          BY <4>2, <5>1
        <5> QED BY <3>2, <5>1, <5>2
      <4> QED BY <4>1, <4>2
    <3>8. g \in Upto(k + 1)
      BY <3>5, <3>6, <3>7
    <3> QED BY <3>8
  <2> HIDE DEF Good
  <2> QED BY <2>1, <2>2, Induct
<1>4. Upto(N) # {}
  BY <1>1, <1>3
<1>5. \E f : Runs(f)
  <2>1. PICK f : f \in Upto(N)
    BY <1>4
  <2>2. \A n \in 0 .. N : f[n] = IF n = 0 THEN s ELSE Perform(f[n - 1], script[n])
    BY <1>1, <2>1
  <2>3. Runs(f)
    BY <2>1, <2>2
  <2> QED BY <2>3
<1>6. Runs(after)
  BY <1>5
<1>7. after = [n \in 0 .. N |-> IF n = 0 THEN s ELSE Perform(after[n - 1], script[n])]
  BY <1>6
<1>8. \A n \in 0 .. N : after[n] = IF n = 0 THEN s ELSE Perform(after[n - 1], script[n])
  <2> HIDE DEF after
  <2> QED BY <1>7
<1>9. \A k \in 0 .. N : after[k] \in Later(s)
  <2> DEFINE Right == {k \in Nat : k <= N => after[k] \in Later(s)}
  <2>1. after[0] = s /\ \A n \in 1 .. N : after[n] = Perform(after[n - 1], script[n])
    <3> HIDE DEF after
    <3> QED BY <1>1, <1>8
  <2> HIDE DEF after
  <2>2. 0 \in Right
    BY <1>2, <2>1
  <2>3. ASSUME NEW k \in Nat, k \in Right PROVE k + 1 \in Right
    <3> SUFFICES ASSUME k + 1 <= N PROVE after[k + 1] \in Later(s)
      OBVIOUS
    <3>1. after[k] \in Later(s) /\ script[k + 1] \in Call
      BY <1>1, <2>3
    <3>2. after[k + 1] = Perform(after[k], script[k + 1])
      BY <1>1, <2>1
    <3> QED BY <3>1, <3>2, PerformLater
  <2>4. Nat \subseteq Right
    <3> HIDE DEF Right
    <3> QED BY <2>2, <2>3, Induct
  <2> QED BY <1>1, <2>4
<1>10. Effect(s, script) = after[N]
  BY DEF Effect
<1> HIDE DEF after
<1> QED BY <1>1, <1>9, <1>10

-----------------------------------------------------------------------------
(* What the host compiles                                                  *)

LEMMA SetToSeqIsSeq ==
  ASSUME NEW S, IsFiniteSet(S)
  PROVE  SetToSeq(S) \in Seq(S)
<1> DEFINE n == Cardinality(S)
<1>1. n \in Nat /\ IsFiniteSet(1 .. n) /\ Cardinality(1 .. n) = n
  BY FS_CardinalityType, FS_Interval
<1>2. ExistsBijection(1 .. n, S)
  BY FS_CardinalityType
<1>3. PICK f : f \in Bijection(1 .. n, S)
  BY <1>2 DEF ExistsBijection
<1>4. f \in [1 .. n -> S] /\ IsInjective(f)
  BY <1>3 DEF Bijection, Injection, IsInjective
<1>5. SetToSeq(S) \in [1 .. n -> S]
  BY <1>4 DEF SetToSeq
<1> HIDE DEF n
<1> QED BY <1>1, <1>5

LEMMA UpdateIsCall ==
  ASSUME NEW a, a.field \in Field, a.value \in Value
  PROVE  CompileUpdate(a) \in Call
<1>1. FieldSpec[a.field].layer \in STRING
  BY ScreenAssumption DEF ManifestIsValid
<1>2. FieldSpec[a.field].key \in Key
  BY DEF Key
<1>3. CompileValue(FieldSpec[a.field].kind, a.value) \in Value \cup {Nil}
  BY DEF CompileValue
<1> QED BY <1>1, <1>2, <1>3 DEF CompileUpdate, Call

LEMMA ActivateIsCall ==
  ASSUME NEW l \in Layer
  PROVE  CompileActivate(l) \in Call
BY ScreenAssumption DEF CompileActivate, Call

LEMMA SetIsScript ==
  ASSUME NEW plan, NEW l \in Layer \cup {None}, Len(plan) \in Nat,
         \A i \in 1 .. Len(plan) : plan[i].field \in Field /\ plan[i].value \in Value
  PROVE  CompileSet(plan, l) \in Seq(Call)
<1> DEFINE N == Len(plan)
           updates == [i \in 1 .. N |-> CompileUpdate(plan[i])]
           last == IF l = None THEN <<>> ELSE <<CompileActivate(l)>>
<1>1. \A i \in 1 .. N : CompileUpdate(plan[i]) \in Call
  BY UpdateIsCall
<1>2. updates \in Seq(Call)
  <2> HIDE DEF N
  <2> QED BY <1>1 DEF N
<1>3. last \in Seq(Call)
  BY ActivateIsCall
<1>4. CompileSet(plan, l) = updates \o last
  BY DEF CompileSet
<1> HIDE DEF updates, last
<1> QED BY <1>2, <1>3, <1>4

LEMMA ClearIsScript ==
  ASSUME NEW l \in Layer
  PROVE  CompileSet(ClearPlan(l), None) \in Seq(Call)
<1> DEFINE fields == SetToSeq({f \in Field : FieldSpec[f].layer = l})
           plan == [i \in 1 .. Len(fields) |->
                      [field |-> fields[i], value |-> FieldSpec[fields[i]].clear_value]]
<1>1. IsFiniteSet({f \in Field : FieldSpec[f].layer = l})
  BY ScreenAssumption, FS_Subset DEF ManifestIsValid
<1>2. fields \in Seq({f \in Field : FieldSpec[f].layer = l})
  BY <1>1, SetToSeqIsSeq
<1> HIDE DEF fields
<1>3. Len(fields) \in Nat /\ \A i \in 1 .. Len(fields) : fields[i] \in Field
  BY <1>2
<1>4. Len(plan) = Len(fields)
  BY <1>3
<1>5. \A i \in 1 .. Len(plan) : plan[i].field \in Field /\ plan[i].value \in Value
  BY <1>3, <1>4 DEF Value
<1>6. ClearPlan(l) = plan
  BY DEF ClearPlan, fields
<1> HIDE DEF plan
<1>7. CompileSet(plan, None) \in Seq(Call)
  BY <1>3, <1>4, <1>5, SetIsScript
<1> QED BY <1>6, <1>7

-----------------------------------------------------------------------------
(* The layer that is drawn is the one that the priorities call for         *)

LEMMA TopIsVisible ==
  ASSUME z \in State
  PROVE  Top = LS!Visible /\ Top \in Layer
<1> DEFINE active == {i \in DOMAIN Order : z.left[Order[i]] > 0}
           layers == {l \in Temporary : z.left[l] > 0}
<1>1. /\ Order \in Seq(Temporary)
      /\ \A l \in Temporary : \E i \in DOMAIN Order : l = Order[i]
      /\ \A i, j \in DOMAIN Order : i < j => Priority[Order[i]] < Priority[Order[j]]
  BY ScreenAssumption DEF LuaAgrees, Range
<1>2. /\ DOMAIN Order = 1 .. Len(Order)
      /\ Len(Order) \in Nat
      /\ \A i \in DOMAIN Order : Order[i] \in Temporary
  BY <1>1
<1>3. Temporary \subseteq Layer /\ \A l \in Layer : Priority[l] \in Nat
  BY ScreenAssumption DEF ManifestIsValid
<1>4. \A l, k \in Layer : Priority[l] = Priority[k] => l = k
  BY ScreenAssumption DEF ManifestIsValid
<1>5. CASE active = {}
  <2>1. layers = {}
    BY <1>1, <1>5
  <2> QED BY <1>5, <2>1 DEF Top, LS!Visible, State
<1>6. CASE active # {}
  <2> DEFINE m == Max(active)
  <2>1. m \in active /\ \A i \in active : m >= i
    BY <1>2, <1>6, MaxExists
  <2> HIDE DEF m
  <2>2. Order[m] \in layers
    BY <1>2, <2>1
  <2>3. ASSUME NEW k \in layers PROVE Priority[k] <= Priority[Order[m]]
    <3>1. PICK i \in DOMAIN Order : k = Order[i]
      BY <1>1
    <3>2. i \in active
      BY <3>1
    <3>3. i = m \/ i < m
      BY <1>2, <2>1, <3>2
    <3>4. Priority[k] \in Nat /\ Priority[Order[m]] \in Nat
      BY <1>3, <2>2
    <3>5. CASE i = m
      BY <3>1, <3>4, <3>5
    <3>6. CASE i < m
      BY <1>1, <2>1, <3>1, <3>4, <3>6
    <3> QED BY <3>3, <3>5, <3>6
  <2>4. ASSUME NEW l \in layers, \A k \in layers : Priority[k] <= Priority[l]
        PROVE  l = Order[m]
    <3>1. Priority[l] \in Nat /\ Priority[Order[m]] \in Nat
      BY <1>3, <2>2
    <3>2. Priority[l] = Priority[Order[m]]
      BY <2>2, <2>3, <2>4, <3>1
    <3> QED BY <1>3, <1>4, <2>2, <3>2
  <2>5. (CHOOSE l \in layers : \A k \in layers : Priority[k] <= Priority[l]) = Order[m]
    BY <2>2, <2>3, <2>4
  <2>6. Top = Order[m]
    BY <1>6 DEF Top, m
  <2>7. LS!Visible = Order[m]
    BY <2>2, <2>5 DEF LS!Visible
  <2> QED BY <1>3, <2>2, <2>6, <2>7
<1> QED BY <1>5, <1>6

-----------------------------------------------------------------------------
(* The steps                                                               *)

LEMMA StateType == TypeOK <=> z \in State /\ shown \in Picture \cup {None}
BY DEF TypeOK, State

LEMMA InitialStateType == InitialState \in State
<1>1. First \in Layer \ Temporary /\ Initial \in [Place -> Value \cup {Nil}]
  BY ScreenAssumption DEF LuaAgrees
<1> QED BY <1>1 DEF InitialState, State

LEMMA RunStep ==
  ASSUME z \in State, shown \in Picture \cup {None},
         NEW script \in Seq(Call), Run(script)
  PROVE  z' \in State /\ shown' \in Picture \cup {None} /\ LS!Change
<1>1. z' \in Later(z) /\ shown' = shown
  BY EffectLater DEF Run
<1>2. z' \in State
  BY <1>1 DEF Later
<1>3. LS!Change
  BY <1>1, <1>2 DEF LS!Change, Later, State
<1> QED BY <1>1, <1>2, <1>3

LEMMA DrawStep ==
  ASSUME z \in State, shown \in Picture \cup {None}, Draw
  PROVE  /\ z' \in State /\ shown' \in Picture \cup {None}
         /\ LS!Show \/ UNCHANGED LS!vars
<1>1. Top = LS!Visible /\ Top \in Layer
  BY TopIsVisible
<1>2. z' = [z EXCEPT !.redraw = FALSE, !.drawn = Top]
  BY DEF Draw
<1>3. z' \in State /\ z'.fields = z.fields /\ z'.base = z.base /\ z'.left = z.left
  BY <1>1, <1>2 DEF State
<1>4. CASE ~ CanDraw
  <2>1. shown' = shown
    BY <1>4 DEF Draw
  <2> QED BY <1>3, <2>1 DEF LS!vars
<1>5. CASE CanDraw
  <2>1. shown' = [layer |-> Top, fields |-> [p \in Uses[Top] |-> z.fields[p]]]
    BY <1>5 DEF Draw
  <2>2. LS!Show
    BY <1>1, <1>3, <1>5, <2>1 DEF LS!Show, LS!Picture, LS!Drawable, CanDraw
  <2>3. Uses[Top] \subseteq Place
    BY <1>1, ScreenAssumption DEF LuaAgrees
  <2>4. \A p \in Uses[Top] : z.fields[p] \in Value
    BY <1>5, <2>3 DEF CanDraw, State
  <2>5. [p \in Uses[Top] |-> z.fields[p]] \in [Uses[Top] -> Value]
    BY <2>4
  <2>6. shown' \in Picture
    BY <1>1, <2>1, <2>5 DEF Picture
  <2> QED BY <1>3, <2>2, <2>6
<1> QED BY <1>4, <1>5

LEMMA TickStep ==
  ASSUME z \in State, shown \in Picture \cup {None}, Tick
  PROVE  z' \in State /\ shown' \in Picture \cup {None} /\ LS!Tick
<1> DEFINE left == [l \in Layer |-> IF z.left[l] > 0 THEN z.left[l] - 1 ELSE 0]
<1>1. z' = [z EXCEPT !.left = left] /\ shown' = shown
  BY DEF Tick
<1>2. \A l \in Layer : z.left[l] \in Nat
  BY DEF State
<1>3. left \in [Layer -> Nat]
  BY <1>2
<1> HIDE DEF left
<1>4. z' \in State /\ z'.left = left /\ z'.fields = z.fields /\ z'.base = z.base
  BY <1>1, <1>3 DEF State
<1>5. LS!Tick
  BY <1>1, <1>4 DEF LS!Tick, left
<1> QED BY <1>1, <1>4, <1>5

LEMMA RestartStep ==
  ASSUME z \in State, shown \in Picture \cup {None}, Restart
  PROVE  z' \in State /\ shown' \in Picture \cup {None} /\ LS!Restart
<1>1. z' = InitialState /\ shown' = shown
  BY DEF Restart
<1>2. LS!Restart
  BY <1>1 DEF LS!Restart, InitialState
<1> QED BY <1>1, <1>2, InitialStateType

LEMMA NextStep ==
  ASSUME TypeOK, [Next]_vars
  PROVE  TypeOK' /\ [LS!Next]_LS!vars
<1>1. z \in State /\ shown \in Picture \cup {None}
  BY StateType
<1> SUFFICES /\ z' \in State /\ shown' \in Picture \cup {None}
             /\ LS!Next \/ UNCHANGED LS!vars
  BY DEF TypeOK, State
<1>2. CASE \E a \in Assignments, l \in Layer \cup {None} : ScreenSet(a, l)
  <2>1. PICK a \in Assignments, l \in Layer \cup {None} : ScreenSet(a, l)
    BY <1>2
  <2>2. PICK n \in 1 .. MaxAssignments : a \in [1 .. n -> [field : Field, value : Text]]
    BY <2>1 DEF Assignments
  <2>3. Len(a) = n /\ n \in Nat
    BY <2>2
  <2>4. \A i \in 1 .. Len(a) : a[i].field \in Field /\ a[i].value \in Value
    BY <2>2, <2>3 DEF Value
  <2>5. CompileSet(a, l) \in Seq(Call)
    BY <2>3, <2>4, SetIsScript
  <2>6. Run(CompileSet(a, l))
    BY <2>1 DEF ScreenSet
  <2> QED BY <1>1, <2>5, <2>6, RunStep DEF LS!Next
<1>3. ASSUME NEW l \in Layer, ScreenClear(l)
      PROVE  z' \in State /\ shown' \in Picture \cup {None} /\ LS!Next
  BY <1>1, <1>3, ClearIsScript, RunStep DEF ScreenClear, LS!Next
<1>4. ASSUME NEW l \in Layer, ScreenActivate(l)
      PROVE  z' \in State /\ shown' \in Picture \cup {None} /\ LS!Next
  <2>1. <<CompileActivate(l)>> \in Seq(Call)
    BY ActivateIsCall
  <2> QED BY <1>1, <1>4, <2>1, RunStep DEF ScreenActivate, LS!Next
<1>5. ASSUME NEW script \in Raw, ScreenRaw(script)
      PROVE  z' \in State /\ shown' \in Picture \cup {None} /\ LS!Next
  <2>1. script \in Seq(Call)
    BY ScreenAssumption
  <2> QED BY <1>1, <1>5, <2>1, RunStep DEF ScreenRaw, LS!Next
<1>6. CASE Draw
  BY <1>1, <1>6, DrawStep DEF LS!Next
<1>7. CASE Tick
  BY <1>1, <1>7, TickStep DEF LS!Next
<1>8. CASE Restart
  BY <1>1, <1>8, RestartStep DEF LS!Next
<1>9. CASE UNCHANGED vars
  BY <1>1, <1>9 DEF vars, LS!vars
<1> QED BY <1>2, <1>3, <1>4, <1>5, <1>6, <1>7, <1>8, <1>9 DEF Next

-----------------------------------------------------------------------------
(* The theorems                                                            *)

\* What a script assigns has the types that lcd-init declares, whatever the
\* user sends, and what is shown was drawn from values.
THEOREM TypeCorrect == Spec => []TypeOK
<1>1. Init => TypeOK
  BY InitialStateType DEF Init, TypeOK, State
<1>2. TypeOK /\ [Next]_vars => TypeOK'
  BY NextStep
<1> QED BY <1>1, <1>2, PTL DEF Spec

\* The safety half of ImplementsLayeredScreen: a picture is drawn only of the
\* active layer of highest priority and of the values last set, a layer is
\* activated only by a script, for its own time, and expires by time alone.
\* That the display catches up is left to TLC.
THEOREM Refinement == Spec => LS!Init /\ [][LS!Next]_LS!vars
<1>1. Init => LS!Init
  BY DEF Init, InitialState, LS!Init
<1>2. TypeOK /\ [Next]_vars => [LS!Next]_LS!vars
  BY NextStep
<1> QED BY <1>1, <1>2, TypeCorrect, PTL DEF Spec
=============================================================================
