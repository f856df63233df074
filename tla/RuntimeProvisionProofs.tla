----------------------- MODULE RuntimeProvisionProofs -----------------------
(***************************************************************************)
(* The safety properties of RuntimeProvision for any directories, targets, *)
(* scripts and number of commands.  A packet is followed from the cells it *)
(* is built of to what the module reads in it, a list of slots through the *)
(* order they are installed in, and a screen command to the calls it makes.*)
(***************************************************************************)
EXTENDS RuntimeProvision, FiniteSetTheorems, FunctionTheorems, WellFoundedInduction, TLAPS

-----------------------------------------------------------------------------
(* Sequences, and the cells of a packet                                    *)

\* Induction on the natural numbers, for a set.
LEMMA Induct ==
  ASSUME NEW S, 0 \in S, \A n \in Nat : n \in S => n + 1 \in S
  PROVE  Nat \subseteq S
<1> DEFINE T == Nat \ S
<1> SUFFICES ASSUME T # {} PROVE FALSE
  OBVIOUS
<1>1. PICK x \in T : \A y \in T : ~ (<<y, x>> \in OpToRel(<, Nat))
  BY NatLessThanWellFounded, WFMin
<1>2. x # 0 /\ x \in Nat
  OBVIOUS
<1>3. x - 1 \in Nat /\ <<x - 1, x>> \in OpToRel(<, Nat)
  BY <1>2 DEF OpToRel
<1>4. x - 1 \in S
  BY <1>1, <1>3
<1>5. x - 1 + 1 = x
  BY <1>2
<1>6. QED
  BY <1>3, <1>4, <1>5

\* A recursive definition that goes from step to step has a solution.
LEMMA Iterates ==
  ASSUME NEW S, NEW s \in S, NEW N \in Nat, NEW Step \in [1 .. N -> [S -> S]]
  PROVE  \E f \in [0 .. N -> S] :
           f[0] = s /\ \A n \in 1 .. N : f[n] = Step[n][f[n - 1]]
<1> DEFINE Upto(k) == {f \in [0 .. k -> S] :
                         f[0] = s /\ \A n \in 1 .. k : f[n] = Step[n][f[n - 1]]}
           Good == {k \in Nat : k <= N => Upto(k) # {}}
<1>1. 0 \in Good
  <2>1. [n \in 0 .. 0 |-> s] \in Upto(0)
    OBVIOUS
  <2> QED BY <2>1
<1>2. ASSUME NEW k \in Nat, k \in Good PROVE k + 1 \in Good
  <2> SUFFICES ASSUME k + 1 <= N PROVE Upto(k + 1) # {}
    OBVIOUS
  <2>1. k <= N /\ k + 1 \in 1 .. N
    OBVIOUS
  <2>2. PICK f : f \in Upto(k)
    BY <1>2, <2>1
  <2> DEFINE next == Step[k + 1][f[k]]
             g == [n \in 0 .. k + 1 |-> IF n = k + 1 THEN next ELSE f[n]]
  <2>3. next \in S
    BY <2>1, <2>2
  <2>4. g \in [0 .. k + 1 -> S]
    <3>1. \A n \in 0 .. k + 1 : n # k + 1 => n \in 0 .. k
      OBVIOUS
    <3> QED BY <2>2, <2>3, <3>1
  <2>5. g[0] = s
    BY <2>2
  <2>6. ASSUME NEW n \in 1 .. k + 1 PROVE g[n] = Step[n][g[n - 1]]
    <3>1. CASE n = k + 1
      <4>1. k \in 0 .. k + 1 /\ k # k + 1 /\ k + 1 \in 0 .. k + 1
        OBVIOUS
      <4>2. g[k] = f[k] /\ g[k + 1] = next /\ k + 1 - 1 = k
        BY <4>1
      <4>3. g[n] = Step[n][f[k]] /\ g[n - 1] = f[k]
        BY <3>1, <4>2
      <4> HIDE DEF g
      <4> QED BY <4>3
    <3>2. CASE n # k + 1
      <4>1. n \in 1 .. k /\ n - 1 \in 0 .. k + 1 /\ n - 1 # k + 1 /\ n \in 0 .. k + 1
        BY <3>2
      <4>2. g[n] = f[n] /\ g[n - 1] = f[n - 1]
        BY <3>2, <4>1
      <4> QED BY <2>2, <4>1, <4>2
    <3> QED BY <3>1, <3>2
  <2>7. g \in Upto(k + 1)
    BY <2>4, <2>5, <2>6
  <2> QED BY <2>7
<1>3. Nat \subseteq Good
  <2> HIDE DEF Good
  <2> QED BY <1>1, <1>2, Induct
<1>4. PICK f : f \in Upto(N)
  <2>1. N \in Good
    BY <1>3
  <2> QED BY <2>1
<1> QED BY <1>4

\* A nonempty set of positions has a last one.
LEMMA MaxExists ==
  ASSUME NEW n \in Nat, NEW S \in SUBSET (1 .. n), S # {}
  PROVE  Max(S) \in S /\ \A y \in S : Max(S) >= y
<1> DEFINE Good == {k \in Nat : \A T \in SUBSET (1 .. k) :
                       T # {} => \E x \in T : \A y \in T : x >= y}
<1>1. 0 \in Good
  <2>1. ASSUME NEW T \in SUBSET (1 .. 0), NEW x \in T PROVE FALSE
    <3>1. x \in 1 .. 0
      OBVIOUS
    <3> QED BY <3>1
  <2> QED BY <2>1
<1>2. ASSUME NEW k \in Nat, k \in Good PROVE k + 1 \in Good
  <2> SUFFICES ASSUME NEW T \in SUBSET (1 .. k + 1), T # {}
               PROVE  \E x \in T : \A y \in T : x >= y
    OBVIOUS
  <2>1. CASE k + 1 \in T
    BY <2>1
  <2>2. CASE k + 1 \notin T
    <3>1. T \in SUBSET (1 .. k)
      BY <2>2
    <3> QED BY <1>2, <3>1
  <2> QED BY <2>1, <2>2
<1>3. Nat \subseteq Good
  <2> HIDE DEF Good
  <2> QED BY <1>1, <1>2, Induct
<1>4. \E x \in S : \A y \in S : x >= y
  BY <1>3
<1> QED BY <1>4 DEF Max

Controls == {"SOH", "BRC", "EOB", "STX", "ETX", "EOT", "LF"}

Cell ==
  {<<c>> : c \in Controls} \cup {<<t>> : t \in Text}
    \cup {<<n, i, w>> : n \in Int, i \in 1 .. 4, w \in 1 .. 4}

\* Two sequences one after the other.
LEMMA Joined ==
  ASSUME NEW S, NEW s \in Seq(S), NEW t \in Seq(S)
  PROVE  /\ s \o t \in Seq(S)
         /\ Len(s \o t) = Len(s) + Len(t)
         /\ \A i \in 1 .. Len(s) : (s \o t)[i] = s[i]
         /\ \A i \in 1 .. Len(t) : (s \o t)[Len(s) + i] = t[i]
OBVIOUS

\* A number is as many cells as it is wide.
LEMMA HexCells ==
  ASSUME NEW w \in 1 .. 4, NEW n \in Int
  PROVE  /\ Hex(w, n) \in Seq(Cell)
         /\ Len(Hex(w, n)) = w
         /\ \A i \in 1 .. w : Hex(w, n)[i] = <<n, i, w>>
<1>1. \A i \in 1 .. w : <<n, i, w>> \in Cell
  BY DEF Cell
<1> QED BY <1>1 DEF Hex

\* A control byte is one cell.
LEMMA ControlCells ==
  ASSUME NEW c \in Controls
  PROVE  Control(c) \in Seq(Cell) /\ Len(Control(c)) = 1
<1>1. <<c>> \in Cell
  BY DEF Cell
<1> QED BY <1>1 DEF Control

\* A script is one cell, and no script is none.
LEMMA ScriptCellsCells ==
  ASSUME NEW t \in Text \cup {None}
  PROVE  /\ ScriptCells(t) \in Seq(Cell)
         /\ t = None => Len(ScriptCells(t)) = 0
         /\ t # None => Len(ScriptCells(t)) = 1 /\ ScriptCells(t)[1] = <<t>>
<1>1. t # None => <<t>> \in Cell
  BY DEF Cell
<1> QED BY <1>1 DEF ScriptCells

\* Joined for a number or a control character that is put behind.
LEMMA JoinHex ==
  ASSUME NEW s \in Seq(Cell), NEW w \in 1 .. 4, NEW n \in Int
  PROVE  /\ s \o Hex(w, n) \in Seq(Cell)
         /\ Len(s \o Hex(w, n)) = Len(s) + w
         /\ \A i \in 1 .. Len(s) : (s \o Hex(w, n))[i] = s[i]
         /\ \A i \in 1 .. w : (s \o Hex(w, n))[Len(s) + i] = <<n, i, w>>
<1> DEFINE h == Hex(w, n)
<1>1. h \in Seq(Cell) /\ Len(h) = w /\ \A i \in 1 .. w : h[i] = <<n, i, w>>
  BY HexCells
<1> HIDE DEF h
<1>2. /\ s \o h \in Seq(Cell)
      /\ Len(s \o h) = Len(s) + w
      /\ \A i \in 1 .. Len(s) : (s \o h)[i] = s[i]
      /\ \A i \in 1 .. w : (s \o h)[Len(s) + i] = h[i]
  BY <1>1, Joined
<1> QED BY <1>1, <1>2 DEF h

\* A control byte is appended.
LEMMA JoinControl ==
  ASSUME NEW s \in Seq(Cell), NEW c \in Controls
  PROVE  /\ s \o Control(c) \in Seq(Cell)
         /\ Len(s \o Control(c)) = Len(s) + 1
         /\ \A i \in 1 .. Len(s) : (s \o Control(c))[i] = s[i]
<1> DEFINE h == Control(c)
<1>1. h \in Seq(Cell) /\ Len(h) = 1
  BY ControlCells
<1> HIDE DEF h
<1>2. /\ s \o h \in Seq(Cell)
      /\ Len(s \o h) = Len(s) + 1
      /\ \A i \in 1 .. Len(s) : (s \o h)[i] = s[i]
  BY <1>1, Joined
<1> QED BY <1>2 DEF h

\* Where encode_packet puts the coordinates and the block.
LEMMA PacketCells ==
  ASSUME NEW source \in [dx : Int, dy : Int], NEW target \in [dx : Int, dy : Int],
         NEW block \in Seq(Cell)
  PROVE  LET packet == EncodePacket(source, target, block) IN
         /\ packet \in Seq(Cell)
         /\ Len(packet) = Len(block) + 27
         /\ \A i \in 1 .. Len(block) : packet[23 + i] = block[i]
         /\ \A i \in 1 .. 2 : /\ packet[10 + i] = <<source.dx, i, 2>>
                              /\ packet[12 + i] = <<source.dy, i, 2>>
                              /\ packet[14 + i] = <<target.dx, i, 2>>
                              /\ packet[16 + i] = <<target.dy, i, 2>>
<1> DEFINE a == Control("SOH") \o Control("BRC")
           b == a \o Hex(4, 0)
           c == b \o Hex(2, 1)
           d == c \o Hex(2, 1)
           e == d \o Hex(2, source.dx)
           f == e \o Hex(2, source.dy)
           g == f \o Hex(2, target.dx)
           h == g \o Hex(2, target.dy)
           j == h \o Hex(1, 0)
           k == j \o Hex(1, 0)
           l == k \o Hex(2, 0)
           m == l \o Control("EOB")
           n == m \o block
           o == n \o Control("EOT")
           p == o \o Hex(2, 0)
           q == p \o Control("LF")
<1>1. /\ source.dx \in Int /\ source.dy \in Int
      /\ target.dx \in Int /\ target.dy \in Int
      /\ Len(block) \in Nat
  OBVIOUS
<1>0. /\ 1 \in 1 .. 4 /\ 2 \in 1 .. 4 /\ 4 \in 1 .. 4 /\ 0 \in Int /\ 1 \in Int
      /\ "SOH" \in Controls /\ "BRC" \in Controls /\ "EOB" \in Controls
      /\ "EOT" \in Controls /\ "LF" \in Controls
  BY DEF Controls
<1>2. EncodePacket(source, target, block) = q
  BY DEF EncodePacket
<1>a. a \in Seq(Cell) /\ Len(a) = 2
  <2>1. Control("SOH") \in Seq(Cell) /\ Len(Control("SOH")) = 1
    BY <1>0, ControlCells, Zenon
  <2>2. a \in Seq(Cell) /\ Len(a) = Len(Control("SOH")) + 1
    BY <1>0, <2>1, JoinControl, Zenon
  <2> DEFINE u == Control("SOH")
  <2>3. Len(u) = 1 /\ Len(a) = Len(u) + 1
    BY <2>1, <2>2
  <2> HIDE DEF a, u
  <2>4. Len(a) = 2
    BY <2>3
  <2> QED BY <2>2, <2>4
<1> HIDE DEF a
<1>as. a \in Seq(Cell)
  BY <1>a
<1>b. /\ b \in Seq(Cell) /\ Len(b) = Len(a) + 4
      /\ \A i \in 1 .. Len(a) : b[i] = a[i]
      /\ \A i \in 1 .. 4 : b[Len(a) + i] = <<0, i, 4>>
  BY <1>0, <1>as, JoinHex, Zenon
<1> HIDE DEF b
<1>bs. b \in Seq(Cell)
  BY <1>b
<1>c. /\ c \in Seq(Cell) /\ Len(c) = Len(b) + 2
      /\ \A i \in 1 .. Len(b) : c[i] = b[i]
      /\ \A i \in 1 .. 2 : c[Len(b) + i] = <<1, i, 2>>
  BY <1>0, <1>bs, JoinHex, Zenon
<1> HIDE DEF c
<1>cs. c \in Seq(Cell)
  BY <1>c
<1>d. /\ d \in Seq(Cell) /\ Len(d) = Len(c) + 2
      /\ \A i \in 1 .. Len(c) : d[i] = c[i]
      /\ \A i \in 1 .. 2 : d[Len(c) + i] = <<1, i, 2>>
  BY <1>0, <1>cs, JoinHex, Zenon
<1> HIDE DEF d
<1>ds. d \in Seq(Cell)
  BY <1>d
<1>e. /\ e \in Seq(Cell) /\ Len(e) = Len(d) + 2
      /\ \A i \in 1 .. Len(d) : e[i] = d[i]
      /\ \A i \in 1 .. 2 : e[Len(d) + i] = <<source.dx, i, 2>>
  BY <1>0, <1>1, <1>ds, JoinHex, Zenon
<1> HIDE DEF e
<1>es. e \in Seq(Cell)
  BY <1>e
<1>f. /\ f \in Seq(Cell) /\ Len(f) = Len(e) + 2
      /\ \A i \in 1 .. Len(e) : f[i] = e[i]
      /\ \A i \in 1 .. 2 : f[Len(e) + i] = <<source.dy, i, 2>>
  BY <1>0, <1>1, <1>es, JoinHex, Zenon
<1> HIDE DEF f
<1>fs. f \in Seq(Cell)
  BY <1>f
<1>g. /\ g \in Seq(Cell) /\ Len(g) = Len(f) + 2
      /\ \A i \in 1 .. Len(f) : g[i] = f[i]
      /\ \A i \in 1 .. 2 : g[Len(f) + i] = <<target.dx, i, 2>>
  BY <1>0, <1>1, <1>fs, JoinHex, Zenon
<1> HIDE DEF g
<1>gs. g \in Seq(Cell)
  BY <1>g
<1>h. /\ h \in Seq(Cell) /\ Len(h) = Len(g) + 2
      /\ \A i \in 1 .. Len(g) : h[i] = g[i]
      /\ \A i \in 1 .. 2 : h[Len(g) + i] = <<target.dy, i, 2>>
  BY <1>0, <1>1, <1>gs, JoinHex, Zenon
<1> HIDE DEF h
<1>hs. h \in Seq(Cell)
  BY <1>h
<1>j. /\ j \in Seq(Cell) /\ Len(j) = Len(h) + 1
      /\ \A i \in 1 .. Len(h) : j[i] = h[i]
      /\ \A i \in 1 .. 1 : j[Len(h) + i] = <<0, i, 1>>
  BY <1>0, <1>hs, JoinHex, Zenon
<1> HIDE DEF j
<1>js. j \in Seq(Cell)
  BY <1>j
<1>k. /\ k \in Seq(Cell) /\ Len(k) = Len(j) + 1
      /\ \A i \in 1 .. Len(j) : k[i] = j[i]
      /\ \A i \in 1 .. 1 : k[Len(j) + i] = <<0, i, 1>>
  BY <1>0, <1>js, JoinHex, Zenon
<1> HIDE DEF k
<1>ks. k \in Seq(Cell)
  BY <1>k
<1>l. /\ l \in Seq(Cell) /\ Len(l) = Len(k) + 2
      /\ \A i \in 1 .. Len(k) : l[i] = k[i]
      /\ \A i \in 1 .. 2 : l[Len(k) + i] = <<0, i, 2>>
  BY <1>0, <1>ks, JoinHex, Zenon
<1> HIDE DEF l
<1>ls. l \in Seq(Cell)
  BY <1>l
<1>m. /\ m \in Seq(Cell) /\ Len(m) = Len(l) + 1
      /\ \A i \in 1 .. Len(l) : m[i] = l[i]
  BY <1>0, <1>ls, JoinControl, Zenon
<1> HIDE DEF m
<1>ms. m \in Seq(Cell)
  BY <1>m
<1>n. /\ n \in Seq(Cell) /\ Len(n) = Len(m) + Len(block)
      /\ \A i \in 1 .. Len(m) : n[i] = m[i]
      /\ \A i \in 1 .. Len(block) : n[Len(m) + i] = block[i]
  BY <1>ms
<1> HIDE DEF n
<1>ns. n \in Seq(Cell)
  BY <1>n
<1>o. /\ o \in Seq(Cell) /\ Len(o) = Len(n) + 1
      /\ \A i \in 1 .. Len(n) : o[i] = n[i]
  BY <1>0, <1>ns, JoinControl, Zenon
<1> HIDE DEF o
<1>os. o \in Seq(Cell)
  BY <1>o
<1>p. /\ p \in Seq(Cell) /\ Len(p) = Len(o) + 2
      /\ \A i \in 1 .. Len(o) : p[i] = o[i]
      /\ \A i \in 1 .. 2 : p[Len(o) + i] = <<0, i, 2>>
  BY <1>0, <1>os, JoinHex, Zenon
<1> HIDE DEF p
<1>ps. p \in Seq(Cell)
  BY <1>p
<1>q. /\ q \in Seq(Cell) /\ Len(q) = Len(p) + 1
      /\ \A i \in 1 .. Len(p) : q[i] = p[i]
  BY <1>0, <1>ps, JoinControl, Zenon
<1> HIDE DEF q
<1>qs. q \in Seq(Cell)
  BY <1>q
<1>r. /\ Len(d) = 10 /\ Len(e) = 12 /\ Len(f) = 14 /\ Len(g) = 16 /\ Len(h) = 18
  BY <1>a, <1>b, <1>c, <1>d, <1>e, <1>f, <1>g, <1>h
<1>s. /\ Len(j) = 19 /\ Len(k) = 20 /\ Len(l) = 22 /\ Len(m) = 23
      /\ Len(n) = 23 + Len(block) /\ Len(o) = 24 + Len(block)
      /\ Len(p) = 26 + Len(block) /\ Len(q) = 27 + Len(block)
  BY <1>1, <1>r, <1>j, <1>k, <1>l, <1>m, <1>n, <1>o, <1>p, <1>q
<1>3. \A i \in 1 .. 23 + Len(block) : q[i] = n[i]
  BY <1>1, <1>o, <1>p, <1>q, <1>s
<1>4. ASSUME NEW i \in 1 .. 18 PROVE q[i] = h[i]
  <2>1. j[i] = h[i]
    BY <1>j, <1>r
  <2>2. k[i] = j[i]
    <3>1. Len(j) = 19
      BY <1>s
    <3>2. i \in 1 .. Len(j)
      BY <3>1
    <3> QED BY <1>k, <3>2
  <2>3. l[i] = k[i]
    <3>1. Len(k) = 20
      BY <1>s
    <3>2. i \in 1 .. Len(k)
      BY <3>1
    <3> QED BY <1>l, <3>2
  <2>4. m[i] = l[i]
    <3>1. Len(l) = 22
      BY <1>s
    <3>2. i \in 1 .. Len(l)
      BY <3>1
    <3> QED BY <1>m, <3>2
  <2>5. n[i] = m[i]
    <3>1. Len(m) = 23
      BY <1>s
    <3>2. i \in 1 .. Len(m)
      BY <3>1
    <3> QED BY <1>n, <3>2
  <2>6. q[i] = n[i]
    <3>1. i \in 1 .. 23 + Len(block)
      BY <1>1
    <3> QED BY <1>3, <3>1
  <2> QED BY <2>1, <2>2, <2>3, <2>4, <2>5, <2>6
<1>5. ASSUME NEW i \in 1 .. 2
      PROVE  /\ q[10 + i] = <<source.dx, i, 2>>
             /\ q[12 + i] = <<source.dy, i, 2>>
             /\ q[14 + i] = <<target.dx, i, 2>>
             /\ q[16 + i] = <<target.dy, i, 2>>
  <2>1. /\ q[10 + i] = h[10 + i] /\ q[12 + i] = h[12 + i]
        /\ q[14 + i] = h[14 + i] /\ q[16 + i] = h[16 + i]
    BY <1>4
  <2>2. f[10 + i] = e[10 + i]
    BY <1>f, <1>r
  <2>4. g[10 + i] = f[10 + i] /\ g[12 + i] = f[12 + i]
    BY <1>g, <1>r
  <2>5. h[10 + i] = g[10 + i] /\ h[12 + i] = g[12 + i] /\ h[14 + i] = g[14 + i]
    BY <1>h, <1>r
  <2>3. e[Len(d) + i] = <<source.dx, i, 2>> /\ f[Len(e) + i] = <<source.dy, i, 2>>
        /\ g[Len(f) + i] = <<target.dx, i, 2>> /\ h[Len(g) + i] = <<target.dy, i, 2>>
    BY <1>e, <1>f, <1>g, <1>h
  <2> QED BY <1>r, <2>1, <2>2, <2>3, <2>4, <2>5
<1>6. \A i \in 1 .. Len(block) : q[23 + i] = block[i]
  <2>1. \A i \in 1 .. Len(block) : n[23 + i] = block[i]
    BY <1>n, <1>s
  <2>2. ASSUME NEW i \in 1 .. Len(block) PROVE q[23 + i] = n[23 + i]
    <3>1. 23 + i \in 1 .. 23 + Len(block)
      BY <1>1
    <3> QED BY <1>3, <3>1
  <2> QED BY <2>1, <2>2
<1>7. q \in Seq(Cell)
  BY <1>q
<1> QED BY <1>2, <1>s, <1>5, <1>6, <1>7

\* Where a block has its class and its fields.
LEMMA BlockCells ==
  ASSUME NEW class \in Int, NEW instruction \in Int, NEW fields \in Seq(Cell)
  PROVE  LET block == Block(class, instruction, fields) IN
         /\ block \in Seq(Cell)
         /\ Len(block) = Len(fields) + 6
         /\ \A i \in 1 .. 3 : block[1 + i] = <<class, i, 3>>
         /\ block[5] = <<instruction, 1, 1>>
         /\ \A i \in 1 .. Len(fields) : block[5 + i] = fields[i]
<1> DEFINE a == Control("STX")
           b == a \o Hex(3, class)
           c == b \o Hex(1, instruction)
           d == c \o fields
           e == d \o Control("ETX")
<1>0. 1 \in 1 .. 4 /\ 3 \in 1 .. 4 /\ "STX" \in Controls /\ "ETX" \in Controls
  BY DEF Controls
<1>1. Block(class, instruction, fields) = e
  BY DEF Block
<1>2. Len(fields) \in Nat
  OBVIOUS
<1>a. a \in Seq(Cell) /\ Len(a) = 1
  BY <1>0, ControlCells, Zenon
<1> HIDE DEF a
<1>as. a \in Seq(Cell)
  BY <1>a
<1>b. /\ b \in Seq(Cell) /\ Len(b) = Len(a) + 3
      /\ \A i \in 1 .. Len(a) : b[i] = a[i]
      /\ \A i \in 1 .. 3 : b[Len(a) + i] = <<class, i, 3>>
  BY <1>0, <1>as, JoinHex, Zenon
<1> HIDE DEF b
<1>bs. b \in Seq(Cell)
  BY <1>b
<1>c. /\ c \in Seq(Cell) /\ Len(c) = Len(b) + 1
      /\ \A i \in 1 .. Len(b) : c[i] = b[i]
      /\ \A i \in 1 .. 1 : c[Len(b) + i] = <<instruction, i, 1>>
  BY <1>0, <1>bs, JoinHex, Zenon
<1> HIDE DEF c
<1>cs. c \in Seq(Cell)
  BY <1>c
<1>d. /\ d \in Seq(Cell) /\ Len(d) = Len(c) + Len(fields)
      /\ \A i \in 1 .. Len(c) : d[i] = c[i]
      /\ \A i \in 1 .. Len(fields) : d[Len(c) + i] = fields[i]
  BY <1>cs
<1> HIDE DEF d
<1>ds. d \in Seq(Cell)
  BY <1>d
<1>e. /\ e \in Seq(Cell) /\ Len(e) = Len(d) + 1
      /\ \A i \in 1 .. Len(d) : e[i] = d[i]
  BY <1>0, <1>ds, JoinControl, Zenon
<1> HIDE DEF e
<1>es. e \in Seq(Cell)
  BY <1>e
<1>3. Len(b) = 4 /\ Len(c) = 5
  BY <1>a, <1>b, <1>c
<1>4. Len(d) = Len(fields) + 5 /\ Len(e) = Len(fields) + 6
  BY <1>2, <1>3, <1>d, <1>e
<1>5. ASSUME NEW i \in 1 .. 5 PROVE e[i] = c[i]
  <2>1. i \in 1 .. Len(c) /\ i \in 1 .. Len(d)
    BY <1>2, <1>3, <1>4
  <2> QED BY <1>d, <1>e, <2>1
<1>6. ASSUME NEW i \in 1 .. 3 PROVE e[1 + i] = <<class, i, 3>>
  <2>1. b[Len(a) + i] = <<class, i, 3>> /\ Len(a) = 1
    BY <1>a, <1>b
  <2>2. 1 + i \in 1 .. Len(b)
    BY <1>3
  <2>3. c[1 + i] = b[1 + i]
    BY <1>c, <2>2
  <2>4. e[1 + i] = c[1 + i]
    BY <1>5
  <2> QED BY <2>1, <2>3, <2>4
<1>7. e[5] = <<instruction, 1, 1>>
  <2>1. c[Len(b) + 1] = <<instruction, 1, 1>> /\ Len(b) = 4
    BY <1>3, <1>c
  <2>2. e[5] = c[5]
    BY <1>5
  <2> QED BY <2>1, <2>2
<1>8. ASSUME NEW i \in 1 .. Len(fields) PROVE e[5 + i] = fields[i]
  <2>1. d[Len(c) + i] = fields[i] /\ Len(c) = 5
    BY <1>3, <1>d
  <2>2. 5 + i \in 1 .. Len(d)
    BY <1>2, <1>4
  <2>3. e[5 + i] = d[5 + i]
    BY <1>e, <2>2
  <2> QED BY <2>1, <2>3
<1> QED BY <1>1, <1>es, <1>4, <1>6, <1>7, <1>8

Place == [page : Nat, element : Nat, event : Nat]

\* Where a config block has the location and the script.
LEMMA ConfigCells ==
  ASSUME NEW instruction \in Int, NEW location \in Place, NEW t \in Text \cup {None}
  PROVE  LET block == ConfigBlock(instruction, location, t) IN
         /\ block \in Seq(Cell)
         /\ \A i \in 1 .. 3 : block[1 + i] = <<Class.config, i, 3>>
         /\ block[5] = <<instruction, 1, 1>>
         /\ \A i \in 1 .. 2 : /\ block[11 + i] = <<location.page, i, 2>>
                              /\ block[13 + i] = <<location.element, i, 2>>
                              /\ block[15 + i] = <<location.event, i, 2>>
         /\ Len(block) = IF t = None THEN 22 ELSE 23
         /\ t # None => block[22] = <<t>>
<1> DEFINE a == Hex(2, 1)
           b == a \o Hex(2, 5)
           c == b \o Hex(2, 1)
           u == Hex(2, location.page)
           v == u \o Hex(2, location.element)
           w == v \o Hex(2, location.event)
           d == c \o w
           e == d \o Hex(4, 0)
           s == ScriptCells(t)
           f == e \o s
           block == Block(Class.config, instruction, f)
<1>0. /\ 1 \in 1 .. 4 /\ 2 \in 1 .. 4 /\ 4 \in 1 .. 4 /\ 0 \in Int /\ 1 \in Int /\ 5 \in Int
  OBVIOUS
<1>1. location.page \in Int /\ location.element \in Int /\ location.event \in Int
  BY DEF Place
<1>2. ConfigBlock(instruction, location, t) = block
  BY DEF ConfigBlock, At
<1>3. Class.config \in Int
  BY DEF Class
<1>a. a \in Seq(Cell) /\ Len(a) = 2
  BY <1>0, HexCells, Zenon
<1> HIDE DEF a
<1>as. a \in Seq(Cell)
  BY <1>a
<1>u. u \in Seq(Cell) /\ Len(u) = 2 /\ \A i \in 1 .. 2 : u[i] = <<location.page, i, 2>>
  BY <1>0, <1>1, HexCells, Zenon
<1> HIDE DEF u
<1>us. u \in Seq(Cell)
  BY <1>u
<1>s. /\ s \in Seq(Cell)
      /\ t = None => Len(s) = 0
      /\ t # None => Len(s) = 1 /\ s[1] = <<t>>
  BY ScriptCellsCells, Zenon
<1> HIDE DEF s
<1>ss. s \in Seq(Cell)
  BY <1>s
<1>b. /\ b \in Seq(Cell) /\ Len(b) = Len(a) + 2
      /\ \A i \in 1 .. Len(a) : b[i] = a[i]
      /\ \A i \in 1 .. 2 : b[Len(a) + i] = <<5, i, 2>>
  BY <1>0, <1>as, JoinHex, Zenon
<1> HIDE DEF b
<1>bs. b \in Seq(Cell)
  BY <1>b
<1>c. /\ c \in Seq(Cell) /\ Len(c) = Len(b) + 2
      /\ \A i \in 1 .. Len(b) : c[i] = b[i]
      /\ \A i \in 1 .. 2 : c[Len(b) + i] = <<1, i, 2>>
  BY <1>0, <1>bs, JoinHex, Zenon
<1> HIDE DEF c
<1>cs. c \in Seq(Cell)
  BY <1>c
<1>v. /\ v \in Seq(Cell) /\ Len(v) = Len(u) + 2
      /\ \A i \in 1 .. Len(u) : v[i] = u[i]
      /\ \A i \in 1 .. 2 : v[Len(u) + i] = <<location.element, i, 2>>
  BY <1>0, <1>1, <1>us, JoinHex, Zenon
<1> HIDE DEF v
<1>vs. v \in Seq(Cell)
  BY <1>v
<1>w. /\ w \in Seq(Cell) /\ Len(w) = Len(v) + 2
      /\ \A i \in 1 .. Len(v) : w[i] = v[i]
      /\ \A i \in 1 .. 2 : w[Len(v) + i] = <<location.event, i, 2>>
  BY <1>0, <1>1, <1>vs, JoinHex, Zenon
<1> HIDE DEF w
<1>ws. w \in Seq(Cell)
  BY <1>w
<1>d. /\ d \in Seq(Cell) /\ Len(d) = Len(c) + Len(w)
      /\ \A i \in 1 .. Len(c) : d[i] = c[i]
      /\ \A i \in 1 .. Len(w) : d[Len(c) + i] = w[i]
  BY <1>ws, <1>cs
<1> HIDE DEF d
<1>ds. d \in Seq(Cell)
  BY <1>d
<1>e. /\ e \in Seq(Cell) /\ Len(e) = Len(d) + 4
      /\ \A i \in 1 .. Len(d) : e[i] = d[i]
      /\ \A i \in 1 .. 4 : e[Len(d) + i] = <<0, i, 4>>
  BY <1>0, <1>ds, JoinHex, Zenon
<1> HIDE DEF e
<1>es. e \in Seq(Cell)
  BY <1>e
<1>f. /\ f \in Seq(Cell) /\ Len(f) = Len(e) + Len(s)
      /\ \A i \in 1 .. Len(e) : f[i] = e[i]
      /\ \A i \in 1 .. Len(s) : f[Len(e) + i] = s[i]
  BY <1>ss, <1>es
<1> HIDE DEF f
<1>fs. f \in Seq(Cell)
  BY <1>f
<1>4. Len(c) = 6 /\ Len(v) = 4 /\ Len(w) = 6
  BY <1>a, <1>b, <1>c, <1>u, <1>v, <1>w
<1>5. Len(d) = 12 /\ Len(e) = 16
  BY <1>4, <1>d, <1>e
<1>6. Len(f) = IF t = None THEN 16 ELSE 17
  BY <1>5, <1>f, <1>s
<1>7. /\ block \in Seq(Cell)
      /\ Len(block) = Len(f) + 6
      /\ \A i \in 1 .. 3 : block[1 + i] = <<Class.config, i, 3>>
      /\ block[5] = <<instruction, 1, 1>>
      /\ \A i \in 1 .. Len(f) : block[5 + i] = f[i]
  BY <1>3, <1>fs, BlockCells, Zenon
<1> HIDE DEF block
<1>8. ASSUME NEW i \in 1 .. 6 PROVE block[11 + i] = w[i]
  <2>1. i \in 1 .. Len(w) /\ 6 + i \in 1 .. Len(d) /\ 6 + i \in 1 .. Len(e) /\ 6 + i \in 1 .. Len(f)
    BY <1>4, <1>5, <1>6
  <2>2. d[6 + i] = w[i]
    BY <1>4, <1>d, <2>1
  <2>3. e[6 + i] = d[6 + i]
    BY <1>e, <2>1
  <2>4. f[6 + i] = e[6 + i]
    BY <1>f, <2>1
  <2>5. block[5 + (6 + i)] = f[6 + i]
    BY <1>7, <2>1
  <2>6. 5 + (6 + i) = 11 + i
    OBVIOUS
  <2> QED BY <2>2, <2>3, <2>4, <2>5, <2>6
<1>9. ASSUME NEW i \in 1 .. 2
      PROVE  /\ block[11 + i] = <<location.page, i, 2>>
             /\ block[13 + i] = <<location.element, i, 2>>
             /\ block[15 + i] = <<location.event, i, 2>>
  <2>1. w[i] = <<location.page, i, 2>>
    <3>1. i \in 1 .. Len(u) /\ i \in 1 .. Len(v)
      BY <1>4, <1>u
    <3> QED BY <1>u, <1>v, <1>w, <3>1
  <2>2. w[2 + i] = <<location.element, i, 2>>
    <3>1. v[Len(u) + i] = <<location.element, i, 2>> /\ Len(u) = 2
      BY <1>u, <1>v
    <3>2. 2 + i \in 1 .. Len(v)
      BY <1>4
    <3>3. w[2 + i] = v[2 + i]
      BY <1>w, <3>2
    <3> QED BY <3>1, <3>3
  <2>3. w[4 + i] = <<location.event, i, 2>>
    BY <1>4, <1>w
  <2>4. /\ block[11 + i] = w[i]
        /\ block[11 + (2 + i)] = w[2 + i]
        /\ block[11 + (4 + i)] = w[4 + i]
    BY <1>8
  <2>5. 11 + (2 + i) = 13 + i /\ 11 + (4 + i) = 15 + i
    OBVIOUS
  <2> QED BY <2>1, <2>2, <2>3, <2>4, <2>5
<1>10. t # None => block[22] = <<t>>
  <2> SUFFICES ASSUME t # None PROVE block[22] = <<t>>
    OBVIOUS
  <2>1. Len(s) = 1 /\ s[1] = <<t>> /\ 1 \in 1 .. Len(s)
    BY <1>s
  <2>2. f[17] = <<t>>
    BY <1>5, <1>f, <2>1
  <2>3. 17 \in 1 .. Len(f)
    BY <1>6
  <2>4. block[5 + 17] = f[17]
    BY <1>7, <2>3
  <2> QED BY <2>2, <2>4
<1>11. Len(block) = IF t = None THEN 22 ELSE 23
  BY <1>6, <1>7
<1> QED BY <1>2, <1>7, <1>9, <1>10, <1>11

\* A number is read back from the cells it was written to.
LEMMA ParseHexFinds ==
  ASSUME NEW cells \in Seq(Cell), NEW offset \in Nat, NEW width \in 1 .. 4, NEW n \in Int,
         offset + width <= Len(cells),
         \A i \in 1 .. width : cells[offset + i] = <<n, i, width>>
  PROVE  ParseHex(cells, offset, width) = n
<1>1. ASSUME NEW i \in 1 .. width
      PROVE  Len(cells[offset + i]) = 3 /\ cells[offset + i][2] = i
  <2>1. cells[offset + i] = <<n, i, width>>
    OBVIOUS
  <2>2. Len(<<n, i, width>>) = 3 /\ <<n, i, width>>[2] = i
    OBVIOUS
  <2> QED BY <2>1, <2>2
<1>2. cells[offset + 1][1] = n
  <2>1. 1 \in 1 .. width
    OBVIOUS
  <2>2. cells[offset + 1] = <<n, 1, width>>
    BY <2>1
  <2> QED BY <2>2
<1> QED BY <1>1, <1>2 DEF ParseHex

Coordinates == [dx : Int, dy : Int]

\* The coordinates that packets are built from.
LEMMA WireType ==
  /\ \A target \in Coordinates : Wire(target) \in Coordinates
  /\ Host \in Coordinates /\ Broadcast \in Coordinates /\ Here \in Coordinates
BY ProvisionAssumption DEF Wire, ToWire, Host, Broadcast, Coordinates

\* A valid target is a pair of coordinates.
LEMMA TargetType ==
  ASSUME NEW args \in TargetArgs, ValidTarget(args)
  PROVE  ResolveTarget(args) \in Coordinates
<1>1. CASE DOMAIN args = {}
  BY <1>1, WireType DEF ResolveTarget
<1>2. CASE DOMAIN args # {}
  <2>1. DOMAIN args = {"dx", "dy"}
    BY <1>2 DEF ValidTarget
  <2>2. args \in [{"dx", "dy"} -> Nat]
    BY <2>1, ProvisionAssumption
  <2>3. args = [dx |-> args.dx, dy |-> args.dy] /\ args.dx \in Nat /\ args.dy \in Nat
    BY <2>2
  <2>4. ResolveTarget(args) = [dx |-> args.dx, dy |-> args.dy]
    BY <1>2, <2>3 DEF ResolveTarget
  <2> QED BY <2>3, <2>4 DEF Coordinates
<1> QED BY <1>1, <1>2

-----------------------------------------------------------------------------
(* What a packet says                                                      *)

\* The module hears what is sent to it or to everybody.
Heard(target) == Wire(target) \in {Wire(Here), Wire(Broadcast)}

\* A packet is heard where its target coordinates say.
LEMMA PacketTarget ==
  ASSUME NEW source \in Coordinates, NEW target \in Coordinates,
         NEW block \in Seq(Cell)
  PROVE  Hears(Here, EncodePacket(source, Wire(target), block)) <=> Heard(target)
<1> DEFINE to == Wire(target)
           packet == EncodePacket(source, to, block)
<1>1. to \in Coordinates /\ to.dx \in Int /\ to.dy \in Int
  BY WireType DEF Coordinates
<1>2. to = [dx |-> to.dx, dy |-> to.dy]
  BY DEF Wire
<1>3. /\ packet \in Seq(Cell)
      /\ Len(packet) = Len(block) + 27
      /\ \A i \in 1 .. 2 : packet[14 + i] = <<to.dx, i, 2>> /\ packet[16 + i] = <<to.dy, i, 2>>
  <2>1. to \in [dx : Int, dy : Int] /\ source \in [dx : Int, dy : Int]
    BY <1>1 DEF Coordinates
  <2> HIDE DEF to
  <2> QED BY <2>1, PacketCells
<1> HIDE DEF packet, to
<1>4. Len(packet) \in Nat /\ 14 + 2 <= Len(packet) /\ 16 + 2 <= Len(packet)
  BY <1>3
<1>5. ParseHex(packet, 14, 2) = to.dx
  <2>1. \A i \in 1 .. 2 : packet[14 + i] = <<to.dx, i, 2>>
    BY <1>3
  <2>2. 14 \in Nat /\ 2 \in 1 .. 4
    OBVIOUS
  <2> QED BY <1>1, <1>3, <1>4, <2>1, <2>2, ParseHexFinds
<1>6. ParseHex(packet, 16, 2) = to.dy
  <2>1. \A i \in 1 .. 2 : packet[16 + i] = <<to.dy, i, 2>>
    BY <1>3
  <2>2. 16 \in Nat /\ 2 \in 1 .. 4
    OBVIOUS
  <2> QED BY <1>1, <1>3, <1>4, <2>1, <2>2, ParseHexFinds
<1> QED BY <1>2, <1>5, <1>6 DEF Hears, Heard, packet, to

\* A packet says where it comes from.
LEMMA PacketSource ==
  ASSUME NEW source \in Coordinates, NEW target \in Coordinates,
         NEW block \in Seq(Cell)
  PROVE  SourceOf(EncodePacket(Wire(source), target, block)) = source
<1> DEFINE packet == EncodePacket(Wire(source), target, block)
           from == Wire(source)
<1>1. from \in Coordinates /\ from.dx \in Int /\ from.dy \in Int
  BY WireType DEF Coordinates
<1>2. from.dx - 127 = source.dx /\ from.dy - 127 = source.dy
  BY DEF Wire, ToWire, Coordinates
<1> HIDE DEF from
<1>3. /\ packet \in Seq(Cell)
      /\ Len(packet) = Len(block) + 27
      /\ \A i \in 1 .. 2 : packet[10 + i] = <<from.dx, i, 2>> /\ packet[12 + i] = <<from.dy, i, 2>>
  BY <1>1, PacketCells DEF from, Coordinates
<1> HIDE DEF packet
<1>4. Len(packet) \in Nat /\ 10 + 2 <= Len(packet) /\ 12 + 2 <= Len(packet)
  BY <1>3
<1>5. ParseHex(packet, 10, 2) = from.dx
  <2>1. \A i \in 1 .. 2 : packet[10 + i] = <<from.dx, i, 2>>
    BY <1>3
  <2>2. 10 \in Nat /\ 2 \in 1 .. 4
    OBVIOUS
  <2> QED BY <1>1, <1>3, <1>4, <2>1, <2>2, ParseHexFinds
<1>6. ParseHex(packet, 12, 2) = from.dy
  <2>1. \A i \in 1 .. 2 : packet[12 + i] = <<from.dy, i, 2>>
    BY <1>3
  <2>2. 12 \in Nat /\ 2 \in 1 .. 4
    OBVIOUS
  <2> QED BY <1>1, <1>3, <1>4, <2>1, <2>2, ParseHexFinds
<1>7. SourceOf(packet) = [dx |-> source.dx, dy |-> source.dy]
  BY <1>2, <1>5, <1>6 DEF SourceOf
<1>8. source = [dx |-> source.dx, dy |-> source.dy]
  BY DEF Coordinates
<1> QED BY <1>7, <1>8 DEF packet

\* The class block of a packet is the block it was built from.
LEMMA PacketBlock ==
  ASSUME NEW source \in Coordinates, NEW target \in Coordinates,
         NEW block \in Seq(Cell)
  PROVE  ClassBlock(EncodePacket(source, target, block)) = block
<1> DEFINE packet == EncodePacket(source, target, block)
<1>1. /\ packet \in Seq(Cell)
      /\ Len(packet) = Len(block) + 27
      /\ \A i \in 1 .. Len(block) : packet[23 + i] = block[i]
  BY PacketCells DEF Coordinates
<1> HIDE DEF packet
<1> DEFINE found == SubSeq(packet, 24, Len(packet) - 4)
<1>2. found = [i \in 1 .. Len(block) |-> packet[23 + i]]
  BY <1>1
<1>3. found = block
  BY <1>1, <1>2
<1> QED BY <1>3 DEF packet, ClassBlock

\* A config packet says its location and its script.
LEMMA ConfigSays ==
  ASSUME NEW source \in Coordinates, NEW target \in Coordinates,
         NEW instruction \in Int, NEW location \in Place, NEW t \in Text \cup {None}
  PROVE  LET packet == EncodePacket(source, target, ConfigBlock(instruction, location, t)) IN
         /\ ConfigBlock(instruction, location, t) \in Seq(Cell)
         /\ LocationIn(packet) = location
         /\ ScriptIn(packet) = t
         /\ IsAbout(packet, Class.config, instruction)
<1> DEFINE block == ConfigBlock(instruction, location, t)
<1>1. /\ block \in Seq(Cell)
      /\ \A i \in 1 .. 3 : block[1 + i] = <<Class.config, i, 3>>
      /\ block[5] = <<instruction, 1, 1>>
      /\ \A i \in 1 .. 2 : /\ block[11 + i] = <<location.page, i, 2>>
                           /\ block[13 + i] = <<location.element, i, 2>>
                           /\ block[15 + i] = <<location.event, i, 2>>
      /\ Len(block) = IF t = None THEN 22 ELSE 23
      /\ t # None => block[22] = <<t>>
  BY ConfigCells
<1> HIDE DEF block
<1>2. ClassBlock(EncodePacket(source, target, block)) = block
  BY <1>1, PacketBlock
<1>3. Len(block) \in Nat /\ Len(block) >= 22
  BY <1>1
<1>4. /\ location.page \in Int /\ location.element \in Int /\ location.event \in Int
      /\ location = [page |-> location.page, element |-> location.element,
                     event |-> location.event]
  BY DEF Place
<1>5. ParseHex(block, 11, 2) = location.page
  <2>1. \A i \in 1 .. 2 : block[11 + i] = <<location.page, i, 2>>
    BY <1>1
  <2>2. 11 \in Nat /\ 2 \in 1 .. 4 /\ 11 + 2 <= Len(block)
    BY <1>3
  <2> QED BY <1>1, <1>4, <2>1, <2>2, ParseHexFinds
<1>6. ParseHex(block, 13, 2) = location.element
  <2>1. \A i \in 1 .. 2 : block[13 + i] = <<location.element, i, 2>>
    BY <1>1
  <2>2. 13 \in Nat /\ 2 \in 1 .. 4 /\ 13 + 2 <= Len(block)
    BY <1>3
  <2> QED BY <1>1, <1>4, <2>1, <2>2, ParseHexFinds
<1>7. ParseHex(block, 15, 2) = location.event
  <2>1. \A i \in 1 .. 2 : block[15 + i] = <<location.event, i, 2>>
    BY <1>1
  <2>2. 15 \in Nat /\ 2 \in 1 .. 4 /\ 15 + 2 <= Len(block)
    BY <1>3
  <2> QED BY <1>1, <1>4, <2>1, <2>2, ParseHexFinds
<1>8. ParseHex(block, 1, 3) = Class.config
  <2>1. \A i \in 1 .. 3 : block[1 + i] = <<Class.config, i, 3>>
    BY <1>1
  <2>2. 1 \in Nat /\ 3 \in 1 .. 4 /\ 1 + 3 <= Len(block) /\ Class.config \in Int
    BY <1>3 DEF Class
  <2> QED BY <1>1, <2>1, <2>2, ParseHexFinds
<1>9. ParseHex(block, 4, 1) = instruction
  <2>1. \A i \in 1 .. 1 : block[4 + i] = <<instruction, i, 1>>
    BY <1>1
  <2>2. 4 \in Nat /\ 1 \in 1 .. 4 /\ 4 + 1 <= Len(block)
    BY <1>3
  <2> QED BY <1>1, <2>1, <2>2, ParseHexFinds
<1>10. LocationIn(EncodePacket(source, target, block)) = location
  BY <1>2, <1>4, <1>5, <1>6, <1>7 DEF LocationIn
<1>11. ScriptIn(EncodePacket(source, target, block)) = t
  <2>1. CASE t = None
    <3>1. ~ (Len(block) > 22)
      BY <1>1, <2>1
    <3> QED BY <1>2, <2>1, <3>1 DEF ScriptIn
  <2>2. CASE t # None
    <3>1. Len(block) > 22 /\ block[22][1] = t
      BY <1>1, <2>2
    <3> QED BY <1>2, <3>1 DEF ScriptIn
  <2> QED BY <2>1, <2>2
<1>12. IsAbout(EncodePacket(source, target, block), Class.config, instruction)
  BY <1>2, <1>8, <1>9 DEF IsAbout
<1> QED BY <1>1, <1>10, <1>11, <1>12 DEF block

Held == [Locations -> {None} \cup Text]

\* A page store is heard like any other packet.
LEMMA Reached ==
  ASSUME NEW target \in Coordinates
  PROVE  Reaches(target) <=> Heard(target)
<1>1. Class.pageStore \in Int /\ Instruction.execute \in Int /\ <<>> \in Seq(Cell)
  BY DEF Class, Instruction
<1>2. Block(Class.pageStore, Instruction.execute, <<>>) \in Seq(Cell)
  BY <1>1, BlockCells
<1> QED BY <1>2, PacketTarget, WireType DEF Reaches, EncodePageStore

\* What a config packet does to the slots.
LEMMA AfterWriteIs ==
  ASSUME NEW held, NEW target \in Coordinates, NEW location \in Place, NEW t \in Text
  PROVE  AfterWrite(held, EncodeConfig(target, location, t))
           = IF Heard(target) /\ location \in Locations
               THEN [held EXCEPT ![location] = t] ELSE held
<1> DEFINE packet == EncodePacket(Host, Wire(target), ConfigBlock(Instruction.execute, location, t))
<1>1. Instruction.execute \in Int /\ Wire(target) \in Coordinates /\ Host \in Coordinates
  BY WireType DEF Instruction
<1>2. /\ ConfigBlock(Instruction.execute, location, t) \in Seq(Cell)
      /\ LocationIn(packet) = location
      /\ ScriptIn(packet) = t
  BY <1>1, ConfigSays
<1>3. Hears(Here, packet) <=> Heard(target)
  BY <1>1, <1>2, PacketTarget
<1>4. EncodeConfig(target, location, t) = packet
  BY DEF EncodeConfig
<1> HIDE DEF packet
<1> QED BY <1>2, <1>3, <1>4 DEF AfterWrite

\* What a slot is found to hold.
LEMMA ReadSlotIs ==
  ASSUME NEW held \in Held, NEW target \in Coordinates, NEW location \in Place
  PROVE  ReadSlot(held, target, location)
           = IF Heard(target) /\ location \in Locations /\ held[location] # None
               THEN [from |-> Here, text |-> held[location]] ELSE None
<1> DEFINE packet == EncodePacket(Host, Wire(target),
                                  ConfigBlock(Instruction.fetch, location, None))
           report == EncodePacket(Wire(Here), Host,
                                  ConfigBlock(Instruction.report, location, held[location]))
           frames == IF Hears(Here, packet) /\ LocationIn(packet) \in Locations
                       THEN {Report(Here, LocationIn(packet), held[LocationIn(packet)])} ELSE {}
           reports == {[from |-> SourceOf(f), text |-> ScriptIn(f)] :
                    f \in {f \in frames :
                             /\ IsAbout(f, Class.config, Instruction.report)
                             /\ LocationIn(f) = location}}
<1>1. /\ Instruction.fetch \in Int /\ Instruction.report \in Int
      /\ Wire(target) \in Coordinates /\ Host \in Coordinates
      /\ Here \in Coordinates /\ Wire(Here) \in Coordinates
  BY WireType DEF Instruction
<1>2. /\ ConfigBlock(Instruction.fetch, location, None) \in Seq(Cell)
      /\ LocationIn(packet) = location
  BY <1>1, ConfigSays
<1>3. Hears(Here, packet) <=> Heard(target)
  BY <1>1, <1>2, PacketTarget
<1>4. ReadSlot(held, target, location)
        = IF \E r \in reports : r.text # None THEN CHOOSE r \in reports : TRUE ELSE None
  BY DEF ReadSlot, EncodeConfigFetch, ExtractReport
<1> HIDE DEF packet
<1>5. CASE ~ (Heard(target) /\ location \in Locations)
  <2>1. frames = {}
    BY <1>2, <1>3, <1>5
  <2>2. reports = {}
    BY <2>1
  <2> QED BY <1>4, <1>5, <2>2
<1>6. CASE Heard(target) /\ location \in Locations
  <2>1. held[location] \in Text \cup {None}
    BY <1>6 DEF Held
  <2>2. /\ ConfigBlock(Instruction.report, location, held[location]) \in Seq(Cell)
        /\ LocationIn(report) = location
        /\ ScriptIn(report) = held[location]
        /\ IsAbout(report, Class.config, Instruction.report)
    BY <1>1, <2>1, ConfigSays
  <2>3. SourceOf(report) = Here
    BY <1>1, <2>2, PacketSource
  <2>4. frames = {report}
    BY <1>2, <1>3, <1>6 DEF Report
  <2> HIDE DEF frames, report
  <2>5. reports = {[from |-> Here, text |-> held[location]]}
    BY <2>2, <2>3, <2>4
  <2> HIDE DEF reports
  <2>6. (CHOOSE r \in reports : TRUE) = [from |-> Here, text |-> held[location]]
    BY <2>5
  <2>7. (\E r \in reports : r.text # None) <=> held[location] # None
    BY <2>5
  <2> QED BY <1>4, <1>6, <2>6, <2>7
<1> QED BY <1>5, <1>6

-----------------------------------------------------------------------------
(* The slots, script by script                                             *)

\* Framing, encoding and normalising a script.
LEMMA TextKinds ==
  ASSUME NEW t \in Text
  PROVE  /\ NormalizeText(t) \in Text
         /\ FrameLua(t) \in Text
         /\ EncodeScript(t) \in Text
         /\ EmptyText \in Text
         /\ NormalizeText(NormalizeText(t)) = NormalizeText(t)
         /\ NormalizeText(EncodeScript(t)) = ExpectedReadback(t) => EncodeScript(t) = FrameLua(t)
         /\ FrameLua(NormalizeText(FrameLua(NormalizeText(t)))) = FrameLua(NormalizeText(t))
         /\ t # None
<1>1. t # None
  BY ProvisionAssumption
<1>2. NormalizeText(t) \in Text /\ FrameLua(t) \in Text /\ EncodeScript(t) \in Text
  BY DEF Text, NormalizeText, FrameLua, EncodeScript
<1>3. EmptyText \in Text
  BY ProvisionAssumption
<1>4. NormalizeText(NormalizeText(t)) = NormalizeText(t)
  BY DEF Text, NormalizeText
<1>5. FrameLua(NormalizeText(FrameLua(NormalizeText(t)))) = FrameLua(NormalizeText(t))
  BY DEF Text, NormalizeText, FrameLua
<1>6. NormalizeText(EncodeScript(t)) = ExpectedReadback(t) => EncodeScript(t) = FrameLua(t)
  <2>1. ASSUME NormalizeText(EncodeScript(t)) = ExpectedReadback(t)
        PROVE  EncodeScript(t) = FrameLua(t)
    <3>1. NormalizeText(EncodeScript(t)).other = 0
      BY DEF Text, NormalizeText, EncodeScript, FrameLua
    <3>2. ExpectedReadback(t).other = FrameLua(t).other
      BY DEF Text, NormalizeText, ExpectedReadback, FrameLua
    <3>3. FrameLua(t).other = 0
      BY <2>1, <3>1, <3>2
    <3> QED BY <3>3 DEF Text, EncodeScript, FrameLua
  <2> QED BY <2>1
<1> QED BY <1>1, <1>2, <1>3, <1>4, <1>5, <1>6

\* What a sequence of assets is.
IsAssets(assets) ==
  /\ Len(assets) \in Nat
  /\ \A i \in 1 .. Len(assets) : assets[i].slot.location \in Place /\ assets[i].text \in Text
  /\ \A i, j \in 1 .. Len(assets) :
       assets[i].slot.location = assets[j].slot.location => i = j

\* The slots after a write of each script, by induction on the scripts.
LEMMA WriteAllIs ==
  ASSUME NEW held \in Held, NEW target \in Coordinates, NEW assets, IsAssets(assets)
  PROVE  LET w == WriteAll(held, target, assets) IN
         /\ w \in Held
         /\ \A i \in 1 .. Len(assets) :
              Heard(target) /\ assets[i].slot.location \in Locations =>
                w[assets[i].slot.location] = EncodeScript(assets[i].text)
         /\ \A l \in Locations :
              (\A i \in 1 .. Len(assets) : assets[i].slot.location # l) => w[l] = held[l]
<1> DEFINE N == Len(assets)
           Spot(i) == assets[i].slot.location
           Script(i) == EncodeScript(assets[i].text)
           Packet(i) == EncodeConfig(target, Spot(i), Script(i))
           Runs(f) == f = [n \in 0 .. N |->
                             IF n = 0 THEN held ELSE AfterWrite(f[n - 1], Packet(n))]
           after == CHOOSE f : Runs(f)
<1>1. N \in Nat /\ \A n \in 1 .. N : Spot(n) \in Place /\ Script(n) \in Text
  BY TextKinds DEF IsAssets
<1>2. \A i, j \in 1 .. N : Spot(i) = Spot(j) => i = j
  BY DEF IsAssets
<1> HIDE DEF N, Spot, Script
<1>3. ASSUME NEW h \in Held, NEW n \in 1 .. N
      PROVE  /\ AfterWrite(h, Packet(n)) \in Held
             /\ Heard(target) /\ Spot(n) \in Locations =>
                  AfterWrite(h, Packet(n))[Spot(n)] = Script(n)
             /\ \A l \in Locations : l # Spot(n) => AfterWrite(h, Packet(n))[l] = h[l]
  <2>1. AfterWrite(h, Packet(n)) = IF Heard(target) /\ Spot(n) \in Locations
                                     THEN [h EXCEPT ![Spot(n)] = Script(n)] ELSE h
    BY <1>1, AfterWriteIs
  <2>2. Script(n) \in Text
    BY <1>1
  <2> HIDE DEF Packet
  <2> QED BY <2>1, <2>2 DEF Held
<1> HIDE DEF Packet
<1>4. \E f : Runs(f)
  <2> DEFINE Step == [n \in 1 .. N |-> [h \in Held |-> AfterWrite(h, Packet(n))]]
  <2>1. Step \in [1 .. N -> [Held -> Held]]
    BY <1>3
  <2>2. \A h \in Held, n \in 1 .. N : Step[n][h] = AfterWrite(h, Packet(n))
    OBVIOUS
  <2> HIDE DEF Step
  <2>3. PICK f \in [0 .. N -> Held] : f[0] = held /\ \A n \in 1 .. N : f[n] = Step[n][f[n - 1]]
    BY <1>1, <2>1, Iterates
  <2>4. \A n \in 1 .. N : f[n - 1] \in Held
    BY <1>1
  <2>5. \A n \in 0 .. N : f[n] = IF n = 0 THEN held ELSE AfterWrite(f[n - 1], Packet(n))
    <3>1. \A n \in 1 .. N : f[n] = AfterWrite(f[n - 1], Packet(n))
      BY <2>2, <2>3, <2>4
    <3>2. \A n \in 0 .. N : n = 0 \/ n \in 1 .. N
      BY <1>1
    <3> QED BY <2>3, <3>1, <3>2
  <2>6. Runs(f)
    BY <2>5
  <2> QED BY <2>6
<1>6. after = [n \in 0 .. N |-> IF n = 0 THEN held ELSE AfterWrite(after[n - 1], Packet(n))]
  BY <1>4
<1>7. WriteAll(held, target, assets) = after[N]
  BY DEF WriteAll, N, Spot, Script, Packet
<1> HIDE DEF after
<1>8. after[0] = held /\ \A n \in 1 .. N : after[n] = AfterWrite(after[n - 1], Packet(n))
  BY <1>1, <1>6
<1> DEFINE Right == {k \in Nat : k <= N =>
                       /\ after[k] \in Held
                       /\ \A i \in 1 .. k : Heard(target) /\ Spot(i) \in Locations =>
                            after[k][Spot(i)] = Script(i)
                       /\ \A l \in Locations :
                            (\A i \in 1 .. k : Spot(i) # l) => after[k][l] = held[l]}
<1>9. Nat \subseteq Right
  <2>1. 0 \in Right
    BY <1>8
  <2>2. ASSUME NEW k \in Nat, k \in Right PROVE k + 1 \in Right
    <3> DEFINE n == k + 1
    <3> SUFFICES ASSUME n <= N
                 PROVE  /\ after[n] \in Held
                        /\ \A i \in 1 .. n : Heard(target) /\ Spot(i) \in Locations =>
                             after[n][Spot(i)] = Script(i)
                        /\ \A l \in Locations :
                             (\A i \in 1 .. n : Spot(i) # l) => after[n][l] = held[l]
      OBVIOUS
    <3>1. n \in 1 .. N /\ n - 1 = k /\ k <= N
      BY <1>1
    <3>2. /\ after[k] \in Held
          /\ \A i \in 1 .. k : Heard(target) /\ Spot(i) \in Locations =>
               after[k][Spot(i)] = Script(i)
          /\ \A l \in Locations : (\A i \in 1 .. k : Spot(i) # l) => after[k][l] = held[l]
      BY <2>2, <3>1
    <3>3. after[n] = AfterWrite(after[k], Packet(n))
      BY <1>8, <3>1
    <3>4. /\ after[n] \in Held
          /\ Heard(target) /\ Spot(n) \in Locations => after[n][Spot(n)] = Script(n)
          /\ \A l \in Locations : l # Spot(n) => after[n][l] = after[k][l]
      BY <1>3, <3>1, <3>2, <3>3
    <3>5. ASSUME NEW i \in 1 .. n, Heard(target), Spot(i) \in Locations
          PROVE  after[n][Spot(i)] = Script(i)
      <4>1. CASE i = n
        BY <3>4, <3>5, <4>1
      <4>2. CASE i # n
        <5>1. i \in 1 .. k
          BY <4>2
        <5>3. i \in 1 .. N
          BY <1>1, <3>1, <5>1
        <5>2. Spot(i) # Spot(n)
          BY <1>2, <3>1, <4>2, <5>3
        <5> QED BY <3>2, <3>4, <3>5, <5>1, <5>2
      <4> QED BY <4>1, <4>2
    <3>6. ASSUME NEW l \in Locations, \A i \in 1 .. n : Spot(i) # l
          PROVE  after[n][l] = held[l]
      <4>1. (\A i \in 1 .. k : Spot(i) # l) /\ l # Spot(n)
        BY <3>1, <3>6
      <4> QED BY <3>2, <3>4, <4>1
    <3> QED BY <3>4, <3>5, <3>6
  <2> HIDE DEF Right
  <2> QED BY <2>1, <2>2, Induct
<1>10. /\ after[N] \in Held
       /\ \A i \in 1 .. N : Heard(target) /\ Spot(i) \in Locations =>
            after[N][Spot(i)] = Script(i)
       /\ \A l \in Locations : (\A i \in 1 .. N : Spot(i) # l) => after[N][l] = held[l]
  BY <1>1, <1>9
<1> QED BY <1>7, <1>10 DEF N, Spot, Script

-----------------------------------------------------------------------------
(* The install order                                                       *)

\* InstallOrder permutes the slots: every slot has a place of its own, which
\* is the number of slots that go before it.
LEMMA OrderPermutes ==
  ASSUME NEW all, NEW n \in Nat, DOMAIN all = 1 .. n,
         \A i \in 1 .. n : all[i].order \in Nat
  PROVE  \E at \in [1 .. n -> 1 .. n] :
           /\ InstallOrder(all) = [k \in 1 .. n |-> all[at[k]]]
           /\ \A j, k \in 1 .. n : at[j] = at[k] => j = k
           /\ \A i \in 1 .. n : \E k \in 1 .. n : at[k] = i
<1> DEFINE earlier(i) == {j \in DOMAIN all : GoesBefore(all, j, i)}
           rank == [i \in 1 .. n |-> Cardinality(earlier(i))]
<1>1. \A i, j, k \in 1 .. n :
        /\ ~ GoesBefore(all, i, i)
        /\ i = j \/ GoesBefore(all, i, j) \/ GoesBefore(all, j, i)
        /\ GoesBefore(all, i, j) /\ GoesBefore(all, j, k) => GoesBefore(all, i, k)
  BY DEF GoesBefore
<1>2. IsFiniteSet(1 .. n) /\ Cardinality(1 .. n) = n
  BY FS_Interval
<1>3. IsFiniteSet(0 .. n - 1) /\ Cardinality(0 .. n - 1) = n
  BY FS_Interval
<1>4. ASSUME NEW i \in 1 .. n
      PROVE  IsFiniteSet(earlier(i)) /\ Cardinality(earlier(i)) \in 0 .. n - 1
  <2>1. IsFiniteSet((1 .. n) \ {i}) /\ Cardinality((1 .. n) \ {i}) = n - 1
    BY <1>2, FS_RemoveElement
  <2>2. earlier(i) \in SUBSET ((1 .. n) \ {i})
    BY <1>1
  <2> HIDE DEF earlier
  <2>3. IsFiniteSet(earlier(i)) /\ Cardinality(earlier(i)) <= n - 1
    BY <2>1, <2>2, FS_Subset
  <2>4. Cardinality(earlier(i)) \in Nat
    BY <2>3, FS_CardinalityType
  <2> QED BY <2>3, <2>4
<1>5. ASSUME NEW i \in 1 .. n, NEW j \in 1 .. n, GoesBefore(all, i, j)
      PROVE  Cardinality(earlier(i)) # Cardinality(earlier(j))
  <2>1. earlier(i) \in SUBSET earlier(j)
    BY <1>1, <1>5
  <2>2. i \in earlier(j) /\ i \notin earlier(i)
    BY <1>1, <1>5
  <2> HIDE DEF earlier
  <2> QED BY <1>4, <2>1, <2>2, FS_Subset
<1> HIDE DEF earlier
<1>6. rank \in [1 .. n -> 0 .. n - 1]
  BY <1>4
<1>7. \A i, j \in 1 .. n : rank[i] = rank[j] => i = j
  BY <1>1, <1>5
<1>8. rank \in Injection(1 .. n, 0 .. n - 1)
  BY <1>6, <1>7 DEF Injection, IsInjective
<1>9. rank \in Surjection(1 .. n, 0 .. n - 1)
  BY <1>2, <1>3, <1>8, FS_Injection
<1> HIDE DEF rank
<1> DEFINE at == [k \in 1 .. n |->
                  CHOOSE i \in DOMAIN all : Cardinality(earlier(i)) = k - 1]
<1>10. ASSUME NEW k \in 1 .. n PROVE at[k] \in 1 .. n /\ rank[at[k]] = k - 1
  <2>1. k - 1 \in 0 .. n - 1
    OBVIOUS
  <2>2. \E i \in DOMAIN all : Cardinality(earlier(i)) = k - 1
    BY <1>9, <2>1 DEF Surjection, rank
  <2>3. at[k] \in DOMAIN all /\ Cardinality(earlier(at[k])) = k - 1
    BY <2>2
  <2> QED BY <2>3 DEF rank
<1>12. InstallOrder(all) = [k \in 1 .. n |-> all[at[k]]]
  BY DEF InstallOrder, earlier
<1>15. at \in [1 .. n -> 1 .. n]
  BY <1>10
<1> HIDE DEF at
<1>13. \A j, k \in 1 .. n : at[j] = at[k] => j = k
  <2> SUFFICES ASSUME NEW j \in 1 .. n, NEW k \in 1 .. n, at[j] = at[k] PROVE j = k
    OBVIOUS
  <2>1. rank[at[j]] = j - 1 /\ rank[at[k]] = k - 1
    BY <1>10
  <2> QED BY <2>1
<1>14. ASSUME NEW i \in 1 .. n PROVE \E k \in 1 .. n : at[k] = i
  <2>1. rank[i] \in 0 .. n - 1
    BY <1>6
  <2> DEFINE k == rank[i] + 1
  <2>3. k \in 1 .. n /\ k - 1 = rank[i]
    BY <2>1
  <2> HIDE DEF k
  <2>4. at[k] \in 1 .. n /\ rank[at[k]] = rank[i]
    BY <1>10, <2>3
  <2>5. at[k] = i
    BY <1>7, <2>4
  <2> QED BY <2>3, <2>5
<1> QED BY <1>12, <1>13, <1>14, <1>15

\* A directory that loads, or a backup of one.
IsLoaded(dir) ==
  /\ dir.manifest \in Manifest
  /\ \A path \in AssetsNamed(dir) : dir.files[path] \in Text
  /\ ManifestIsValid(dir.manifest)

\* The assets of a directory are its slots, each with the script of its file.
LEMMA AssetsAre ==
  ASSUME NEW dir, IsLoaded(dir)
  PROVE  LET a == Assets(dir) IN
         /\ IsAssets(a)
         /\ DOMAIN a = 1 .. Len(a)
         /\ \A i \in 1 .. Len(a) :
              /\ a[i].slot \in Range(dir.manifest.slots)
              /\ a[i].text = NormalizeText(dir.files[a[i].slot.asset])
         /\ \A slot \in Range(dir.manifest.slots) :
              \E i \in 1 .. Len(a) : a[i].slot = slot
         /\ \A i, j \in 1 .. Len(a) : a[i].slot.name = a[j].slot.name => i = j
<1> DEFINE all == dir.manifest.slots
           n == Len(all)
           a == Assets(dir)
           order == InstallOrder(all)
<1>1. all \in Seq(Slot)
  BY DEF IsLoaded, Manifest
<1>2. n \in Nat /\ DOMAIN all = 1 .. n /\ \A i \in 1 .. n : all[i] \in Slot
  BY <1>1
<1>3. \A i \in 1 .. n : /\ all[i].order \in Nat
                        /\ all[i].location \in Place
                        /\ all[i].asset \in AssetsNamed(dir)
  BY <1>2 DEF Slot, Place, AssetsNamed, Range
<1>4. \A i, j \in 1 .. n : /\ all[i].location = all[j].location => i = j
                           /\ all[i].name = all[j].name => i = j
  BY <1>2 DEF IsLoaded, ManifestIsValid, NoneTwice, IsInjective, Column
<1>5. \A i \in 1 .. n : dir.files[all[i].asset] \in Text
  BY <1>3 DEF IsLoaded
<1>6. PICK at \in [1 .. n -> 1 .. n] :
           /\ order = [k \in 1 .. n |-> all[at[k]]]
           /\ \A j, k \in 1 .. n : at[j] = at[k] => j = k
           /\ \A i \in 1 .. n : \E k \in 1 .. n : at[k] = i
  <2> HIDE DEF all, n
  <2> QED BY <1>2, <1>3, OrderPermutes
<1>7. a = [i \in 1 .. n |->
             [slot |-> all[at[i]], text |-> NormalizeText(dir.files[all[at[i]].asset])]]
  BY <1>6 DEF Assets
<1>8. Len(a) = n /\ DOMAIN a = 1 .. n
  <2> HIDE DEF n
  <2> QED BY <1>2, <1>7
<1>9. \A i \in 1 .. n :
        /\ at[i] \in 1 .. n
        /\ a[i].slot = all[at[i]]
        /\ a[i].text = NormalizeText(dir.files[a[i].slot.asset])
        /\ a[i].text \in Text
        /\ a[i].slot \in Range(all)
        /\ a[i].slot.location \in Place
  <2> SUFFICES ASSUME NEW i \in 1 .. n
               PROVE  /\ at[i] \in 1 .. n
                      /\ a[i].slot = all[at[i]]
                      /\ a[i].text = NormalizeText(dir.files[a[i].slot.asset])
                      /\ a[i].text \in Text
                      /\ a[i].slot \in Range(all)
                      /\ a[i].slot.location \in Place
    OBVIOUS
  <2> HIDE DEF a, all, n
  <2>1. at[i] \in 1 .. n
    OBVIOUS
  <2>2. a[i].slot = all[at[i]] /\ a[i].text = NormalizeText(dir.files[all[at[i]].asset])
    BY <1>7
  <2>3. dir.files[all[at[i]].asset] \in Text /\ all[at[i]].location \in Place
    BY <1>3, <1>5, <2>1
  <2>4. NormalizeText(dir.files[all[at[i]].asset]) \in Text
    BY <2>3, TextKinds
  <2>5. all[at[i]] \in Range(all)
    BY <1>2, <2>1 DEF Range
  <2> QED BY <2>1, <2>2, <2>3, <2>4, <2>5
<1> HIDE DEF a, n, all, order
<1>10. \A i, j \in 1 .. n : /\ a[i].slot.location = a[j].slot.location => i = j
                            /\ a[i].slot.name = a[j].slot.name => i = j
  <2> SUFFICES ASSUME NEW i \in 1 .. n, NEW j \in 1 .. n
               PROVE  /\ a[i].slot.location = a[j].slot.location => i = j
                      /\ a[i].slot.name = a[j].slot.name => i = j
    OBVIOUS
  <2>1. at[i] \in 1 .. n /\ at[j] \in 1 .. n /\ a[i].slot = all[at[i]] /\ a[j].slot = all[at[j]]
    BY <1>9
  <2>2. at[i] = at[j] => i = j
    BY <1>6
  <2> QED BY <1>4, <2>1, <2>2
<1>11. \A slot \in Range(all) : \E i \in 1 .. n : a[i].slot = slot
  <2> SUFFICES ASSUME NEW j \in 1 .. n PROVE \E i \in 1 .. n : a[i].slot = all[j]
    BY <1>2 DEF Range
  <2>1. PICK i \in 1 .. n : at[i] = j
    BY <1>6
  <2> QED BY <1>9, <2>1
<1>12. IsAssets(a)
  BY <1>2, <1>8, <1>9, <1>10 DEF IsAssets
<1> QED BY <1>8, <1>9, <1>10, <1>11, <1>12 DEF a, all

\* What it says about a directory that an installation has succeeded.
LEMMA HoldsMeans ==
  ASSUME NEW dir, IsLoaded(dir), NEW held \in Held, NEW target \in Coordinates,
         Holds(WriteAll(held, target, Assets(dir)), target, dir)
  PROVE  /\ OnModule(dir) /\ PlainScripts(dir)
         /\ \A slot \in Range(dir.manifest.slots) :
              WriteAll(held, target, Assets(dir))[slot.location]
                = FrameLua(NormalizeText(dir.files[slot.asset]))
<1> DEFINE a == Assets(dir)
           w == WriteAll(held, target, a)
<1>1. /\ IsAssets(a)
      /\ DOMAIN a = 1 .. Len(a)
      /\ \A i \in 1 .. Len(a) : a[i].text = NormalizeText(dir.files[a[i].slot.asset])
      /\ \A slot \in Range(dir.manifest.slots) : \E i \in 1 .. Len(a) : a[i].slot = slot
  BY AssetsAre
<1>2. Statuses(w, target, dir) = {"match"}
  BY DEF Holds
<1> HIDE DEF a
<1>3. /\ w \in Held
      /\ \A i \in 1 .. Len(a) : Heard(target) /\ a[i].slot.location \in Locations =>
           w[a[i].slot.location] = EncodeScript(a[i].text)
  BY <1>1, WriteAllIs
<1> HIDE DEF w
<1>4. ASSUME NEW i \in 1 .. Len(a)
      PROVE  /\ a[i].slot.location \in Locations
             /\ w[a[i].slot.location] = FrameLua(a[i].text)
             /\ a[i].text.other = 0
  <2> DEFINE asset == a[i]
             l == asset.slot.location
             read == ReadSlot(w, target, l)
  <2>1. l \in Place /\ asset.text \in Text
    BY <1>1 DEF IsAssets
  <2>2. SlotStatus(w, target, asset) = "match"
    <3>1. asset \in Range(a)
      BY <1>1 DEF Range
    <3> HIDE DEF asset
    <3>2. SlotStatus(w, target, asset) \in Statuses(w, target, dir)
      BY <3>1 DEF Statuses, a
    <3> QED BY <1>2, <3>2
  <2> HIDE DEF asset
  <2>3. read # None /\ NormalizeText(read.text) = ExpectedReadback(asset.text)
    BY <2>2 DEF SlotStatus
  <2>4. read = IF Heard(target) /\ l \in Locations /\ w[l] # None
                 THEN [from |-> Here, text |-> w[l]] ELSE None
    BY <1>3, <2>1, ReadSlotIs
  <2> HIDE DEF read
  <2>5. Heard(target) /\ l \in Locations
    BY <2>3, <2>4
  <2>6. read.text = w[l]
    BY <2>3, <2>4
  <2>7. w[l] = EncodeScript(asset.text)
    BY <1>3, <2>5 DEF asset
  <2>8. EncodeScript(asset.text) = FrameLua(asset.text)
    BY <2>1, <2>3, <2>6, <2>7, TextKinds
  <2>9. EncodeScript(asset.text).other = 0 /\ FrameLua(asset.text).other = asset.text.other
    BY <2>1 DEF Text, EncodeScript, FrameLua
  <2> QED BY <2>5, <2>7, <2>8, <2>9 DEF asset
<1>5. PlainScripts(dir)
  BY <1>1, <1>4 DEF PlainScripts, Range, a
<1>6. ASSUME NEW slot \in Range(dir.manifest.slots)
      PROVE  /\ slot.location \in Locations
             /\ w[slot.location] = FrameLua(NormalizeText(dir.files[slot.asset]))
  <2>1. PICK i \in 1 .. Len(a) : a[i].slot = slot
    BY <1>1
  <2> QED BY <1>1, <1>4, <2>1
<1> QED BY <1>5, <1>6 DEF OnModule, a, w

\* What a slot is backed up as, when the slots are like this.
Taken(held, slot) ==
  IF slot.location \in Locations /\ held[slot.location] # None
    THEN NormalizeText(held[slot.location]) ELSE EmptyText

\* A backup as it is written.
IsBackup(dir) ==
  /\ IsLoaded(dir)
  /\ dir.toml = "ok"
  /\ DOMAIN dir.files = AssetsNamed(dir)
  /\ \A path \in AssetsNamed(dir) : PathStaysInside(path)
  /\ Installable(EmptyText)

\* A backup is a directory of the same slots, with what they hold.
LEMMA CaptureIs ==
  ASSUME NEW dir, IsLoaded(dir), Loads(dir), slots \in Held, NEW target \in Coordinates
  PROVE  LET b == Capture(dir, target) IN
         /\ b \in Backups(dir)
         /\ IsBackup(b)
         /\ Heard(target) =>
              \A path \in AssetsNamed(b) :
                \E slot \in Range(b.manifest.slots) :
                  slot.asset = path /\ b.files[path] = Taken(slots, slot)
<1> DEFINE a == Assets(dir)
           n == Len(a)
           all == SlotsOf(dir)
           S == Range(dir.manifest.slots)
           captured == Captured(dir, target)
           last_(path) == Max({i \in DOMAIN all : all[i].asset = path})
           files == [path \in Range(Column(all, "asset")) |-> captured[all[last_(path)]]]
           manifest == [layers |-> dir.manifest.layers, slots |-> all, fields |-> <<>>]
           b == Capture(dir, target)
<1>1. /\ n \in Nat
      /\ DOMAIN a = 1 .. n
      /\ \A i \in 1 .. n : a[i].slot \in S /\ a[i].slot.location \in Place
      /\ \A slot \in S : \E i \in 1 .. n : a[i].slot = slot
      /\ \A i, j \in 1 .. n : a[i].slot.name = a[j].slot.name => i = j
      /\ \A i, j \in 1 .. n : a[i].slot.location = a[j].slot.location => i = j
  BY AssetsAre DEF IsAssets
<1>2. all = [i \in 1 .. n |-> a[i].slot]
  BY <1>1 DEF SlotsOf
<1>3. b = [toml |-> "ok", manifest |-> manifest, files |-> files]
  BY DEF Capture, BackupOf
<1> HIDE DEF a, n, all
<1>4. DOMAIN all = 1 .. n /\ \A i \in 1 .. n : all[i] \in S
  BY <1>1, <1>2
<1>5. Range(all) = S
  <2>1. \A slot \in S : \E i \in 1 .. n : all[i] = slot
    BY <1>1, <1>2
  <2> HIDE DEF S
  <2> QED BY <1>4, <2>1 DEF Range
<1>6. S \subseteq Slot
  BY DEF IsLoaded, Manifest, Range
<1>7. S # {}
  <2>1. dir.manifest.slots \in Seq(Slot) /\ dir.manifest.slots # <<>>
    BY DEF IsLoaded, ManifestIsValid, Manifest
  <2>2. 1 \in DOMAIN dir.manifest.slots
    BY <2>1
  <2> QED BY <2>2 DEF Range
<1>8. \A i, j \in 1 .. n : /\ all[i].name = all[j].name => i = j
                           /\ all[i].location = all[j].location => i = j
  BY <1>1, <1>2
<1>9. Range(Column(all, "asset")) = AssetsNamed(dir)
  <2>1. AssetsNamed(dir) = {slot.asset : slot \in Range(all)}
    BY <1>5 DEF AssetsNamed
  <2> QED BY <2>1 DEF Range, Column
<1> HIDE DEF S, manifest, files, captured, b
<1>10. manifest \in Manifest /\ ManifestIsValid(manifest)
  <2>1. all \in Seq(Slot)
    <3>1. \A i \in 1 .. n : a[i].slot \in Slot
      BY <1>1, <1>6
    <3> QED BY <1>1, <1>2, <3>1
  <2>2. manifest \in Manifest
    BY <2>1 DEF manifest, Manifest, IsLoaded
  <2>3. all # <<>>
    BY <1>5, <1>7 DEF Range
  <2>4. NoneTwice(all, "name") /\ NoneTwice(all, "location")
    BY <1>4, <1>8 DEF NoneTwice, IsInjective, Column
  <2>5. NoneTwice(<<>>, "name") /\ Range(Column(<<>>, "layer")) = {}
    BY DEF NoneTwice, IsInjective, Column, Range
  <2>6. LayersAreValid(dir.manifest.layers)
    BY DEF IsLoaded, ManifestIsValid
  <2>7. ManifestIsValid(manifest)
    BY <2>3, <2>4, <2>5, <2>6 DEF ManifestIsValid, manifest
  <2> QED BY <2>2, <2>7
<1>11. \A slot \in S : CaptureSlot(target, slot) =
         IF Heard(target) THEN Taken(slots, slot) ELSE EmptyText
  <2> SUFFICES ASSUME NEW slot \in S
               PROVE  CaptureSlot(target, slot) =
                        IF Heard(target) THEN Taken(slots, slot) ELSE EmptyText
    OBVIOUS
  <2>1. slot.location \in Place
    BY <1>6 DEF Slot, Place
  <2>2. ReadSlot(slots, target, slot.location)
          = IF Heard(target) /\ slot.location \in Locations /\ slots[slot.location] # None
              THEN [from |-> Here, text |-> slots[slot.location]] ELSE None
    BY <2>1, ReadSlotIs
  <2>3. slot.location \in Locations /\ slots[slot.location] # None =>
          [from |-> Here, text |-> slots[slot.location]] # None
    BY ProvisionAssumption DEF Held
  <2> QED BY <2>2, <2>3 DEF CaptureSlot, Taken
<1>12. \A path \in AssetsNamed(dir) :
         \E slot \in S : /\ slot.asset = path
                         /\ files[path] = CaptureSlot(target, slot)
  <2> SUFFICES ASSUME NEW path \in AssetsNamed(dir)
               PROVE  \E slot \in S : /\ slot.asset = path
                                      /\ files[path] = CaptureSlot(target, slot)
    OBVIOUS
  <2> DEFINE I == {i \in DOMAIN all : all[i].asset = path}
  <2>1. I \in SUBSET (1 .. n)
    BY <1>4
  <2>2. I # {}
    <3>1. PICK slot \in S : slot.asset = path
      BY DEF AssetsNamed, S
    <3>2. PICK i \in DOMAIN all : all[i] = slot
      BY <1>5 DEF Range
    <3> QED BY <3>1, <3>2
  <2> HIDE DEF I
  <2>3. Max(I) \in I
    BY <1>1, <2>1, <2>2, MaxExists
  <2> DEFINE slot == all[Max(I)]
  <2>4. slot \in S /\ slot.asset = path
    BY <1>4, <2>3 DEF I
  <2>5. files[path] = captured[slot]
    BY <1>9 DEF files, I
  <2>6. captured[slot] = CaptureSlot(target, slot)
    BY <1>5, <2>4 DEF captured, Captured, all
  <2> QED BY <2>4, <2>5, <2>6
<1>13. \A slot \in S : Taken(slots, slot) \in Text
  BY TextKinds, ProvisionAssumption DEF Taken, Held
<1>14. \A path \in AssetsNamed(dir) : files[path] \in Text
  BY <1>11, <1>12, <1>13, ProvisionAssumption
<1>15. files \in [AssetsNamed(dir) -> Text]
  BY <1>9, <1>14 DEF files
<1>16. b \in Backups(dir)
  BY <1>3, <1>10, <1>15 DEF Backups
<1>17. AssetsNamed(b) = AssetsNamed(dir) /\ Range(b.manifest.slots) = S
  BY <1>3, <1>5 DEF AssetsNamed, S, manifest
<1>18. \A path \in AssetsNamed(dir) : PathStaysInside(path)
  BY DEF Loads, AssetLoads, AssetsNamed
<1>19. Installable(EmptyText)
  <2>1. PICK slot \in S : AssetLoads(dir, slot.asset)
    BY <1>7 DEF Loads, S
  <2>2. slot.asset \in AssetsNamed(dir)
    BY DEF AssetsNamed, S
  <2> DEFINE t == dir.files[slot.asset]
  <2>3. t \in Text
    BY <2>2 DEF IsLoaded
  <2>4. Installable(NormalizeText(t))
    BY <2>1 DEF AssetLoads
  <2> HIDE DEF t
  <2>5. PrefixLength + t.ascii + t.other < MaxLua /\ t.ascii \in Nat /\ t.other \in Nat
    <3> DEFINE framed == FrameLua(NormalizeText(t))
    <3>1. framed.ascii = t.ascii /\ framed.other = t.other
      BY <2>3 DEF FrameLua, NormalizeText, Text
    <3>5. framed.crlf = FALSE
      BY <2>3 DEF FrameLua, NormalizeText, Text
    <3> HIDE DEF framed
    <3>6. (IF framed.crlf THEN 1 ELSE 0) = 0
      BY <3>5
    <3>2. FramedLength(framed) = PrefixLength + t.ascii + t.other + 0
      BY <3>1, <3>6 DEF FramedLength
    <3>3. t.ascii \in Nat /\ t.other \in Nat
      BY <2>3 DEF Text
    <3>4. PrefixLength + t.ascii + t.other + 0 < MaxLua
      BY <2>4, <3>2 DEF Installable, framed
    <3> QED BY <3>3, <3>4, ScriptTextAssumption
  <2>6. PrefixLength + 0 + 0 < MaxLua
    BY <2>5, ScriptTextAssumption
  <2> QED BY <2>6, ScriptTextAssumption DEF Installable, FramedLength, FrameLua, EmptyText
<1>20. IsBackup(b)
  <2>1. IsLoaded(b)
    BY <1>3, <1>10, <1>14, <1>17 DEF IsLoaded
  <2>2. b.toml = "ok" /\ DOMAIN b.files = AssetsNamed(b)
    BY <1>3, <1>15, <1>17
  <2> QED BY <1>17, <1>18, <1>19, <2>1, <2>2 DEF IsBackup
<1>21. Heard(target) =>
         \A path \in AssetsNamed(b) :
           \E slot \in Range(b.manifest.slots) :
             slot.asset = path /\ b.files[path] = Taken(slots, slot)
  <2>1. b.files = files
    BY <1>3
  <2> QED BY <1>11, <1>12, <1>17, <2>1
<1> QED BY <1>16, <1>20, <1>21 DEF b

\* Only this module and the broadcast are heard here.
LEMMA HeardIs ==
  ASSUME NEW target \in Coordinates
  PROVE  Heard(target) <=> target \in {Here, Broadcast}
<1>1. \A s, t \in Coordinates : Wire(s) = Wire(t) => s = t
  BY DEF Coordinates, Wire, ToWire
<1> QED BY <1>1, WireType DEF Heard

\* Who hears the tool acknowledges every page.
LEMMA StoredIs ==
  ASSUME NEW target \in Coordinates, NEW assets, IsAssets(assets), DOMAIN assets = 1 .. Len(assets),
         Heard(target)
  PROVE  PagesStored(target, assets)
<1> DEFINE block == Block(Class.pageStore, Instruction.acknowledge, <<>>)
           ack == EncodePacket(Wire(Here), Host, block)
<1>1. /\ Class.pageStore \in Int /\ Class.pageActive \in Int
      /\ Instruction.acknowledge \in Int /\ Instruction.execute \in Int
      /\ <<>> \in Seq(Cell)
      /\ Host \in Coordinates /\ Here \in Coordinates /\ Wire(Here) \in Coordinates
  BY WireType DEF Class, Instruction
<1>2. /\ block \in Seq(Cell)
      /\ Len(block) = Len(<<>>) + 6
      /\ \A i \in 1 .. 3 : block[1 + i] = <<Class.pageStore, i, 3>>
      /\ block[5] = <<Instruction.acknowledge, 1, 1>>
  <2> DEFINE none == <<>>
             class == Class.pageStore
             instruction == Instruction.acknowledge
             b == Block(class, instruction, none)
  <2>1. none \in Seq(Cell) /\ class \in Int /\ instruction \in Int
    BY <1>1
  <2> HIDE DEF none, class, instruction
  <2>2. /\ b \in Seq(Cell)
        /\ Len(b) = Len(none) + 6
        /\ \A i \in 1 .. 3 : b[1 + i] = <<class, i, 3>>
        /\ b[5] = <<instruction, 1, 1>>
    BY <2>1, BlockCells
  <2> QED BY <2>2 DEF none, class, instruction
<1>3. ClassBlock(ack) = block /\ SourceOf(ack) = Here
  BY <1>1, <1>2, PacketBlock, PacketSource
<1> HIDE DEF ack, block
<1>4. ParseHex(block, 1, 3) = Class.pageStore
  <2>1. 1 \in Nat /\ 3 \in 1 .. 4 /\ 1 + 3 <= Len(block)
    BY <1>2
  <2> QED BY <1>1, <1>2, <2>1, ParseHexFinds
<1>5. ParseHex(block, 4, 1) = Instruction.acknowledge
  <2>1. 4 \in Nat /\ 1 \in 1 .. 4 /\ 4 + 1 <= Len(block)
    BY <1>2
  <2>2. \A i \in 1 .. 1 : block[4 + i] = <<Instruction.acknowledge, i, 1>>
    BY <1>2
  <2> QED BY <1>1, <1>2, <2>1, <2>2, ParseHexFinds
<1>6. Acknowledged({ack}, target)
  <2>1. IsAbout(ack, Class.pageStore, Instruction.acknowledge)
    BY <1>3, <1>4, <1>5 DEF IsAbout
  <2> QED BY <1>3, <2>1, HeardIs DEF Acknowledged
<1>7. ASSUME NEW i \in 1 .. Len(assets)
      PROVE  Hears(Here, EncodePageActive(target, assets[i].slot.location.page))
  <2> DEFINE page == assets[i].slot.location.page
             turn == Block(Class.pageActive, Instruction.execute, Hex(2, page))
  <2>1. page \in Int
    BY DEF IsAssets, Place
  <2>2. Hex(2, page) \in Seq(Cell)
    <3>1. 2 \in 1 .. 4
      OBVIOUS
    <3> QED BY <2>1, <3>1, HexCells
  <2>3. turn \in Seq(Cell)
    BY <1>1, <2>2, BlockCells
  <2> HIDE DEF turn
  <2>4. Hears(Here, EncodePacket(Host, Wire(target), turn))
    BY <1>1, <2>3, PacketTarget
  <2> QED BY <2>4 DEF EncodePageActive, turn
<1>8. Hears(Here, EncodePageStore(target))
  BY Reached DEF Reaches
<1>9. Acknowledge(Here) = ack
  BY DEF Acknowledge, ack, block
<1> QED BY <1>6, <1>7, <1>8, <1>9 DEF PagesStored, Range

\* What inspection finds in a slot of the module.
LEMMA StatusIs ==
  ASSUME NEW held \in Held, NEW target \in Coordinates, Heard(target),
         NEW asset, asset.slot.location \in Place, asset.slot.location \in Locations
  PROVE  LET found == held[asset.slot.location] IN
         SlotStatus(held, target, asset)
           = IF found = None THEN "missing"
             ELSE IF NormalizeText(found) = ExpectedReadback(asset.text)
                    THEN "match" ELSE "drifted"
<1> DEFINE read == ReadSlot(held, target, asset.slot.location)
           found == held[asset.slot.location]
<1>1. found \in Text \cup {None}
  BY DEF Held
<1>2. read = IF found # None THEN [from |-> Here, text |-> found] ELSE None
  BY ReadSlotIs
<1>3. target \in {Here, Broadcast}
  BY HeardIs
<1>4. found # None => [from |-> Here, text |-> found] # None
  BY <1>1, ProvisionAssumption
<1> HIDE DEF read, found
<1>5. found # None => read # None /\ target \in {Broadcast, read.from} /\ read.text = found
  BY <1>2, <1>3, <1>4
<1> QED BY <1>2, <1>5 DEF SlotStatus, read, found

\* The scripts of a directory can be written, one after the other, to a
\* module that hears it and has the slots.
LEMMA HoldsWhen ==
  ASSUME NEW dir, IsLoaded(dir), NEW held \in Held, NEW target \in Coordinates,
         Heard(target), OnModule(dir), PlainScripts(dir)
  PROVE  Holds(WriteAll(held, target, Assets(dir)), target, dir)
<1> DEFINE a == Assets(dir)
           w == WriteAll(held, target, a)
<1>1. /\ IsAssets(a)
      /\ DOMAIN a = 1 .. Len(a)
      /\ \A i \in 1 .. Len(a) : a[i].slot \in Range(dir.manifest.slots)
      /\ \A slot \in Range(dir.manifest.slots) : \E i \in 1 .. Len(a) : a[i].slot = slot
  BY AssetsAre
<1>2. \A i \in 1 .. Len(a) : a[i].text.other = 0
  BY <1>1 DEF PlainScripts, Range
<1> HIDE DEF a
<1>3. PagesStored(target, a)
  BY <1>1, StoredIs
<1>4. /\ w \in Held
      /\ \A i \in 1 .. Len(a) : a[i].slot.location \in Locations =>
           w[a[i].slot.location] = EncodeScript(a[i].text)
  BY <1>1, WriteAllIs
<1> HIDE DEF w
<1>5. ASSUME NEW i \in 1 .. Len(a) PROVE SlotStatus(w, target, a[i]) = "match"
  <2>1. a[i].slot.location \in Place /\ a[i].slot.location \in Locations /\ a[i].text \in Text
    BY <1>1 DEF IsAssets, OnModule
  <2>2. EncodeScript(a[i].text) = FrameLua(a[i].text)
    BY <1>2, <2>1 DEF Text, EncodeScript, FrameLua
  <2>3. w[a[i].slot.location] = FrameLua(a[i].text)
    BY <1>4, <2>1, <2>2
  <2>4. FrameLua(a[i].text) # None
    BY <2>1, TextKinds
  <2> QED BY <1>4, <2>1, <2>3, <2>4, StatusIs DEF ExpectedReadback
<1>6. \E i \in 1 .. Len(a) : TRUE
  <2>1. dir.manifest.slots \in Seq(Slot) /\ dir.manifest.slots # <<>>
    BY DEF IsLoaded, ManifestIsValid, Manifest
  <2>2. 1 \in DOMAIN dir.manifest.slots
    BY <2>1
  <2> QED BY <1>1, <2>2 DEF Range
<1>7. Statuses(w, target, dir) = {"match"}
  <2>1. Statuses(w, target, dir) = {SlotStatus(w, target, a[i]) : i \in 1 .. Len(a)}
    BY <1>1 DEF Statuses, Range, a
  <2> QED BY <1>5, <1>6, <2>1
<1> QED BY <1>3, <1>7 DEF Holds, a, w

\* Clearing writes the empty script to each slot of a directory.
LEMMA ClearedType ==
  ASSUME NEW dir, IsLoaded(dir), NEW held \in Held, NEW target \in Coordinates
  PROVE  LET a == Assets(dir)
             blank == [i \in DOMAIN a |-> [a[i] EXCEPT !.text = EmptyText]]
         IN /\ IsAssets(blank) /\ Len(blank) = Len(a)
            /\ \A i \in 1 .. Len(a) : /\ blank[i].slot = a[i].slot
                                     /\ blank[i].text = EmptyText
            /\ ClearAll(held, target, dir) = WriteAll(held, target, blank)
            /\ ClearAll(held, target, dir) \in Held
<1> DEFINE a == Assets(dir)
           blank == [i \in DOMAIN a |-> [a[i] EXCEPT !.text = EmptyText]]
           w == WriteAll(held, target, blank)
<1>1. IsAssets(a) /\ DOMAIN a = 1 .. Len(a)
  BY AssetsAre
<1>2. a = [i \in 1 .. Len(a) |-> [slot |-> a[i].slot, text |-> a[i].text]]
  BY <1>1 DEF Assets
<1> HIDE DEF a
<1>4. blank = [i \in 1 .. Len(a) |-> [slot |-> a[i].slot, text |-> EmptyText]]
  BY <1>1, <1>2
<1>5. IsAssets(blank) /\ Len(blank) = Len(a)
  <2>1. Len(blank) = Len(a)
    BY <1>1, <1>4 DEF IsAssets
  <2> HIDE DEF blank
  <2> QED BY <1>1, <1>4, <2>1, ProvisionAssumption DEF IsAssets
<1>6. w \in Held
  <2> HIDE DEF blank
  <2> QED BY <1>5, WriteAllIs
<1> HIDE DEF w
<1>7. ClearAll(held, target, dir) = w
  BY DEF ClearAll, a, w
<1>8. \A i \in 1 .. Len(a) : blank[i].slot = a[i].slot /\ blank[i].text = EmptyText
  BY <1>4
<1> QED BY <1>5, <1>6, <1>7, <1>8 DEF a, w

\* Its slots can be cleared as well, whether the module has them or not.
LEMMA ClearedWhen ==
  ASSUME NEW dir, IsLoaded(dir), NEW held \in Held, NEW target \in Coordinates,
         Heard(target)
  PROVE  /\ PagesStored(target, Assets(dir))
         /\ Removed(ClearAll(held, target, dir), target, dir)
<1> DEFINE a == Assets(dir)
           blank == [i \in DOMAIN a |-> [a[i] EXCEPT !.text = EmptyText]]
           w == WriteAll(held, target, blank)
<1>1. IsAssets(a) /\ DOMAIN a = 1 .. Len(a)
  BY AssetsAre
<1>2. /\ IsAssets(blank) /\ Len(blank) = Len(a)
      /\ \A i \in 1 .. Len(a) : blank[i].slot = a[i].slot /\ blank[i].text = EmptyText
      /\ ClearAll(held, target, dir) = w
      /\ ClearAll(held, target, dir) \in Held
  BY ClearedType
<1> HIDE DEF a, blank
<1>3. PagesStored(target, a)
  BY <1>1, StoredIs
<1>6. /\ w \in Held
      /\ \A i \in 1 .. Len(a) : blank[i].slot.location \in Locations =>
           w[blank[i].slot.location] = EncodeScript(blank[i].text)
  BY <1>2, WriteAllIs
<1>7. \A i \in 1 .. Len(a) : a[i].slot.location \in Locations =>
        w[a[i].slot.location] = EncodeScript(EmptyText)
  BY <1>2, <1>6
<1> HIDE DEF w
<1>8. NormalizeText(EncodeScript(EmptyText)) = ExpectedReadback(EmptyText)
  <2>1. EmptyText.other = 0
    BY DEF EmptyText
  <2>2. EncodeScript(EmptyText) = FrameLua(EmptyText)
    BY <2>1, ProvisionAssumption DEF Text, EncodeScript, FrameLua
  <2> QED BY <2>2 DEF ExpectedReadback
<1>9. ASSUME NEW i \in 1 .. Len(a)
      PROVE  LET read == ReadSlot(w, target, a[i].slot.location) IN
             \/ read = None
             \/ /\ target \in {Broadcast, read.from}
                /\ NormalizeText(read.text) = ExpectedReadback(EmptyText)
  <2> DEFINE l == a[i].slot.location
  <2>1. l \in Place
    BY <1>1 DEF IsAssets
  <2>2. ReadSlot(w, target, l) = IF Heard(target) /\ l \in Locations /\ w[l] # None
                                   THEN [from |-> Here, text |-> w[l]] ELSE None
    BY <1>6, <2>1, ReadSlotIs
  <2>3. target \in {Here, Broadcast}
    BY HeardIs
  <2> QED BY <1>7, <1>8, <2>2, <2>3
<1>10. Removed(w, target, dir)
  BY <1>1, <1>9 DEF Removed, Range, a
<1> QED BY <1>2, <1>3, <1>6, <1>10 DEF a

-----------------------------------------------------------------------------
(* The invariant                                                           *)

Types ==
  /\ tree \in Trees
  /\ home \in BOOLEAN
  /\ slots \in Held
  /\ original \in Held
  /\ steps \in 0 .. MaxSteps

\* What is frozen has been installed, from its directory.
FrozenOK ==
  frozen # None =>
    /\ home
    /\ IsLoaded(frozen) /\ Loads(frozen)
    /\ OnModule(frozen) /\ PlainScripts(frozen)
    /\ \E s \in Source : frozen \in Range(tree[s])

BackupOK == backup # None => home /\ IsBackup(backup)

\* Each file of a faithful backup holds what one of its slots held originally.
FaithfulOK ==
  faithful =>
    /\ backup # None
    /\ \A path \in AssetsNamed(backup) :
         \E slot \in Range(backup.manifest.slots) :
           slot.asset = path /\ backup.files[path] = Taken(original, slot)

IInv == Types /\ FrozenOK /\ BackupOK /\ FaithfulOK

\* The invariant holds at the start.
LEMMA InitIInv == Init => IInv
<1> SUFFICES ASSUME Init PROVE IInv
  OBVIOUS
<1>1. Types
  BY ProvisionAssumption DEF Init, Types, Held
<1>2. frozen = None /\ backup = None
  BY DEF Init
<1>3. faithful = FALSE
  BY DEF Init
<1>4. FrozenOK /\ BackupOK
  BY <1>2 DEF FrozenOK, BackupOK
<1>5. FaithfulOK
  BY <1>3 DEF FaithfulOK
<1> QED BY <1>1, <1>4, <1>5 DEF IInv

\* The invariant says all that TypeOK does.
LEMMA TypeImplied == IInv => TypeOK
<1> SUFFICES ASSUME IInv PROVE TypeOK
  OBVIOUS
<1>1. DOMAIN slots = Locations /\ steps \in 0 .. MaxSteps
  BY DEF IInv, Types, Held
<1>2. ASSUME frozen # None
      PROVE  /\ home /\ frozen.manifest \in Manifest /\ Loads(frozen)
             /\ \E s \in Source : frozen \in Range(tree[s])
  BY <1>2 DEF IInv, FrozenOK, IsLoaded
<1>3. ASSUME backup # None
      PROVE  /\ home /\ backup.manifest \in Manifest
             /\ {slot.asset : slot \in Range(backup.manifest.slots)} = DOMAIN backup.files
  BY <1>3 DEF IInv, BackupOK, IsBackup, IsLoaded, AssetsNamed
<1> QED BY <1>1, <1>2, <1>3 DEF TypeOK

\* The runtime that a name resolves to is the one it stands for.
LEMMA ResolvesWanted ==
  ASSUME NEW name, Candidates(tree, name, home) # {}, home \in BOOLEAN
  PROVE  /\ ResolveRuntime(tree, name, home) \in Candidates(tree, name, home)
         /\ tree[ResolveRuntime(tree, name, home)][name] = Wanted(name)
<1> DEFINE C == Candidates(tree, name, home)
           r == ResolveRuntime(tree, name, home)
<1>1. Places(name) = C
  BY DEF Places, Candidates, Roots, Source
<1>2. C \subseteq Source
  BY DEF Candidates, Roots, Source
<1>3. Priority.system = 0 /\ Priority.user = 1 /\ Priority.dev = 2
  BY DEF Priority
<1>4. r = CHOOSE s \in C : \A t \in C : Priority[t] <= Priority[s]
  BY DEF ResolveRuntime
<1> HIDE DEF C, r
<1>5. \E s \in C : \A t \in C : Priority[t] <= Priority[s]
  BY <1>2, <1>3 DEF Source, C
<1>6. r \in C /\ \A t \in C : Priority[t] <= Priority[r]
  BY <1>4, <1>5
<1>7. r = CASE "dev" \in Places(name) -> "dev"
            [] "dev" \notin Places(name) /\ "user" \in Places(name) -> "user"
            [] OTHER -> "system"
  BY <1>1, <1>2, <1>3, <1>6 DEF Source
<1> QED BY <1>6, <1>7 DEF C, r, Wanted

\* What a command finds that may start.
LEMMA Started ==
  ASSUME IInv, NEW name, NEW args \in TargetArgs, CanStart(name, args)
  PROVE  LET dir == tree[ResolveRuntime(tree, name, home)][name] IN
         /\ dir = Wanted(name)
         /\ IsLoaded(dir) /\ Loads(dir)
         /\ \E s \in Source : dir \in Range(tree[s])
         /\ None \notin Backups(dir)
         /\ home
         /\ ResolveTarget(args) \in Coordinates
<1> DEFINE r == ResolveRuntime(tree, name, home)
           dir == tree[r][name]
<1>1. /\ Candidates(tree, name, home) # {} /\ ValidTarget(args)
      /\ Loads(dir) /\ home
  BY DEF CanStart
<1>2. tree \in Trees /\ home \in BOOLEAN
  BY DEF IInv, Types
<1>3. r \in Candidates(tree, name, home) /\ dir = Wanted(name)
  BY <1>1, <1>2, ResolvesWanted
<1>4. r \in Source /\ name \in DOMAIN tree[r]
  BY <1>3 DEF Candidates, Roots
<1>5. IsDirectory(dir) /\ None \notin Backups(dir)
  BY <1>2, <1>4, ProvisionAssumption
<1>6. dir \in Range(tree[r])
  BY <1>4 DEF Range
<1> HIDE DEF dir, r
<1>7. AssetsNamed(dir) \subseteq DOMAIN dir.files
  BY <1>1 DEF Loads, AssetLoads, AssetsNamed
<1>8. IsLoaded(dir)
  BY <1>1, <1>5, <1>7 DEF IsLoaded, IsDirectory, Loads
<1>9. ResolveTarget(args) \in Coordinates
  BY <1>1, TargetType
<1> QED BY <1>1, <1>3, <1>4, <1>5, <1>6, <1>8, <1>9 DEF dir, r

Stays == UNCHANGED <<slots, frozen, backup, original, faithful, tree, home>>

\* The invariant after a command that writes the scripts of a directory.
LEMMA ProvisionKeeps ==
  ASSUME IInv, NEW command, NEW args, NEW dir, NEW target \in Coordinates,
         IsLoaded(dir), Loads(dir), \E s \in Source : dir \in Range(tree[s]), home,
         Provision(command, args, dir, target)
  PROVE  /\ slots' \in Held
         /\ tree' = tree /\ home' = home /\ steps' = steps + 1
         /\ FrozenOK'
         /\ last' = [command |-> command, args |-> args, ok |-> last'.ok, ran |-> <<>>]
         /\ last'.ok <=> Holds(slots', target, dir)
         /\ last'.ok =>
              /\ frozen' = dir
              /\ \A slot \in Range(dir.manifest.slots) :
                   slots'[slot.location] = FrameLua(NormalizeText(dir.files[slot.asset]))
         /\ Heard(target) /\ OnModule(dir) /\ PlainScripts(dir) => last'.ok
         /\ ~ last'.ok => frozen' = frozen
<1> DEFINE written == WriteAll(slots, target, Assets(dir))
           ok == Holds(written, target, dir)
<1>1. slots \in Held
  BY DEF IInv, Types
<1>2. /\ slots' = written
      /\ frozen' = IF ok THEN dir ELSE frozen
      /\ tree' = tree /\ home' = home /\ steps' = steps + 1
      /\ last' = [command |-> command, args |-> args, ok |-> ok, ran |-> <<>>]
  BY DEF Provision, Ends, host
<1>3. written \in Held
  <2>1. IsAssets(Assets(dir))
    BY AssetsAre
  <2> QED BY <1>1, <2>1, WriteAllIs
<1>4. ok => /\ OnModule(dir) /\ PlainScripts(dir)
            /\ \A slot \in Range(dir.manifest.slots) :
                 written[slot.location] = FrameLua(NormalizeText(dir.files[slot.asset]))
  BY <1>1, HoldsMeans
<1>5. Heard(target) /\ OnModule(dir) /\ PlainScripts(dir) => ok
  BY <1>1, HoldsWhen
<1>6. ok = (Holds(slots', target, dir))
  BY <1>2
<1> HIDE DEF written, ok
<1>7. last'.ok = ok
  BY <1>2
<1>8. FrozenOK'
  <2>1. CASE ok
    <3>1. frozen' = dir
      BY <1>2, <2>1
    <3> QED BY <1>2, <1>4, <2>1, <3>1
        DEF FrozenOK, OnModule, PlainScripts, IsLoaded, Loads, AssetsNamed
  <2>2. CASE ~ ok
    <3>1. frozen' = frozen
      BY <1>2, <2>2
    <3>2. FrozenOK
      BY DEF IInv
    <3> QED BY <1>2, <3>1, <3>2 DEF FrozenOK
  <2> QED BY <2>1, <2>2
<1> QED BY <1>2, <1>3, <1>4, <1>5, <1>6, <1>7, <1>8

\* Restoring and clearing leave at most less frozen than there was.
LEMMA FrozenGoes ==
  ASSUME FrozenOK, tree' = tree, home' = home, frozen' \in {frozen, None}
  PROVE  FrozenOK'
<1>1. CASE frozen' = frozen
  BY <1>1 DEF FrozenOK
<1>2. CASE frozen' = None
  BY <1>2 DEF FrozenOK
<1> QED BY <1>1, <1>2

\* What a restore does, and when it succeeds.
LEMMA RestoreKeeps ==
  ASSUME IInv, NEW args \in TargetArgs, Restore(args)
  PROVE  /\ slots' \in Held
         /\ FrozenOK'
         /\ UNCHANGED <<tree, home, backup, original, faithful>> /\ steps' = steps + 1
         /\ last' = [command |-> "restore", args |-> <<args>>, ok |-> last'.ok, ran |-> <<>>]
         /\ last'.ok => \A slot \in Range(backup.manifest.slots) :
              /\ slot.location \in Locations
              /\ slots'[slot.location] = FrameLua(NormalizeText(backup.files[slot.asset]))
         /\ Reachable(args) /\ OnModule(backup) /\ PlainScripts(backup) => last'.ok
<1> DEFINE target == ResolveTarget(args)
           written == WriteAll(slots, target, Assets(backup))
           ok == Holds(written, target, backup)
<1>1. slots \in Held /\ FrozenOK
  BY DEF IInv, Types
<1>2. /\ ValidTarget(args) /\ backup # None
      /\ slots' = written
      /\ frozen' = IF ok THEN None ELSE frozen
      /\ UNCHANGED <<tree, home, backup, original, faithful>> /\ steps' = steps + 1
      /\ last' = [command |-> "restore", args |-> <<args>>, ok |-> ok, ran |-> <<>>]
  BY DEF Restore, Ends, host
<1>3. IsLoaded(backup)
  BY <1>2 DEF IInv, BackupOK, IsBackup
<1>4. target \in Coordinates
  BY <1>2, TargetType
<1>5. written \in Held
  <2>1. IsAssets(Assets(backup))
    BY <1>3, AssetsAre
  <2> QED BY <1>1, <1>4, <2>1, WriteAllIs
<1> HIDE DEF target
<1>6. ok => /\ OnModule(backup)
            /\ \A slot \in Range(backup.manifest.slots) :
                 written[slot.location] = FrameLua(NormalizeText(backup.files[slot.asset]))
  BY <1>1, <1>3, <1>4, HoldsMeans
<1>7. Heard(target) /\ OnModule(backup) /\ PlainScripts(backup) => ok
  BY <1>1, <1>3, <1>4, HoldsWhen
<1>8. Reachable(args) => Heard(target)
  BY <1>4, Reached DEF Reachable, target
<1> HIDE DEF written, ok
<1>9. last'.ok = ok
  BY <1>2
<1>10. frozen' \in {frozen, None}
  BY <1>2
<1>11. FrozenOK'
  BY <1>1, <1>2, <1>10, FrozenGoes
<1> QED BY <1>2, <1>5, <1>6, <1>7, <1>8, <1>9, <1>11 DEF OnModule

\* What a clear does, and when it succeeds.
LEMMA ClearKeeps ==
  ASSUME IInv, NEW args \in TargetArgs, Clear(args)
  PROVE  /\ slots' \in Held
         /\ FrozenOK'
         /\ UNCHANGED <<tree, home, backup, original, faithful>> /\ steps' = steps + 1
         /\ last' = [command |-> "clear", args |-> <<args>>, ok |-> last'.ok, ran |-> <<>>]
         /\ backup # None => ~ Loads(backup)
         /\ Reachable(args) => last'.ok
<1> DEFINE target == ResolveTarget(args)
           written == ClearAll(slots, target, frozen)
           ok == PagesStored(target, Assets(frozen)) /\ Removed(written, target, frozen)
<1>1. slots \in Held /\ FrozenOK
  BY DEF IInv, Types
<1>2. /\ ValidTarget(args) /\ frozen # None
      /\ backup # None => ~ Loads(backup)
      /\ slots' = written
      /\ frozen' = IF ok THEN None ELSE frozen
      /\ UNCHANGED <<tree, home, backup, original, faithful>> /\ steps' = steps + 1
      /\ last' = [command |-> "clear", args |-> <<args>>, ok |-> ok, ran |-> <<>>]
  BY DEF Clear, Ends, host
<1>3. IsLoaded(frozen)
  BY <1>1, <1>2 DEF FrozenOK
<1>4. target \in Coordinates
  BY <1>2, TargetType
<1> HIDE DEF target
<1>5. written \in Held
  BY <1>1, <1>3, <1>4, ClearedType
<1>6. Heard(target) => ok
  BY <1>1, <1>3, <1>4, ClearedWhen
<1>7. Reachable(args) => Heard(target)
  BY <1>4, Reached DEF Reachable, target
<1> HIDE DEF written, ok
<1>8. last'.ok = ok
  BY <1>2
<1>9. frozen' \in {frozen, None}
  BY <1>2
<1>10. FrozenOK'
  BY <1>1, <1>2, <1>9, FrozenGoes
<1> QED BY <1>2, <1>5, <1>6, <1>7, <1>8, <1>10

\* A backup that is taken before anything is installed is a faithful one.
LEMMA InstallKeeps ==
  ASSUME IInv, NEW name, NEW args \in TargetArgs, Install(name, args)
  PROVE  /\ BackupOK' /\ FaithfulOK'
         /\ original' \in Held
<1> DEFINE dir == tree[ResolveRuntime(tree, name, home)][name]
           target == ResolveTarget(args)
           b == Capture(dir, target)
<1>1. CanStart(name, args)
  BY DEF Install
<1>2. /\ IsLoaded(dir) /\ Loads(dir) /\ None \notin Backups(dir) /\ home
      /\ target \in Coordinates
  BY <1>1, Started
<1>3. /\ backup' = b
      /\ original' = IF frozen = None THEN slots ELSE original
      /\ faithful' = (frozen = None /\ Reaches(target))
      /\ tree' = tree /\ home' = home
  BY DEF Install, Provision, Ends, host
<1>4. slots \in Held /\ original \in Held
  BY DEF IInv, Types
<1> HIDE DEF dir, target
<1>5. /\ b \in Backups(dir)
      /\ IsBackup(b)
      /\ Heard(target) =>
           \A path \in AssetsNamed(b) :
             \E slot \in Range(b.manifest.slots) :
               slot.asset = path /\ b.files[path] = Taken(slots, slot)
  BY <1>2, <1>4, CaptureIs
<1> HIDE DEF b
<1>6. BackupOK'
  BY <1>2, <1>3, <1>5 DEF BackupOK, IsBackup, IsLoaded, AssetsNamed
<1>7. FaithfulOK'
  <2> SUFFICES ASSUME faithful' PROVE FaithfulOK'
    BY DEF FaithfulOK
  <2>1. frozen = None /\ Heard(target)
    BY <1>2, <1>3, Reached
  <2>2. original' = slots
    BY <1>3, <2>1
  <2>3. backup' # None
    BY <1>2, <1>3, <1>5
  <2>4. \A path \in AssetsNamed(b) :
          \E slot \in Range(b.manifest.slots) :
            slot.asset = path /\ b.files[path] = Taken(original', slot)
    BY <1>5, <2>1, <2>2
  <2> QED BY <1>3, <2>3, <2>4 DEF FaithfulOK, AssetsNamed, Taken
<1> QED BY <1>3, <1>4, <1>6, <1>7

\* A command that leaves everything but the slots alone, or not even those.
LEMMA OthersKeep ==
  ASSUME IInv, UNCHANGED <<backup, original, faithful, tree, home>>, slots' \in Held, FrozenOK',
         steps < MaxSteps, steps' = steps + 1
  PROVE  IInv'
<1>1. steps' \in 0 .. MaxSteps
  BY ProvisionAssumption DEF IInv, Types
<1>2. Types'
  BY <1>1 DEF IInv, Types, Held
<1>3. BackupOK'
  BY DEF IInv, BackupOK
<1>4. FaithfulOK'
  BY DEF IInv, FaithfulOK, Taken
<1> QED BY <1>2, <1>3, <1>4 DEF IInv

\* A command that changes nothing keeps the invariant.
LEMMA StaysKeeps ==
  ASSUME IInv, Stays, steps < MaxSteps, steps' = steps + 1
  PROVE  IInv'
<1>1. FrozenOK'
  BY DEF IInv, FrozenOK, Stays
<1>2. slots' \in Held
  BY DEF IInv, Types, Stays
<1> QED BY <1>1, <1>2, OthersKeep DEF Stays

\* What the commands have in common that only look, send or refuse.
LEMMA QuietStays ==
  ASSUME NEW command, NEW args, NEW ok, NEW ran,
         Ends(command, args, ok, ran),
         UNCHANGED <<slots, frozen, backup, original, faithful>>
  PROVE  /\ Stays /\ steps' = steps + 1
         /\ last' = [command |-> command, args |-> args, ok |-> ok, ran |-> ran]
BY DEF Ends, Stays, host

Screen(args) ==
  \/ \E inputs \in Inputs, activate \in BoundedSeq(Layers, 1) :
       ScreenSet(inputs, activate, args)
  \/ \E layer \in Layers : ScreenClear(layer, args) \/ ScreenActivate(layer, args)
  \/ \E t \in UserTexts : ScreenRaw(t, args)

\* Screen commands change none of the state here.
LEMMA ScreenStays ==
  ASSUME NEW args, Screen(args)
  PROVE  Stays /\ steps' = steps + 1
         /\ last'.command \in {"set", "clear layer", "activate", "raw"}
<1>1. ASSUME NEW command, NEW a, NEW target, NEW t, NEW calls,
             Send(command, a, target, t, calls)
      PROVE  Stays /\ steps' = steps + 1 /\ last'.command = command
  BY <1>1, QuietStays DEF Send
<1>2. ASSUME NEW command, NEW a, Refuse(command, a)
      PROVE  Stays /\ steps' = steps + 1 /\ last'.command = command
  BY <1>2 DEF Refuse, Ends, Stays, host
<1>3. ASSUME NEW inputs, NEW activate, ScreenSet(inputs, activate, args)
      PROVE  Stays /\ steps' = steps + 1 /\ last'.command = "set"
  BY <1>1, <1>2, <1>3 DEF ScreenSet, SendCalls
<1>4. ASSUME NEW layer, ScreenClear(layer, args)
      PROVE  Stays /\ steps' = steps + 1 /\ last'.command = "clear layer"
  BY <1>1, <1>2, <1>4 DEF ScreenClear, SendCalls
<1>5. ASSUME NEW layer, ScreenActivate(layer, args)
      PROVE  Stays /\ steps' = steps + 1 /\ last'.command = "activate"
  BY <1>1, <1>2, <1>5 DEF ScreenActivate, SendCalls
<1>6. ASSUME NEW t, ScreenRaw(t, args)
      PROVE  Stays /\ steps' = steps + 1 /\ last'.command = "raw"
  BY <1>1, <1>2, <1>6 DEF ScreenRaw
<1> QED BY <1>3, <1>4, <1>5, <1>6 DEF Screen

\* An edit changes one slot that the frozen directory may have.
LEMMA EditKeeps ==
  ASSUME IInv, NEW location \in Locations, NEW t \in UserTexts \cup {None}, Edit(location, t)
  PROVE  /\ UNCHANGED <<frozen, backup, original, faithful, tree, home>>
         /\ slots' \in Held /\ FrozenOK'
         /\ steps' = steps + 1
         /\ last'.command = "edit"
<1>1. /\ UNCHANGED <<frozen, backup, original, faithful, tree, home>>
      /\ slots' = [slots EXCEPT ![location] = t]
      /\ steps' = steps + 1
      /\ last'.command = "edit"
  BY DEF Edit, Ends, host
<1>2. slots' \in Held
  <2>1. slots \in Held /\ t \in {None} \cup Text
    BY ProvisionAssumption DEF IInv, Types
  <2> QED BY <1>1, <2>1 DEF Held
<1>3. FrozenOK'
  BY <1>1 DEF IInv, FrozenOK
<1> QED BY <1>1, <1>2, <1>3

\* The actions of a step.
LEMMA NextCases ==
  ASSUME Next
  PROVE  /\ steps < MaxSteps
         /\ \/ \E name \in Names, args \in TargetArgs :
                 \/ Install(name, args)
                 \/ Upgrade(name, args)
                 \/ \E command \in {"install", "upgrade"} : RefuseInstall(command, name, args)
            \/ \E args \in TargetArgs :
                 \/ Repair(args) \/ RefuseRepair(args)
                 \/ Restore(args) \/ Clear(args) \/ RefuseRemove(args)
                 \/ Verify(args)
                 \/ Screen(args)
            \/ \E location \in Locations, t \in UserTexts \cup {None} : Edit(location, t)
BY DEF Next, Screen

\* Every step keeps the invariant.
LEMMA NextIInv == IInv /\ [Next]_vars => IInv'
<1> SUFFICES ASSUME IInv, [Next]_vars PROVE IInv'
  OBVIOUS
<1>1. CASE UNCHANGED vars
  BY <1>1 DEF vars, IInv, Types, Held, FrozenOK, BackupOK, FaithfulOK, Taken
<1>2. CASE Next
  <2>1. steps < MaxSteps
    BY <1>2, NextCases
  <2>2. ASSUME NEW name \in Names, NEW args \in TargetArgs, Install(name, args) PROVE IInv'
    <3> DEFINE dir == tree[ResolveRuntime(tree, name, home)][name]
               target == ResolveTarget(args)
    <3>1. CanStart(name, args) /\ Provision("install", <<name, args>>, dir, target)
      BY <2>2 DEF Install
    <3>2. /\ IsLoaded(dir) /\ Loads(dir) /\ home /\ target \in Coordinates
          /\ \E s \in Source : dir \in Range(tree[s])
      BY <3>1, Started
    <3> HIDE DEF dir, target
    <3>3. slots' \in Held /\ tree' = tree /\ home' = home /\ steps' = steps + 1 /\ FrozenOK'
      BY <3>1, <3>2, ProvisionKeeps
    <3>4. BackupOK' /\ FaithfulOK' /\ original' \in Held
      BY <2>2, InstallKeeps
    <3>5. steps' \in 0 .. MaxSteps
      BY <2>1, <3>3, ProvisionAssumption DEF IInv, Types
    <3>6. Types'
      BY <3>3, <3>4, <3>5 DEF IInv, Types, Held
    <3> QED BY <3>3, <3>4, <3>6 DEF IInv
  <2>3. ASSUME NEW name \in Names, NEW args \in TargetArgs, Upgrade(name, args) PROVE IInv'
    <3> DEFINE dir == tree[ResolveRuntime(tree, name, home)][name]
               target == ResolveTarget(args)
    <3>1. /\ CanStart(name, args) /\ Provision("upgrade", <<name, args>>, dir, target)
          /\ UNCHANGED <<backup, original, faithful>>
      BY <2>3 DEF Upgrade
    <3>2. /\ IsLoaded(dir) /\ Loads(dir) /\ home /\ target \in Coordinates
          /\ \E s \in Source : dir \in Range(tree[s])
      BY <3>1, Started
    <3> HIDE DEF dir, target
    <3>3. slots' \in Held /\ tree' = tree /\ home' = home /\ steps' = steps + 1 /\ FrozenOK'
      BY <3>1, <3>2, ProvisionKeeps
    <3> QED BY <2>1, <3>1, <3>3, OthersKeep
  <2>4. ASSUME NEW command, NEW name, NEW args, RefuseInstall(command, name, args) PROVE IInv'
    BY <2>1, <2>4, QuietStays, StaysKeeps DEF RefuseInstall
  <2>5. ASSUME NEW args \in TargetArgs, Repair(args) PROVE IInv'
    <3> DEFINE target == ResolveTarget(args)
    <3>1. /\ frozen # None /\ ValidTarget(args)
          /\ Provision("repair", <<args>>, frozen, target)
          /\ UNCHANGED <<backup, original, faithful>>
      BY <2>5 DEF Repair, CanRepair
    <3>2. /\ IsLoaded(frozen) /\ Loads(frozen) /\ home
          /\ \E s \in Source : frozen \in Range(tree[s])
      BY <3>1 DEF IInv, FrozenOK
    <3>3. target \in Coordinates
      BY <3>1, TargetType
    <3> HIDE DEF target
    <3>4. slots' \in Held /\ tree' = tree /\ home' = home /\ steps' = steps + 1 /\ FrozenOK'
      BY <3>1, <3>2, <3>3, ProvisionKeeps
    <3> QED BY <2>1, <3>1, <3>4, OthersKeep
  <2>6. ASSUME NEW args, RefuseRepair(args) PROVE IInv'
    BY <2>1, <2>6, QuietStays, StaysKeeps DEF RefuseRepair
  <2>7. ASSUME NEW args \in TargetArgs, Restore(args) PROVE IInv'
    <3>1. /\ slots' \in Held /\ FrozenOK' /\ steps' = steps + 1
          /\ UNCHANGED <<tree, home, backup, original, faithful>>
      BY <2>7, RestoreKeeps
    <3> QED BY <2>1, <3>1, OthersKeep
  <2>8. ASSUME NEW args \in TargetArgs, Clear(args) PROVE IInv'
    <3>1. /\ slots' \in Held /\ FrozenOK' /\ steps' = steps + 1
          /\ UNCHANGED <<tree, home, backup, original, faithful>>
      BY <2>8, ClearKeeps
    <3> QED BY <2>1, <3>1, OthersKeep
  <2>9. ASSUME NEW args, RefuseRemove(args) PROVE IInv'
    BY <2>1, <2>9, QuietStays, StaysKeeps DEF RefuseRemove
  <2>10. ASSUME NEW args, Verify(args) PROVE IInv'
    BY <2>1, <2>10, QuietStays, StaysKeeps DEF Verify
  <2>11. ASSUME NEW args, Screen(args) PROVE IInv'
    BY <2>1, <2>11, ScreenStays, StaysKeeps
  <2>12. ASSUME NEW location \in Locations, NEW t \in UserTexts \cup {None}, Edit(location, t)
         PROVE  IInv'
    <3>1. /\ slots' \in Held /\ FrozenOK' /\ steps' = steps + 1
          /\ UNCHANGED <<tree, home, backup, original, faithful>>
      BY <2>12, EditKeeps
    <3> QED BY <2>1, <3>1, OthersKeep
  <2> QED BY <1>2, <2>2, <2>3, <2>4, <2>5, <2>6, <2>7, <2>8, <2>9, <2>10, <2>11, <2>12, NextCases
<1> QED BY <1>1, <1>2

\* The inductive invariant: what is frozen is a directory that loads and was
\* installed, and a faithful backup has what its slots held at the start.
THEOREM Invariance == Spec => []IInv
<1> QED BY InitIInv, NextIInv, PTL DEF Spec

\* The state has its types: the frozen copy and the backup are directories
\* that load_from_dir could have read.
THEOREM TypeCorrect == Spec => []TypeOK
<1> QED BY Invariance, TypeImplied, PTL

-----------------------------------------------------------------------------
(* What a successful installation leaves                                   *)

\* Every step keeps InstalledIsWanted.
LEMMA InstalledStep == IInv /\ InstalledIsWanted /\ [Next]_vars => InstalledIsWanted'
<1> SUFFICES ASSUME IInv, InstalledIsWanted, [Next]_vars PROVE InstalledIsWanted'
  OBVIOUS
<1>1. CASE UNCHANGED vars
  BY <1>1 DEF vars, InstalledIsWanted, Wanted, Places
<1>2. CASE Next
  <2> SUFFICES ASSUME last'.command \in {"install", "upgrade"}, last'.ok
               PROVE  /\ frozen' = Wanted(last.args[1])'
                      /\ \A slot \in Range(frozen'.manifest.slots) :
                           slots'[slot.location]
                             = FrameLua(NormalizeText(frozen'.files[slot.asset]))
    BY DEF InstalledIsWanted
  <2>1. ASSUME NEW command, NEW name, NEW args \in TargetArgs, CanStart(name, args),
               Provision(command, <<name, args>>,
                         tree[ResolveRuntime(tree, name, home)][name], ResolveTarget(args))
        PROVE  /\ frozen' = Wanted(last.args[1])'
               /\ \A slot \in Range(frozen'.manifest.slots) :
                    slots'[slot.location]
                      = FrameLua(NormalizeText(frozen'.files[slot.asset]))
    <3> DEFINE dir == tree[ResolveRuntime(tree, name, home)][name]
               target == ResolveTarget(args)
    <3>1. /\ dir = Wanted(name)
          /\ IsLoaded(dir) /\ Loads(dir) /\ home /\ target \in Coordinates
          /\ \E s \in Source : dir \in Range(tree[s])
      BY <2>1, Started
    <3> HIDE DEF dir, target
    <3>2. /\ tree' = tree /\ home' = home
          /\ last' = [command |-> command, args |-> <<name, args>>, ok |-> last'.ok, ran |-> <<>>]
          /\ frozen' = dir
          /\ \A slot \in Range(dir.manifest.slots) :
               slots'[slot.location] = FrameLua(NormalizeText(dir.files[slot.asset]))
      BY <2>1, <3>1, ProvisionKeeps DEF dir, target
    <3>3. last'.args[1] = name
      BY <3>2
    <3>4. Wanted(last.args[1])' = Wanted(name)
      BY <3>2, <3>3 DEF Wanted, Places
    <3> QED BY <3>1, <3>2, <3>4
  <2>2. ASSUME NEW name \in Names, NEW args \in TargetArgs,
               Install(name, args) \/ Upgrade(name, args)
        PROVE  /\ frozen' = Wanted(last.args[1])'
               /\ \A slot \in Range(frozen'.manifest.slots) :
                    slots'[slot.location]
                      = FrameLua(NormalizeText(frozen'.files[slot.asset]))
    BY <2>1, <2>2 DEF Install, Upgrade
  <2>3. ASSUME NEW command, NEW name, NEW args, RefuseInstall(command, name, args) PROVE FALSE
    <3>1. last'.ok = FALSE
      BY <2>3 DEF RefuseInstall, Ends
    <3> QED BY <3>1
  <2>4. ASSUME NEW args \in TargetArgs,
               \/ Repair(args) \/ RefuseRepair(args)
               \/ Restore(args) \/ Clear(args) \/ RefuseRemove(args)
               \/ Verify(args)
        PROVE  FALSE
    <3>1. last'.command \in {"repair", "restore", "clear", "remove", "verify"}
      BY <2>4 DEF Repair, RefuseRepair, Restore, Clear, RefuseRemove, Verify, Provision, Ends
    <3> QED BY <3>1
  <2>5. ASSUME NEW args, Screen(args) PROVE FALSE
    BY <2>5, ScreenStays
  <2>6. ASSUME NEW location, NEW t, Edit(location, t) PROVE FALSE
    BY <2>6 DEF Edit, Ends
  <2> QED BY <1>2, <2>2, <2>3, <2>4, <2>5, <2>6, NextCases
<1> QED BY <1>1, <1>2

\* After a successful install, repair or upgrade of runtime.rs, the slots hold
\* the scripts of the directory that resolve_runtime finds first.
THEOREM InstalledWanted == Spec => []InstalledIsWanted
<1>1. Init => InstalledIsWanted
  BY DEF Init, Idle, InstalledIsWanted
<1> QED BY <1>1, InstalledStep, Invariance, PTL DEF Spec

-----------------------------------------------------------------------------
(* What a successful remove leaves                                         *)

\* A backup that does not load has a script in it that is too long.
LEMMA TooLong ==
  ASSUME IInv, faithful, ~ Loads(backup)
  PROVE  \E slot \in Range(backup.manifest.slots) :
           slot.location \in Locations /\ ~ Installable(Framed(original[slot.location]))
<1>1. /\ backup # None
      /\ \A path \in AssetsNamed(backup) :
           \E slot \in Range(backup.manifest.slots) :
             slot.asset = path /\ backup.files[path] = Taken(original, slot)
  BY DEF IInv, FaithfulOK
<1>2. IsBackup(backup)
  BY <1>1 DEF IInv, BackupOK
<1>3. original \in Held
  BY DEF IInv, Types
<1>4. PICK s \in Range(backup.manifest.slots) : ~ AssetLoads(backup, s.asset)
  BY <1>2 DEF Loads, IsBackup, IsLoaded
<1>5. s.asset \in AssetsNamed(backup)
  BY DEF AssetsNamed
<1>6. ~ Installable(NormalizeText(backup.files[s.asset]))
  BY <1>2, <1>4, <1>5 DEF AssetLoads, IsBackup
<1>7. PICK slot \in Range(backup.manifest.slots) :
        backup.files[s.asset] = Taken(original, slot)
  BY <1>1, <1>5
<1> DEFINE held == original[slot.location]
<1>8. Installable(NormalizeText(EmptyText))
  <2>1. NormalizeText(EmptyText) = EmptyText
    <3>1. EmptyText.crlf = FALSE
      BY DEF EmptyText
    <3> QED BY <3>1, ProvisionAssumption DEF Text, NormalizeText
  <2> QED BY <1>2, <2>1 DEF IsBackup
<1>9. /\ slot.location \in Locations /\ held # None
      /\ ~ Installable(NormalizeText(NormalizeText(held)))
  BY <1>6, <1>7, <1>8 DEF Taken
<1>10. held \in Text
  BY <1>3, <1>9 DEF Held
<1> HIDE DEF held
<1>11. /\ Framed(held) = FrameLua(NormalizeText(held))
       /\ NormalizeText(NormalizeText(held)) = NormalizeText(held)
  BY <1>9, <1>10, TextKinds DEF Framed
<1>12. NormalizeText(held) \in Text
  BY <1>10, TextKinds
<1>13. FrameLua(FrameLua(NormalizeText(held))) = FrameLua(NormalizeText(held))
  BY <1>12 DEF FrameLua, Text
<1>14. ~ Installable(Framed(held))
  BY <1>9, <1>11, <1>13 DEF Installable
<1> QED BY <1>9, <1>14 DEF held

\* Every step keeps RemoveGivesBack.
LEMMA RemoveStep == IInv /\ RemoveGivesBack /\ [Next]_vars => RemoveGivesBack'
<1> SUFFICES ASSUME IInv, RemoveGivesBack, [Next]_vars PROVE RemoveGivesBack'
  OBVIOUS
<1>1. CASE UNCHANGED vars
  BY <1>1 DEF vars, RemoveGivesBack, Framed
<1>2. CASE Next
  <2> DEFINE all == Range(backup.manifest.slots)
             Long == \E slot \in all : slot.location \in Locations
                                     /\ ~ Installable(Framed(original[slot.location]))
             Back == \A slot \in all :
                       \/ Framed(slots'[slot.location]) = Framed(original[slot.location])
                       \/ \E other \in all \ {slot} : other.asset = slot.asset
  <2>1. ASSUME NEW args \in TargetArgs, Restore(args), last'.ok, faithful PROVE Back
    <3> SUFFICES ASSUME NEW slot \in all,
                        \A other \in all \ {slot} : other.asset # slot.asset
                 PROVE  Framed(slots'[slot.location]) = Framed(original[slot.location])
      OBVIOUS
    <3>1. /\ slot.location \in Locations
          /\ slots'[slot.location] = FrameLua(NormalizeText(backup.files[slot.asset]))
      BY <2>1, RestoreKeeps
    <3>2. slot.asset \in AssetsNamed(backup)
      BY DEF AssetsNamed
    <3>3. PICK other \in all :
            other.asset = slot.asset /\ backup.files[slot.asset] = Taken(original, other)
      BY <2>1, <3>2 DEF IInv, FaithfulOK
    <3>4. other = slot
      BY <3>3
    <3> DEFINE held == original[slot.location]
               t == IF held = None THEN EmptyText ELSE held
    <3>5. held \in {None} \cup Text
      BY <3>1 DEF IInv, Types, Held
    <3>6. t \in Text
      BY <3>5, ProvisionAssumption
    <3>7. NormalizeText(EmptyText) = EmptyText
      <4>1. EmptyText.crlf = FALSE
        BY DEF EmptyText
      <4> QED BY <4>1, ProvisionAssumption DEF Text, NormalizeText
    <3>8. backup.files[slot.asset] = NormalizeText(t)
      BY <3>1, <3>3, <3>4, <3>7 DEF Taken
    <3>9. Framed(held) = FrameLua(NormalizeText(t))
      BY DEF Framed
    <3> HIDE DEF t, held
    <3>10. slots'[slot.location] = FrameLua(NormalizeText(t))
      BY <3>1, <3>6, <3>8, TextKinds
    <3>11. FrameLua(NormalizeText(t)) # None
      BY <3>6, TextKinds
    <3>12. Framed(slots'[slot.location]) = FrameLua(NormalizeText(FrameLua(NormalizeText(t))))
      BY <3>10, <3>11 DEF Framed
    <3>13. Framed(slots'[slot.location]) = FrameLua(NormalizeText(t))
      BY <3>6, <3>12, TextKinds
    <3> QED BY <3>9, <3>13 DEF held
  <2>2. ASSUME NEW args \in TargetArgs, Restore(args) PROVE RemoveGivesBack'
    <3>1. UNCHANGED <<backup, original, faithful>>
      BY <2>2, RestoreKeeps
    <3>2. last'.ok /\ faithful => Back
      BY <2>1, <2>2
    <3> QED BY <3>1, <3>2 DEF RemoveGivesBack, Framed
  <2>3. ASSUME NEW args \in TargetArgs, Clear(args) PROVE RemoveGivesBack'
    <3>1. UNCHANGED <<backup, original, faithful>> /\ (backup # None => ~ Loads(backup))
      BY <2>3, ClearKeeps
    <3>2. faithful => Long
      <4> SUFFICES ASSUME faithful PROVE Long
        OBVIOUS
      <4>1. backup # None
        BY DEF IInv, FaithfulOK
      <4> QED BY <3>1, <4>1, TooLong
    <3> QED BY <3>1, <3>2 DEF RemoveGivesBack, Framed
  <2>4. ASSUME last'.command \notin {"restore", "clear"} PROVE RemoveGivesBack'
    BY <2>4 DEF RemoveGivesBack
  <2>5. ASSUME NEW name, NEW args,
               \/ Install(name, args)
               \/ Upgrade(name, args)
               \/ \E command \in {"install", "upgrade"} : RefuseInstall(command, name, args)
        PROVE  last'.command \in {"install", "upgrade"}
    BY <2>5 DEF Install, Upgrade, RefuseInstall, Provision, Ends
  <2>6. ASSUME NEW args,
               Repair(args) \/ RefuseRepair(args) \/ RefuseRemove(args) \/ Verify(args)
        PROVE  last'.command \in {"repair", "remove", "verify"}
    BY <2>6 DEF Repair, RefuseRepair, RefuseRemove, Verify, Provision, Ends
  <2>7. ASSUME NEW location, NEW t, Edit(location, t) PROVE last'.command = "edit"
    BY <2>7 DEF Edit, Ends
  <2> HIDE DEF all, Long, Back
  <2> QED BY <1>2, <2>2, <2>3, <2>4, <2>5, <2>6, <2>7, ScreenStays, NextCases
<1> QED BY <1>1, <1>2

\* After a successful remove of runtime.rs with a faithful backup, the slots
\* hold what they held before the first installation.
THEOREM GivesBack == Spec => []RemoveGivesBack
<1>1. Init => RemoveGivesBack
  BY DEF Init, Idle, RemoveGivesBack
<1> QED BY <1>1, RemoveStep, Invariance, PTL DEF Spec

-----------------------------------------------------------------------------
(* Why a command fails                                                     *)

\* A reachable target is heard.
LEMMA ReachableIs ==
  ASSUME NEW args \in TargetArgs
  PROVE  /\ Reachable(args) => ValidTarget(args)
         /\ Reachable(args) => ResolveTarget(args) \in Coordinates /\ Heard(ResolveTarget(args))
<1> SUFFICES ASSUME Reachable(args)
             PROVE  /\ ValidTarget(args) /\ ResolveTarget(args) \in Coordinates
                    /\ Heard(ResolveTarget(args))
  OBVIOUS
<1>1. ValidTarget(args) /\ ResolveTarget(args) \in Coordinates
  BY TargetType DEF Reachable
<1> HIDE DEF ResolveTarget
<1> QED BY <1>1, Reached DEF Reachable

\* Why an install or an upgrade fails.
LEMMA InstallReason ==
  ASSUME IInv, NEW name, NEW args \in TargetArgs, NEW command \in {"install", "upgrade"},
         ~ last'.ok,
         \/ command = "install" /\ Install(name, args)
         \/ command = "upgrade" /\ Upgrade(name, args)
         \/ RefuseInstall(command, name, args)
  PROVE  MayFail(last.command, last.args)'
<1> DEFINE dir == tree[ResolveRuntime(tree, name, home)][name]
           target == ResolveTarget(args)
           Reason == \/ ~ home
                     \/ ~ Reachable(args)
                     \/ Places(name) = {}
                     \/ ~ Loads(Wanted(name))
                     \/ ~ OnModule(Wanted(name))
                     \/ ~ PlainScripts(Wanted(name))
                     \/ command = "install" /\ ~ CanCapture(Wanted(name))
<1>1. /\ tree' = tree /\ home' = home
      /\ last'.command = command /\ last'.args = <<name, args>>
  BY DEF Install, Upgrade, RefuseInstall, Provision, Ends, host
<1>2. ASSUME Provision(command, <<name, args>>, dir, target), CanStart(name, args)
      PROVE  Reason
  <2>1. /\ dir = Wanted(name)
        /\ IsLoaded(dir) /\ Loads(dir) /\ home /\ target \in Coordinates
        /\ \E s \in Source : dir \in Range(tree[s])
    BY <1>2, Started
  <2> HIDE DEF dir, target
  <2>2. Heard(target) /\ OnModule(dir) /\ PlainScripts(dir) => last'.ok
    BY <1>2, <2>1, ProvisionKeeps
  <2>3. Reachable(args) => Heard(target)
    BY ReachableIs DEF target
  <2> QED BY <2>1, <2>2, <2>3
<1>3. ASSUME CanStart(name, args), ~ CanCapture(dir), command = "install"
      PROVE  Reason
  <2>1. dir = Wanted(name)
    BY <1>3, Started
  <2> HIDE DEF dir
  <2> QED BY <1>3, <2>1
<1>4. ASSUME ~ CanStart(name, args) PROVE Reason
  <2> SUFFICES ASSUME home, Reachable(args), Places(name) # {}, Loads(Wanted(name))
               PROVE  FALSE
    OBVIOUS
  <2>1. home \in BOOLEAN
    BY DEF IInv, Types
  <2>2. Candidates(tree, name, home) = Places(name)
    BY DEF Candidates, Roots, Places, Source
  <2>3. dir = Wanted(name)
    BY <2>1, <2>2, ResolvesWanted
  <2>4. Loads(dir)
    BY <2>3
  <2>5. ValidTarget(args)
    BY ReachableIs
  <2> QED BY <1>4, <2>2, <2>4, <2>5 DEF CanStart
<1>5. Reason
  BY <1>2, <1>3, <1>4 DEF Install, Upgrade, RefuseInstall
<1>6. last'.args[1] = name /\ last'.args[2] = args
  BY <1>1
<1>7. /\ Wanted(last.args[1])' = Wanted(name)
      /\ Places(last.args[1])' = Places(name)
  BY <1>1, <1>6 DEF Wanted, Places
<1> HIDE DEF dir, target
<1>8. last'.command \in {"install", "upgrade"}
  BY <1>1
<1> QED BY <1>1, <1>5, <1>6, <1>7, <1>8
        DEF MayFail, Reachable, Reaches, Loads, OnModule, PlainScripts, CanCapture

\* Why a remove fails.
LEMMA RemoveReason ==
  ASSUME IInv, NEW args \in TargetArgs, ~ last'.ok,
         Restore(args) \/ Clear(args) \/ RefuseRemove(args)
  PROVE  MayFail(last.command, last.args)'
<1>1. CASE Restore(args)
  <2>1. /\ last'.command = "restore" /\ last'.args = <<args>>
        /\ backup' = backup
        /\ Reachable(args) /\ OnModule(backup) /\ PlainScripts(backup) => last'.ok
    BY <1>1, RestoreKeeps
  <2>2. last'.args[1] = args
    BY <2>1
  <2>3. ~ Reachable(args) \/ ~ OnModule(backup) \/ ~ PlainScripts(backup)
    BY <2>1
  <2> QED BY <2>1, <2>2, <2>3 DEF MayFail, Reachable, Reaches, OnModule, PlainScripts
<1>2. CASE Clear(args)
  <2>1. /\ last'.command = "clear" /\ last'.args = <<args>>
        /\ Reachable(args) => last'.ok
    BY <1>2, ClearKeeps
  <2>2. last'.args[1] = args
    BY <2>1
  <2> QED BY <2>1, <2>2 DEF MayFail, Reachable, Reaches
<1>3. CASE RefuseRemove(args)
  <2>1. /\ last'.command = "remove" /\ last'.args = <<args>>
        /\ frozen' = frozen
        /\ ~ ValidTarget(args) \/ ~ home \/ frozen = None
    BY <1>3 DEF RefuseRemove, Ends
  <2>2. last'.args[1] = args
    BY <2>1
  <2>3. ~ ValidTarget(args) \/ frozen = None
    BY <2>1 DEF IInv, FrozenOK
  <2> QED BY <2>1, <2>2, <2>3 DEF MayFail
<1> QED BY <1>1, <1>2, <1>3

\* What inspection finds of an installed runtime on a module it reaches.
LEMMA InspectionIs ==
  ASSUME IInv, frozen # None, NEW target \in Coordinates, Heard(target)
  PROVE  LET a == Assets(frozen) IN
         /\ DOMAIN a = 1 .. Len(a)
         /\ \E i \in 1 .. Len(a) : TRUE
         /\ Statuses(slots, target, frozen)
              = {SlotStatus(slots, target, a[i]) : i \in 1 .. Len(a)}
         /\ \A i \in 1 .. Len(a) :
              /\ SlotStatus(slots, target, a[i]) = "match" <=> ~ Differs(a[i])
              /\ SlotStatus(slots, target, a[i]) = "missing"
                   <=> slots[a[i].slot.location] = None
<1> DEFINE a == Assets(frozen)
<1>1. IsLoaded(frozen) /\ OnModule(frozen) /\ slots \in Held
  BY DEF IInv, FrozenOK, Types
<1>2. /\ IsAssets(a) /\ DOMAIN a = 1 .. Len(a)
      /\ \A i \in 1 .. Len(a) : a[i].slot \in Range(frozen.manifest.slots)
      /\ \A slot \in Range(frozen.manifest.slots) : \E i \in 1 .. Len(a) : a[i].slot = slot
  BY <1>1, AssetsAre
<1>3. \E i \in 1 .. Len(a) : TRUE
  <2>1. frozen.manifest.slots \in Seq(Slot) /\ frozen.manifest.slots # <<>>
    BY <1>1 DEF IsLoaded, ManifestIsValid, Manifest
  <2>2. 1 \in DOMAIN frozen.manifest.slots
    BY <2>1
  <2> QED BY <1>2, <2>2 DEF Range
<1>4. Statuses(slots, target, frozen)
        = {SlotStatus(slots, target, a[i]) : i \in 1 .. Len(a)}
  BY <1>2 DEF Statuses, Range
<1> HIDE DEF a
<1>5. ASSUME NEW i \in 1 .. Len(a)
      PROVE  /\ SlotStatus(slots, target, a[i]) = "match" <=> ~ Differs(a[i])
             /\ SlotStatus(slots, target, a[i]) = "missing"
                  <=> slots[a[i].slot.location] = None
  <2>1. a[i].slot.location \in Place /\ a[i].slot.location \in Locations
    BY <1>1, <1>2 DEF IsAssets, OnModule
  <2>2. SlotStatus(slots, target, a[i])
           = IF slots[a[i].slot.location] = None THEN "missing"
             ELSE IF NormalizeText(slots[a[i].slot.location]) = ExpectedReadback(a[i].text)
                    THEN "match" ELSE "drifted"
    BY <1>1, <2>1, StatusIs
  <2> QED BY <2>2 DEF Differs
<1> QED BY <1>2, <1>3, <1>4, <1>5 DEF a

\* Why a repair or a verify fails.
LEMMA RepairReason ==
  ASSUME IInv, NEW args \in TargetArgs, ~ last'.ok,
         Repair(args) \/ RefuseRepair(args) \/ Verify(args)
  PROVE  MayFail(last.command, last.args)'
<1> DEFINE target == ResolveTarget(args)
           a == Assets(frozen)
<1>1. CASE ~ Reachable(args)
  <2>1. last'.command \in {"repair", "verify"} /\ last'.args = <<args>>
    BY DEF Repair, RefuseRepair, Verify, Provision, Ends
  <2>2. last'.args[1] = args
    BY <2>1
  <2> QED BY <1>1, <2>1, <2>2 DEF MayFail, Reachable, Reaches
<1>2. CASE Reachable(args)
  <2>1. ValidTarget(args) /\ target \in Coordinates /\ Heard(target)
    BY <1>2, ReachableIs
  <2>2. CASE Repair(args)
    <3>1. frozen # None /\ Provision("repair", <<args>>, frozen, target)
      BY <2>2 DEF Repair, CanRepair
    <3>2. /\ IsLoaded(frozen) /\ Loads(frozen) /\ home
          /\ OnModule(frozen) /\ PlainScripts(frozen)
          /\ \E s \in Source : frozen \in Range(tree[s])
      BY <3>1 DEF IInv, FrozenOK
    <3> HIDE DEF target
    <3>3. last'.ok
      BY <2>1, <3>1, <3>2, ProvisionKeeps
    <3> QED BY <3>3
  <2>3. CASE RefuseRepair(args)
    <3>1. /\ last'.command = "repair" /\ last'.args = <<args>>
          /\ frozen' = frozen /\ slots' = slots
          /\ ~ CanRepair(args)
      BY <2>3 DEF RefuseRepair, Ends
    <3>2. last'.args[1] = args
      BY <3>1
    <3>3. \/ frozen = None
          \/ Statuses(slots, target, frozen) = {"match"}
          \/ Statuses(slots, target, frozen) = {"missing"}
      BY <2>1, <3>1 DEF CanRepair
    <3>4. \/ frozen = None
          \/ \A asset \in Range(a) : ~ Differs(asset)
          \/ \A asset \in Range(a) : slots[asset.slot.location] = None
      <4> SUFFICES ASSUME frozen # None
                   PROVE  \/ \A asset \in Range(a) : ~ Differs(asset)
                          \/ \A asset \in Range(a) : slots[asset.slot.location] = None
        OBVIOUS
      <4> HIDE DEF target
      <4>1. /\ DOMAIN a = 1 .. Len(a)
            /\ Statuses(slots, target, frozen)
                 = {SlotStatus(slots, target, a[i]) : i \in 1 .. Len(a)}
            /\ \A i \in 1 .. Len(a) :
                 /\ SlotStatus(slots, target, a[i]) = "match" <=> ~ Differs(a[i])
                 /\ SlotStatus(slots, target, a[i]) = "missing"
                      <=> slots[a[i].slot.location] = None
        BY <2>1, InspectionIs
      <4> HIDE DEF a
      <4> QED BY <3>3, <4>1 DEF Range
    <3> HIDE DEF target
    <3> QED BY <3>1, <3>2, <3>4 DEF MayFail, Differs
  <2>4. CASE Verify(args)
    <3>1. /\ last'.command = "verify" /\ last'.args = <<args>>
          /\ frozen' = frozen /\ slots' = slots
      BY <2>4 DEF Verify, Ends
    <3>2. last'.args[1] = args
      BY <3>1
    <3>3. frozen = None \/ Statuses(slots, target, frozen) # {"match"}
      BY <2>1, <2>4 DEF Verify, Ends
    <3>4. frozen = None \/ \E asset \in Range(a) : Differs(asset)
      <4> SUFFICES ASSUME frozen # None PROVE \E asset \in Range(a) : Differs(asset)
        OBVIOUS
      <4> HIDE DEF target
      <4>1. /\ DOMAIN a = 1 .. Len(a)
            /\ \E i \in 1 .. Len(a) : TRUE
            /\ Statuses(slots, target, frozen)
                 = {SlotStatus(slots, target, a[i]) : i \in 1 .. Len(a)}
            /\ \A i \in 1 .. Len(a) :
                 SlotStatus(slots, target, a[i]) = "match" <=> ~ Differs(a[i])
        BY <2>1, InspectionIs
      <4> HIDE DEF a
      <4>2. \E i \in 1 .. Len(a) : SlotStatus(slots, target, a[i]) # "match"
        BY <3>3, <4>1
      <4> QED BY <4>1, <4>2 DEF Range
    <3> HIDE DEF target
    <3> QED BY <3>1, <3>2, <3>4 DEF MayFail, Differs
  <2> QED BY <2>2, <2>3, <2>4
<1> QED BY <1>1, <1>2

\* Every step keeps FailureHasReason.
LEMMA FailureStep == IInv /\ FailureHasReason /\ [Next]_vars => FailureHasReason'
<1> SUFFICES ASSUME IInv, FailureHasReason, [Next]_vars PROVE FailureHasReason'
  OBVIOUS
<1>1. CASE UNCHANGED vars
  BY <1>1 DEF vars, FailureHasReason, MayFail, Wanted, Places, Differs
<1>2. CASE Next
  <2> SUFFICES ASSUME ~ last'.ok PROVE MayFail(last.command, last.args)'
    BY DEF FailureHasReason
  <2>1. ASSUME NEW name, NEW args \in TargetArgs,
               \/ Install(name, args)
               \/ Upgrade(name, args)
               \/ \E command \in {"install", "upgrade"} : RefuseInstall(command, name, args)
        PROVE  MayFail(last.command, last.args)'
    BY <2>1, InstallReason
  <2>2. ASSUME NEW args \in TargetArgs,
               \/ Repair(args) \/ RefuseRepair(args)
               \/ Restore(args) \/ Clear(args) \/ RefuseRemove(args)
               \/ Verify(args)
        PROVE  MayFail(last.command, last.args)'
    BY <2>2, RemoveReason, RepairReason
  <2>3. ASSUME last'.command \in {"set", "clear layer", "activate", "raw", "edit"}
        PROVE  MayFail(last.command, last.args)'
    BY <2>3 DEF MayFail
  <2>4. ASSUME NEW location, NEW t, Edit(location, t) PROVE last'.command = "edit"
    BY <2>4 DEF Edit, Ends
  <2> QED BY <1>2, <2>1, <2>2, <2>3, <2>4, ScreenStays, NextCases
<1> QED BY <1>1, <1>2

\* No command of runtime.rs fails without a reason: a target that is not
\* valid or reached, a directory that is not found or does not load, a slot the
\* module does not have, a script that does not come back as it was sent.
THEOREM Reasons == Spec => []FailureHasReason
<1>1. Init => FailureHasReason
  BY DEF Init, Idle, FailureHasReason
<1> QED BY <1>1, FailureStep, Invariance, PTL DEF Spec

-----------------------------------------------------------------------------
(* The calls of a screen command                                           *)

\* The clear plan has every field of the layer, and no other.
LEMMA PlanIs ==
  ASSUME NEW manifest \in Manifest, NEW layer
  PROVE  LET own == {f \in Range(manifest.fields) : f.layer = layer}
             p == ClearPlan(manifest, layer)
         IN /\ p \in Seq({[field |-> f, value |-> f.clear.literal] : f \in own})
            /\ \A f \in own : \E i \in DOMAIN p : p[i].field = f
<1> DEFINE fields == manifest.fields
           N == Len(fields)
           own == {f \in Range(fields) : f.layer = layer}
           item(f) == [field |-> f, value |-> f.clear.literal]
           S == {item(f) : f \in own}
           After(q, n) == IF fields[n].layer = layer THEN Append(q, item(fields[n])) ELSE q
           Runs(p) == p = [n \in 0 .. N |-> IF n = 0 THEN <<>> ELSE After(p[n - 1], n)]
           plan == CHOOSE p : Runs(p)
<1>1. N \in Nat /\ DOMAIN fields = 1 .. N
  BY DEF Manifest
<1>2. \A n \in 1 .. N : fields[n].layer = layer => item(fields[n]) \in S /\ fields[n] \in own
  BY <1>1 DEF Range
<1>3. ClearPlan(manifest, layer) = plan[N]
  BY DEF ClearPlan
<1>4. Range(fields) = {fields[n] : n \in 1 .. N}
  BY <1>1 DEF Range
<1> HIDE DEF N, fields, S, item
<1>5. \A q \in Seq(S), n \in 1 .. N : After(q, n) \in Seq(S)
  BY <1>2
<1>6. \E p : Runs(p)
  <2> DEFINE Step == [n \in 1 .. N |-> [q \in Seq(S) |-> After(q, n)]]
  <2>1. Step \in [1 .. N -> [Seq(S) -> Seq(S)]]
    <3> HIDE DEF After
    <3> QED BY <1>5
  <2>2. \A q \in Seq(S), n \in 1 .. N : Step[n][q] = After(q, n)
    <3> HIDE DEF After
    <3> QED OBVIOUS
  <2> HIDE DEF Step, After
  <2>3. <<>> \in Seq(S)
    OBVIOUS
  <2>4. PICK p \in [0 .. N -> Seq(S)] :
          p[0] = <<>> /\ \A n \in 1 .. N : p[n] = Step[n][p[n - 1]]
    <3>1. N \in Nat
      BY <1>1
    <3> DEFINE Seqs == Seq(S)
               empty == <<>>
    <3>2. empty \in Seqs /\ Step \in [1 .. N -> [Seqs -> Seqs]]
      BY <2>1, <2>3
    <3> HIDE DEF Seqs, empty
    <3>3. \E p \in [0 .. N -> Seqs] :
            p[0] = empty /\ \A n \in 1 .. N : p[n] = Step[n][p[n - 1]]
      BY <3>1, <3>2, Iterates
    <3> QED BY <3>3 DEF Seqs, empty
  <2>5. \A n \in 1 .. N : p[n - 1] \in Seq(S)
    BY <1>1
  <2>6. \A n \in 0 .. N : p[n] = IF n = 0 THEN <<>> ELSE After(p[n - 1], n)
    <3>1. \A n \in 1 .. N : p[n] = After(p[n - 1], n)
      BY <2>2, <2>4, <2>5
    <3>2. \A n \in 0 .. N : n = 0 \/ n \in 1 .. N
      BY <1>1
    <3> QED BY <2>4, <3>1, <3>2
  <2>7. Runs(p)
    BY <2>6
  <2> QED BY <2>7
<1>7. plan = [n \in 0 .. N |-> IF n = 0 THEN <<>> ELSE After(plan[n - 1], n)]
  BY <1>6
<1> HIDE DEF plan
<1>8. plan[0] = <<>> /\ \A n \in 1 .. N : plan[n] = After(plan[n - 1], n)
  <2> HIDE DEF After
  <2> QED BY <1>1, <1>7
<1> DEFINE Right == {k \in Nat : k <= N =>
                       /\ plan[k] \in Seq(S)
                       /\ \A n \in 1 .. k : fields[n].layer = layer =>
                            \E i \in 1 .. Len(plan[k]) : plan[k][i] = item(fields[n])}
<1>9. Nat \subseteq Right
  <2>1. 0 \in Right
    <3>1. plan[0] \in Seq(S)
      BY <1>8
    <3>2. \A n \in 1 .. 0 : FALSE
      OBVIOUS
    <3> QED BY <3>1, <3>2
  <2>2. ASSUME NEW k \in Nat, k \in Right PROVE k + 1 \in Right
    <3> DEFINE m == k + 1
               p == plan[k]
               q == plan[m]
    <3> SUFFICES ASSUME m <= N
                 PROVE  /\ q \in Seq(S)
                        /\ \A n \in 1 .. m : fields[n].layer = layer =>
                             \E i \in 1 .. Len(q) : q[i] = item(fields[n])
      OBVIOUS
    <3>1. m \in 1 .. N /\ m - 1 = k /\ k <= N
      BY <1>1
    <3>2. /\ p \in Seq(S)
          /\ \A n \in 1 .. k : fields[n].layer = layer =>
               \E i \in 1 .. Len(p) : p[i] = item(fields[n])
      BY <2>2, <3>1
    <3>3. q = After(p, m)
      BY <1>8, <3>1
    <3>4. q \in Seq(S)
      <4> HIDE DEF p, q, After, m
      <4> QED BY <1>5, <3>1, <3>2, <3>3
    <3>5. \A n \in 1 .. m : n = m \/ n \in 1 .. k
      OBVIOUS
    <3> HIDE DEF p, q, m
    <3>6. fields[m].layer = layer =>
            /\ Len(q) = Len(p) + 1
            /\ q[Len(p) + 1] = item(fields[m])
            /\ \A i \in 1 .. Len(p) : q[i] = p[i]
      BY <1>2, <3>1, <3>2, <3>3
    <3>7. fields[m].layer # layer => q = p
      BY <3>3
    <3>8. Len(p) \in Nat
      BY <3>2
    <3>9. ASSUME NEW n \in 1 .. m, fields[n].layer = layer
          PROVE  \E i \in 1 .. Len(q) : q[i] = item(fields[n])
      <4>1. CASE n = m
        <5>1. Len(p) + 1 \in 1 .. Len(q) /\ q[Len(p) + 1] = item(fields[n])
          BY <3>6, <3>8, <3>9, <4>1
        <5> QED BY <5>1
      <4>2. CASE n \in 1 .. k
        <5>1. PICK i \in 1 .. Len(p) : p[i] = item(fields[n])
          BY <3>2, <3>9, <4>2
        <5>2. i \in 1 .. Len(q) /\ q[i] = p[i]
          BY <3>6, <3>7, <3>8
        <5> QED BY <5>1, <5>2
      <4> QED BY <3>5, <4>1, <4>2
    <3> QED BY <3>4, <3>9
  <2> HIDE DEF Right
  <2> QED BY <2>1, <2>2, Induct
<1> DEFINE p == plan[N]
<1>10. /\ p \in Seq(S)
       /\ \A n \in 1 .. N : fields[n].layer = layer =>
            \E i \in 1 .. Len(p) : p[i] = item(fields[n])
  BY <1>1, <1>9
<1> HIDE DEF p
<1>11. \A f \in own : \E i \in DOMAIN p : p[i].field = f
  <2> SUFFICES ASSUME NEW n \in 1 .. N, fields[n].layer = layer
               PROVE  \E i \in DOMAIN p : p[i].field = fields[n]
    BY <1>4
  <2>1. PICK i \in 1 .. Len(p) : p[i] = item(fields[n])
    BY <1>10
  <2> QED BY <1>10, <2>1 DEF item
<1> QED BY <1>3, <1>10, <1>11 DEF fields, S, item, p

\* A module that the target reaches runs what is sent to it.
LEMMA ImmediateHeard ==
  ASSUME NEW args \in TargetArgs, Reachable(args), NEW t \in Text
  PROVE  Hears(Here, EncodeImmediate(ResolveTarget(args), t))
<1> DEFINE target == ResolveTarget(args)
           fields == Hex(4, 0) \o ScriptCells(t)
<1>1. target \in Coordinates /\ Heard(target)
  BY ReachableIs
<1> HIDE DEF target
<1>2. Hex(4, 0) \in Seq(Cell)
  <2>1. 4 \in 1 .. 4 /\ 0 \in Int
    OBVIOUS
  <2> QED BY <2>1, HexCells
<1>3. ScriptCells(t) \in Seq(Cell)
  BY ScriptCellsCells
<1>4. fields \in Seq(Cell)
  BY <1>2, <1>3, Joined
<1> HIDE DEF fields
<1>5. /\ Class.immediate \in Int /\ Instruction.execute \in Int
      /\ Host \in Coordinates
  BY WireType DEF Class, Instruction
<1>6. Block(Class.immediate, Instruction.execute, fields) \in Seq(Cell)
  BY <1>4, <1>5, BlockCells
<1>7. Hears(Here, EncodePacket(Host, Wire(target),
                               Block(Class.immediate, Instruction.execute, fields)))
  BY <1>1, <1>5, <1>6, PacketTarget
<1> QED BY <1>7 DEF EncodeImmediate, fields, target

\* What a plan is compiled to.
Compiled(c, plan, n, activate, m) ==
  /\ DOMAIN c = 1 .. n + m /\ Len(c) = n + m
  /\ \A i \in 1 .. n : c[i] = SetFieldCall(plan[i])
  /\ \A i \in n + 1 .. n + m : c[i] = ActivateCall(activate[i - n])

\* The calls of a plan and an activation.
LEMMA CompiledIs ==
  ASSUME NEW plan, NEW activate, NEW n \in Nat, NEW m \in Nat,
         DOMAIN plan = 1 .. n, DOMAIN activate = 1 .. m
  PROVE  Compiled(CompileSet(plan, activate), plan, n, activate, m)
<1>1. PICK s : s = [i \in 1 .. n |-> SetFieldCall(plan[i])]
  OBVIOUS
<1>2. PICK t : t = [i \in 1 .. m |-> ActivateCall(activate[i])]
  OBVIOUS
<1>3. \A i \in 1 .. n : s[i] = SetFieldCall(plan[i])
  BY <1>1
<1>4. \A i \in 1 .. m : t[i] = ActivateCall(activate[i])
  BY <1>2
<1> DEFINE S == {SetFieldCall(plan[i]) : i \in 1 .. n}
                  \cup {ActivateCall(activate[i]) : i \in 1 .. m}
<1>5. s \in Seq(S) /\ Len(s) = n
  <2>1. \A i \in 1 .. n : SetFieldCall(plan[i]) \in S
    OBVIOUS
  <2> HIDE DEF S
  <2> QED BY <1>1, <2>1
<1>6. t \in Seq(S) /\ Len(t) = m
  <2>1. \A i \in 1 .. m : ActivateCall(activate[i]) \in S
    OBVIOUS
  <2> HIDE DEF S
  <2> QED BY <1>2, <2>1
<1> HIDE DEF S
<1>7. /\ s \o t \in Seq(S)
      /\ Len(s \o t) = n + m
      /\ \A i \in 1 .. n : (s \o t)[i] = s[i]
      /\ \A i \in 1 .. m : (s \o t)[n + i] = t[i]
  BY <1>5, <1>6
<1>8. CompileSet(plan, activate) = s \o t
  BY <1>1, <1>2 DEF CompileSet
<1>9. ASSUME NEW i \in n + 1 .. n + m PROVE (s \o t)[i] = ActivateCall(activate[i - n])
  <2>1. i - n \in 1 .. m /\ n + (i - n) = i
    OBVIOUS
  <2>2. (s \o t)[n + (i - n)] = t[i - n]
    BY <1>7, <2>1
  <2> QED BY <1>4, <2>1, <2>2
<1> DEFINE u == s \o t
<1> HIDE DEF u
<1>10. DOMAIN u = 1 .. n + m /\ Len(u) = n + m
  BY <1>7 DEF u
<1>11. /\ \A i \in 1 .. n : u[i] = SetFieldCall(plan[i])
       /\ \A i \in n + 1 .. n + m : u[i] = ActivateCall(activate[i - n])
  BY <1>3, <1>7, <1>9 DEF u
<1>12. Compiled(u, plan, n, activate, m)
  BY <1>10, <1>11 DEF Compiled
<1> QED BY <1>8, <1>12 DEF u

\* What the module makes of an update and of an activation.
LEMMA SetFieldEncoded ==
  ASSUME NEW assignment
  PROVE  LET c == EncodeCall(SetFieldCall(assignment))
         IN /\ c.call = "set_field"
            /\ <<c.layer, c.key>> = Address(assignment.field)
            /\ c.value = Ascii(assignment.value)
<1> DEFINE c == SetFieldCall(assignment)
<1>1. /\ c.call = "set_field" /\ c.layer = assignment.field.layer
      /\ c.key = assignment.field.key /\ c.value = assignment.value
      /\ DOMAIN c = {"call", "layer", "key", "value"}
  BY DEF SetFieldCall
<1> HIDE DEF c
<1>2. EncodeCall(c) =
        [c EXCEPT !.layer = Ascii(@), !.key = Ascii(@), !.value = Ascii(@)]
  BY <1>1 DEF EncodeCall
<1>3. /\ EncodeCall(c).call = "set_field"
      /\ EncodeCall(c).layer = Ascii(assignment.field.layer)
      /\ EncodeCall(c).key = Ascii(assignment.field.key)
      /\ EncodeCall(c).value = Ascii(assignment.value)
  BY <1>1, <1>2
<1> QED BY <1>3 DEF Address, c

LEMMA ActivateEncoded ==
  ASSUME NEW layer
  PROVE  EncodeCall(ActivateCall(layer)) = ActivateCall(Ascii(layer))
BY DEF EncodeCall, ActivateCall

\* A field shows its value if no other value is set at its place.
LEMMA ShowsWhen ==
  ASSUME NEW plan, NEW activate, NEW n \in Nat, NEW m \in Nat,
         DOMAIN plan = 1 .. n, DOMAIN activate = 1 .. m, NEW k \in 1 .. n,
         \A j \in 1 .. n :
           Address(plan[j].field) = Address(plan[k].field) => plan[j].value = plan[k].value
  PROVE  Shows(EncodeCalls(CompileSet(plan, activate)), plan[k].field, plan[k].value)
<1> DEFINE b == CompileSet(plan, activate)
           c == EncodeCalls(b)
           field == plan[k].field
           Sets(i) == /\ c[i].call = "set_field"
                      /\ <<c[i].layer, c[i].key>> = Address(field)
           J == {j \in 1 .. n : Address(plan[j].field) = Address(field)}
           i == Max(J)
<1>1. /\ DOMAIN c = 1 .. n + m
      /\ \A j \in 1 .. n : c[j] = EncodeCall(SetFieldCall(plan[j]))
      /\ \A j \in n + 1 .. n + m : c[j] = EncodeCall(ActivateCall(activate[j - n]))
  <2>1. Compiled(b, plan, n, activate, m)
    BY CompiledIs
  <2> HIDE DEF b
  <2>2. /\ DOMAIN b = 1 .. n + m
        /\ \A j \in 1 .. n : b[j] = SetFieldCall(plan[j])
        /\ \A j \in n + 1 .. n + m : b[j] = ActivateCall(activate[j - n])
    BY <2>1 DEF Compiled
  <2>3. \A j \in 1 .. n + m : c[j] = EncodeCall(b[j])
    BY <2>2 DEF EncodeCalls
  <2>4. \A j \in 1 .. n : j \in 1 .. n + m
    OBVIOUS
  <2>5. \A j \in n + 1 .. n + m : j \in 1 .. n + m
    OBVIOUS
  <2> HIDE DEF c
  <2>6. DOMAIN c = 1 .. n + m
    BY <2>2 DEF EncodeCalls, c
  <2> QED BY <2>2, <2>3, <2>4, <2>5, <2>6
<1>2. J \in SUBSET (1 .. n) /\ J # {}
  <2>1. k \in J
    OBVIOUS
  <2> QED BY <2>1
<1>3. i \in J /\ \A j \in J : i >= j
  <2> HIDE DEF J
  <2> QED BY <1>2, MaxExists
<1> HIDE DEF b, c, i
<1>4. \A j \in 1 .. n : /\ c[j].call = "set_field"
                        /\ <<c[j].layer, c[j].key>> = Address(plan[j].field)
                        /\ c[j].value = Ascii(plan[j].value)
  <2> SUFFICES ASSUME NEW j \in 1 .. n
               PROVE  /\ c[j].call = "set_field"
                      /\ <<c[j].layer, c[j].key>> = Address(plan[j].field)
                      /\ c[j].value = Ascii(plan[j].value)
    OBVIOUS
  <2>1. c[j] = EncodeCall(SetFieldCall(plan[j]))
    BY <1>1
  <2> QED BY <2>1, SetFieldEncoded
<1>5. \A j \in n + 1 .. n + m : c[j].call = "activate_layer"
  <2> SUFFICES ASSUME NEW j \in n + 1 .. n + m PROVE c[j].call = "activate_layer"
    OBVIOUS
  <2>1. c[j] = EncodeCall(ActivateCall(activate[j - n]))
    BY <1>1
  <2>2. c[j] = ActivateCall(Ascii(activate[j - n]))
    BY <2>1, ActivateEncoded
  <2> QED BY <2>2 DEF ActivateCall
<1>6. i \in DOMAIN c /\ Sets(i) /\ c[i].value = Ascii(plan[k].value)
  BY <1>1, <1>3, <1>4
<1>7. ASSUME NEW j \in DOMAIN c, j > i PROVE ~ Sets(j)
  <2>1. CASE j \in 1 .. n
    <3>1. j \notin J
      BY <1>3, <1>7, <2>1
    <3> QED BY <1>4, <2>1, <3>1
  <2>2. CASE j \notin 1 .. n
    <3>1. j \in n + 1 .. n + m
      BY <1>1, <2>2
    <3>2. c[j].call = "activate_layer"
      BY <1>5, <3>1
    <3> QED BY <3>2
  <2> QED BY <2>1, <2>2
<1> QED BY <1>6, <1>7 DEF Shows, b, c

\* The calls of a valid set show what it asks for.
LEMMA SetShows ==
  ASSUME IInv, NEW inputs \in Inputs, NEW activate \in BoundedSeq(Layers, 1),
         SetIsValid(inputs, activate)
  PROVE  SetShown(Range(frozen.manifest.fields), Range(inputs), activate,
                  EncodeCalls(CompileSet(ParseAssignments(frozen.manifest, inputs), activate)))
<1> DEFINE manifest == frozen.manifest
           fields == Range(manifest.fields)
           named == {f \in fields : \E i \in Range(inputs) : i.name = f.name}
           plan == ParseAssignments(manifest, inputs)
           compiled == CompileSet(plan, activate)
           calls == EncodeCalls(compiled)
           n == Len(inputs)
           m == Len(activate)
<1>1. n \in Nat /\ DOMAIN inputs = 1 .. n
  <2>1. inputs \in Seq([equals : BOOLEAN, name : Seq(STRING), literal : STRING])
    BY ProvisionAssumption
  <2> QED BY <2>1
<1>2. m \in Nat /\ DOMAIN activate = 1 .. m /\ (activate # <<>> => m = 1)
  BY DEF BoundedSeq, SeqOf
<1>3. \A f, g \in fields : f.name = g.name => f = g
  <2>1. frozen # None
    BY DEF SetIsValid, HasRegistry
  <2>2. NoneTwice(manifest.fields, "name")
    BY <2>1 DEF IInv, FrozenOK, IsLoaded, ManifestIsValid
  <2> QED BY <2>2 DEF NoneTwice, IsInjective, Column, Range
<1>4. /\ \A i \in DOMAIN inputs : \E f \in fields : f.name = inputs[i].name
      /\ NoDuplicate(plan)
  BY DEF SetIsValid, AssignmentParses
<1> HIDE DEF fields, n, m
<1>5. \A i \in 1 .. n : /\ plan[i].field \in fields
                        /\ plan[i].field.name = inputs[i].name
                        /\ plan[i].value = inputs[i].literal
  <2> SUFFICES ASSUME NEW i \in 1 .. n
               PROVE  /\ plan[i].field \in fields
                      /\ plan[i].field.name = inputs[i].name
                      /\ plan[i].value = inputs[i].literal
    OBVIOUS
  <2>1. \E f \in fields : f.name = inputs[i].name
    BY <1>1, <1>4
  <2>2. FieldNamed(manifest, inputs[i].name) \in fields
        /\ FieldNamed(manifest, inputs[i].name).name = inputs[i].name
    BY <2>1 DEF FieldNamed, fields
  <2>3. plan[i] = [field |-> FieldNamed(manifest, inputs[i].name), value |-> inputs[i].literal]
    BY <1>1 DEF ParseAssignments
  <2> QED BY <2>2, <2>3
<1>6. DOMAIN plan = 1 .. n
  BY <1>1 DEF ParseAssignments
<1>7. \A i, j \in 1 .. n : plan[i].field.name = plan[j].field.name => i = j
  BY <1>4, <1>6 DEF NoDuplicate, IsInjective
<1> HIDE DEF plan
<1>8. ASSUME NEW f \in named, NEW k \in 1 .. n, inputs[k].name = f.name,
             \A other \in named \ {f} : Address(other) # Address(f)
      PROVE  Shows(calls, f, inputs[k].literal)
  <2>1. plan[k].field = f
    BY <1>3, <1>5, <1>8
  <2>2. ASSUME NEW j \in 1 .. n,
               Address(plan[j].field) = Address(plan[k].field)
        PROVE  plan[j].value = plan[k].value
    <3>1. inputs[j] \in Range(inputs)
      BY <1>1 DEF Range
    <3>2. plan[j].field \in named
      BY <1>5, <3>1
    <3>3. plan[j].field = f
      BY <1>8, <2>1, <2>2, <3>2
    <3>4. j = k
      BY <1>7, <2>1, <3>3
    <3> QED BY <3>4
  <2>3. Shows(calls, plan[k].field, plan[k].value)
    BY <1>1, <1>2, <1>6, <2>2, ShowsWhen
  <2> QED BY <1>5, <2>1, <2>3
<1>9. activate # <<>> => calls[Len(calls)] = ActivateCall(Ascii(activate[1]))
  <2> SUFFICES ASSUME activate # <<>>
               PROVE  calls[Len(calls)] = ActivateCall(Ascii(activate[1]))
    OBVIOUS
  <2>1. m = 1
    BY <1>2
  <2>2. /\ DOMAIN compiled = 1 .. n + m
        /\ \A i \in n + 1 .. n + m : compiled[i] = ActivateCall(activate[i - n])
    <3>1. Compiled(compiled, plan, n, activate, m)
      BY <1>1, <1>2, <1>6, CompiledIs
    <3> HIDE DEF compiled
    <3> QED BY <3>1 DEF Compiled
  <2> HIDE DEF compiled
  <2>3. n + 1 \in n + 1 .. n + m /\ n + 1 - n = 1 /\ n + 1 \in 1 .. n + m /\ n + m \in Nat
    BY <1>1, <2>1
  <2>4. Len(calls) = n + m
    BY <2>2, <2>3 DEF EncodeCalls
  <2>5. calls[n + 1] = EncodeCall(compiled[n + 1])
    BY <2>2, <2>3 DEF EncodeCalls
  <2> HIDE DEF calls
  <2>6. compiled[n + 1] = ActivateCall(activate[1])
    <3>1. PICK i \in n + 1 .. n + m : i = n + 1
      BY <2>3
    <3>2. compiled[i] = ActivateCall(activate[i - n])
      BY <2>2
    <3>3. i - n = 1
      BY <1>1, <3>1
    <3>4. compiled[i] = ActivateCall(activate[1])
      BY <3>2, <3>3
    <3> QED BY <3>1, <3>4
  <2>7. EncodeCall(compiled[n + 1]) = ActivateCall(Ascii(activate[1]))
    BY <2>6, ActivateEncoded
  <2> QED BY <2>1, <2>4, <2>5, <2>7
<1>10. \A i \in Range(inputs) : \E k \in 1 .. n : i = inputs[k]
  BY <1>1 DEF Range
<1> HIDE DEF calls, named
<1>11. \A f \in named, i \in Range(inputs) :
         /\ i.name = f.name
         /\ \A other \in named \ {f} : Address(other) # Address(f)
         => Shows(calls, f, i.literal)
  BY <1>8, <1>10
<1> QED BY <1>9, <1>11 DEF SetShown, Alone, calls, compiled, named, plan, fields

\* The calls of a clear show the clear values of the layer.
LEMMA ClearShows ==
  ASSUME IInv, frozen # None, NEW layer
  PROVE  ClearShown(Range(frozen.manifest.fields), layer,
                    EncodeCalls(CompileSet(ClearPlan(frozen.manifest, layer), <<>>)))
<1> DEFINE manifest == frozen.manifest
           named == {f \in Range(manifest.fields) : f.layer = layer}
           S == {[field |-> f, value |-> f.clear.literal] : f \in named}
           plan == ClearPlan(manifest, layer)
           n == Len(plan)
           calls == EncodeCalls(CompileSet(plan, <<>>))
<1>1. manifest \in Manifest
  BY DEF IInv, FrozenOK, IsLoaded
<1>2. plan \in Seq(S) /\ \A f \in named : \E i \in DOMAIN plan : plan[i].field = f
  BY <1>1, PlanIs
<1> HIDE DEF plan
<1>3. n \in Nat /\ DOMAIN plan = 1 .. n /\ \A i \in 1 .. n : plan[i] \in S
  BY <1>2
<1>4. \A i \in 1 .. n : plan[i].field \in named /\ plan[i].value = plan[i].field.clear.literal
  <2> HIDE DEF named
  <2> QED BY <1>3
<1>5. DOMAIN <<>> = 1 .. 0
  OBVIOUS
<1> HIDE DEF n, S
<1>6. ASSUME NEW f \in named,
             \A other \in named \ {f} : Address(other) # Address(f)
      PROVE  Shows(calls, f, f.clear.literal)
  <2> HIDE DEF named
  <2>1. PICK k \in 1 .. n : plan[k].field = f
    BY <1>2, <1>3
  <2>2. ASSUME NEW j \in 1 .. n,
               Address(plan[j].field) = Address(plan[k].field)
        PROVE  plan[j].value = plan[k].value
    <3>1. plan[j].field = f
      BY <1>4, <1>6, <2>1, <2>2
    <3> QED BY <1>4, <2>1, <3>1
  <2> DEFINE activate == <<>>
  <2>3. DOMAIN activate = 1 .. 0
    BY <1>5
  <2> HIDE DEF activate
  <2>4. Shows(EncodeCalls(CompileSet(plan, activate)), plan[k].field, plan[k].value)
    BY <1>3, <2>2, <2>3, ShowsWhen
  <2> QED BY <1>4, <2>1, <2>4 DEF activate
<1> QED BY <1>6 DEF ClearShown, Alone, plan

-----------------------------------------------------------------------------
(* What a screen command shows                                             *)

\* The end of a screen command: its calls run on a module that hears them.
LEMMA CallsRun ==
  ASSUME NEW command, NEW a, NEW args \in TargetArgs, NEW calls, Len(calls) \in Nat,
         SendCalls(command, a, ResolveTarget(args), calls)
  PROVE  /\ last'.command = command /\ last'.args = a /\ frozen' = frozen
         /\ last'.ok /\ Reachable(args) => last'.ran = EncodeCalls(calls)
<1> DEFINE t == [EmptyText EXCEPT !.ascii = Len(calls) * CallLength]
           target == ResolveTarget(args)
<1>1. t \in Text
  <2>1. Len(calls) * CallLength \in Nat
    BY ProvisionAssumption
  <2> QED BY <2>1, ProvisionAssumption DEF Text
<1>2. Send(command, a, target, t, EncodeCalls(calls))
  BY DEF SendCalls
<1>3. Reachable(args) => Hears(Here, EncodeImmediate(target, t))
  BY <1>1, ImmediateHeard
<1> HIDE DEF t, target
<1>4. /\ last'.command = command /\ last'.args = a /\ frozen' = frozen
      /\ last'.ok = Encodable(t)
      /\ last'.ran = IF Encodable(t) /\ Hears(Here, EncodeImmediate(target, t))
                       THEN EncodeCalls(calls) ELSE <<>>
  BY <1>2 DEF Send, Ends
<1> QED BY <1>3, <1>4

\* The invariant after a step, by the command and the arguments it ends with.
LEMMA SetEnds ==
  ASSUME NEW inputs, NEW activate, NEW args,
         last'.command = "set", last'.args = <<inputs, activate, args>>, frozen' = frozen,
         last'.ok => (Reachable(args) =>
           SetShown(Range(frozen.manifest.fields), Range(inputs), activate, last'.ran))
  PROVE  ScreenShowsRequest'
<1>1. last'.args[1] = inputs /\ last'.args[2] = activate /\ last'.args[3] = args
  <2> DEFINE a == last'.args
  <2>1. a = <<inputs, activate, args>>
    OBVIOUS
  <2> HIDE DEF a
  <2>2. a[1] = inputs /\ a[2] = activate /\ a[3] = args
    BY <2>1
  <2> QED BY <2>2 DEF a
<1>2. ASSUME last'.ok, Reachable(last'.args[3])
      PROVE  SetShown(Range(frozen'.manifest.fields), Range(last'.args[1]), last'.args[2],
                      last'.ran)
  BY <1>1, <1>2
<1> QED BY <1>2 DEF ScreenShowsRequest

\* The same after a clear.
LEMMA ClearEnds ==
  ASSUME NEW layer, NEW args,
         last'.command = "clear layer", last'.args = <<layer, args>>, frozen' = frozen,
         last'.ok => (Reachable(args) =>
           ClearShown(Range(frozen.manifest.fields), layer, last'.ran))
  PROVE  ScreenShowsRequest'
<1>1. last'.args[1] = layer /\ last'.args[2] = args
  <2> DEFINE a == last'.args
  <2>1. a = <<layer, args>>
    OBVIOUS
  <2> HIDE DEF a
  <2>2. a[1] = layer /\ a[2] = args
    BY <2>1
  <2> QED BY <2>2 DEF a
<1>2. ASSUME last'.ok, Reachable(last'.args[2])
      PROVE  ClearShown(Range(frozen'.manifest.fields), last'.args[1], last'.ran)
  BY <1>1, <1>2
<1> QED BY <1>2 DEF ScreenShowsRequest

\* Every step keeps ScreenShowsRequest.
LEMMA ScreenStep == IInv /\ ScreenShowsRequest /\ [Next]_vars => ScreenShowsRequest'
<1> SUFFICES ASSUME IInv, ScreenShowsRequest, [Next]_vars PROVE ScreenShowsRequest'
  OBVIOUS
<1>1. CASE UNCHANGED vars
  <2>1. last' = last /\ frozen' = frozen
    BY <1>1 DEF vars
  <2> QED BY <2>1 DEF ScreenShowsRequest
<1>2. CASE Next
  <2>1. ASSUME NEW inputs \in Inputs, NEW activate \in BoundedSeq(Layers, 1),
               NEW args \in TargetArgs, ScreenSet(inputs, activate, args)
        PROVE  ScreenShowsRequest'
    <3> DEFINE plan == ParseAssignments(frozen.manifest, inputs)
               calls == CompileSet(plan, activate)
    <3>1. CASE ~ (SetIsValid(inputs, activate) /\ ValidTarget(args))
      <4>1. last'.command = "set" /\ last'.ok = FALSE
        BY <2>1, <3>1 DEF ScreenSet, Refuse, Ends
      <4> QED BY <4>1 DEF ScreenShowsRequest
    <3>2. CASE SetIsValid(inputs, activate) /\ ValidTarget(args)
      <4>1. SendCalls("set", <<inputs, activate, args>>, ResolveTarget(args), calls)
        BY <2>1, <3>2 DEF ScreenSet
      <4>2. Len(calls) \in Nat
        <5> DEFINE n == Len(inputs)
                   m == Len(activate)
        <5>1. DOMAIN inputs = 1 .. n /\ n \in Nat
          <6>1. inputs \in Seq([equals : BOOLEAN, name : Seq(STRING), literal : STRING])
            BY ProvisionAssumption
          <6> QED BY <6>1
        <5>2. DOMAIN plan = 1 .. n
          BY <5>1 DEF ParseAssignments
        <5>3. DOMAIN activate = 1 .. m /\ m \in Nat
          BY DEF BoundedSeq, SeqOf
        <5> HIDE DEF plan, n, m
        <5>4. Compiled(calls, plan, n, activate, m)
          BY <5>1, <5>2, <5>3, CompiledIs
        <5> HIDE DEF calls
        <5> QED BY <5>1, <5>3, <5>4 DEF Compiled
      <4>3. SetShown(Range(frozen.manifest.fields), Range(inputs), activate,
                     EncodeCalls(calls))
        BY <3>2, SetShows
      <4> HIDE DEF calls
      <4>4. /\ last'.command = "set" /\ last'.args = <<inputs, activate, args>>
            /\ frozen' = frozen
            /\ last'.ok /\ Reachable(args) => last'.ran = EncodeCalls(calls)
        BY <4>1, <4>2, CallsRun
      <4>5. last'.ok => (Reachable(args) =>
              SetShown(Range(frozen.manifest.fields), Range(inputs), activate, last'.ran))
        BY <4>3, <4>4
      <4> QED BY <4>4, <4>5, SetEnds
    <3> QED BY <3>1, <3>2
  <2>2. ASSUME NEW layer, NEW args \in TargetArgs, ScreenClear(layer, args)
        PROVE  ScreenShowsRequest'
    <3> DEFINE plan == ClearPlan(frozen.manifest, layer)
               calls == CompileSet(plan, <<>>)
               Valid == HasRegistry /\ HasLayer(frozen.manifest, layer) /\ ValidTarget(args)
    <3>1. CASE ~ Valid
      <4> HIDE DEF calls, plan
      <4>1. Refuse("clear layer", <<layer, args>>)
        BY <2>2, <3>1 DEF ScreenClear
      <4>2. last'.command = "clear layer" /\ last'.ok = FALSE
        BY <4>1 DEF Refuse, Ends
      <4> QED BY <4>2 DEF ScreenShowsRequest
    <3>2. CASE Valid
      <4>1. SendCalls("clear layer", <<layer, args>>, ResolveTarget(args), calls)
        BY <2>2, <3>2 DEF ScreenClear
      <4>2. frozen # None
        BY <3>2 DEF HasRegistry
      <4>3. Len(calls) \in Nat
        <5>1. frozen.manifest \in Manifest
          BY <4>2 DEF IInv, FrozenOK, IsLoaded
        <5> DEFINE n == Len(plan)
        <5>2. n \in Nat /\ DOMAIN plan = 1 .. n
          <6>1. PICK S : plan \in Seq(S)
            BY <5>1, PlanIs
          <6> QED BY <6>1
        <5> HIDE DEF plan, n
        <5> DEFINE activate == <<>>
        <5>3. DOMAIN activate = 1 .. 0 /\ 0 \in Nat
          OBVIOUS
        <5> HIDE DEF activate
        <5>4. Compiled(CompileSet(plan, activate), plan, n, activate, 0)
          BY <5>2, <5>3, CompiledIs
        <5>5. Len(CompileSet(plan, activate)) = n + 0
          BY <5>4 DEF Compiled
        <5> QED BY <5>2, <5>5 DEF activate
      <4>4. ClearShown(Range(frozen.manifest.fields), layer, EncodeCalls(calls))
        BY <4>2, ClearShows
      <4> HIDE DEF calls
      <4>5. /\ last'.command = "clear layer" /\ last'.args = <<layer, args>>
            /\ frozen' = frozen
            /\ last'.ok /\ Reachable(args) => last'.ran = EncodeCalls(calls)
        BY <4>1, <4>3, CallsRun
      <4>6. last'.ok => (Reachable(args) =>
              ClearShown(Range(frozen.manifest.fields), layer, last'.ran))
        BY <4>4, <4>5
      <4> QED BY <4>5, <4>6, ClearEnds
    <3> QED BY <3>1, <3>2
  <2>3. ASSUME last'.command \notin {"set", "clear layer"} PROVE ScreenShowsRequest'
    BY <2>3 DEF ScreenShowsRequest
  <2>4. ASSUME NEW name, NEW args,
               \/ Install(name, args)
               \/ Upgrade(name, args)
               \/ \E command \in {"install", "upgrade"} : RefuseInstall(command, name, args)
        PROVE  last'.command \in {"install", "upgrade"}
    BY <2>4 DEF Install, Upgrade, RefuseInstall, Provision, Ends
  <2>5. ASSUME NEW args,
               \/ Repair(args) \/ RefuseRepair(args)
               \/ Restore(args) \/ Clear(args) \/ RefuseRemove(args)
               \/ Verify(args)
        PROVE  last'.command \in {"repair", "restore", "clear", "remove", "verify"}
    BY <2>5 DEF Repair, RefuseRepair, Restore, Clear, RefuseRemove, Verify, Provision, Ends
  <2>6. ASSUME NEW layer, NEW args, ScreenActivate(layer, args)
        PROVE  last'.command = "activate"
    BY <2>6 DEF ScreenActivate, SendCalls, Send, Refuse, Ends
  <2>7. ASSUME NEW t, NEW args, ScreenRaw(t, args) PROVE last'.command = "raw"
    BY <2>7 DEF ScreenRaw, Send, Refuse, Ends
  <2>8. ASSUME NEW location, NEW t, Edit(location, t) PROVE last'.command = "edit"
    BY <2>8 DEF Edit, Ends
  <2>9. ASSUME NEW args \in TargetArgs, Screen(args) PROVE ScreenShowsRequest'
    BY <2>1, <2>2, <2>3, <2>6, <2>7, <2>9 DEF Screen
  <2> QED BY <1>2, <2>3, <2>4, <2>5, <2>8, <2>9, NextCases
<1> QED BY <1>1, <1>2

\* A successful set or clear of screen.rs that the module hears leaves every
\* field it is about at its value, and activates last what is to be activated.
THEOREM ShowsRequest == Spec => []ScreenShowsRequest
<1>1. Init => ScreenShowsRequest
  BY DEF Init, Idle, ScreenShowsRequest
<1> QED BY <1>1, ScreenStep, Invariance, PTL DEF Spec
=============================================================================
