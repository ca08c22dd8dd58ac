-------------------------- MODULE KvsPosix_proofs --------------------------
(***************************************************************************)
(* Proofs about KvsPosix: in the file of kvs/host/kvs_posix.cc no sequence *)
(* of sets and erases, cut short by crashes at any write, gives a key two  *)
(* nodes; what was set is read back; and the file is the map of KvsMap.    *)
(* For any keys, any values and any length of the file.                    *)
(*                                                                         *)
(* The argument: a chain is the least set that holds the first header and, *)
(* with a header, the one behind its body.  A write that puts a header of  *)
(* the same body over a node, or a body inside its node, or anything at    *)
(* the end of the file leaves the chain to the other nodes as it was, and  *)
(* their values.  What an operation has yet to write is in one of three    *)
(* stages (Pending), and each write leads from one to the next.            *)
(***************************************************************************)
EXTENDS KvsPosix, WellFoundedInduction, SequenceTheorems, TLAPS

--------------------------------------------------------------------------------
(* Induction *)

\* A set of naturals has a least member: what Least chooses exists.
LEMMA LeastOf ==
  ASSUME NEW T, T \subseteq Nat, T # {}
  PROVE  \E n \in T : \A m \in T : n <= m
<1> DEFINE R == OpToRel(<, Nat)
<1>1. IsWellFoundedOn(R, Nat)
  BY NatLessThanWellFounded
<1>2. PICK n \in T : \A m \in T : ~(<<m, n>> \in R)
  <2> HIDE DEF R
  <2> QED BY <1>1, WFMin
<1>3. \A m \in T : m < n => <<m, n>> \in R
  BY DEF OpToRel
<1>4. ~(\E m \in T : m < n)
  <2> HIDE DEF R
  <2> QED BY <1>2, <1>3
<1> QED BY <1>4

\* Induction over the naturals, for a set.
LEMMA NatSetInduction ==
  ASSUME NEW S, 0 \in S, \A n \in Nat : n \in S => n + 1 \in S
  PROVE  Nat \subseteq S
<1> SUFFICES ASSUME Nat \ S # {} PROVE FALSE
  OBVIOUS
<1>1. PICK n \in Nat \ S : \A m \in Nat \ S : n <= m
  BY LeastOf
<1>2. n # 0 /\ n - 1 \in Nat /\ n - 1 \in S
  BY <1>1
<1> QED BY <1>1, <1>2

--------------------------------------------------------------------------------
(* The chain *)

\* p is a header of the file.
Node(f, p) == p \in 1 .. Len(f) /\ f[p].hdr

\* Where the next header is looked for: behind the body.
After(f, p) == p + 1 + Body(f[p])

\* Each header says how long its body is.
Linked(f) == Len(f) \in Nat /\ \A p \in Nat : Node(f, p) => Body(f[p]) \in Nat

\* The recursive function of Chain exists: at every place it is what its equation
\* says.  (The witness is the set of the nodes in each closed set.)
LEMMA ChainDef ==
  ASSUME NEW f, Linked(f)
  PROVE  \E from : /\ Chain(f) = from[1]
                   /\ \A p \in Nat : from[p] = IF ~Node(f, p) THEN {} ELSE {p} \cup from[After(f, p)]
<1> DEFINE N == {p \in Nat : Node(f, p)}
           Closed(S) == \A p \in S : After(f, p) \in N => After(f, p) \in S
           reach(p) == {q \in N : \A S \in SUBSET N : (Closed(S) /\ (p \in N => p \in S)) => q \in S}
           g == [p \in Nat |-> reach(p)]
           Def(h) == [p \in Nat |-> IF p \notin 1 .. Len(f) \/ ~f[p].hdr THEN {} ELSE {p} \cup h[p + 1 + Body(f[p])]]
<1>1. \A p \in N : After(f, p) \in Nat
  BY DEF Linked, After
<1>2. ASSUME NEW p \in Nat, p \notin N PROVE reach(p) = {}
  <2>1. {} \in SUBSET N /\ Closed({}) /\ (p \in N => p \in {})
    BY <1>2
  <2> QED BY <2>1
<1>3. ASSUME NEW p \in N PROVE reach(p) = {p} \cup reach(After(f, p))
  <2> DEFINE n == After(f, p)
  <2>1. p \in reach(p)
    OBVIOUS
  <2>2. ASSUME NEW q \in reach(n) PROVE q \in reach(p)
    <3> SUFFICES ASSUME NEW S \in SUBSET N, Closed(S), p \in S PROVE q \in S
      BY <1>3, <2>2
    <3>1. n \in N => n \in S
      OBVIOUS
    <3> QED BY <2>2, <3>1
  <2>3. ASSUME NEW q \in reach(p), q # p PROVE q \in reach(n)
    <3> SUFFICES ASSUME NEW S \in SUBSET N, Closed(S), n \in N => n \in S PROVE q \in S
      BY <2>3
    <3>1. Closed(S \cup {p}) /\ S \cup {p} \in SUBSET N
      OBVIOUS
    <3>2. q \in S \cup {p}
      BY <3>1, <2>3
    <3> QED BY <3>2, <2>3
  <2> HIDE DEF reach
  <2> QED BY <2>1, <2>2, <2>3
<1>4. g = Def(g)
  <2>1. ASSUME NEW p \in Nat PROVE g[p] = Def(g)[p]
    <3>1. CASE p \notin N
      <4>1. p \notin 1 .. Len(f) \/ ~f[p].hdr
        BY <3>1 DEF Node
      <4> HIDE DEF reach
      <4> QED BY <4>1, <3>1, <1>2
    <3>2. CASE p \in N
      <4>1. ~(p \notin 1 .. Len(f) \/ ~f[p].hdr)
        BY <3>2 DEF Node
      <4>2. g[After(f, p)] = reach(After(f, p))
        BY <1>1, <3>2
      <4>3. reach(p) = {p} \cup g[After(f, p)]
        BY <4>2, <1>3, <3>2
      <4> HIDE DEF reach
      <4>4. Def(g)[p] = {p} \cup g[p + 1 + Body(f[p])]
        BY <4>1
      <4> QED BY <4>3, <4>4 DEF After
    <3> QED BY <3>1, <3>2
  <2> HIDE DEF reach
  <2> QED BY <2>1
<1> DEFINE from == CHOOSE h : h = Def(h)
<1>5. from = Def(from)
  <2> HIDE DEF Def, g
  <2> QED BY <1>4
<1>6. Chain(f) = from[1]
  BY DEF Chain
<1>7. ASSUME NEW p \in Nat
      PROVE  from[p] = IF ~Node(f, p) THEN {} ELSE {p} \cup from[After(f, p)]
  <2>1. from[p] = Def(from)[p]
    BY <1>5
  <2> HIDE DEF from
  <2>2. Def(from)[p] = IF p \notin 1 .. Len(f) \/ ~f[p].hdr THEN {} ELSE {p} \cup from[p + 1 + Body(f[p])]
    OBVIOUS
  <2> QED BY <2>1, <2>2 DEF Node, After
<1> HIDE DEF from
<1> QED BY <1>6, <1>7

\* The chain is the least set of nodes that holds the first and, with a node, the one
\* behind its body.
LEMMA ChainFacts ==
  ASSUME NEW f, Linked(f)
  PROVE  /\ \A p \in Chain(f) : p \in Nat /\ Node(f, p)
         /\ Node(f, 1) => 1 \in Chain(f)
         /\ \A p \in Chain(f) : Node(f, After(f, p)) => After(f, p) \in Chain(f)
         /\ \A S : (/\ Node(f, 1) => 1 \in S
                   /\ \A p \in S : (p \in Nat /\ Node(f, p) /\ Node(f, After(f, p))) => After(f, p) \in S)
                  => Chain(f) \subseteq S
<1>1. PICK from : /\ Chain(f) = from[1]
                  /\ \A p \in Nat : from[p] = IF ~Node(f, p) THEN {} ELSE {p} \cup from[After(f, p)]
  BY ChainDef
<1> DEFINE N == {p \in Nat : Node(f, p)}
           A(p) == After(f, p)
           Closed(S) == \A p \in S : (p \in N /\ A(p) \in N) => A(p) \in S
           Nodes_(p) == from[p] \subseteq N
           Next_(p) == \A q \in from[p] : A(q) \in N => A(q) \in from[p]
           Least_(p) == \A S : (Closed(S) /\ (p \in N => p \in S)) => from[p] \subseteq S
           D == {n \in Nat : \A p \in Nat : Len(f) < p + n => (Nodes_(p) /\ Next_(p) /\ Least_(p))}
<1>2. \A p \in N : A(p) \in Nat /\ A(p) > p /\ p <= Len(f)
  BY DEF Linked, After, Node
<1>3. \A p \in Nat \ N : from[p] = {}
  BY <1>1
<1>4. \A p \in N : from[p] = {p} \cup from[A(p)]
  BY <1>1
<1> HIDE DEF N, A
<1>5. \A p \in Nat \ N : Nodes_(p) /\ Next_(p) /\ Least_(p)
  BY <1>3
<1>6. 0 \in D
  <2>1. \A p \in Nat : Len(f) < p + 0 => p \notin N
    BY <1>2 DEF Linked
  <2> HIDE DEF Nodes_, Next_, Least_
  <2> QED BY <1>5, <2>1
<1>7. ASSUME NEW n \in Nat, n \in D PROVE n + 1 \in D
  <2>1. SUFFICES ASSUME NEW p \in Nat, Len(f) < p + (n + 1), p \in N
                 PROVE  Nodes_(p) /\ Next_(p) /\ Least_(p)
    <3> HIDE DEF Nodes_, Next_, Least_
    <3> QED BY <1>5
  <2>2. A(p) \in Nat /\ Len(f) < A(p) + n
    BY <2>1, <1>2 DEF Linked
  <2>3. Nodes_(A(p)) /\ Next_(A(p)) /\ Least_(A(p))
    <3> HIDE DEF Nodes_, Next_, Least_
    <3> QED BY <1>7, <2>2
  <2>4. from[p] = {p} \cup from[A(p)]
    BY <1>4, <2>1
  <2>5. A(p) \in N => A(p) \in from[A(p)]
    BY <1>4
  <2>6. Nodes_(p)
    BY <2>1, <2>3, <2>4
  <2>7. Next_(p)
    BY <2>3, <2>4, <2>5
  <2>8. Least_(p)
    BY <2>1, <2>3, <2>4
  <2> QED BY <2>6, <2>7, <2>8
<1>8. Nat \subseteq D
  <2> HIDE DEF D
  <2> QED BY <1>6, <1>7, NatSetInduction
<1>9. Nodes_(1) /\ Next_(1) /\ Least_(1)
  <2>1. Len(f) \in Nat /\ Len(f) \in D
    BY <1>8 DEF Linked
  <2> HIDE DEF Nodes_, Next_, Least_
  <2> QED BY <2>1
<1>10. 1 \in N => 1 \in from[1]
  BY <1>4
<1>11. N = {p \in Nat : Node(f, p)} /\ \A p : A(p) = After(f, p)
  BY DEF N, A
<1>12. \A p : Node(f, p) /\ p \in Nat <=> p \in N
  BY <1>11
<1>13. \A p \in N : Node(f, A(p)) <=> A(p) \in N
  BY <1>2, <1>12
<1>14. \A p \in Chain(f) : p \in Nat /\ Node(f, p)
  BY <1>1, <1>9, <1>12
<1>15. Node(f, 1) => 1 \in Chain(f)
  BY <1>1, <1>10, <1>12
<1>16. \A p \in Chain(f) : Node(f, After(f, p)) => After(f, p) \in Chain(f)
  BY <1>1, <1>9, <1>11, <1>13
<1>17. ASSUME NEW S, Node(f, 1) => 1 \in S,
              \A p \in S : (p \in Nat /\ Node(f, p) /\ Node(f, After(f, p))) => After(f, p) \in S
       PROVE  Chain(f) \subseteq S
  <2>1. Closed(S)
    BY <1>11, <1>12, <1>17
  <2> QED BY <1>1, <1>9, <1>12, <1>17, <2>1
<1> QED BY <1>14, <1>15, <1>16, <1>17

\* What holds of the first node and passes from a node to the one behind it holds of
\* the whole chain.
LEMMA ChainInduction ==
  ASSUME NEW f, Linked(f), NEW S,
         Node(f, 1) => 1 \in S,
         \A p \in Chain(f) : p \in S /\ Node(f, After(f, p)) => After(f, p) \in S
  PROVE  Chain(f) \subseteq S
<1> DEFINE T == S \cap Chain(f)
<1>1. Node(f, 1) => 1 \in T
  BY ChainFacts
<1>2. \A p \in T : (p \in Nat /\ Node(f, p) /\ Node(f, After(f, p))) => After(f, p) \in T
  BY ChainFacts
<1>3. Chain(f) \subseteq T
  <2> HIDE DEF T
  <2> QED BY <1>1, <1>2, ChainFacts
<1> QED BY <1>3

\* Two nodes of the chain do not overlap: the later one lies behind the body of the other.
LEMMA ChainOrder ==
  ASSUME NEW f, Linked(f), NEW p \in Chain(f), NEW q \in Chain(f), p < q
  PROVE  After(f, p) <= q
<1> DEFINE C == Chain(f)
           A(x) == After(f, x)
           Clear(x) == \A y \in C : (x < y => A(x) <= y) /\ (y < x => A(y) <= x)
           S == {x \in C : Clear(x)}
<1>1. \A x \in C : x \in Nat /\ A(x) \in Nat /\ A(x) > x /\ x >= 1
  BY ChainFacts DEF Linked, After, Node
<1> HIDE DEF A
<1>2. ASSUME Node(f, 1) PROVE 1 \in S
  <2> DEFINE T == {y \in C : y = 1 \/ A(1) <= y}
  <2>1. 1 \in C
    BY <1>2, ChainFacts
  <2>2. \A y \in C : y \in T /\ Node(f, After(f, y)) => After(f, y) \in T
    BY <2>1, <1>1, ChainFacts DEF A
  <2>3. C \subseteq T
    <3>1. Node(f, 1) => 1 \in T
      BY <2>1
    <3> HIDE DEF T
    <3> QED BY <2>2, <3>1, ChainInduction
  <2>4. \A y \in C : y >= 1
    BY <1>1
  <2>5. Clear(1)
    BY <2>1, <2>3, <2>4, <1>1
  <2> QED BY <2>1, <2>5
<1>3. ASSUME NEW x \in C, x \in S, Node(f, After(f, x)) PROVE A(x) \in S
  <2> DEFINE z == A(x)
             T == {y \in C : y <= z \/ A(z) <= y}
  <2>1. z \in C
    BY <1>3, ChainFacts DEF A
  <2>2. \A y \in C : y < z => A(y) <= z
    BY <1>1, <1>3, <2>1
  <2>3. \A y \in C : y \in T /\ Node(f, After(f, y)) => After(f, y) \in T
    <3> SUFFICES ASSUME NEW y \in C, y \in T, Node(f, After(f, y)) PROVE A(y) \in T
      BY DEF A
    <3>1. A(y) \in C
      BY ChainFacts DEF A
    <3>2. y < z => A(y) <= z
      BY <2>2
    <3>3. A(y) <= z \/ A(z) <= A(y)
      <4>1. y \in Nat /\ z \in Nat /\ A(y) \in Nat /\ A(z) \in Nat /\ A(y) > y
        BY <1>1, <2>1
      <4>2. y <= z \/ A(z) <= y
        OBVIOUS
      <4> HIDE DEF z
      <4>3. CASE y < z
        BY <4>1, <4>3, <3>2
      <4>4. CASE y = z
        BY <4>1, <4>4
      <4>5. CASE y > z
        BY <4>1, <4>2, <4>5
      <4> QED BY <4>1, <4>3, <4>4, <4>5
    <3> QED BY <3>1, <3>3
  <2>4. C \subseteq T
    <3>1. Node(f, 1) => 1 \in T
      BY <2>1, <1>1, ChainFacts
    <3> HIDE DEF T
    <3> QED BY <2>3, <3>1, ChainInduction
  <2>5. Clear(z)
    BY <2>1, <2>2, <2>4, <1>1
  <2> QED BY <2>1, <2>5
<1>4. C \subseteq S
  <2>1. \A y \in C : y \in S /\ Node(f, After(f, y)) => After(f, y) \in S
    BY <1>3 DEF A
  <2> HIDE DEF S
  <2> QED BY <1>2, <2>1, ChainInduction
<1> QED BY <1>4 DEF A

\* A file whose nodes have the bodies they had, with at most one node more, at which
\* the chain ends, has the chain it had and perhaps that node.
LEMMA ChainGrows ==
  ASSUME NEW f, Linked(f), NEW g, Linked(g), NEW e,
         \A p \in Chain(f) : Node(g, p) /\ Body(g[p]) = Body(f[p]),
         Node(g, 1) => Node(f, 1) \/ e = 1,
         \A p \in Chain(f) : Node(g, After(f, p)) => Node(f, After(f, p)) \/ e = After(f, p),
         e \in Chain(g) => ~Node(g, After(g, e))
  PROVE  /\ Chain(f) \subseteq Chain(g)
         /\ Chain(g) \subseteq Chain(f) \cup {e}
<1>1. \A p \in Chain(f) : After(g, p) = After(f, p)
  BY DEF After
<1>2. \A p \in Chain(f) : Node(f, p) /\ p \in Nat
  BY ChainFacts
<1>3. Chain(f) \subseteq Chain(g)
  <2>1. Node(f, 1) => 1 \in Chain(g)
    BY ChainFacts
  <2>2. \A p \in Chain(f) : p \in Chain(g) /\ Node(f, After(f, p)) => After(f, p) \in Chain(g)
    <3> SUFFICES ASSUME NEW p \in Chain(f), p \in Chain(g), Node(f, After(f, p))
                 PROVE  After(f, p) \in Chain(g)
      OBVIOUS
    <3>1. After(f, p) \in Chain(f)
      BY ChainFacts
    <3>2. Node(g, After(g, p))
      BY <3>1, <1>1
    <3> QED BY <3>2, <1>1, ChainFacts
  <2> QED BY <2>1, <2>2, ChainInduction
<1>4. Chain(g) \subseteq Chain(f) \cup {e}
  <2> DEFINE S == Chain(f) \cup {e}
  <2>1. Node(g, 1) => 1 \in S
    BY ChainFacts
  <2>2. \A p \in Chain(g) : p \in S /\ Node(g, After(g, p)) => After(g, p) \in S
    <3> SUFFICES ASSUME NEW p \in Chain(g), p \in S, Node(g, After(g, p))
                 PROVE  After(g, p) \in S
      BY Zenon
    <3>1. p # e
      BY Zenon
    <3>2. p \in Chain(f)
      BY <3>1
    <3>3. Node(f, After(f, p)) \/ e = After(f, p)
      BY <1>1, <3>2
    <3> QED BY <3>2, <3>3, <1>1, ChainFacts
  <2>3. Chain(g) \subseteq S
    <3> HIDE DEF S
    <3> QED BY <2>1, <2>2, ChainInduction
  <2> QED BY <2>3
<1> QED BY <1>3, <1>4

--------------------------------------------------------------------------------
(* Cells and writes *)

\* What a cell can be, field by field.
LEMMA CellFacts ==
  ASSUME NEW c \in Cell
  PROVE  /\ c.hdr \in BOOLEAN
         /\ ~c.hdr => c.byte \in Chars
         /\ c.hdr => /\ c.dead \in BOOLEAN /\ c.len \in Nat /\ c.size \in Nat
                     /\ c.type \in {"u8", "u64", "str"}
                     /\ c.len <= c.size
                     /\ c.key = NoKey <=> c.dead
                     /\ Body(c) \in Nat
<1>1. c \in Asked /\ (c.hdr => c.len <= c.size)
  BY DEF Cell
<1>2. CASE c \in [hdr : {FALSE}, byte : Chars]
  BY <1>2
<1>3. CASE c \in HeaderOf("u8", Ints)
  BY <1>1, <1>3 DEF HeaderOf, Body
<1>4. CASE c \in HeaderOf("u64", Wides)
  BY <1>1, <1>4 DEF HeaderOf, Body
<1>5. CASE c \in HeaderOf("str", {})
  BY <1>1, <1>5 DEF HeaderOf, Body
<1> QED BY <1>1, <1>2, <1>3, <1>4, <1>5 DEF Asked

\* A cell can be asked for, and a header that is a cell passes the assertion.
LEMMA CellsAreAsked ==
  /\ Cell \subseteq Asked
  /\ \A c \in Cell : \A w : w.cells = <<c>> => Asserted(w)
<1>1. Cell \subseteq Asked
  BY DEF Cell
<1>2. ASSUME NEW c \in Cell, NEW w, w.cells = <<c>> PROVE Asserted(w)
  <2>1. \A i \in 1 .. Len(w.cells) : w.cells[i] = c
    BY <1>2
  <2>2. c.hdr => c.size >= c.len
    BY CellFacts
  <2> QED BY <2>1, <2>2 DEF Asserted
<1> QED BY <1>1, <1>2

\* The two lengths of a header that is asked for.
LEMMA AskedFacts ==
  ASSUME NEW c \in Asked, c.hdr
  PROVE  c.len \in Nat /\ c.size \in Nat /\ c.type \in {"u8", "u64", "str"}
BY DEF Asked, HeaderOf

\* Each header of a file says how long its body is.
LEMMA FileLinked ==
  ASSUME NEW f \in Seq(Cell)
  PROVE  /\ Linked(f)
         /\ \A i \in 1 .. Len(f) : f[i] \in Cell
<1>1. \A i \in 1 .. Len(f) : f[i] \in Cell
  BY ElementOfSeq
<1>2. Len(f) \in Nat
  BY LenProperties
<1> QED BY <1>1, <1>2, CellFacts DEF Linked, Node

\* A node of the chain is a header within the file.
LEMMA ChainCells ==
  ASSUME NEW f \in Seq(Cell), NEW p \in Chain(f)
  PROVE  /\ p \in 1 .. Len(f) /\ f[p] \in Cell /\ f[p].hdr
         /\ Len(f) \in Nat /\ Body(f[p]) \in Nat
         /\ After(f, p) \in Nat /\ After(f, p) > p
<1>1. p \in 1 .. Len(f) /\ f[p] \in Cell /\ f[p].hdr
  BY FileLinked, ChainFacts DEF Node
<1>2. Len(f) \in Nat /\ Body(f[p]) \in Nat
  BY <1>1, CellFacts, LenProperties
<1> QED BY <1>1, <1>2 DEF After

\* What a write at most one cell behind the end leaves in the file.
LEMMA PutFacts ==
  ASSUME NEW f \in Seq(Cell), NEW at \in Nat, 1 <= at, at <= Len(f) + 1, NEW cells \in Seq(Cell),
         NEW g, g = Put(f, Write(at, cells))
  PROVE  /\ g \in Seq(Cell)
         /\ Len(g) \in Nat /\ Len(f) <= Len(g) /\ at + Len(cells) <= Len(g) + 1
         /\ Len(g) <= Len(f) \/ Len(g) + 1 <= at + Len(cells)
         /\ \A i \in 1 .. Len(cells) : g[at + i - 1] = cells[i]
         /\ \A i \in 1 .. Len(f) : i < at \/ at + Len(cells) <= i => g[i] = f[i]
<1> DEFINE end == at + Len(cells) - 1
           length == IF end > Len(f) THEN end ELSE Len(f)
           e(i) == IF i \in at .. end THEN cells[i - at + 1] ELSE f[i]
           h == [i \in 1 .. length |-> e(i)]
<1>1. Len(f) \in Nat /\ Len(cells) \in Nat
  BY LenProperties
<1>2. end \in Int /\ length \in Nat
  BY <1>1
<1>3. \A i \in 1 .. length : e(i) \in Cell
  <2> SUFFICES ASSUME NEW i \in 1 .. length PROVE e(i) \in Cell
    OBVIOUS
  <2>1. CASE i \in at .. end
    <3>1. i - at + 1 \in 1 .. Len(cells)
      BY <1>1, <2>1
    <3> QED BY <2>1, <3>1, ElementOfSeq
  <2>2. CASE i \notin at .. end
    <3>1. i \in 1 .. Len(f)
      BY <1>1, <2>2
    <3> QED BY <2>2, <3>1, ElementOfSeq
  <2> QED BY <2>1, <2>2
<1>4. g = h
  BY DEF Put, Write
<1> HIDE DEF length, e
<1>5. h \in Seq(Cell) /\ Len(h) = length
  <2>1. h \in [1 .. length -> Cell]
    BY <1>3
  <2>2. h \in Seq(Cell)
    BY <2>1, <1>2, SeqDef
  <2>3. Len(h) \in Nat /\ DOMAIN h = 1 .. Len(h)
    BY <2>2, LenProperties
  <2>4. 1 .. Len(h) = 1 .. length
    BY <2>3
  <2> QED BY <2>2, <2>3, <2>4, <1>2
<1>6. \A i \in 1 .. length : h[i] = e(i)
  OBVIOUS
<1>7. ASSUME NEW i \in 1 .. Len(cells) PROVE h[at + i - 1] = cells[i]
  <2> DEFINE j == at + i - 1
  <2>1. j \in 1 .. length /\ j \in at .. end /\ j - at + 1 = i
    BY <1>1 DEF length
  <2>2. e(j) = cells[j - at + 1]
    BY <2>1 DEF e
  <2> HIDE DEF j
  <2>3. h[j] = cells[i]
    BY <1>6, <2>1, <2>2
  <2> QED BY <2>3 DEF j
<1>8. ASSUME NEW i \in 1 .. Len(f), i < at \/ at + Len(cells) <= i PROVE h[i] = f[i]
  <2>1. i \in 1 .. length /\ i \notin at .. end
    BY <1>1, <1>8 DEF length
  <2> QED BY <1>6, <2>1 DEF e
<1>9. /\ length \in Nat /\ Len(f) <= length /\ at + Len(cells) <= length + 1
      /\ length = Len(f) \/ length + 1 = at + Len(cells)
  BY <1>1 DEF length
<1> HIDE DEF h
<1> QED BY <1>4, <1>5, <1>7, <1>8, <1>9

\* Sound, as an operator of the file.
ReachesEnd(f) == f = <<>> \/ \E p \in Chain(f) : p + Body(f[p]) = Len(f)

\* The cells of a part of the file.
LEMMA SubSeqCells ==
  ASSUME NEW f \in Seq(Cell), NEW q \in Nat, NEW n \in Nat, q + n <= Len(f)
  PROVE  \A i \in 1 .. n : SubSeq(f, q + 1, q + n)[i] = f[q + i]
<1> DEFINE lo == q + 1
           hi == q + n
<1>1. Len(f) \in Nat
  BY LenProperties
<1>2. \A i \in lo .. hi : i \in 1 .. Len(f)
  BY <1>1
<1>3. \A i \in lo .. hi : f[i] \in Cell
  BY <1>2, ElementOfSeq
<1>4. lo \in Int /\ hi \in Int
  OBVIOUS
<1>5. \A i \in 1 .. hi - lo + 1 : SubSeq(f, lo, hi)[i] = f[lo + i - 1]
  <2> HIDE DEF lo, hi
  <2> QED BY <1>3, <1>4, SubSeqProperties
<1>6. \A i \in 1 .. n : i \in 1 .. hi - lo + 1 /\ lo + i - 1 = q + i
  OBVIOUS
<1> QED BY <1>5, <1>6

\* The string that is read from a node whose body lies within the file.
LEMMA StringValue ==
  ASSUME NEW f \in Seq(Cell), NEW q \in Nat, NEW n \in Nat,
         f[q].type = "str", f[q].len = n, q + n <= Len(f)
  PROVE  Value(f, q) = [type |-> "str",
                        val |-> [i \in 1 .. n |-> IF f[q + i].hdr THEN NoKey ELSE f[q + i].byte]]
<1> DEFINE b == SubSeq(f, q + 1, q + n)
           text(s) == [i \in 1 .. n |-> IF s[i].hdr THEN NoKey ELSE s[i].byte]
<1>1. Len(f) \in Nat
  BY LenProperties
<1>2. ~(q + n > Len(f))
  BY <1>1
<1>3. Value(f, q) = [type |-> "str", val |-> text(b)]
  BY <1>2 DEF Value
<1>4. \A i \in 1 .. n : b[i] = f[q + i]
  BY SubSeqCells
<1>5. text(b) = [i \in 1 .. n |-> IF f[q + i].hdr THEN NoKey ELSE f[q + i].byte]
  <2> HIDE DEF b
  <2> QED BY <1>4
<1> HIDE DEF text
<1> QED BY <1>3, <1>5

\* A value is read from its header and its body alone.
LEMMA ValueKept ==
  ASSUME NEW f \in Seq(Cell), NEW g \in Seq(Cell), NEW q \in Chain(f),
         Len(f) <= Len(g), g[q] = f[q],
         f[q].type = "str" => /\ q + f[q].len <= Len(f)
                              /\ \A i \in 1 .. f[q].len : g[q + i] = f[q + i]
  PROVE  Value(g, q) = Value(f, q)
<1>1. /\ q \in Nat /\ f[q] \in Cell /\ f[q].hdr /\ Len(f) \in Nat /\ Len(g) \in Nat
  BY ChainCells, LenProperties
<1>2. f[q].type \in {"u8", "u64", "str"} /\ f[q].len \in Nat
  BY <1>1, CellFacts
<1>3. CASE f[q].type # "str"
  BY <1>3 DEF Value
<1>4. CASE f[q].type = "str"
  <2> DEFINE n == f[q].len
             text(h) == [i \in 1 .. n |-> IF h[q + i].hdr THEN NoKey ELSE h[q + i].byte]
  <2>1. n \in Nat /\ q + n <= Len(f) /\ q + n <= Len(g)
    BY <1>1, <1>2, <1>4
  <2>2. text(f) = text(g)
    BY <1>4
  <2>3. f[q].len = n /\ g[q].len = n /\ g[q].type = "str"
    BY <1>4
  <2> HIDE DEF n
  <2>4. Value(f, q) = [type |-> "str", val |-> text(f)]
    BY <1>1, <1>4, <2>1, <2>3, StringValue
  <2>5. Value(g, q) = [type |-> "str", val |-> text(g)]
    BY <1>1, <2>1, <2>3, StringValue
  <2> HIDE DEF text
  <2> QED BY <2>2, <2>4, <2>5
<1> QED BY <1>3, <1>4

\* What a write of one cell leaves in the file.
LEMMA PutCell ==
  ASSUME NEW f \in Seq(Cell), NEW p \in Nat, NEW c \in Cell, 1 <= p, p <= Len(f) + 1,
         NEW g, g = Put(f, Write(p, <<c>>))
  PROVE  /\ g \in Seq(Cell)
         /\ Len(g) = IF p = Len(f) + 1 THEN p ELSE Len(f)
         /\ g[p] = c
         /\ \A i \in 1 .. Len(f) : i # p => g[i] = f[i]
<1> DEFINE x == Put(f, Write(p, <<c>>))
           cells == <<c>>
<1>1. Len(f) \in Nat /\ p \in 1 .. Len(f) + 1
  BY LenProperties
<1>2. cells \in Seq(Cell) /\ Len(cells) = 1 /\ cells[1] = c
  OBVIOUS
<1>3. /\ x \in Seq(Cell)
      /\ Len(x) = IF p = Len(f) + 1 THEN p ELSE Len(f)
      /\ x[p] = c
      /\ \A i \in 1 .. Len(f) : i # p => x[i] = f[i]
  <2> HIDE DEF cells
  <2>1. x = Put(f, Write(p, cells))
    BY DEF cells, x
  <2> HIDE DEF x
  <2>2. /\ x \in Seq(Cell)
        /\ Len(x) \in Nat /\ Len(f) <= Len(x) /\ p + Len(cells) <= Len(x) + 1
        /\ Len(x) <= Len(f) \/ Len(x) + 1 <= p + Len(cells)
        /\ \A i \in 1 .. Len(cells) : x[p + i - 1] = cells[i]
        /\ \A i \in 1 .. Len(f) : i < p \/ p + Len(cells) <= i => x[i] = f[i]
    <3>1. p \in Nat /\ 1 <= p /\ p <= Len(f) + 1 /\ cells \in Seq(Cell)
      BY <1>1, <1>2
    <3> QED BY <3>1, <2>1, PutFacts
  <2>3. \A i \in 1 .. Len(f) : i # p => x[i] = f[i]
    BY <1>1, <1>2, <2>2
  <2>4. x[p] = c
    <3>1. x[p + 1 - 1] = cells[1]
      BY <1>2, <2>2
    <3>2. p + 1 - 1 = p
      OBVIOUS
    <3> QED BY <1>2, <3>1, <3>2
  <2>5. Len(x) = IF p = Len(f) + 1 THEN p ELSE Len(f)
    <3> DEFINE n == Len(x)
               m == Len(f)
    <3>1. n \in Nat /\ m \in Nat /\ m <= n /\ p <= n /\ (n <= m \/ n <= p) /\ p \in 1 .. m + 1
      BY <1>1, <1>2, <2>2
    <3> HIDE DEF n, m
    <3>2. n = IF p = m + 1 THEN p ELSE m
      BY <3>1
    <3> QED BY <3>2 DEF n, m
  <2> QED BY <2>2, <2>3, <2>4, <2>5
<1> QED BY <1>3

\* A header written over a node with a body of the same length, or behind the end of
\* the file, leaves the chain as it was, but for that place.
LEMMA HeaderWrite ==
  ASSUME NEW f \in Seq(Cell), NEW p \in Nat, NEW c \in Cell, c.hdr,
         \/ p \in Chain(f) /\ Body(c) = Body(f[p])
         \/ p = Len(f) + 1,
         NEW g, g = Put(f, Write(p, <<c>>))
  PROVE  /\ g \in Seq(Cell)
         /\ Len(g) = IF p = Len(f) + 1 THEN p ELSE Len(f)
         /\ g[p] = c
         /\ \A i \in 1 .. Len(f) : i # p => g[i] = f[i]
         /\ Chain(f) \subseteq Chain(g)
         /\ Chain(g) \subseteq Chain(f) \cup {p}
         /\ ReachesEnd(f) => p \in Chain(g)
<1>1. Len(f) \in Nat /\ p \in 1 .. Len(f) + 1
  BY ChainCells, LenProperties
<1>2. 1 <= p /\ p <= Len(f) + 1
  BY <1>1
<1>3. /\ g \in Seq(Cell)
      /\ Len(g) = IF p = Len(f) + 1 THEN p ELSE Len(f)
      /\ g[p] = c
      /\ \A i \in 1 .. Len(f) : i # p => g[i] = f[i]
  BY <1>2, PutCell
<1>4. Len(g) = IF p = Len(f) + 1 THEN p ELSE Len(f)
  BY <1>3
<1>5. p \in 1 .. Len(g) /\ g[p] = c
  BY <1>1, <1>3
<1>6. \A i \in 1 .. Len(f) : i # p => g[i] = f[i]
  BY <1>3
<1>7. Linked(f) /\ Linked(g)
  BY <1>3, FileLinked
<1>8. \A q \in Chain(f) : Node(g, q) /\ Body(g[q]) = Body(f[q])
  <2> SUFFICES ASSUME NEW q \in Chain(f) PROVE Node(g, q) /\ Body(g[q]) = Body(f[q])
    OBVIOUS
  <2>1. q \in 1 .. Len(f) /\ q \in 1 .. Len(g) /\ f[q].hdr
    BY <1>1, <1>4, ChainCells
  <2>2. CASE q = p
    <3>1. p # Len(f) + 1
      BY <2>1, <2>2, <1>1
    <3> QED BY <2>1, <2>2, <3>1, <1>5 DEF Node
  <2>3. CASE q # p
    BY <2>1, <2>3, <1>6 DEF Node
  <2> QED BY <2>2, <2>3
<1>9. \A x \in Nat : Node(g, x) => Node(f, x) \/ p = x
  BY <1>1, <1>4, <1>6 DEF Node
<1>10. CASE p = Len(f) + 1
  <2>1. After(g, p) > p /\ After(g, p) \in Nat
    BY <1>5, <1>1, CellFacts DEF After
  <2>2. ~Node(g, After(g, p))
    BY <2>1, <1>1, <1>4, <1>10 DEF Node
  <2>3. \A q \in Chain(f) : After(f, q) \in Nat
    BY ChainCells
  <2>4. Chain(f) \subseteq Chain(g) /\ Chain(g) \subseteq Chain(f) \cup {p}
    BY <1>7, <1>8, <1>9, <2>2, <2>3, ChainGrows
  <2>5. ASSUME ReachesEnd(f) PROVE p \in Chain(g)
    <3>1. Node(g, p)
      BY <1>5 DEF Node
    <3>2. CASE f = <<>>
      <4>1. p = 1
        BY <3>2, <1>10
      <4> QED BY <3>1, <4>1, <1>7, ChainFacts
    <3>3. CASE \E q \in Chain(f) : q + Body(f[q]) = Len(f)
      <4>1. PICK q \in Chain(f) : q + Body(f[q]) = Len(f)
        BY <3>3
      <4>2. After(f, q) = p
        BY <4>1, <1>1, <1>10, ChainCells DEF After
      <4>3. After(g, q) = p
        BY <4>2, <1>8 DEF After
      <4> QED BY <2>4, <3>1, <4>3, <1>7, ChainFacts
    <3> QED BY <2>5, <3>2, <3>3 DEF ReachesEnd
  <2> QED BY <1>3, <1>4, <1>5, <1>6, <2>4, <2>5
<1>11. CASE p # Len(f) + 1
  <2>1. p \in Chain(f)
    BY <1>11
  <2>2. \A q \in Nat : Node(g, q) => Node(f, q)
    BY <1>9, <2>1, ChainCells DEF Node
  <2>3. \A q \in Chain(f) : After(f, q) \in Nat
    BY ChainCells
  <2>4. Len(g) + 1 \notin Chain(g)
    BY <1>1, <1>3, <1>4, ChainCells
  <2>5. Chain(f) \subseteq Chain(g) /\ Chain(g) \subseteq Chain(f) \cup {Len(g) + 1}
    BY <1>7, <1>8, <2>2, <2>3, <2>4, ChainGrows
  <2> QED BY <1>3, <1>4, <1>5, <1>6, <2>1, <2>4, <2>5
<1> QED BY <1>10, <1>11

\* The body of a string is bytes, one for each of its characters.
LEMMA BytesFacts ==
  ASSUME NEW s \in Seq(Chars)
  PROVE  /\ Bytes(s) \in Seq(Cell)
         /\ Len(Bytes(s)) = Len(s) /\ Len(s) \in Nat
         /\ \A i \in 1 .. Len(s) : Bytes(s)[i] = Byte(s[i])
<1>1. Len(s) \in Nat
  BY LenProperties
<1>2. \A i \in 1 .. Len(s) : Byte(s[i]) \in Cell
  <2>1. \A i \in 1 .. Len(s) : s[i] \in Chars
    BY ElementOfSeq
  <2>2. \A b \in Chars : Byte(b) \in [hdr : {FALSE}, byte : Chars]
    BY DEF Byte
  <2>3. \A i \in 1 .. Len(s) : ~Byte(s[i]).hdr
    BY DEF Byte
  <2> QED BY <2>1, <2>2, <2>3 DEF Cell, Asked
<1>3. Bytes(s) \in [1 .. Len(s) -> Cell]
  BY <1>2 DEF Bytes
<1>4. Bytes(s) \in Seq(Cell)
  BY <1>1, <1>3, SeqDef
<1>5. DOMAIN Bytes(s) = 1 .. Len(s) /\ DOMAIN Bytes(s) = 1 .. Len(Bytes(s)) /\ Len(Bytes(s)) \in Nat
  BY <1>3, <1>4, LenProperties
<1>6. Len(Bytes(s)) = Len(s)
  <2> DEFINE m == Len(Bytes(s))
             n == Len(s)
  <2>1. 1 .. m = 1 .. n /\ m \in Nat /\ n \in Nat
    BY <1>1, <1>5
  <2> HIDE DEF m, n
  <2>2. m = n
    BY <2>1
  <2> QED BY <2>2 DEF m, n
<1> QED BY <1>1, <1>4, <1>6 DEF Bytes

\* A body written inside its node, or behind the last header of the file, leaves the
\* chain as it was.
LEMMA BodyWrite ==
  ASSUME NEW f \in Seq(Cell), NEW p \in 1 .. Len(f), NEW s \in Seq(Chars),
         NEW g, g = Put(f, Write(p + 1, Bytes(s))),
         \/ p \in Chain(f) /\ Len(s) <= Body(f[p])
         \/ p = Len(f)
  PROVE  /\ g \in Seq(Cell)
         /\ Len(g) \in Nat /\ Len(f) <= Len(g) /\ p + Len(s) <= Len(g)
         /\ Len(g) <= Len(f) \/ Len(g) <= p + Len(s)
         /\ \A i \in 1 .. Len(s) : g[p + i] = Byte(s[i])
         /\ \A i \in 1 .. Len(f) : i <= p \/ p + Len(s) < i => g[i] = f[i]
         /\ Chain(g) = Chain(f)
<1> DEFINE cells == Bytes(s)
           n == Len(s)
<1>1. Len(f) \in Nat /\ n \in Nat
  BY LenProperties
<1>2. cells \in Seq(Cell) /\ Len(cells) = n /\ \A i \in 1 .. n : cells[i] = Byte(s[i])
  BY BytesFacts
<1>3. /\ g \in Seq(Cell)
      /\ Len(g) \in Nat /\ Len(f) <= Len(g) /\ p + n <= Len(g)
      /\ Len(g) <= Len(f) \/ Len(g) <= p + n
      /\ \A i \in 1 .. n : g[p + i] = cells[i]
      /\ \A i \in 1 .. Len(f) : i <= p \/ p + n < i => g[i] = f[i]
  <2> HIDE DEF cells, n
  <2> DEFINE at == p + 1
  <2>1. at \in Nat /\ 1 <= at /\ at <= Len(f) + 1 /\ cells \in Seq(Cell) /\ g = Put(f, Write(at, cells))
    BY <1>1, <1>2 DEF cells
  <2> HIDE DEF at
  <2>2. /\ g \in Seq(Cell)
        /\ Len(g) \in Nat /\ Len(f) <= Len(g) /\ at + Len(cells) <= Len(g) + 1
        /\ Len(g) <= Len(f) \/ Len(g) + 1 <= at + Len(cells)
        /\ \A i \in 1 .. Len(cells) : g[at + i - 1] = cells[i]
        /\ \A i \in 1 .. Len(f) : i < at \/ at + Len(cells) <= i => g[i] = f[i]
    BY <2>1, PutFacts
  <2>3. Len(g) \in Nat /\ Len(f) <= Len(g) /\ p + n <= Len(g) /\ (Len(g) <= Len(f) \/ Len(g) <= p + n)
    BY <1>1, <1>2, <2>2 DEF at
  <2>4. \A i \in 1 .. n : g[p + i] = cells[i]
    <3> SUFFICES ASSUME NEW i \in 1 .. n PROVE g[p + i] = cells[i]
      OBVIOUS
    <3>1. g[at + i - 1] = cells[i]
      BY <1>2, <2>2
    <3>2. at + i - 1 = p + i
      BY <1>1 DEF at
    <3> QED BY <3>1, <3>2
  <2>5. \A i \in 1 .. Len(f) : i <= p \/ p + n < i => g[i] = f[i]
    BY <1>1, <1>2, <2>2 DEF at
  <2> QED BY <2>2, <2>3, <2>4, <2>5
<1> HIDE DEF cells, n
<1>4. \A i \in 1 .. n : ~g[p + i].hdr
  BY <1>2, <1>3 DEF Byte
<1>5. Linked(f) /\ Linked(g)
  BY <1>3, FileLinked
<1>6. \A q \in Chain(f) : q <= p \/ p + n < q
  <2> SUFFICES ASSUME NEW q \in Chain(f), p < q PROVE p + n < q
    BY <1>1, ChainCells
  <2>1. q \in 1 .. Len(f)
    BY ChainCells
  <2>2. p \in Chain(f) /\ n <= Body(f[p])
    BY <2>1, <1>1 DEF n
  <2>3. After(f, p) <= q
    BY <2>2, <1>5, ChainOrder
  <2> QED BY <1>1, <2>1, <2>2, <2>3, ChainCells DEF After
<1>7. \A q \in Chain(f) : g[q] = f[q]
  BY <1>1, <1>3, <1>6, ChainCells
<1>8. \A q \in Chain(f) : Node(g, q) /\ Body(g[q]) = Body(f[q])
  BY <1>1, <1>3, <1>7, ChainCells DEF Node
<1>9. \A x \in Nat : Node(g, x) => Node(f, x)
  <2> SUFFICES ASSUME NEW x \in Nat, Node(g, x) PROVE Node(f, x)
    OBVIOUS
  <2>1. x <= p \/ p + n < x
    <3> SUFFICES ASSUME p < x, x <= p + n PROVE FALSE
      BY <1>1
    <3>1. x - p \in 1 .. n /\ p + (x - p) = x
      BY <1>1
    <3>2. ~g[x].hdr
      BY <1>4, <3>1
    <3> QED BY <3>2 DEF Node
  <2>2. x \in 1 .. Len(f)
    BY <1>1, <1>3, <2>1 DEF Node
  <2> QED BY <1>3, <2>1, <2>2 DEF Node
<1>10. Len(g) + 1 \notin Chain(g)
  BY <1>3, ChainCells
<1>11. Chain(f) \subseteq Chain(g) /\ Chain(g) \subseteq Chain(f) \cup {Len(g) + 1}
  <2>1. \A q \in Chain(f) : After(f, q) \in Nat
    BY ChainCells
  <2> QED BY <1>5, <1>8, <1>9, <1>10, <2>1, ChainGrows
<1>12. Chain(g) = Chain(f)
  BY <1>10, <1>11
<1> QED BY <1>2, <1>3, <1>12 DEF n

--------------------------------------------------------------------------------
(* A key and its nodes *)

\* The nodes of a key.
Owns(f, k) == {p \in Chain(f) : ~f[p].dead /\ f[p].key = k}

\* A node that an operation on a key may use: a dead one or its own.
Free(f, k, p) == p \in Chain(f) /\ (f[p].dead \/ f[p].key = k)

\* The other keys have the nodes they had, and the values.
Kept(f, g, k) ==
  \A j \in Keys : j # k =>
    /\ Owns(g, j) = Owns(f, j)
    /\ \A q \in Owns(f, j) : Value(f, q) \in Values => Value(g, q) = Value(f, q)

\* The body of a value that is read lies within the file.
LEMMA Readable ==
  ASSUME NEW f \in Seq(Cell), NEW q \in Chain(f), Value(f, q) \in Values, f[q].type = "str"
  PROVE  q + f[q].len <= Len(f)
<1>1. q \in Nat /\ Len(f) \in Nat /\ f[q].len \in Nat
  BY ChainCells, CellFacts
<1>2. SUFFICES ASSUME q + f[q].len > Len(f) PROVE FALSE
  BY <1>1
<1>3. ~(q + f[q].len <= Len(f))
  BY <1>1, <1>2
<1>4. Value(f, q) = Absent
  BY <1>2, <1>3 DEF Value
<1> QED BY <1>4, ConstantsOK

\* A string ends in front of the next node.
LEMMA BeforeNext ==
  ASSUME NEW f \in Seq(Cell), NEW p \in Chain(f), NEW q \in Chain(f), q < p,
         f[q].type = "str"
  PROVE  q + f[q].len < p
<1>1. q \in Nat /\ p \in Nat /\ f[q].len \in Nat /\ f[q].size \in Nat /\ f[q].len <= f[q].size
  BY ChainCells, CellFacts
<1>2. After(f, q) <= p
  BY FileLinked, ChainOrder
<1>3. After(f, q) = q + 1 + f[q].size
  BY DEF After, Body
<1> QED BY <1>1, <1>2, <1>3

\* A header written for a key changes the nodes and the values of no other key.
LEMMA HeaderKeeps ==
  ASSUME NEW f \in Seq(Cell), NEW k \in Keys, NEW p \in Nat, NEW c \in Cell, c.hdr,
         \/ Free(f, k, p) /\ Body(c) = Body(f[p])
         \/ p = Len(f) + 1,
         c.dead \/ c.key = k,
         NEW g, g = Put(f, Write(p, <<c>>))
  PROVE  /\ Kept(f, g, k)
         /\ Owns(g, k) \subseteq {q \in Owns(f, k) : q # p} \cup {q \in {p} : ~c.dead}
<1>1. /\ g \in Seq(Cell)
      /\ Len(g) = IF p = Len(f) + 1 THEN p ELSE Len(f)
      /\ g[p] = c
      /\ \A i \in 1 .. Len(f) : i # p => g[i] = f[i]
      /\ Chain(f) \subseteq Chain(g)
      /\ Chain(g) \subseteq Chain(f) \cup {p}
  <2>1. (p \in Chain(f) /\ Body(c) = Body(f[p])) \/ p = Len(f) + 1
    BY DEF Free
  <2> QED BY <2>1, HeaderWrite
<1>2. \A q \in Chain(f) : q \in 1 .. Len(f) /\ Len(f) \in Nat
  BY ChainCells
<1>3. \A q \in Chain(f) : q # p => g[q] = f[q]
  BY <1>1, <1>2
<1>4. Owns(g, k) \subseteq {q \in Owns(f, k) : q # p} \cup {q \in {p} : ~c.dead}
  BY <1>1, <1>3 DEF Owns
<1>5. ASSUME NEW j \in Keys, j # k PROVE Owns(g, j) = Owns(f, j)
  <2>1. p \notin Owns(g, j)
    BY <1>1, <1>5 DEF Owns
  <2>2. p \notin Owns(f, j)
    <3>1. CASE Free(f, k, p)
      BY <3>1, <1>5 DEF Owns, Free
    <3>2. CASE p = Len(f) + 1
      <4>1. p \notin Chain(f)
        BY <3>2, <1>2
      <4> QED BY <4>1 DEF Owns
    <3> QED BY <3>1, <3>2
  <2>3. Owns(g, j) \subseteq Owns(f, j)
    BY <1>1, <1>3, <2>1 DEF Owns
  <2>4. Owns(f, j) \subseteq Owns(g, j)
    BY <1>1, <1>3, <2>2 DEF Owns
  <2> QED BY <2>3, <2>4
<1>6. ASSUME NEW j \in Keys, j # k, NEW q \in Owns(f, j), Value(f, q) \in Values
      PROVE  Value(g, q) = Value(f, q)
  <2>1. q \in Chain(f) /\ q # p
    <3>1. q \in Chain(f) /\ ~f[q].dead /\ f[q].key = j
      BY <1>6 DEF Owns
    <3>2. Free(f, k, p) => p # q
      BY <3>1, <1>6 DEF Free
    <3>3. p = Len(f) + 1 => p # q
      BY <3>1, <1>2
    <3> QED BY <3>1, <3>2, <3>3
  <2>2. Len(f) <= Len(g) /\ g[q] = f[q]
    BY <1>1, <1>2, <1>3, <2>1
  <2>3. ASSUME f[q].type = "str"
        PROVE  q + f[q].len <= Len(f) /\ \A i \in 1 .. f[q].len : g[q + i] = f[q + i]
    <3>1. q + f[q].len <= Len(f)
      BY <1>6, <2>1, <2>3, Readable
    <3>2. p < q \/ q + f[q].len < p
      <4>1. CASE p = Len(f) + 1
        BY <3>1, <4>1, <1>2, <2>1, ChainCells, CellFacts
      <4>2. CASE p \in Chain(f)
        <5>1. q < p => q + f[q].len < p
          BY <4>2, <2>1, <2>3, BeforeNext
        <5>2. q \in Nat
          BY <1>2, <2>1
        <5> QED BY <5>1, <5>2, <2>1
      <4> QED BY <4>1, <4>2 DEF Free
    <3>3. f[q].len \in Nat
      BY <2>1, ChainCells, CellFacts
    <3> DEFINE n == f[q].len
    <3> HIDE DEF n
    <3>4. \A i \in 1 .. n : q + i \in 1 .. Len(f) /\ q + i # p
      BY <3>1, <3>2, <3>3, <1>2, <2>1 DEF n
    <3>5. \A i \in 1 .. n : g[q + i] = f[q + i]
      BY <3>4, <1>1
    <3> QED BY <3>1, <3>5 DEF n
  <2> QED BY <1>1, <2>1, <2>2, <2>3, ValueKept
<1> QED BY <1>4, <1>5, <1>6 DEF Kept

\* A body written for a key changes the nodes and the values of no other key.
LEMMA BodyKeeps ==
  ASSUME NEW f \in Seq(Cell), NEW k \in Keys, NEW p \in 1 .. Len(f), NEW s \in Seq(Chars),
         NEW g, g = Put(f, Write(p + 1, Bytes(s))),
         \/ p \in Chain(f) /\ Len(s) <= Body(f[p])
         \/ p = Len(f),
         f[p].key = k
  PROVE  /\ Kept(f, g, k)
         /\ Owns(g, k) = Owns(f, k)
<1>1. /\ g \in Seq(Cell)
      /\ Len(g) \in Nat /\ Len(f) <= Len(g)
      /\ \A i \in 1 .. Len(f) : i <= p \/ p + Len(s) < i => g[i] = f[i]
      /\ Chain(g) = Chain(f)
  BY BodyWrite
<1>2. Len(f) \in Nat /\ Len(s) \in Nat
  BY LenProperties
<1>3. \A q \in Chain(f) : q \in 1 .. Len(f)
  BY ChainCells
<1>4. \A q \in Chain(f) : q <= p \/ p + Len(s) < q
  <2> SUFFICES ASSUME NEW q \in Chain(f), p < q PROVE p + Len(s) < q
    BY <1>2, <1>3
  <2>1. p \in Chain(f) /\ Len(s) <= Body(f[p])
    BY <1>2, <1>3
  <2>2. After(f, p) <= q
    BY <2>1, FileLinked, ChainOrder
  <2> QED BY <1>2, <1>3, <2>1, <2>2, ChainCells DEF After
<1>5. \A q \in Chain(f) : g[q] = f[q]
  BY <1>1, <1>3, <1>4
<1>6. \A j : Owns(g, j) = Owns(f, j)
  BY <1>1, <1>5 DEF Owns
<1>7. ASSUME NEW j \in Keys, j # k, NEW q \in Owns(f, j), Value(f, q) \in Values
      PROVE  Value(g, q) = Value(f, q)
  <2>1. q \in Chain(f) /\ q # p
    BY <1>7 DEF Owns
  <2>2. ASSUME f[q].type = "str"
        PROVE  q + f[q].len <= Len(f) /\ \A i \in 1 .. f[q].len : g[q + i] = f[q + i]
    <3> DEFINE n == f[q].len
    <3>1. q + n <= Len(f)
      BY <1>7, <2>1, <2>2, Readable
    <3>2. n \in Nat
      BY <2>1, ChainCells, CellFacts
    <3>3. q + n <= p \/ p + Len(s) < q
      <4>1. CASE p < q
        BY <4>1, <1>3, <1>4, <2>1
      <4>2. CASE q < p /\ p = Len(f)
        BY <4>2, <3>1
      <4>3. CASE q < p /\ p \in Chain(f)
        <5>1. q + f[q].len < p
          BY <4>3, <2>1, <2>2, BeforeNext
        <5> QED BY <5>1, <3>2, <1>3, <2>1
      <4> QED BY <4>1, <4>2, <4>3, <1>3, <2>1
    <3> HIDE DEF n
    <3>4. \A i \in 1 .. n : q + i \in 1 .. Len(f) /\ (q + i <= p \/ p + Len(s) < q + i)
      BY <3>1, <3>2, <3>3, <1>2, <1>3, <2>1
    <3>5. \A i \in 1 .. n : g[q + i] = f[q + i]
      BY <3>4, <1>1
    <3> QED BY <3>1, <3>5 DEF n
  <2> QED BY <1>1, <1>5, <2>1, <2>2, ValueKept
<1> QED BY <1>6, <1>7 DEF Kept

--------------------------------------------------------------------------------
(* The stages of an operation *)

WriteSet == [at : Nat, cells : Seq(Asked)]

\* What the assertion of kvs_write does not let through.
Refused(c) == c.type # "u8" /\ c.len > c.size

\* A 64-bit value is at hand: the one being set, which does not pass the assertion, or
\* one in the file, in which there seemed to be room for the string being set.
ByWide(f, v) ==
  /\ v # Absent
  /\ \/ v.type = "u64" /\ v.val.lo > v.val.hi
     \/ v.type = "str" /\ \E p \in Chain(f) : f[p].type = "u64" /\ f[p].size >= Len(v.val)

\* The header of a value.
Carries(c, v) ==
  c.type = v.type /\ IF v.type = "str" THEN c.len = Len(v.val) ELSE c.val = v.val

\* A mark of a free node.
IsMark(f, k, w) ==
  /\ Free(f, k, w.at)
  /\ \E c \in Cell : /\ c.hdr /\ c.dead /\ Body(c) = Body(f[w.at]) /\ w.cells = <<c>>
                    /\ c.type = f[w.at].type /\ c.size = f[w.at].size

\* The header of a value over a free node or behind the end of the file, or one that
\* will not pass the assertion.
IsHead(f, k, v, w) ==
  \E c \in Asked :
    /\ w.cells = <<c>> /\ c.hdr
    /\ \/ Refused(c) /\ ByWide(f, v)
       \/ /\ c \in Cell /\ ~c.dead /\ c.key = k /\ Carries(c, v)
          /\ \/ Free(f, k, w.at) /\ Body(c) = Body(f[w.at])
             \/ w.at = Len(f) + 1 /\ (v.type = "str" => c.size = c.len)

\* The first stage: m marks are left and, unless the operation is an erase, the header
\* and the body of a string.  Every node of the key is among the places.
PlacedAt(f, k, v, ws, sd, m) ==
  /\ \A i \in 1 .. m : IsMark(f, k, ws[i])
  /\ v = Absent => Len(ws) = m
  /\ v # Absent => /\ m + 1 <= Len(ws) /\ IsHead(f, k, v, ws[m + 1])
                   /\ v.type # "str" => Len(ws) = m + 1
                   /\ v.type = "str" => /\ Len(ws) = m + 2
                                        /\ ws[m + 2] = Write(ws[m + 1].at + 1, Bytes(v.val))
  /\ \A p \in Owns(f, k) : \E i \in 1 .. Len(ws) : i <= m + 1 /\ ws[i].at = p
  /\ sd => ReachesEnd(f)

Placed(f, k, v, ws, sd) == \E m \in 0 .. Len(ws) : PlacedAt(f, k, v, ws, sd, m)

\* The second stage: the header of a string is written and its body is not.
BodyLeft(f, k, v, ws, sd) ==
  \E p \in 1 .. Len(f) :
    /\ v # Absent /\ v.type = "str" /\ ws = <<Write(p + 1, Bytes(v.val))>>
    /\ f[p].hdr /\ f[p].key = k /\ ~f[p].dead /\ Carries(f[p], v)
    /\ p \in Chain(f) \/ p = Len(f)
    /\ Owns(f, k) \subseteq {p}
    /\ sd => p \in Chain(f) /\ (ReachesEnd(f) \/ (p = Len(f) /\ f[p].size = f[p].len))

\* The third stage: nothing is left to write.
Done(f, k, v, ws, sd) ==
  /\ ws = <<>> /\ v # Absent
  /\ \E p \in Nat :
       /\ Owns(f, k) \subseteq {p}
       /\ sd => ReachesEnd(f) /\ Owns(f, k) = {p} /\ Value(f, p) = v

Pending(f, k, v, ws, sd) ==
  Placed(f, k, v, ws, sd) \/ BodyLeft(f, k, v, ws, sd) \/ Done(f, k, v, ws, sd)

\* A header of the same body over a node: every other node stays what it is.
LEMMA Rewrite ==
  ASSUME NEW f \in Seq(Cell), NEW p \in Nat, p \in Chain(f),
         NEW c \in Cell, c.hdr, Body(c) = Body(f[p]),
         NEW g, g = Put(f, Write(p, <<c>>))
  PROVE  /\ g \in Seq(Cell) /\ Len(g) = Len(f) /\ Chain(g) = Chain(f)
         /\ g[p] = c
         /\ \A q \in Chain(f) : Body(g[q]) = Body(f[q]) /\ (q # p => g[q] = f[q])
         /\ ReachesEnd(f) => ReachesEnd(g)
<1>1. p \in Nat /\ Len(f) \in Nat /\ p <= Len(f)
  BY ChainCells
<1>2. /\ g \in Seq(Cell)
      /\ Len(g) = IF p = Len(f) + 1 THEN p ELSE Len(f)
      /\ g[p] = c
      /\ \A i \in 1 .. Len(f) : i # p => g[i] = f[i]
      /\ Chain(f) \subseteq Chain(g)
      /\ Chain(g) \subseteq Chain(f) \cup {p}
  <2>1. (p \in Chain(f) /\ Body(c) = Body(f[p])) \/ p = Len(f) + 1
    OBVIOUS
  <2> QED BY <2>1, HeaderWrite
<1>3. Len(g) = Len(f) /\ Chain(g) = Chain(f)
  BY <1>1, <1>2
<1>4. \A q \in Chain(f) : Body(g[q]) = Body(f[q]) /\ (q # p => g[q] = f[q])
  <2> SUFFICES ASSUME NEW q \in Chain(f) PROVE Body(g[q]) = Body(f[q]) /\ (q # p => g[q] = f[q])
    OBVIOUS
  <2>1. q \in 1 .. Len(f)
    BY ChainCells
  <2>2. CASE q = p
    BY <2>2, <1>2
  <2>3. CASE q # p
    BY <2>1, <2>3, <1>2
  <2> QED BY <2>2, <2>3
<1>5. ASSUME ReachesEnd(f) PROVE ReachesEnd(g)
  <2>1. f # <<>>
    BY <1>1, ChainCells, EmptySeq
  <2>2. PICK q \in Chain(f) : q + Body(f[q]) = Len(f)
    BY <1>5, <2>1 DEF ReachesEnd
  <2>3. q \in Chain(g) /\ q + Body(g[q]) = Len(g)
    BY <2>2, <1>3, <1>4
  <2> QED BY <2>3 DEF ReachesEnd
<1> QED BY <1>2, <1>3, <1>4, <1>5

\* A delete that is followed by other writes: the marks yet to be made and the header
\* yet to be written are still of free nodes.
LEMMA MarkStep ==
  ASSUME NEW f \in Seq(Cell), NEW k \in Keys, NEW v, NEW ws \in Seq(WriteSet), NEW sd,
         NEW m \in 1 .. Len(ws),
         PlacedAt(f, k, v, ws, sd, m),
         NEW g, g = Put(f, Head(ws))
  PROVE  /\ g \in Seq(Cell)
         /\ Kept(f, g, k)
         /\ Owns(g, k) \subseteq Owns(f, k)
         /\ Placed(g, k, v, Tail(ws), sd)
<1> USE DEF PlacedAt
<1> DEFINE w == ws[1]
           p == w.at
           us == Tail(ws)
<1>1. /\ Len(ws) \in Nat /\ m \in Nat /\ 1 <= m /\ m <= Len(ws)
      /\ Head(ws) = w /\ us \in Seq(WriteSet) /\ Len(us) = Len(ws) - 1
      /\ \A i \in 1 .. Len(us) : us[i] = ws[i + 1]
  <2>1. Len(ws) \in Nat
    BY LenProperties
  <2>2. ws # <<>>
    BY <2>1, EmptySeq
  <2> QED BY <2>1, <2>2, HeadTailProperties
<1>2. w \in WriteSet /\ IsMark(f, k, w)
  <2>1. 1 \in 1 .. Len(ws) /\ 1 \in 1 .. m
    <3>1. m \in Nat /\ 1 <= m /\ m <= Len(ws) /\ Len(ws) \in Nat
      BY <1>1
    <3> QED BY <3>1
  <2>2. ws[1] \in WriteSet
    BY <2>1, ElementOfSeq
  <2> QED BY <2>1, <2>2
<1>3. p \in Chain(f) /\ p \in Nat
  BY <1>2, ChainCells DEF IsMark, Free
<1>4. PICK c \in Cell : /\ c.hdr /\ c.dead /\ Body(c) = Body(f[p]) /\ w.cells = <<c>>
                       /\ c.type = f[p].type /\ c.size = f[p].size
  BY <1>2 DEF IsMark
<1>5. g = Put(f, Write(p, <<c>>))
  BY <1>1, <1>4 DEF Put, Write
<1>6. /\ g \in Seq(Cell) /\ Len(g) = Len(f) /\ Chain(g) = Chain(f)
      /\ g[p] = c
      /\ \A q \in Chain(f) : Body(g[q]) = Body(f[q]) /\ (q # p => g[q] = f[q])
      /\ ReachesEnd(f) => ReachesEnd(g)
  BY <1>3, <1>4, <1>5, Rewrite
<1>7. Free(f, k, p)
  BY <1>2 DEF IsMark
<1> HIDE DEF p, w, us
<1>8. Kept(f, g, k) /\ Owns(g, k) \subseteq {q \in Owns(f, k) : q # p} \cup {q \in {p} : ~c.dead}
  BY <1>3, <1>4, <1>5, <1>7, HeaderKeeps
<1>9. Owns(g, k) \subseteq {q \in Owns(f, k) : q # p}
  BY <1>4, <1>8
<1>10. \A q : Free(f, k, q) => /\ Free(g, k, q) /\ Body(g[q]) = Body(f[q])
                             /\ g[q].type = f[q].type /\ g[q].size = f[q].size
  BY <1>4, <1>6 DEF Free
<1>11. \A u : IsMark(f, k, u) => IsMark(g, k, u)
  BY <1>10 DEF IsMark
<1>12. \A u : IsHead(f, k, v, u) => IsHead(g, k, v, u)
  <2>1. \A q \in Chain(f) : q \in Chain(g) /\ g[q].type = f[q].type /\ g[q].size = f[q].size
    BY <1>4, <1>6
  <2>2. ByWide(f, v) => ByWide(g, v)
    BY <2>1 DEF ByWide
  <2> QED BY <2>2, <1>6, <1>10 DEF IsHead
<1>13. \A i \in 1 .. m - 1 : IsMark(g, k, us[i])
  <2> SUFFICES ASSUME NEW i \in 1 .. m - 1 PROVE IsMark(g, k, us[i])
    OBVIOUS
  <2>1. i + 1 \in 1 .. m /\ i \in 1 .. Len(us)
    BY <1>1
  <2> QED BY <2>1, <1>1, <1>11
<1>14. ASSUME v # Absent
       PROVE  /\ m <= Len(us) /\ IsHead(g, k, v, us[m])
              /\ v.type # "str" => Len(us) = m
              /\ v.type = "str" => Len(us) = m + 1 /\ us[m + 1] = Write(us[m].at + 1, Bytes(v.val))
  <2>1. m \in 1 .. Len(us) /\ us[m] = ws[m + 1]
    BY <1>1, <1>14
  <2>2. IsHead(g, k, v, us[m])
    BY <2>1, <1>12, <1>14
  <2>3. ASSUME v.type = "str"
        PROVE  Len(us) = m + 1 /\ us[m + 1] = Write(us[m].at + 1, Bytes(v.val))
    <3>1. m + 1 \in 1 .. Len(us) /\ m + 1 + 1 = m + 2 /\ Len(us) = m + 1
      BY <1>1, <1>14, <2>3
    <3>2. us[m + 1] = ws[m + 2]
      BY <3>1, <1>1
    <3> QED BY <3>1, <3>2, <2>1, <1>14, <2>3
  <2>4. v.type # "str" => Len(us) = m
    BY <1>1, <1>14
  <2> QED BY <2>1, <2>2, <2>3, <2>4
<1>15. \A q \in Owns(g, k) : \E i \in 1 .. Len(us) : i <= m /\ us[i].at = q
  <2> SUFFICES ASSUME NEW q \in Owns(g, k) PROVE \E i \in 1 .. Len(us) : i <= m /\ us[i].at = q
    OBVIOUS
  <2>1. q \in Owns(f, k) /\ q # p
    BY <1>9
  <2>2. PICK i \in 1 .. Len(ws) : i <= m + 1 /\ ws[i].at = q
    BY <2>1
  <2>3. i # 1
    BY <2>1, <2>2 DEF p, w
  <2>4. i - 1 \in 1 .. Len(us) /\ i - 1 <= m /\ (i - 1) + 1 = i
    BY <1>1, <2>2, <2>3
  <2>5. us[i - 1].at = q
    BY <1>1, <2>2, <2>4
  <2> QED BY <2>4, <2>5
<1>16. Placed(g, k, v, us, sd)
  <2> DEFINE n == m - 1
  <2>1. n \in 0 .. Len(us) /\ n + 1 = m /\ n + 2 = m + 1
    BY <1>1
  <2>2. v = Absent => Len(us) = n
    BY <1>1
  <2>3. \A i \in 1 .. n : IsMark(g, k, us[i])
    BY <1>13
  <2>4. sd => ReachesEnd(g)
    BY <1>6
  <2> HIDE DEF n
  <2> QED BY <2>1, <2>2, <2>3, <2>4, <1>14, <1>15 DEF Placed, PlacedAt
<1> QED BY <1>6, <1>8, <1>9, <1>16 DEF us

\* What a value can be, field by field.
LEMMA ValueShape ==
  ASSUME NEW v \in Values
  PROVE  /\ v = [type |-> v.type, val |-> v.val]
         /\ v.type \in {"u8", "u64", "str"}
         /\ v.type = "str" => v.val \in Seq(Chars)
         /\ v # Absent /\ v # Unknown
BY ConstantsOK DEF Values

\* The header of a set: what is left is the body of a string, or nothing and the value
\* can be read.
LEMMA HeadStep ==
  ASSUME NEW f \in Seq(Cell), NEW k \in Keys, NEW v \in Values, NEW ws \in Seq(WriteSet), NEW sd,
         1 <= Len(ws), IsHead(f, k, v, ws[1]), Asserted(Head(ws)),
         v.type # "str" => Len(ws) = 1,
         v.type = "str" => Len(ws) = 2 /\ ws[2] = Write(ws[1].at + 1, Bytes(v.val)),
         Owns(f, k) \subseteq {ws[1].at},
         sd => ReachesEnd(f),
         NEW g, g = Put(f, Head(ws))
  PROVE  /\ g \in Seq(Cell)
         /\ Kept(f, g, k)
         /\ Owns(g, k) \subseteq {ws[1].at}
         /\ BodyLeft(g, k, v, Tail(ws), sd) \/ Done(g, k, v, Tail(ws), sd)
<1> DEFINE w == ws[1]
           p == w.at
           us == Tail(ws)
<1>1. /\ Len(ws) \in Nat /\ ws # <<>>
      /\ Head(ws) = w /\ us \in Seq(WriteSet) /\ Len(us) = Len(ws) - 1
      /\ \A i \in 1 .. Len(us) : us[i] = ws[i + 1]
  <2>1. Len(ws) \in Nat
    BY LenProperties
  <2>2. ws # <<>>
    BY <2>1, EmptySeq
  <2> QED BY <2>1, <2>2, HeadTailProperties
<1>2. w \in WriteSet
  <2>1. 1 \in 1 .. Len(ws)
    <3>1. Len(ws) \in Nat
      BY <1>1
    <3> QED BY <3>1
  <2> QED BY <2>1, ElementOfSeq
<1>3. PICK c \in Cell :
        /\ w.cells = <<c>> /\ c.hdr /\ ~c.dead /\ c.key = k /\ Carries(c, v)
        /\ \/ Free(f, k, p) /\ Body(c) = Body(f[p])
           \/ p = Len(f) + 1 /\ (v.type = "str" => c.size = c.len)
  <2>1. PICK c \in Asked :
          /\ w.cells = <<c>> /\ c.hdr
          /\ \/ Refused(c) /\ ByWide(f, v)
             \/ /\ c \in Cell /\ ~c.dead /\ c.key = k /\ Carries(c, v)
                /\ \/ Free(f, k, p) /\ Body(c) = Body(f[p])
                   \/ p = Len(f) + 1 /\ (v.type = "str" => c.size = c.len)
    BY DEF IsHead
  <2>2. ~Refused(c)
    <3>1. Len(w.cells) = 1 /\ w.cells[1] = c /\ 1 \in 1 .. 1
      BY <2>1
    <3>2. c.type = "u8" \/ c.size >= c.len
      <4>1. Asserted(w)
        BY <1>1
      <4> HIDE DEF w
      <4> QED BY <2>1, <3>1, <4>1 DEF Asserted, IsInt
    <3>3. c.size \in Nat /\ c.len \in Nat
      BY <2>1, AskedFacts
    <3> QED BY <3>2, <3>3 DEF Refused
  <2> QED BY <2>1, <2>2
<1>4. g = Put(f, Write(p, <<c>>))
  BY <1>1, <1>3 DEF Put, Write
<1>5. p \in Nat /\ Len(f) \in Nat
  BY <1>2, LenProperties DEF WriteSet
<1>6. Owns(f, k) \subseteq {p}
  OBVIOUS
<1>7. v.type = "str" => Len(us) = 1 /\ us[1] = Write(p + 1, Bytes(v.val))
  <2> SUFFICES ASSUME v.type = "str" PROVE Len(us) = 1 /\ us[1] = Write(p + 1, Bytes(v.val))
    OBVIOUS
  <2>1. Len(us) = 1 /\ 1 \in 1 .. Len(us)
    BY <1>1
  <2>2. us[1] = ws[1 + 1]
    BY <1>1, <2>1
  <2> QED BY <2>1, <2>2
<1>8. v.type # "str" => us = <<>>
  BY <1>1, EmptySeq
<1> HIDE DEF p, w, us
<1>9. /\ g \in Seq(Cell)
      /\ Len(g) = IF p = Len(f) + 1 THEN p ELSE Len(f)
      /\ g[p] = c
      /\ Chain(f) \subseteq Chain(g)
      /\ ReachesEnd(f) => p \in Chain(g)
  <2>1. (p \in Chain(f) /\ Body(c) = Body(f[p])) \/ p = Len(f) + 1
    BY <1>3 DEF Free
  <2> QED BY <2>1, <1>3, <1>4, <1>5, HeaderWrite
<1>10. Kept(f, g, k) /\ Owns(g, k) \subseteq {q \in Owns(f, k) : q # p} \cup {q \in {p} : ~c.dead}
  <2>1. (Free(f, k, p) /\ Body(c) = Body(f[p])) \/ p = Len(f) + 1
    BY <1>3
  <2> QED BY <2>1, <1>3, <1>4, <1>5, HeaderKeeps
<1>11. Owns(g, k) \subseteq {p}
  BY <1>6, <1>10
<1>12. Free(f, k, p) /\ Body(c) = Body(f[p]) /\ ReachesEnd(f) => ReachesEnd(g)
  BY <1>3, <1>4, <1>5, Rewrite DEF Free
<1>13. p \in Chain(g) => p \in Owns(g, k)
  BY <1>3, <1>9 DEF Owns
<1>14. Free(f, k, p) => p \in Chain(g)
  BY <1>9 DEF Free
<1>15. CASE v.type # "str"
  <2>1. c.type = v.type /\ c.val = v.val
    BY <1>3, <1>15 DEF Carries
  <2>2. Value(g, p) = v
    BY <1>9, <1>15, <2>1, ValueShape DEF Value
  <2>3. ASSUME sd PROVE ReachesEnd(g) /\ p \in Chain(g)
    <3>1. p \in Chain(g)
      BY <2>3, <1>9
    <3>2. CASE Free(f, k, p) /\ Body(c) = Body(f[p])
      BY <2>3, <3>1, <3>2, <1>12
    <3>3. CASE p = Len(f) + 1
      <4>1. p + Body(g[p]) = Len(g)
        BY <1>5, <1>9, <1>15, <2>1, <3>3 DEF Body
      <4> QED BY <3>1, <4>1 DEF ReachesEnd
    <3> QED BY <3>2, <3>3, <1>3
  <2>4. Done(g, k, v, us, sd)
    BY <1>5, <1>8, <1>11, <1>13, <1>15, <2>2, <2>3, ValueShape DEF Done
  <2> QED BY <1>9, <1>10, <1>11, <2>4 DEF us, p, w
<1>16. CASE v.type = "str"
  <2>1. us = <<Write(p + 1, Bytes(v.val))>>
    <3>1. us \in Seq(WriteSet) /\ Len(us) = 1 /\ us[1] = Write(p + 1, Bytes(v.val))
      BY <1>1, <1>7, <1>16
    <3> DEFINE u == Write(p + 1, Bytes(v.val))
    <3>2. us = <<u>>
      <4> HIDE DEF u
      <4>1. u \in WriteSet
        <5>1. 1 \in 1 .. Len(us)
          BY <3>1
        <5>2. us[1] \in WriteSet
          BY <3>1, <5>1, ElementOfSeq
        <5> QED BY <5>2, <3>1 DEF u
      <4>2. <<u>> \in Seq(WriteSet) /\ Len(<<u>>) = 1 /\ <<u>>[1] = u
        BY <4>1
      <4>3. us[1] = u
        BY <3>1 DEF u
      <4>4. \A i \in 1 .. Len(us) : us[i] = <<u>>[i]
        BY <3>1, <4>2, <4>3
      <4> QED BY <3>1, <4>2, <4>4, SeqEqual
    <3> QED BY <3>2
  <2>2. p \in 1 .. Len(g) /\ (p \in Chain(g) \/ p = Len(g))
    <3>1. CASE Free(f, k, p)
      BY <3>1, <1>9, <1>14, ChainCells
    <3>2. CASE p = Len(f) + 1
      BY <3>2, <1>5, <1>9
    <3> QED BY <3>1, <3>2, <1>3
  <2>3. ASSUME sd PROVE p \in Chain(g) /\ (ReachesEnd(g) \/ (p = Len(g) /\ g[p].size = g[p].len))
    <3>1. p \in Chain(g)
      BY <2>3, <1>9
    <3>2. CASE Free(f, k, p) /\ Body(c) = Body(f[p])
      BY <2>3, <3>1, <3>2, <1>12
    <3>3. CASE p = Len(f) + 1 /\ c.size = c.len
      BY <1>9, <3>1, <3>3
    <3> QED BY <3>2, <3>3, <1>3, <1>16
  <2>4. g[p].hdr /\ g[p].key = k /\ ~g[p].dead /\ Carries(g[p], v)
    BY <1>3, <1>9
  <2>5. BodyLeft(g, k, v, us, sd)
    BY <1>11, <1>16, <2>1, <2>2, <2>3, <2>4, ValueShape DEF BodyLeft
  <2> QED BY <1>9, <1>10, <1>11, <2>5 DEF us, p, w
<1> QED BY <1>15, <1>16

\* In a file whose chain leads to its end no body is cut off.
LEMMA Complete ==
  ASSUME NEW f \in Seq(Cell), ReachesEnd(f), NEW p \in Chain(f)
  PROVE  p + Body(f[p]) <= Len(f)
<1>1. /\ p \in Nat /\ Len(f) \in Nat /\ Body(f[p]) \in Nat /\ 1 <= p /\ p <= Len(f)
      /\ After(f, p) = p + 1 + Body(f[p])
  BY ChainCells DEF After
<1>2. f # <<>>
  BY <1>1, EmptySeq
<1>3. PICK q \in Chain(f) : q + Body(f[q]) = Len(f)
  BY <1>2 DEF ReachesEnd
<1>4. q \in Nat /\ Body(f[q]) \in Nat /\ After(f, q) = q + 1 + Body(f[q]) /\ q <= Len(f)
  BY ChainCells DEF After
<1>5. CASE p < q
  <2>1. After(f, p) <= q
    BY <1>5, FileLinked, ChainOrder
  <2> QED BY <1>1, <1>4, <2>1
<1>6. CASE q < p
  <2>1. After(f, q) <= p
    BY <1>6, FileLinked, ChainOrder
  <2> QED BY <1>1, <1>3, <1>4, <2>1
<1>7. CASE p = q
  BY <1>1, <1>3, <1>7
<1> QED BY <1>1, <1>4, <1>5, <1>6, <1>7

\* The body of a string: the value can be read, and no other has changed.
LEMMA BodyStep ==
  ASSUME NEW f \in Seq(Cell), NEW k \in Keys, NEW v \in Values, NEW ws, NEW sd,
         BodyLeft(f, k, v, ws, sd),
         NEW g, g = Put(f, Head(ws))
  PROVE  /\ g \in Seq(Cell)
         /\ Kept(f, g, k)
         /\ Owns(g, k) = Owns(f, k)
         /\ Done(g, k, v, Tail(ws), sd)
<1>1. PICK p \in 1 .. Len(f) :
        /\ v # Absent /\ v.type = "str" /\ ws = <<Write(p + 1, Bytes(v.val))>>
        /\ f[p].hdr /\ f[p].key = k /\ ~f[p].dead /\ Carries(f[p], v)
        /\ p \in Chain(f) \/ p = Len(f)
        /\ Owns(f, k) \subseteq {p}
        /\ sd => p \in Chain(f) /\ (ReachesEnd(f) \/ (p = Len(f) /\ f[p].size = f[p].len))
  BY DEF BodyLeft
<1> DEFINE s == v.val
           n == Len(s)
<1>2. s \in Seq(Chars) /\ n \in Nat /\ v = [type |-> "str", val |-> s]
  BY <1>1, ValueShape, LenProperties
<1>3. g = Put(f, Write(p + 1, Bytes(s))) /\ Tail(ws) = <<>>
  BY <1>1
<1>4. /\ Len(f) \in Nat /\ p \in Nat /\ f[p] \in Cell
      /\ f[p].type = "str" /\ f[p].len = n /\ f[p].size \in Nat /\ n <= f[p].size
      /\ Body(f[p]) = f[p].size
  <2>1. Len(f) \in Nat /\ f[p] \in Cell
    BY FileLinked DEF Linked
  <2>2. f[p].type = "str" /\ f[p].len = n
    BY <1>1 DEF Carries
  <2>3. f[p].size \in Nat /\ f[p].len <= f[p].size
    BY <1>1, <2>1, <2>2, CellFacts
  <2> QED BY <2>1, <2>2, <2>3 DEF Body
<1>5. (p \in Chain(f) /\ n <= Body(f[p])) \/ p = Len(f)
  BY <1>1, <1>4
<1> HIDE DEF s
<1>6. /\ g \in Seq(Cell)
      /\ Len(g) \in Nat /\ Len(f) <= Len(g) /\ p + n <= Len(g)
      /\ Len(g) <= Len(f) \/ Len(g) <= p + n
      /\ \A i \in 1 .. n : g[p + i] = Byte(s[i])
      /\ \A i \in 1 .. Len(f) : i <= p \/ p + n < i => g[i] = f[i]
      /\ Chain(g) = Chain(f)
  BY <1>2, <1>3, <1>5, BodyWrite
<1>7. Kept(f, g, k) /\ Owns(g, k) = Owns(f, k)
  BY <1>1, <1>2, <1>3, <1>5, BodyKeeps
<1>8. g[p] = f[p]
  BY <1>4, <1>6
<1>9. Value(g, p) = v
  <2> DEFINE text == [i \in 1 .. n |-> IF g[p + i].hdr THEN NoKey ELSE g[p + i].byte]
  <2>1. Value(g, p) = [type |-> "str", val |-> text]
    <3>1. g[p].type = "str" /\ g[p].len = n
      BY <1>4, <1>8
    <3> HIDE DEF n
    <3> QED BY <3>1, <1>2, <1>4, <1>6, StringValue
  <2>2. \A i \in 1 .. n : text[i] = s[i]
    <3>1. \A i \in 1 .. n : ~g[p + i].hdr /\ g[p + i].byte = s[i]
      <4>1. \A b : ~Byte(b).hdr /\ Byte(b).byte = b
        BY DEF Byte
      <4> HIDE DEF n
      <4> QED BY <4>1, <1>6
    <3> HIDE DEF n
    <3> QED BY <3>1
  <2>3. text = s
    <3>1. s = [i \in 1 .. n |-> s[i]]
      BY <1>2, LenProperties
    <3> QED BY <2>2, <3>1
  <2> HIDE DEF text
  <2> QED BY <2>1, <2>3, <1>2
<1>10. ASSUME sd PROVE ReachesEnd(g) /\ Owns(g, k) = {p}
  <2>1. p \in Chain(f) /\ p \in Owns(f, k)
    BY <1>1, <1>10 DEF Owns
  <2>2. CASE ReachesEnd(f)
    <3>1. p + Body(f[p]) <= Len(f)
      BY <2>1, <2>2, Complete
    <3>2. Len(g) = Len(f)
      BY <3>1, <1>2, <1>4, <1>6
    <3>3. PICK q \in Chain(f) : q + Body(f[q]) = Len(f)
      BY <2>1, <2>2, ChainCells, EmptySeq DEF ReachesEnd
    <3>4. g[q] = f[q]
      <4>1. q \in 1 .. Len(f)
        BY ChainCells
      <4>2. p < q => p + n < q
        <5> SUFFICES ASSUME p < q PROVE p + n < q
          OBVIOUS
        <5>1. After(f, p) <= q
          BY <2>1, FileLinked, ChainOrder
        <5> QED BY <5>1, <4>1, <1>2, <1>4 DEF After
      <4> QED BY <4>1, <4>2, <1>4, <1>6
    <3>5. q \in Chain(g) /\ q + Body(g[q]) = Len(g)
      BY <3>2, <3>3, <3>4, <1>6
    <3> QED BY <3>5, <2>1, <1>1, <1>7 DEF ReachesEnd
  <2>3. CASE p = Len(f) /\ f[p].size = f[p].len
    <3>1. p + Body(g[p]) = Len(g)
      BY <2>3, <1>2, <1>4, <1>6, <1>8
    <3> QED BY <3>1, <2>1, <1>1, <1>6, <1>7 DEF ReachesEnd
  <2> QED BY <2>2, <2>3, <1>1, <1>10
<1>11. Done(g, k, v, <<>>, sd)
  BY <1>1, <1>4, <1>7, <1>9, <1>10 DEF Done
<1> QED BY <1>3, <1>6, <1>7, <1>11

--------------------------------------------------------------------------------
(* The choice of a place *)

\* A key has at most one node.
Alone(f, k) == \A p, q \in Owns(f, k) : p = q

\* Least chooses from its set.
LEMMA LeastIn ==
  ASSUME NEW S, S \subseteq Nat, S # {}
  PROVE  Least(S) \in S
<1>1. \E n \in S : \A m \in S : n <= m
  BY LeastOf
<1> QED BY <1>1 DEF Least

\* Greatest chooses from its set.
LEMMA GreatestIn ==
  ASSUME NEW S, NEW n \in Nat, S \subseteq 0 .. n, S # {}
  PROVE  Greatest(S) \in S
<1> DEFINE T == {n - x : x \in S}
<1>1. T \subseteq Nat /\ T # {}
  <2>1. \A x \in S : n - x \in Nat
    OBVIOUS
  <2>2. PICK x : x \in S
    OBVIOUS
  <2>3. n - x \in T
    BY <2>2
  <2> QED BY <2>1, <2>3
<1>2. PICK t \in T : \A u \in T : t <= u
  <2> HIDE DEF T
  <2> QED BY <1>1, LeastOf
<1>3. PICK x \in S : t = n - x
  OBVIOUS
<1>4. \A y \in S : n - y \in T
  OBVIOUS
<1>5. \A y \in S : n - x <= n - y
  <2> HIDE DEF T
  <2> QED BY <1>2, <1>3, <1>4
<1>6. \A y \in S : x >= y
  <2>1. x \in Int /\ \A y \in S : y \in Int
    OBVIOUS
  <2> HIDE DEF T
  <2> QED BY <1>5, <2>1
<1> QED BY <1>6 DEF Greatest

\* The nodes to delete and the one to use are free, and those of the key are among them.
GoodPlace(k, del, at) ==
  /\ del \in Seq(Nat)
  /\ \A i \in 1 .. Len(del) : Free(file, k, del[i])
  /\ at = AtEnd \/ Free(file, k, at)
  /\ \A p \in Owns(file, k) : p = at \/ \E i \in 1 .. Len(del) : del[i] = p

\* Marking a node dead leaves the length of its body.
LEMMA DeadCell ==
  ASSUME NEW h \in Cell, h.hdr
  PROVE  /\ Dead(h) \in Cell /\ Dead(h).hdr /\ Dead(h).dead /\ Body(Dead(h)) = Body(h)
         /\ Dead(h).type = h.type /\ Dead(h).size = h.size
<1>1. h \in Asked /\ h.len <= h.size
  BY DEF Cell
<1>2. CASE h \in HeaderOf("u8", Ints)
  <2>1. Dead(h) \in HeaderOf("u8", Ints)
    BY <1>2 DEF HeaderOf, Dead
  <2> QED BY <1>1, <1>2, <2>1 DEF HeaderOf, Dead, Body, Cell, Asked
<1>3. CASE h \in HeaderOf("u64", Wides)
  <2>1. Dead(h) \in HeaderOf("u64", Wides)
    BY <1>3 DEF HeaderOf, Dead
  <2> QED BY <1>1, <1>3, <2>1 DEF HeaderOf, Dead, Body, Cell, Asked
<1>4. CASE h \in HeaderOf("str", {})
  <2>1. Dead(h) \in HeaderOf("str", {})
    BY <1>4 DEF HeaderOf, Dead
  <2> QED BY <1>1, <1>4, <2>1 DEF HeaderOf, Dead, Body, Cell, Asked
<1> QED BY <1>1, <1>2, <1>3, <1>4 DEF Asked

\* The writes of the deletes are marks of the nodes to delete, in their order.
LEMMA DeletesFacts ==
  ASSUME file \in Seq(Cell), NEW k \in Keys, NEW del \in Seq(Nat),
         \A i \in 1 .. Len(del) : Free(file, k, del[i])
  PROVE  /\ Deletes(del) \in Seq(WriteSet)
         /\ Len(Deletes(del)) = Len(del)
         /\ \A i \in 1 .. Len(del) : /\ IsMark(file, k, Deletes(del)[i])
                                     /\ Deletes(del)[i].at = del[i]
<1> DEFINE n == Len(del)
           d(i) == Write(del[i], <<Dead(file[del[i]])>>)
           ds == [i \in 1 .. n |-> d(i)]
<1>1. n \in Nat
  BY LenProperties
<1>2. ASSUME NEW i \in 1 .. n
      PROVE  d(i) \in WriteSet /\ IsMark(file, k, d(i)) /\ d(i).at = del[i]
  <2>1. Free(file, k, del[i]) /\ del[i] \in Nat
    BY ElementOfSeq
  <2>2. file[del[i]] \in Cell /\ file[del[i]].hdr
    BY <2>1, ChainCells DEF Free
  <2> DEFINE c == Dead(file[del[i]])
  <2>3. /\ c \in Cell /\ c.hdr /\ c.dead /\ Body(c) = Body(file[del[i]])
        /\ c.type = file[del[i]].type /\ c.size = file[del[i]].size
    BY <2>2, DeadCell
  <2> HIDE DEF c
  <2>4. d(i).at = del[i] /\ d(i).cells = <<c>>
    BY DEF Write, c
  <2>5. d(i) \in WriteSet
    BY <2>1, <2>3, CellsAreAsked DEF Write, WriteSet, c
  <2> HIDE DEF d
  <2> QED BY <2>1, <2>3, <2>4, <2>5 DEF IsMark
<1> HIDE DEF d, n
<1>3. ds \in [1 .. n -> WriteSet]
  BY <1>2
<1>4. ds \in Seq(WriteSet)
  BY <1>1, <1>3, SeqDef
<1>5. Len(ds) \in Nat /\ 1 .. Len(ds) = 1 .. n
  BY <1>3, <1>4, LenProperties
<1>6. Len(ds) = n
  <2> DEFINE m == Len(ds)
  <2>1. m \in Nat /\ 1 .. m = 1 .. n
    BY <1>5
  <2> HIDE DEF m
  <2>2. m = n
    BY <1>1, <2>1
  <2> QED BY <2>2 DEF m
<1>7. \A i \in 1 .. n : ds[i] = d(i)
  OBVIOUS
<1>8. Deletes(del) = ds
  BY DEF Deletes, d, n
<1> HIDE DEF ds
<1> QED BY <1>2, <1>4, <1>6, <1>7, <1>8 DEF n

\* The cells of two sequences one behind the other.
LEMMA Joined ==
  ASSUME NEW S, NEW a \in Seq(S), NEW b \in Seq(S), 1 <= Len(b)
  PROVE  /\ a \o b \in Seq(S) /\ Len(a \o b) = Len(a) + Len(b)
         /\ \A i \in 1 .. Len(a) : (a \o b)[i] = a[i]
         /\ (a \o b)[Len(a) + 1] = b[1]
         /\ 2 <= Len(b) => (a \o b)[Len(a) + 2] = b[2]
<1> DEFINE m == Len(a)
           l == Len(b)
           c == a \o b
<1>1. m \in Nat /\ l \in Nat /\ 1 <= l
  BY LenProperties
<1>2. c \in Seq(S) /\ Len(c) = m + l
  BY ConcatProperties
<1>3. \A i \in 1 .. m + l : c[i] = IF i <= m THEN a[i] ELSE b[i - m]
  BY ConcatProperties, Zenon
<1> HIDE DEF m, l, c
<1>4. ASSUME NEW i \in 1 .. m PROVE c[i] = a[i]
  <2>1. i \in 1 .. m + l /\ i <= m
    BY <1>1
  <2> QED BY <2>1, <1>3, Zenon
<1>5. ASSUME NEW n \in 1 .. l PROVE c[m + n] = b[n]
  <2> DEFINE j == m + n
  <2>1. j \in 1 .. m + l /\ ~(j <= m) /\ j - m = n
    BY <1>1
  <2> HIDE DEF j
  <2>2. c[j] = b[j - m]
    BY <2>1, <1>3, Zenon
  <2> QED BY <2>1, <2>2 DEF j
<1>6. c[m + 1] = b[1]
  BY <1>1, <1>5
<1>7. 2 <= l => c[m + 2] = b[2]
  BY <1>1, <1>5
<1> QED BY <1>2, <1>4, <1>6, <1>7 DEF m, l, c

\* The writes of a set, when the nodes it deletes and the one it uses are free and the
\* node of its key is among them.
LEMMA SetPlaced ==
  ASSUME file \in Seq(Cell), NEW k \in Keys, NEW v \in Values, NEW del, NEW at, NEW sd,
         GoodPlace(k, del, at),
         NEW c \in Asked, c.hdr, ~c.dead, c.key = k, Carries(c, v),
         \/ Refused(c) /\ ByWide(file, v)
         \/ /\ c \in Cell
            /\ at # AtEnd => Body(c) = Body(file[at])
            /\ at = AtEnd => (v.type = "str" => c.size = c.len),
         NEW hs \in Seq(WriteSet), hs[1] = Write(Position(at), <<c>>),
         v.type # "str" => Len(hs) = 1,
         v.type = "str" => Len(hs) = 2 /\ hs[2] = Write(Position(at) + 1, Bytes(v.val)),
         sd => ReachesEnd(file)
  PROVE  /\ Deletes(del) \o hs \in Seq(WriteSet)
         /\ Placed(file, k, v, Deletes(del) \o hs, sd)
<1> DEFINE ds == Deletes(del)
           ws == ds \o hs
           m == Len(ds)
           l == Len(hs)
<1>1. /\ ds \in Seq(WriteSet) /\ m \in Nat /\ m = Len(del)
      /\ \A i \in 1 .. m : IsMark(file, k, ds[i]) /\ ds[i].at = del[i]
  BY DeletesFacts, LenProperties DEF GoodPlace
<1>2. l \in Nat /\ 1 <= l /\ (v.type # "str" => l = 1) /\ (v.type = "str" => l = 2)
  BY LenProperties
<1> HIDE DEF ds
<1>3. /\ ws \in Seq(WriteSet) /\ Len(ws) = m + l
      /\ \A i \in 1 .. m : ws[i] = ds[i]
      /\ ws[m + 1] = hs[1]
      /\ 2 <= l => ws[m + 2] = hs[2]
  <2>1. 1 <= Len(hs) /\ ds \in Seq(WriteSet)
    BY <1>1, <1>2
  <2> QED BY <2>1, Joined, Zenon
<1> HIDE DEF ws, m, l
<1>4. \A i \in 1 .. m : ws[i] = ds[i]
  BY <1>3
<1>5. ws[m + 1] = hs[1]
  BY <1>3
<1>6. v.type = "str" => ws[m + 2] = hs[2]
  BY <1>2, <1>3
<1>7. hs[1].at = Position(at) /\ hs[1].cells = <<c>>
  BY DEF Write
<1>8. at = AtEnd => Position(at) = Len(file) + 1
  BY DEF Position
<1>9. at # AtEnd => Position(at) = at
  BY DEF Position
<1>10. IsHead(file, k, v, ws[m + 1])
  <2>1. CASE Refused(c) /\ ByWide(file, v)
    BY <2>1, <1>5, <1>7 DEF IsHead
  <2>2. CASE c \in Cell /\ at = AtEnd /\ (v.type = "str" => c.size = c.len)
    <3>1. hs[1].at = Len(file) + 1
      BY <2>2, <1>7, <1>8
    <3> QED BY <3>1, <2>2, <1>5, <1>7 DEF IsHead
  <2>3. CASE c \in Cell /\ at # AtEnd /\ Body(c) = Body(file[at])
    <3>1. hs[1].at = at
      BY <2>3, <1>7, <1>9
    <3>2. Free(file, k, at) /\ Body(c) = Body(file[at])
      BY <2>3 DEF GoodPlace
    <3> QED BY <3>1, <3>2, <2>3, <1>5, <1>7 DEF IsHead
  <2> QED BY <2>1, <2>2, <2>3
<1>11. \A p \in Owns(file, k) : \E i \in 1 .. Len(ws) : i <= m + 1 /\ ws[i].at = p
  <2> SUFFICES ASSUME NEW p \in Owns(file, k)
               PROVE  \E i \in 1 .. Len(ws) : i <= m + 1 /\ ws[i].at = p
    OBVIOUS
  <2>1. p # AtEnd
    BY ChainCells DEF Owns, AtEnd
  <2>2. CASE p = at
    <3>1. ws[m + 1].at = p /\ m + 1 \in 1 .. Len(ws)
      BY <2>1, <2>2, <1>1, <1>2, <1>3, <1>5, <1>7, <1>9
    <3>2. m + 1 <= m + 1
      BY <1>1
    <3> QED BY <3>1, <3>2
  <2>3. CASE \E i \in 1 .. Len(del) : del[i] = p
    <3>1. PICK i \in 1 .. m : del[i] = p
      BY <2>3, <1>1
    <3>2. ws[i].at = p
      BY <3>1, <1>1, <1>4
    <3>3. i \in 1 .. Len(ws) /\ i <= m + 1
      BY <1>1, <1>2, <1>3
    <3> QED BY <3>2, <3>3
  <2> QED BY <2>2, <2>3 DEF GoodPlace
<1>12. Placed(file, k, v, ws, sd)
  <2>1. m \in 0 .. Len(ws) /\ m + 1 <= Len(ws)
    BY <1>1, <1>2, <1>3
  <2>2. \A i \in 1 .. m : IsMark(file, k, ws[i])
    BY <1>1, <1>4
  <2>3. v.type # "str" => Len(ws) = m + 1
    BY <1>2, <1>3
  <2>4. v.type = "str" => Len(ws) = m + 2 /\ ws[m + 2] = Write(ws[m + 1].at + 1, Bytes(v.val))
    BY <1>2, <1>3, <1>5, <1>6, <1>7
  <2> QED BY <2>1, <2>2, <2>3, <2>4, <1>10, <1>11, ValueShape DEF Placed, PlacedAt
<1> QED BY <1>3, <1>12 DEF ws, ds

\* The nodes and the soundness of the file, as operators of the file.
LEMMA NodesAreOwned ==
  /\ \A k : NodesOf(k) = Owns(file, k)
  /\ Sound <=> ReachesEnd(file)
<1>1. \A k : NodesOf(k) = Owns(file, k)
  BY DEF NodesOf, Owns, Nodes
<1>2. Sound <=> ReachesEnd(file)
  BY DEF Sound, ReachesEnd, Nodes
<1> QED BY <1>1, <1>2

\* The node of a key, when it has one.
LEMMA OwnNode ==
  ASSUME file \in Seq(Cell), NEW k \in Keys, Alone(file, k), NodesOf(k) # {},
         NEW l, l = Least(NodesOf(k))
  PROVE  l \in NodesOf(k) /\ l \in Nat /\ l # AtEnd /\ Free(file, k, l) /\ \A p \in NodesOf(k) : p = l
<1>1. \A p \in NodesOf(k) : p \in 1 .. Len(file)
  BY NodesAreOwned, ChainCells DEF Owns
<1>2. NodesOf(k) \subseteq Nat
  BY <1>1
<1>3. l \in NodesOf(k)
  BY <1>2, LeastIn
<1>4. l \in Nat /\ l # 0
  BY <1>1, <1>3
<1>5. Free(file, k, l)
  BY <1>3, NodesAreOwned DEF Owns, Free
<1>6. \A p \in NodesOf(k) : p = l
  BY <1>3, NodesAreOwned DEF Alone
<1> QED BY <1>3, <1>4, <1>5, <1>6 DEF AtEnd

\* A place is good without a delete if the key's node, if it has one, is that place.
LEMMA NoneDeleted ==
  ASSUME NEW k, NEW at, at = AtEnd \/ Free(file, k, at), \A p \in Owns(file, k) : p = at
  PROVE  GoodPlace(k, <<>>, at)
<1>1. <<>> \in Seq(Nat) /\ Len(<<>>) = 0
  BY EmptySeq
<1>2. \A i \in 1 .. Len(<<>>) : Free(file, k, <<>>[i])
  BY <1>1
<1> QED BY <1>1, <1>2 DEF GoodPlace

\* A place is good with the key's node deleted.
LEMMA OneDeleted ==
  ASSUME NEW k, NEW at, at = AtEnd \/ Free(file, k, at), NEW l \in Nat, Free(file, k, l),
         \A p \in Owns(file, k) : p = l
  PROVE  GoodPlace(k, <<l>>, at)
<1> DEFINE d == <<l>>
<1>1. d \in Seq(Nat) /\ Len(d) = 1 /\ d[1] = l
  OBVIOUS
<1> HIDE DEF d
<1>2. \A i \in 1 .. Len(d) : Free(file, k, d[i])
  BY <1>1
<1>3. \A p \in Owns(file, k) : \E i \in 1 .. Len(d) : d[i] = p
  BY <1>1
<1>4. GoodPlace(k, d, at)
  BY <1>1, <1>2, <1>3 DEF GoodPlace
<1> QED BY <1>4 DEF d

\* The same for a set that deletes the key's node if there is one.
LEMMA OwnDeleted ==
  ASSUME file \in Seq(Cell), NEW k \in Keys, Alone(file, k),
         NEW at, at = AtEnd \/ Free(file, k, at)
  PROVE  GoodPlace(k, IF NodesOf(k) = {} THEN <<>> ELSE <<Least(NodesOf(k))>>, at)
<1>1. CASE NodesOf(k) = {}
  BY <1>1, NoneDeleted, NodesAreOwned
<1>2. CASE NodesOf(k) # {}
  <2> DEFINE l == Least(NodesOf(k))
  <2>1. l \in Nat /\ Free(file, k, l) /\ \A p \in Owns(file, k) : p = l
    BY <1>2, OwnNode, NodesAreOwned
  <2> HIDE DEF l
  <2>2. GoodPlace(k, <<l>>, at)
    BY <2>1, OneDeleted
  <2> QED BY <1>2, <2>2 DEF l
<1> QED BY <1>1, <1>2

\* find_key_int_w finds a place that is free and has no body, and nothing of the key is
\* left elsewhere.
LEMMA IntPlaceGood ==
  ASSUME file \in Seq(Cell), NEW k \in Keys, Alone(file, k), NEW pl, pl = IntPlace(k)
  PROVE  /\ GoodPlace(k, pl.del, pl.at)
         /\ pl.at # AtEnd => Body(file[pl.at]) = 0
<1>1. \A p : IsInt(file[p]) => Body(file[p]) = 0
  BY DEF IsInt, Body
<1>2. CASE \E p \in NodesOf(k) : IsInt(file[p])
  <2> DEFINE l == Least(NodesOf(k))
  <2>1. Free(file, k, l) /\ (\A p \in NodesOf(k) : p = l)
    BY <1>2, OwnNode
  <2>2. pl = [del |-> <<>>, at |-> l]
    BY <1>2 DEF IntPlace
  <2> HIDE DEF l
  <2>3. IsInt(file[l])
    BY <1>2, <2>1
  <2>4. GoodPlace(k, <<>>, l)
    BY <2>1, NoneDeleted, NodesAreOwned
  <2> QED BY <2>2, <2>3, <2>4, <1>1
<1>3. CASE \A p \in NodesOf(k) : ~IsInt(file[p])
  <2> DEFINE at == IF DeadInts = {} THEN AtEnd ELSE Least(DeadInts)
             del == IF NodesOf(k) = {} THEN <<>> ELSE <<Least(NodesOf(k))>>
  <2>1. pl = [del |-> del, at |-> at]
    BY <1>3 DEF IntPlace
  <2>2. at = AtEnd \/ (Free(file, k, at) /\ IsInt(file[at]))
    <3>1. CASE DeadInts = {}
      BY <3>1
    <3>2. CASE DeadInts # {}
      <4>1. DeadInts \subseteq Nat
        BY ChainCells DEF DeadInts, Nodes
      <4>2. Least(DeadInts) \in DeadInts
        BY <3>2, <4>1, LeastIn
      <4>3. at \in DeadInts
        BY <3>2, <4>2
      <4> HIDE DEF at
      <4> QED BY <4>3 DEF DeadInts, Nodes, Free
    <3> QED BY <3>1, <3>2
  <2> HIDE DEF at
  <2>3. GoodPlace(k, del, at)
    BY <2>2, OwnDeleted
  <2> HIDE DEF del
  <2> QED BY <2>1, <2>2, <2>3, <1>1
<1> QED BY <1>2, <1>3

\* find_key_blob_w finds a place that is free, and nothing of the key is left elsewhere.
LEMMA BlobPlaceGood ==
  ASSUME file \in Seq(Cell), NEW k \in Keys, Alone(file, k), NEW n \in Nat,
         NEW pl, pl = BlobPlace(k, n)
  PROVE  /\ GoodPlace(k, pl.del, pl.at)
         /\ pl.at # AtEnd => ~IsInt(file[pl.at]) /\ file[pl.at].size >= n
<1> DEFINE own == NodesOf(k)
           waste(p) == file[p].size - n
           free == {p \in Nodes : ~IsInt(file[p]) /\ waste(p) \in 0 .. 1000 /\ (file[p].dead \/ p \in own)}
           exact == {p \in free : waste(p) = 0 /\ \E q \in own : q <= p}
           best == {p \in free : \A q \in free : waste(p) <= waste(q)}
           del == IF own = {} THEN <<>> ELSE <<Least(own)>>
           fits == \E p \in own : ~IsInt(file[p]) /\ waste(p) = 0
           at == CASE exact # {} -> Least(exact)
                   [] exact = {} /\ best # {} -> Greatest(best)
                   [] OTHER -> AtEnd
<1>1. pl = IF fits THEN [del |-> <<>>, at |-> Least(own)] ELSE [del |-> del, at |-> at]
  BY DEF BlobPlace
<1>2. \A p \in free : Free(file, k, p) /\ p \in 0 .. Len(file)
  BY ChainCells, NodesAreOwned DEF Nodes, Free, Owns
<1>3. \A p \in Nodes : file[p].size \in Nat
  BY ChainCells, CellFacts DEF Nodes
<1>4. ASSUME NEW p \in free PROVE ~IsInt(file[p]) /\ file[p].size >= n
  <2> DEFINE z == file[p].size
  <2>1. p \in Nodes /\ ~IsInt(file[p]) /\ z - n \in 0 .. 1000
    OBVIOUS
  <2>2. z \in Nat
    BY <2>1, <1>3
  <2> HIDE DEF z
  <2>3. z >= n
    BY <2>1, <2>2
  <2> QED BY <2>1, <2>3 DEF z
<1>5. exact \subseteq free /\ best \subseteq free
  OBVIOUS
<1>6. CASE fits
  <2> DEFINE l == Least(own)
  <2>1. Free(file, k, l) /\ (\A p \in NodesOf(k) : p = l)
    BY <1>6, OwnNode
  <2>2. pl = [del |-> <<>>, at |-> l]
    BY <1>1, <1>6
  <2>3. ~IsInt(file[l]) /\ file[l].size >= n
    <3>1. PICK p \in own : ~IsInt(file[p]) /\ waste(p) = 0
      BY <1>6
    <3>2. p = l /\ p \in Nodes
      BY <2>1 DEF NodesOf
    <3> HIDE DEF l
    <3> QED BY <3>1, <3>2, <1>3
  <2> HIDE DEF l
  <2>4. GoodPlace(k, <<>>, l)
    BY <2>1, NoneDeleted, NodesAreOwned
  <2> QED BY <2>2, <2>3, <2>4
<1>7. CASE ~fits
  <2>1. pl = [del |-> del, at |-> at]
    BY <1>1, <1>7
  <2> HIDE DEF exact, best, free, fits
  <2>2. at = AtEnd \/ (Free(file, k, at) /\ ~IsInt(file[at]) /\ file[at].size >= n)
    <3>1. CASE exact # {}
      <4>1. exact \subseteq Nat
        BY <1>2, <1>5
      <4>2. Least(exact) \in exact
        BY <3>1, <4>1, LeastIn
      <4> QED BY <3>1, <4>2, <1>2, <1>5, <1>4
    <3>2. CASE exact = {} /\ best # {}
      <4>1. best \subseteq 0 .. Len(file) /\ Len(file) \in Nat
        BY <1>2, <1>5, LenProperties
      <4>2. Greatest(best) \in best
        BY <3>2, <4>1, GreatestIn
      <4>3. at = Greatest(best)
        BY <3>2
      <4> HIDE DEF at
      <4> QED BY <4>2, <4>3, <1>2, <1>5, <1>4
    <3>3. CASE exact = {} /\ best = {}
      BY <3>3
    <3> QED BY <3>1, <3>2, <3>3
  <2> HIDE DEF at
  <2>3. GoodPlace(k, del, at)
    BY <2>2, OwnDeleted
  <2> HIDE DEF del
  <2> QED BY <2>1, <2>2, <2>3
<1> QED BY <1>6, <1>7

\* kvs_write_str_or_blob finds a place that is free, large enough and keeps its size,
\* and nothing of the key is left elsewhere; or it met a 64-bit value and asks for a
\* header that is refused.
LEMMA StrPlaceGood ==
  ASSUME file \in Seq(Cell), NEW k \in Keys, Alone(file, k), NEW n \in Nat,
         NEW pl, pl = StrPlace(k, n)
  PROVE  /\ GoodPlace(k, pl.del, pl.at)
         /\ pl.size \in Nat
         /\ \/ /\ pl.size < n
               /\ \E p \in Chain(file) : file[p].type = "u64" /\ file[p].size >= n
            \/ /\ n <= pl.size
               /\ pl.at # AtEnd => pl.size = Body(file[pl.at])
               /\ pl.at = AtEnd => pl.size = n
<1> DEFINE bp == BlobPlace(k, n)
           body == IF bp.at = AtEnd THEN n ELSE Body(file[bp.at])
<1>1. pl = IF body < n THEN [del |-> Append(bp.del, bp.at), at |-> AtEnd, size |-> body]
           ELSE [del |-> bp.del, at |-> bp.at, size |-> body]
  BY DEF StrPlace
<1>2. /\ GoodPlace(k, bp.del, bp.at)
      /\ bp.at # AtEnd => ~IsInt(file[bp.at]) /\ file[bp.at].size >= n
  BY BlobPlaceGood
<1> HIDE DEF bp
<1>3. body \in Nat
  BY <1>2, ChainCells DEF GoodPlace, Free
<1>4. CASE body < n
  <2> DEFINE ds == Append(bp.del, bp.at)
             m == Len(bp.del)
  <2>1. bp.at # AtEnd
    BY <1>4
  <2>2. Free(file, k, bp.at) /\ bp.at \in Nat
    BY <2>1, <1>2, ChainCells DEF GoodPlace, Free
  <2>3. bp.del \in Seq(Nat) /\ m \in Nat
    BY <1>2, LenProperties DEF GoodPlace
  <2>4. /\ ds \in Seq(Nat) /\ Len(ds) = m + 1
        /\ \A i \in 1 .. m : ds[i] = bp.del[i]
        /\ ds[m + 1] = bp.at
    BY <2>2, <2>3, AppendProperties
  <2>5. pl = [del |-> ds, at |-> AtEnd, size |-> body]
    BY <1>1, <1>4
  <2>6. \A i \in 1 .. m : Free(file, k, bp.del[i])
    BY <1>2 DEF GoodPlace
  <2>7. \A p \in Owns(file, k) : p = bp.at \/ \E i \in 1 .. m : bp.del[i] = p
    BY <1>2 DEF GoodPlace
  <2> HIDE DEF ds, m
  <2>8. ASSUME NEW i \in 1 .. Len(ds) PROVE Free(file, k, ds[i])
    <3>1. CASE i = m + 1
      BY <3>1, <2>2, <2>4
    <3>2. CASE i # m + 1
      <4>1. i \in 1 .. m
        BY <3>2, <2>3, <2>4
      <4> QED BY <4>1, <2>4, <2>6
    <3> QED BY <3>1, <3>2
  <2>9. ASSUME NEW p \in Owns(file, k) PROVE \E i \in 1 .. Len(ds) : ds[i] = p
    <3>1. CASE p = bp.at
      <4>1. m + 1 \in 1 .. Len(ds)
        BY <2>3, <2>4
      <4> QED BY <3>1, <4>1, <2>4
    <3>2. CASE \E i \in 1 .. m : bp.del[i] = p
      <4>1. PICK i \in 1 .. m : bp.del[i] = p
        BY <3>2
      <4>2. i \in 1 .. Len(ds)
        BY <2>3, <2>4
      <4> QED BY <4>1, <4>2, <2>4
    <3> QED BY <3>1, <3>2, <2>7
  <2>10. GoodPlace(k, ds, AtEnd)
    BY <2>4, <2>8, <2>9 DEF GoodPlace
  <2>11. bp.at \in Chain(file) /\ file[bp.at].type = "u64" /\ file[bp.at].size >= n
    <3>1. bp.at \in Chain(file) /\ file[bp.at] \in Cell /\ file[bp.at].hdr
      BY <2>2, ChainCells DEF Free
    <3>2. file[bp.at].type \in {"u64", "str"} /\ file[bp.at].size \in Nat
      BY <2>1, <3>1, <1>2, CellFacts DEF IsInt
    <3>3. file[bp.at].type = "str" => body = file[bp.at].size
      BY <2>1 DEF Body
    <3> QED BY <2>1, <3>1, <3>2, <3>3, <1>2, <1>4
  <2> QED BY <2>5, <2>10, <2>11, <1>3, <1>4
<1>5. CASE ~(body < n)
  <2>1. pl = [del |-> bp.del, at |-> bp.at, size |-> body]
    BY <1>1, <1>5
  <2> QED BY <2>1, <1>2, <1>3, <1>5
<1> QED BY <1>4, <1>5

\* The headers of the three types can be asked for, and are cells if they pass the
\* assertion.
LEMMA HeadersAreCells ==
  ASSUME NEW k \in Keys
  PROVE  /\ \A x \in Ints : Header(k, "u8", 0, 0, x) \in Cell
         /\ \A x \in Wides : /\ Header(k, "u64", x.lo, x.hi, x) \in Asked
                             /\ x.lo <= x.hi => Header(k, "u64", x.lo, x.hi, x) \in Cell
         /\ \A n, z \in Nat : /\ Header(k, "str", n, z, Absent) \in Asked
                              /\ n <= z => Header(k, "str", n, z, Absent) \in Cell
<1>1. k # NoKey
  BY ConstantsOK
<1>2. ASSUME NEW x \in Ints PROVE Header(k, "u8", 0, 0, x) \in Cell
  <2>1. Header(k, "u8", 0, 0, x) \in HeaderOf("u8", Ints)
    BY <1>1 DEF Header, HeaderOf
  <2> DEFINE h == Header(k, "u8", 0, 0, x)
  <2>2. h.len = 0 /\ h.size = 0
    BY DEF Header
  <2>3. h \in Asked
    BY <2>1 DEF Asked
  <2> HIDE DEF h
  <2>4. h \in Cell
    BY <2>2, <2>3 DEF Cell
  <2> QED BY <2>4 DEF h
<1>3. ASSUME NEW x \in Wides
      PROVE  /\ Header(k, "u64", x.lo, x.hi, x) \in Asked
             /\ x.lo <= x.hi => Header(k, "u64", x.lo, x.hi, x) \in Cell
  <2>1. x.lo \in Nat /\ x.hi \in Nat
    BY ConstantsOK
  <2>2. Header(k, "u64", x.lo, x.hi, x) \in HeaderOf("u64", Wides)
    BY <1>1, <2>1 DEF Header, HeaderOf
  <2> QED BY <2>2 DEF Cell, Asked, Header
<1>4. ASSUME NEW n \in Nat, NEW z \in Nat
      PROVE  /\ Header(k, "str", n, z, Absent) \in Asked
             /\ n <= z => Header(k, "str", n, z, Absent) \in Cell
  <2>1. Header(k, "str", n, z, Absent) \in HeaderOf("str", {})
    BY <1>1, <1>4 DEF Header, HeaderOf
  <2> QED BY <2>1 DEF Cell, Asked, Header
<1> QED BY <1>2, <1>3, <1>4

\* A place is a position in the file.
LEMMA PositionFacts ==
  ASSUME file \in Seq(Cell), NEW k \in Keys, NEW del, NEW at, GoodPlace(k, del, at)
  PROVE  Position(at) \in Nat
<1>1. CASE at = AtEnd
  BY <1>1, LenProperties DEF Position
<1>2. CASE at # AtEnd
  BY <1>2, ChainCells DEF Position, GoodPlace, Free
<1> QED BY <1>1, <1>2

\* kvs_set_u8 and kvs_set_u64 begin with all their writes before them.
LEMMA SetIntBegins ==
  ASSUME file \in Seq(Cell), NEW k \in Keys, NEW v \in Values, v.type # "str",
         Alone(file, k), SetInt(k, v)
  PROVE  \E ws \in Seq(WriteSet) : Begin(k, v, ws) /\ Placed(file, k, v, ws, Sound)
<1> DEFINE pl == IntPlace(k)
           h == IF v.type = "u64" THEN Header(k, v.type, v.val.lo, v.val.hi, v.val)
                                  ELSE Header(k, v.type, 0, 0, v.val)
           w == Write(Position(pl.at), <<h>>)
           hs == <<w>>
<1>1. Begin(k, v, Deletes(pl.del) \o hs)
  BY DEF SetInt
<1>2. GoodPlace(k, pl.del, pl.at) /\ (pl.at # AtEnd => Body(file[pl.at]) = 0)
  BY IntPlaceGood
<1> HIDE DEF pl
<1>3. /\ h \in Asked /\ h.hdr /\ ~h.dead /\ h.key = k /\ h.type = v.type /\ h.val = v.val
      /\ h \in Cell \/ (Refused(h) /\ ByWide(file, v))
  <2>1. CASE v.type = "u8"
    <3>1. v.val \in Ints
      BY <2>1 DEF Values
    <3>2. h = Header(k, "u8", 0, 0, v.val)
      BY <2>1
    <3> HIDE DEF h
    <3>3. h \in Cell /\ h \in Asked
      BY <3>1, <3>2, HeadersAreCells, CellsAreAsked
    <3> QED BY <3>2, <3>3, <2>1 DEF Header
  <2>2. CASE v.type = "u64"
    <3>1. v.val \in Wides
      BY <2>2 DEF Values
    <3>2. h = Header(k, "u64", v.val.lo, v.val.hi, v.val)
      BY <2>2
    <3> HIDE DEF h
    <3>3. h \in Asked /\ (v.val.lo <= v.val.hi => h \in Cell)
      BY <3>1, <3>2, HeadersAreCells
    <3>4. h.len = v.val.lo /\ h.size = v.val.hi /\ h.type = "u64"
      BY <3>2 DEF Header
    <3>5. v.val.lo \in Nat /\ v.val.hi \in Nat /\ v # Absent
      BY <3>1, ConstantsOK, ValueShape
    <3>6. h \in Cell \/ (Refused(h) /\ ByWide(file, v))
      BY <2>2, <3>3, <3>4, <3>5 DEF Refused, ByWide
    <3> QED BY <3>2, <3>3, <3>6, <2>2 DEF Header
  <2> QED BY <2>1, <2>2, ValueShape
<1> HIDE DEF h
<1>4. Body(h) = 0
  BY <1>3 DEF Body
<1>5. Carries(h, v)
  BY <1>3 DEF Carries
<1>6. w \in WriteSet
  BY <1>2, <1>3, PositionFacts DEF Write, WriteSet
<1>7. w = Write(Position(pl.at), <<h>>)
  OBVIOUS
<1> HIDE DEF w
<1>8. hs \in Seq(WriteSet) /\ Len(hs) = 1 /\ hs[1] = Write(Position(pl.at), <<h>>)
  BY <1>6, <1>7
<1> HIDE DEF hs
<1>9. Sound => ReachesEnd(file)
  BY NodesAreOwned
<1>10. pl.at # AtEnd => Body(h) = Body(file[pl.at])
  BY <1>2, <1>4
<1>11. \/ Refused(h) /\ ByWide(file, v)
       \/ h \in Cell /\ (pl.at # AtEnd => Body(h) = Body(file[pl.at]))
                    /\ (pl.at = AtEnd => (v.type = "str" => h.size = h.len))
  BY <1>3, <1>10
<1>12. /\ Deletes(pl.del) \o hs \in Seq(WriteSet)
       /\ Placed(file, k, v, Deletes(pl.del) \o hs, Sound)
  BY <1>2, <1>3, <1>5, <1>8, <1>9, <1>11, SetPlaced
<1> QED BY <1>1, <1>12

\* kvs_set_str begins with all its writes before it.
LEMMA SetStrBegins ==
  ASSUME file \in Seq(Cell), NEW k \in Keys, NEW v \in Values, v.type = "str",
         Alone(file, k), SetStr(k, v)
  PROVE  \E ws \in Seq(WriteSet) : Begin(k, v, ws) /\ Placed(file, k, v, ws, Sound)
<1> DEFINE n == Len(v.val)
           pl == StrPlace(k, n)
           at == Position(pl.at)
           h == Header(k, "str", n, pl.size, Absent)
           w == Write(at, <<h>>)
           x == Write(at + 1, Bytes(v.val))
           hs == <<w, x>>
<1>1. Begin(k, v, Deletes(pl.del) \o hs)
  BY DEF SetStr
<1>2. v.val \in Seq(Chars) /\ n \in Nat
  BY ValueShape, LenProperties
<1>3. /\ GoodPlace(k, pl.del, pl.at)
      /\ pl.size \in Nat
      /\ \/ /\ pl.size < n
            /\ \E p \in Chain(file) : file[p].type = "u64" /\ file[p].size >= n
         \/ /\ n <= pl.size
            /\ pl.at # AtEnd => pl.size = Body(file[pl.at])
            /\ pl.at = AtEnd => pl.size = n
  BY <1>2, StrPlaceGood
<1>4. Len(v.val) = n
  OBVIOUS
<1> HIDE DEF pl, n
<1>5. h \in Asked /\ (n <= pl.size => h \in Cell)
  BY <1>2, <1>3, HeadersAreCells
<1>6. h.hdr /\ ~h.dead /\ h.key = k /\ h.type = "str" /\ h.len = n /\ h.size = pl.size
  BY DEF Header
<1> HIDE DEF h
<1>7. Body(h) = pl.size
  BY <1>6 DEF Body
<1>8. Carries(h, v)
  BY <1>4, <1>6 DEF Carries
<1>9. at \in Nat
  BY <1>3, PositionFacts
<1>10. Bytes(v.val) \in Seq(Asked)
  <2>1. Bytes(v.val) \in Seq(Cell)
    BY <1>2, BytesFacts
  <2> QED BY <2>1, CellsAreAsked
<1>11. w \in WriteSet /\ x \in WriteSet
  <2> HIDE DEF at
  <2> QED BY <1>5, <1>9, <1>10 DEF Write, WriteSet
<1>12. w = Write(Position(pl.at), <<h>>) /\ x = Write(Position(pl.at) + 1, Bytes(v.val))
  OBVIOUS
<1> HIDE DEF w, x
<1>13. /\ hs \in Seq(WriteSet) /\ Len(hs) = 2
       /\ hs[1] = Write(Position(pl.at), <<h>>)
       /\ hs[2] = Write(Position(pl.at) + 1, Bytes(v.val))
  BY <1>11, <1>12
<1> HIDE DEF hs
<1>14. Sound => ReachesEnd(file)
  BY NodesAreOwned
<1>15. CASE n <= pl.size
  <2>1. h \in Cell
    BY <1>5, <1>15
  <2>2. pl.at # AtEnd => Body(h) = Body(file[pl.at])
    BY <1>2, <1>3, <1>7, <1>15
  <2>3. pl.at = AtEnd => (v.type = "str" => h.size = h.len)
    BY <1>2, <1>3, <1>6, <1>15
  <2> QED BY <2>1, <2>2, <2>3, <1>3, <1>5, <1>6, <1>8, <1>13, <1>14, SetPlaced, <1>1
<1>16. CASE pl.size < n
  <2>1. Refused(h)
    BY <1>6, <1>16 DEF Refused
  <2>2. ByWide(file, v)
    BY <1>2, <1>3, <1>4, <1>16, ValueShape DEF ByWide
  <2> QED BY <2>1, <2>2, <1>3, <1>5, <1>6, <1>8, <1>13, <1>14, SetPlaced, <1>1
<1> QED BY <1>2, <1>3, <1>15, <1>16

\* kvs_erase_key begins with its mark before it.
LEMMA EraseBegins ==
  ASSUME file \in Seq(Cell), NEW k \in Keys, Alone(file, k), Erase(k)
  PROVE  \E ws \in Seq(WriteSet) : Begin(k, Absent, ws) /\ Placed(file, k, Absent, ws, Sound)
<1> DEFINE p == Least(NodesOf(k))
           c == Dead(file[p])
           w == Write(p, <<c>>)
           ws == <<w>>
<1>1. NodesOf(k) # {} /\ Begin(k, Absent, ws)
  BY DEF Erase
<1>2. p \in Nat /\ Free(file, k, p) /\ \A q \in Owns(file, k) : q = p
  BY <1>1, OwnNode, NodesAreOwned
<1> HIDE DEF p
<1>3. /\ c \in Cell /\ c.hdr /\ c.dead /\ Body(c) = Body(file[p])
      /\ c.type = file[p].type /\ c.size = file[p].size
  BY <1>2, ChainCells, DeadCell DEF Free
<1> HIDE DEF c
<1>4. w \in WriteSet /\ w.at = p /\ w.cells = <<c>>
  BY <1>2, <1>3, CellsAreAsked DEF Write, WriteSet
<1>5. IsMark(file, k, w)
  BY <1>2, <1>3, <1>4 DEF IsMark
<1> HIDE DEF w
<1>6. ws \in Seq(WriteSet) /\ Len(ws) = 1 /\ ws[1] = w
  BY <1>4
<1> HIDE DEF ws
<1>7. 1 \in 0 .. Len(ws) /\ 1 <= 1 + 1 /\ 1 \in 1 .. Len(ws)
  BY <1>6
<1>8. \A i \in 1 .. 1 : IsMark(file, k, ws[i])
  BY <1>5, <1>6
<1>9. \A q \in Owns(file, k) : \E i \in 1 .. Len(ws) : i <= 1 + 1 /\ ws[i].at = q
  BY <1>2, <1>4, <1>6, <1>7
<1>10. Sound => ReachesEnd(file)
  BY NodesAreOwned
<1>11. Placed(file, k, Absent, ws, Sound)
  BY <1>6, <1>7, <1>8, <1>9, <1>10 DEF Placed, PlacedAt
<1> QED BY <1>1, <1>6, <1>11

--------------------------------------------------------------------------------
(* The invariant *)

\* Each write leads from one stage of an operation to the next, leaves the other keys
\* alone and gives the key no second node.
LEMMA PendingStep ==
  ASSUME NEW f \in Seq(Cell), NEW k \in Keys, NEW v \in Values \cup {Absent},
         NEW ws \in Seq(WriteSet), ws # <<>>, NEW sd,
         Pending(f, k, v, ws, sd), Alone(f, k), Asserted(Head(ws)),
         NEW g, g = Put(f, Head(ws))
  PROVE  /\ g \in Seq(Cell)
         /\ Kept(f, g, k)
         /\ Alone(g, k)
         /\ Pending(g, k, v, Tail(ws), sd)
<1>1. ASSUME Placed(f, k, v, ws, sd)
      PROVE  g \in Seq(Cell) /\ Kept(f, g, k) /\ Alone(g, k) /\ Pending(g, k, v, Tail(ws), sd)
  <2>1. PICK m \in 0 .. Len(ws) : PlacedAt(f, k, v, ws, sd, m)
    BY <1>1 DEF Placed, PlacedAt
  <2>2. CASE m # 0
    <3>1. m \in 1 .. Len(ws)
      BY <2>2
    <3>2. /\ g \in Seq(Cell)
          /\ Kept(f, g, k)
          /\ Owns(g, k) \subseteq Owns(f, k)
          /\ Placed(g, k, v, Tail(ws), sd)
      BY <2>1, <3>1, MarkStep
    <3> QED BY <3>2 DEF Alone, Pending
  <2>3. CASE m = 0
    <3>1. Len(ws) \in Nat /\ Len(ws) # 0
      BY LenProperties, EmptySeq
    <3>2. v # Absent /\ v \in Values
      BY <2>1, <2>3, <3>1 DEF PlacedAt
    <3>3. 0 + 1 = 1 /\ 0 + 2 = 2
      OBVIOUS
    <3>4. /\ 1 <= Len(ws) /\ IsHead(f, k, v, ws[1])
          /\ v.type # "str" => Len(ws) = 1
          /\ v.type = "str" => Len(ws) = 2 /\ ws[2] = Write(ws[1].at + 1, Bytes(v.val))
      BY <2>1, <2>3, <3>2, <3>3 DEF PlacedAt
    <3>5. ASSUME NEW p \in Owns(f, k) PROVE p = ws[1].at
      <4>1. PICK i \in 1 .. Len(ws) : i <= 1 /\ ws[i].at = p
        BY <2>1, <2>3, <3>3 DEF PlacedAt
      <4>2. i = 1
        BY <4>1
      <4> QED BY <4>1, <4>2
    <3>6. /\ g \in Seq(Cell)
          /\ Kept(f, g, k)
          /\ Owns(g, k) \subseteq {ws[1].at}
          /\ BodyLeft(g, k, v, Tail(ws), sd) \/ Done(g, k, v, Tail(ws), sd)
      BY <2>1, <3>2, <3>4, <3>5, HeadStep DEF PlacedAt
    <3> QED BY <3>6 DEF Alone, Pending
  <2> QED BY <2>2, <2>3
<1>2. ASSUME BodyLeft(f, k, v, ws, sd)
      PROVE  g \in Seq(Cell) /\ Kept(f, g, k) /\ Alone(g, k) /\ Pending(g, k, v, Tail(ws), sd)
  <2>1. v \in Values
    BY <1>2 DEF BodyLeft
  <2>2. /\ g \in Seq(Cell)
        /\ Kept(f, g, k)
        /\ Owns(g, k) = Owns(f, k)
        /\ Done(g, k, v, Tail(ws), sd)
    BY <1>2, <2>1, BodyStep
  <2> QED BY <2>2 DEF Alone, Pending
<1>3. ~Done(f, k, v, ws, sd)
  BY DEF Done
<1> QED BY <1>1, <1>2, <1>3 DEF Pending

\* The write that fails the assertion is the header of a set, and a 64-bit value is at
\* hand.
LEMMA RefusedAtWide ==
  ASSUME NEW f \in Seq(Cell), NEW k \in Keys, NEW v \in Values \cup {Absent},
         NEW ws \in Seq(WriteSet), ws # <<>>, NEW sd,
         Pending(f, k, v, ws, sd), ~Asserted(Head(ws))
  PROVE  ByWide(f, v)
<1>1. Head(ws) = ws[1] /\ Len(ws) \in Nat /\ Len(ws) # 0
  BY HeadTailProperties, LenProperties, EmptySeq
<1>2. CASE Placed(f, k, v, ws, sd)
  <2>1. PICK m \in 0 .. Len(ws) : PlacedAt(f, k, v, ws, sd, m)
    BY <1>2 DEF Placed, PlacedAt
  <2>2. CASE m # 0
    <3>1. IsMark(f, k, ws[1])
      BY <2>1, <2>2 DEF PlacedAt
    <3> QED BY <3>1, <1>1, CellsAreAsked DEF IsMark
  <2>3. CASE m = 0
    <3>1. v # Absent /\ 0 + 1 = 1
      BY <2>1, <2>3, <1>1 DEF PlacedAt
    <3>2. IsHead(f, k, v, ws[1])
      BY <2>1, <2>3, <3>1 DEF PlacedAt
    <3> QED BY <3>2, <1>1, CellsAreAsked DEF IsHead
  <2> QED BY <2>2, <2>3
<1>3. CASE BodyLeft(f, k, v, ws, sd)
  <2>1. v \in Values /\ v.type = "str" /\ \E p \in 1 .. Len(f) : ws = <<Write(p + 1, Bytes(v.val))>>
    BY <1>3 DEF BodyLeft
  <2>2. v.val \in Seq(Chars)
    BY <2>1, ValueShape
  <2>3. ws[1].cells = Bytes(v.val)
    BY <2>1 DEF Write
  <2>4. \A i \in 1 .. Len(Bytes(v.val)) : ~Bytes(v.val)[i].hdr
    <3>1. \A b : ~Byte(b).hdr
      BY DEF Byte
    <3> QED BY <2>2, <3>1, BytesFacts
  <2> QED BY <2>3, <2>4, <1>1 DEF Asserted
<1>4. ~Done(f, k, v, ws, sd)
  BY DEF Done
<1> QED BY <1>2, <1>3, <1>4 DEF Pending

\* kvs_get_*, as an operator of the file.
GetIn(f, k) == IF Owns(f, k) = {} THEN Absent ELSE Value(f, Least(Owns(f, k)))

\* When nothing is left to write in a sound file the value can be read, or the key has
\* no node.
LEMMA Written ==
  ASSUME NEW f \in Seq(Cell), NEW k \in Keys, NEW v \in Values \cup {Absent},
         NEW sd, sd, NEW ws, ws = <<>>, Pending(f, k, v, ws, sd)
  PROVE  /\ ReachesEnd(f)
         /\ \A p \in Owns(f, k) : Value(f, p) = v /\ v \in Values
         /\ GetIn(f, k) = v
<1>1. Len(ws) = 0
  BY EmptySeq
<1>2. CASE Placed(f, k, v, ws, sd)
  <2>1. PICK m \in 0 .. Len(ws) :
          /\ v # Absent => m + 1 <= Len(ws)
          /\ \A p \in Owns(f, k) : \E i \in 1 .. Len(ws) : i <= m + 1 /\ ws[i].at = p
          /\ sd => ReachesEnd(f)
    BY <1>2 DEF Placed, PlacedAt
  <2>2. m = 0 /\ v = Absent /\ ~(\E i \in 1 .. Len(ws) : TRUE)
    BY <1>1, <2>1
  <2>3. Owns(f, k) = {}
    BY <2>1, <2>2
  <2> QED BY <2>1, <2>2, <2>3 DEF GetIn
<1>3. ~BodyLeft(f, k, v, ws, sd)
  BY DEF BodyLeft
<1>4. CASE Done(f, k, v, ws, sd)
  <2>1. PICK p \in Nat : ReachesEnd(f) /\ Owns(f, k) = {p} /\ Value(f, p) = v
    BY <1>4 DEF Done
  <2>2. v \in Values
    BY <1>4 DEF Done
  <2>3. Least({p}) \in {p}
    BY LeastIn
  <2>4. GetIn(f, k) = v
    BY <2>1, <2>3 DEF GetIn
  <2> QED BY <2>1, <2>2, <2>4
<1> QED BY <1>2, <1>3, <1>4 DEF Pending

\* While an operation runs: the last one is forgotten, nothing is said of the value its
\* key had if that was torn, and what is left to write is one of the three stages.
OpInv ==
  /\ aborted => op # NoOp /\ ByWide(file, op.val)
  /\ op # NoOp =>
       /\ last = NoOp
       /\ op.key \in torn => before = Unknown
       /\ op.sound \/ torn # {}
       /\ ~aborted => Pending(file, op.key, op.val, op.writes, op.sound)

\* What is said of a key, when no operation on it runs, can be read.
ValuesInv ==
  \A k \in Keys \ torn : (op # NoOp => op.key # k) => \A p \in Owns(file, k) : Value(file, p) \in Values

\* The inductive invariant.
IInv ==
  /\ TypeOK
  /\ \A k \in Keys : Alone(file, k)
  /\ OpInv
  /\ op = NoOp /\ torn = {} => ReachesEnd(file)
  /\ ValuesInv
  /\ last # NoOp /\ last.sound => Seen(GetIn(file, last.key)) = Seen(last.val)

\* kvs_get_*, as an operator of the file.
LEMMA GetFacts ==
  \A k : Get(k) = GetIn(file, k)
BY NodesAreOwned DEF Get, GetIn

\* The inductive invariant contains the properties.
LEMMA IInvImplies ==
  ASSUME IInv
  PROVE  TypeOK /\ OneNodePerKey /\ StaysSound /\ ReadBack /\ FailsAtWides
<1>1. OneNodePerKey
  BY NodesAreOwned DEF IInv, OneNodePerKey, Alone
<1>2. StaysSound
  BY NodesAreOwned DEF IInv, StaysSound
<1>3. ReadBack
  BY GetFacts DEF IInv, ReadBack
<1>4. FailsAtWides
  BY DEF IInv, OpInv, ByWide, FailsAtWides, Nodes
<1> QED BY <1>1, <1>2, <1>3, <1>4 DEF IInv

\* An operation, field by field.
LEMMA OpFacts ==
  ASSUME NEW o \in Ops
  PROVE  /\ o.key \in Keys /\ o.val \in Values \cup {Absent}
         /\ o.writes \in Seq(WriteSet) /\ o.sound \in BOOLEAN
         /\ o # NoOp
BY ConstantsOK DEF Ops, WriteSet

\* The empty file.
LEMMA InitIInv ==
  ASSUME Init
  PROVE  IInv
<1>1. file = <<>> /\ op = NoOp /\ aborted = FALSE /\ torn = {} /\ last = NoOp
  BY DEF Init
<1>2. file \in Seq(Cell) /\ Len(file) = 0
  BY <1>1, EmptySeq
<1>3. Chain(file) = {}
  <2> SUFFICES ASSUME NEW p \in Chain(file) PROVE FALSE
    OBVIOUS
  <2>1. p \in 1 .. Len(file)
    BY <1>2, ChainCells, Zenon
  <2> QED BY <1>2, <2>1
<1>4. \A k : Owns(file, k) = {}
  BY <1>3 DEF Owns
<1>5. TypeOK
  BY <1>1, <1>2 DEF TypeOK
<1>6. ReachesEnd(file)
  BY <1>1 DEF ReachesEnd
<1> QED BY <1>1, <1>4, <1>5, <1>6 DEF IInv, OpInv, ValuesInv, Alone

\* A set or an erase begins: the file is as it was.
LEMMA BeginIInv ==
  ASSUME IInv, NEW k \in Keys, NEW v \in Values \cup {Absent}, NEW ws \in Seq(WriteSet),
         Begin(k, v, ws), Placed(file, k, v, ws, Sound)
  PROVE  IInv'
<1>1. /\ op = NoOp /\ ~aborted /\ file' = file /\ aborted' = aborted /\ torn' = torn
      /\ op' = [key |-> k, val |-> v, writes |-> ws, sound |-> Sound]
      /\ before' = IF k \in torn THEN Unknown ELSE Get(k)
      /\ last' = NoOp
  BY DEF Begin
<1>2. Sound \in BOOLEAN /\ (Sound <=> ReachesEnd(file))
  BY NodesAreOwned DEF Sound
<1> DEFINE s == Sound
<1>3. op' \in Ops
  <2> HIDE DEF s
  <2>1. op' = [key |-> k, val |-> v, writes |-> ws, sound |-> s] /\ s \in BOOLEAN
    BY <1>1, <1>2 DEF s
  <2> QED BY <2>1 DEF Ops, WriteSet
<1>4. op'.key = k /\ op'.val = v /\ op'.writes = ws /\ op'.sound = Sound /\ op' # NoOp
  BY <1>1, <1>3, OpFacts
<1>5. TypeOK'
  BY <1>1, <1>3 DEF IInv, TypeOK
<1>6. (\A j \in Keys : Alone(file, j))'
  BY <1>1 DEF IInv
<1>7. OpInv'
  <2>1. Pending(file, k, v, ws, Sound)
    BY DEF Pending
  <2>2. Pending(file', op'.key, op'.val, op'.writes, op'.sound)
    BY <1>1, <1>4, <2>1
  <2>3. Sound \/ torn # {}
    BY <1>1, <1>2 DEF IInv
  <2> QED BY <1>1, <1>4, <2>2, <2>3 DEF OpInv
<1>8. ValuesInv'
  BY <1>1, <1>4 DEF IInv, ValuesInv
<1> QED BY <1>1, <1>4, <1>5, <1>6, <1>7, <1>8 DEF IInv

\* A key that is kept is read as before.
LEMMA KeyKept ==
  ASSUME NEW f, NEW g, NEW k, Kept(f, g, k), NEW j \in Keys, j # k,
         \A p \in Owns(f, j) : Value(f, p) \in Values,
         f \in Seq(Cell)
  PROVE  /\ \A p \in Owns(g, j) : Value(g, p) \in Values
         /\ GetIn(g, j) = GetIn(f, j)
<1>1. Owns(g, j) = Owns(f, j) /\ \A q \in Owns(f, j) : Value(g, q) = Value(f, q)
  BY DEF Kept
<1>2. Owns(f, j) # {} => Least(Owns(f, j)) \in Owns(f, j)
  <2>1. Owns(f, j) \subseteq Nat
    BY ChainCells DEF Owns
  <2> QED BY <2>1, LeastIn
<1> QED BY <1>1, <1>2 DEF GetIn

\* What a write, or the assertion in front of it, leaves.
LEMMA NextWriteFacts ==
  ASSUME IInv, NextWrite
  PROVE  /\ op \in Ops /\ op' \in Ops /\ op'.key = op.key /\ op'.val = op.val
         /\ op'.sound = op.sound
         /\ aborted' => ByWide(file', op'.val)
         /\ file' \in Seq(Cell) /\ aborted' \in BOOLEAN
         /\ Kept(file, file', op.key)
         /\ Alone(file', op.key)
         /\ ~aborted' => Pending(file', op'.key, op'.val, op'.writes, op'.sound)
<1>1. op # NoOp /\ op.writes # <<>> /\ ~aborted /\ op' = [op EXCEPT !.writes = Tail(@)]
  BY DEF NextWrite
<1>2. op \in Ops /\ file \in Seq(Cell) /\ aborted \in BOOLEAN
  BY <1>1 DEF IInv, TypeOK
<1> DEFINE k == op.key
           v == op.val
           ws == op.writes
           w == Head(ws)
           g == Put(file, w)
<1>3. k \in Keys /\ v \in Values \cup {Absent} /\ ws \in Seq(WriteSet) /\ op.sound \in BOOLEAN
  BY <1>2, OpFacts
<1>4. Tail(ws) \in Seq(WriteSet)
  BY <1>1, <1>3, HeadTailProperties
<1>5. op' = [key |-> k, val |-> v, writes |-> Tail(ws), sound |-> op.sound]
  BY <1>1, <1>2 DEF Ops
<1>6. op' \in Ops
  BY <1>3, <1>4, <1>5 DEF Ops, WriteSet
<1>7. op'.key = k /\ op'.val = v /\ op'.writes = Tail(ws) /\ op'.sound = op.sound
  BY <1>5
<1>8. Pending(file, k, v, ws, op.sound) /\ Alone(file, k)
  BY <1>1, <1>3 DEF IInv, OpInv
<1>9. CASE Asserted(w)
  <2>1. file' = g /\ aborted' = aborted
    BY <1>9 DEF NextWrite
  <2>2. /\ g \in Seq(Cell)
        /\ Kept(file, g, k)
        /\ Alone(g, k)
        /\ Pending(g, k, v, Tail(ws), op.sound)
    <3> HIDE DEF k, v, ws
    <3>1. ws # <<>>
      BY <1>1 DEF ws
    <3> QED BY <3>1, <1>2, <1>3, <1>8, <1>9, PendingStep
  <2> HIDE DEF g
  <2> QED BY <2>1, <2>2, <1>1, <1>2, <1>6, <1>7
<1>10. CASE ~Asserted(w)
  <2>1. file' = file /\ aborted' = TRUE
    BY <1>10 DEF NextWrite
  <2>2. Kept(file, file, k)
    BY DEF Kept
  <2>3. ByWide(file, v)
    <3> HIDE DEF k, v, ws
    <3>1. ws # <<>>
      BY <1>1 DEF ws
    <3> QED BY <3>1, <1>2, <1>3, <1>8, <1>10, RefusedAtWide
  <2> QED BY <2>1, <2>2, <2>3, <1>2, <1>6, <1>7, <1>8
<1> QED BY <1>9, <1>10

\* A write.
LEMMA NextWriteIInv ==
  ASSUME IInv, NextWrite
  PROVE  IInv'
<1>1. op # NoOp /\ torn' = torn /\ before' = before /\ last' = last
  BY DEF NextWrite
<1>2. /\ op \in Ops /\ op' \in Ops /\ op'.key = op.key /\ op'.val = op.val
      /\ op'.sound = op.sound
      /\ aborted' => ByWide(file', op'.val)
      /\ file' \in Seq(Cell) /\ aborted' \in BOOLEAN
      /\ Kept(file, file', op.key)
      /\ Alone(file', op.key)
      /\ ~aborted' => Pending(file', op'.key, op'.val, op'.writes, op'.sound)
  BY NextWriteFacts
<1>3. op' # NoOp
  BY <1>2, OpFacts
<1>4. TypeOK'
  BY <1>1, <1>2 DEF IInv, TypeOK
<1>5. ASSUME NEW j \in Keys PROVE Alone(file', j)
  <2>1. CASE j = op.key
    BY <2>1, <1>2
  <2>2. CASE j # op.key
    BY <2>2, <1>2 DEF IInv, Alone, Kept
  <2> QED BY <2>1, <2>2
<1>6. OpInv'
  <2>1. last = NoOp /\ (op.key \in torn => before = Unknown) /\ (op.sound \/ torn # {})
    BY <1>1 DEF IInv, OpInv
  <2> QED BY <2>1, <1>1, <1>2, <1>3 DEF OpInv
<1>7. ASSUME NEW j \in Keys, j \notin torn, j # op.key
      PROVE  \A p \in Owns(file', j) : Value(file', p) \in Values
  <2>1. \A p \in Owns(file, j) : Value(file, p) \in Values
    BY <1>7 DEF IInv, ValuesInv
  <2>2. file \in Seq(Cell)
    BY DEF IInv, TypeOK
  <2> QED BY <2>1, <2>2, <1>2, <1>7, KeyKept
<1>8. ValuesInv'
  BY <1>1, <1>2, <1>3, <1>7 DEF ValuesInv
<1>9. last' = NoOp
  BY <1>1 DEF IInv, OpInv
<1> QED BY <1>3, <1>4, <1>5, <1>6, <1>8, <1>9 DEF IInv

\* The operation returns: in a sound file its key can be read again.
LEMMA ReturnIInv ==
  ASSUME IInv, Return
  PROVE  IInv'
<1>1. /\ op # NoOp /\ op.writes = <<>> /\ ~aborted /\ op' = NoOp
      /\ last' = [key |-> op.key, val |-> op.val, sound |-> op.sound]
      /\ torn' = IF op.sound THEN torn \ {op.key} ELSE torn \cup {op.key}
      /\ file' = file /\ aborted' = aborted
  BY DEF Return
<1>2. op \in Ops /\ file \in Seq(Cell) /\ torn \subseteq Keys
  BY <1>1 DEF IInv, TypeOK
<1> DEFINE k == op.key
           v == op.val
<1>3. k \in Keys /\ v \in Values \cup {Absent} /\ op.sound \in BOOLEAN
  BY <1>2, OpFacts
<1>4. Pending(file, k, v, op.writes, op.sound)
  BY <1>1 DEF IInv, OpInv
<1>5. ASSUME op.sound
      PROVE  /\ ReachesEnd(file)
             /\ \A p \in Owns(file, k) : Value(file, p) = v /\ v \in Values
             /\ GetIn(file, k) = v
  <2> HIDE DEF k, v
  <2> QED BY <1>1, <1>2, <1>3, <1>4, <1>5, Written
<1>6. TypeOK'
  BY <1>1, <1>2, <1>3 DEF IInv, TypeOK
<1>7. last'.key = k /\ last'.val = v /\ last'.sound = op.sound
  BY <1>1
<1> HIDE DEF v
<1>8. OpInv'
  BY <1>1 DEF OpInv
<1>9. (op = NoOp /\ torn = {} => ReachesEnd(file))'
  BY <1>1, <1>5
<1>10. ASSUME NEW j \in Keys, j \notin torn', NEW p \in Owns(file, j)
       PROVE  Value(file, p) \in Values
  <2>1. CASE j = k
    BY <2>1, <1>1, <1>5, <1>10
  <2>2. CASE j # k
    BY <2>2, <1>1, <1>10 DEF IInv, ValuesInv
  <2> QED BY <2>1, <2>2
<1>11. ValuesInv'
  BY <1>1, <1>10 DEF ValuesInv
<1>12. (last # NoOp /\ last.sound => Seen(GetIn(file, last.key)) = Seen(last.val))'
  BY <1>1, <1>5, <1>7
<1> QED BY <1>1, <1>6, <1>8, <1>9, <1>11, <1>12 DEF IInv

\* The process ends: nothing is said of the key any longer.
LEMMA CrashIInv ==
  ASSUME IInv, Crash
  PROVE  IInv'
<1>1. /\ op # NoOp /\ op' = NoOp /\ aborted' = FALSE /\ torn' = torn \cup {op.key}
      /\ file' = file /\ last' = last
  BY DEF Crash
<1>2. op \in Ops /\ op.key \in Keys
  BY <1>1, OpFacts DEF IInv, TypeOK
<1>3. TypeOK'
  BY <1>1, <1>2 DEF IInv, TypeOK
<1>4. last' = NoOp
  BY <1>1 DEF IInv, OpInv
<1>5. OpInv' /\ ValuesInv'
  BY <1>1 DEF IInv, OpInv, ValuesInv
<1> QED BY <1>1, <1>3, <1>4, <1>5 DEF IInv

\* No step.
LEMMA UnchangedIInv ==
  ASSUME IInv, UNCHANGED vars
  PROVE  IInv'
BY DEF IInv, vars, TypeOK, OpInv, ValuesInv

\* Each request begins with all its writes before it.
LEMMA RequestBegins ==
  ASSUME IInv, NEW k \in Keys, Erase(k) \/ (\E v \in Values : Set(k, v))
  PROVE  \E v \in Values \cup {Absent}, ws \in Seq(WriteSet) :
           Begin(k, v, ws) /\ Placed(file, k, v, ws, Sound)
<1>1. file \in Seq(Cell) /\ Alone(file, k)
  BY DEF IInv, TypeOK
<1>2. CASE Erase(k)
  BY <1>1, <1>2, EraseBegins
<1>3. ASSUME NEW v \in Values, Set(k, v)
      PROVE  \E ws \in Seq(WriteSet) : Begin(k, v, ws) /\ Placed(file, k, v, ws, Sound)
  <2>1. CASE v.type = "str" /\ SetStr(k, v)
    BY <1>1, <2>1, SetStrBegins
  <2>2. CASE v.type # "str" /\ SetInt(k, v)
    BY <1>1, <2>2, SetIntBegins
  <2> QED BY <1>3, <2>1, <2>2 DEF Set
<1> QED BY <1>2, <1>3

\* Every step preserves the inductive invariant.
LEMMA NextIInv ==
  ASSUME IInv, [Next]_vars
  PROVE  IInv'
<1>1. ASSUME NEW k \in Keys, Erase(k) \/ (\E v \in Values : Set(k, v))
      PROVE  IInv'
  BY <1>1, RequestBegins, BeginIInv
<1> QED BY <1>1, NextWriteIInv, ReturnIInv, CrashIInv, UnchangedIInv DEF Next

\* The inductive invariant holds of every behaviour of the store.
THEOREM Invariance == Spec => []IInv
BY InitIInv, NextIInv, PTL DEF Spec

\* The file is made of bytes and of headers that passed the assertion of kvs_write: no
\* string is longer than its place, whatever is cut short.
THEOREM TypeCorrect == Spec => []TypeOK
BY Invariance, IInvImplies, PTL

\* A key never has two nodes, at whatever write the process ends: the node that is used
\* again, the deletes in front of it and the header behind them never leave a second one.
THEOREM KeysHaveOneNode == Spec => []OneNodePerKey
BY Invariance, IInvImplies, PTL

\* As long as no write was cut short the chain leads to the end of the file.
THEOREM FileStaysSound == Spec => []StaysSound
BY Invariance, IInvImplies, PTL

\* In a sound file a value that has been set is read back, and an erased one is not.
THEOREM SetsAreReadBack == Spec => []ReadBack
BY Invariance, IInvImplies, PTL

\* The assertion fails for 64-bit values and beside them, and nowhere else.
THEOREM FailsForWidesOnly == Spec => []FailsAtWides
BY Invariance, IInvImplies, PTL

--------------------------------------------------------------------------------
(* The map *)

\* The refinement mapping of IsMap.
MapOf == [key \in Keys |-> Stored(key)]

ReqOf == IF op = NoOp THEN NoOp ELSE [key |-> op.key, val |-> Seen(op.val)]

\* What is seen of a value is a value of the map.
LEMMA SeenShape ==
  ASSUME NEW v \in Values \cup {Absent}
  PROVE  Seen(v) \in ({Seen(u) : u \in Values} \ {Absent}) \cup {Absent}
<1>1. CASE v = Absent
  BY <1>1 DEF Seen
<1>2. CASE v \in Values
  BY <1>2
<1> QED BY <1>1, <1>2

\* What is seen of a value is a value.
LEMMA SeenValue ==
  ASSUME NEW v \in Values \cup {Absent}
  PROVE  Seen(v) \in Values \cup {Absent}
BY DEF Seen

\* The request of the map while an operation runs.
LEMMA ReqShape ==
  ASSUME IInv, op # NoOp
  PROVE  /\ ReqOf # NoOp /\ ReqOf.key = op.key /\ ReqOf.val = Seen(op.val)
         /\ op \in Ops /\ op.key \in Keys
<1>1. op \in Ops /\ op.key \in Keys /\ op.val \in Values \cup {Absent}
  BY OpFacts DEF IInv, TypeOK
<1>2. ReqOf = [key |-> op.key, val |-> Seen(op.val)]
  BY DEF ReqOf
<1>3. ReqOf \in [key : Keys, val : Values \cup {Absent}]
  BY <1>1, <1>2, SeenValue
<1> QED BY <1>1, <1>2, <1>3, ConstantsOK

\* The beginning of an operation is a call of the map.
LEMMA BeginMaps ==
  ASSUME IInv, IInv', NEW k \in Keys, NEW v \in Values \cup {Absent},
         NEW ws \in Seq(WriteSet), Begin(k, v, ws)
  PROVE  MapOf' = MapOf /\ ReqOf = NoOp /\ ReqOf' = [key |-> k, val |-> Seen(v)]
<1>1. /\ op = NoOp /\ file' = file /\ torn' = torn
      /\ op' = [key |-> k, val |-> v, writes |-> ws, sound |-> Sound]
      /\ before' = IF k \in torn THEN Unknown ELSE Get(k)
  BY DEF Begin
<1>2. op'.key = k /\ op'.val = v
  BY <1>1
<1>3. op' # NoOp
  <2> DEFINE s == Sound
  <2>1. s \in BOOLEAN /\ op' = [key |-> k, val |-> v, writes |-> ws, sound |-> s]
    BY <1>1 DEF Sound
  <2> HIDE DEF s
  <2>2. op' \in Ops
    BY <2>1 DEF Ops, WriteSet
  <2> QED BY <2>2, OpFacts
<1>4. \A j : Get(j)' = Get(j)
  BY <1>1 DEF Get, NodesOf, Nodes
<1>5. ASSUME NEW j \in Keys PROVE Stored(j)' = Stored(j)
  <2>1. Stored(j) = IF j \in torn THEN Unknown ELSE Seen(Get(j))
    BY <1>1 DEF Stored
  <2>2. CASE j # k
    <3>1. Stored(j)' = IF j \in torn' THEN Unknown ELSE Seen(Get(j)')
      BY <1>2, <2>2 DEF Stored
    <3> QED BY <1>1, <1>4, <2>1, <3>1
  <2>3. CASE j = k /\ j \in torn
    <3>1. Stored(j)' = Unknown
      BY <1>1, <1>2, <1>3, <2>3 DEF Stored
    <3> QED BY <2>1, <2>3, <3>1
  <2>4. CASE j = k /\ j \notin torn
    <3>1. before' = Get(j)
      BY <1>1, <2>4
    <3>2. Stored(j)' = IF before' = Unknown THEN Unknown ELSE Seen(before')
      BY <1>2, <1>3, <2>4 DEF Stored
    <3>3. Seen(Absent) = Absent
      BY DEF Seen
    <3>4. Get(j) \in Values \cup {Absent}
      <4>1. \A p \in Owns(file, j) : Value(file, p) \in Values
        BY <1>1, <2>4 DEF IInv, ValuesInv
      <4>2. Owns(file, j) \subseteq Nat
        BY ChainCells DEF Owns, IInv, TypeOK
      <4>3. GetIn(file, j) \in Values \cup {Absent}
        BY <4>1, <4>2, LeastIn DEF GetIn
      <4> QED BY <4>3, GetFacts
    <3> QED BY <2>1, <2>4, <3>1, <3>2, <3>3, <3>4, ConstantsOK
  <2> QED BY <2>2, <2>3, <2>4
<1>6. MapOf' = MapOf
  BY <1>5 DEF MapOf
<1> QED BY <1>1, <1>2, <1>3, <1>6 DEF ReqOf

\* A write changes nothing of the map: the value of its own key is not looked at, and
\* no other is touched.
LEMMA NextWriteMaps ==
  ASSUME IInv, IInv', NextWrite
  PROVE  MapOf' = MapOf /\ ReqOf' = ReqOf
<1>1. op # NoOp /\ torn' = torn /\ before' = before
  BY DEF NextWrite
<1>2. op' \in Ops /\ op'.key = op.key /\ op'.val = op.val /\ Kept(file, file', op.key)
  BY NextWriteFacts
<1>3. op' # NoOp
  BY <1>2, OpFacts
<1>4. ASSUME NEW j \in Keys, j # op.key, j \notin torn PROVE Get(j)' = Get(j)
  <2>1. \A p \in Owns(file, j) : Value(file, p) \in Values
    BY <1>4 DEF IInv, ValuesInv
  <2>2. GetIn(file', j) = GetIn(file, j)
    BY <1>2, <1>4, <2>1, KeyKept DEF IInv, TypeOK
  <2>3. Get(j)' = GetIn(file', j)
    BY DEF Get, GetIn, NodesOf, Owns, Nodes
  <2> QED BY <2>2, <2>3, GetFacts
<1>5. ASSUME NEW j \in Keys PROVE Stored(j)' = Stored(j)
  <2>1. CASE j = op.key
    BY <1>1, <1>2, <1>3, <2>1 DEF Stored
  <2>2. CASE j # op.key
    <3>1. Stored(j) = IF j \in torn THEN Unknown ELSE Seen(Get(j))
      BY <2>2 DEF Stored
    <3>2. Stored(j)' = IF j \in torn' THEN Unknown ELSE Seen(Get(j)')
      BY <1>2, <2>2 DEF Stored
    <3> QED BY <1>1, <1>4, <2>2, <3>1, <3>2
  <2> QED BY <2>1, <2>2
<1>6. MapOf' = MapOf
  BY <1>5 DEF MapOf
<1> QED BY <1>1, <1>2, <1>3, <1>6 DEF ReqOf

\* At the end of an operation the other keys have what they had.
LEMMA OthersStored ==
  ASSUME op # NoOp, op' = NoOp, file' = file, NEW j, j # op.key, (j \in torn') <=> (j \in torn)
  PROVE  Stored(j)' = Stored(j)
<1>1. Get(j)' = Get(j)
  BY DEF Get, NodesOf, Nodes
<1>2. Stored(j) = IF j \in torn THEN Unknown ELSE Seen(Get(j))
  BY DEF Stored
<1>3. Stored(j)' = IF j \in torn' THEN Unknown ELSE Seen(Get(j)')
  BY DEF Stored
<1> QED BY <1>1, <1>2, <1>3

\* The map changes at one key.
LEMMA OneChanges ==
  ASSUME NEW k \in Keys, NEW v, Stored(k)' = v,
         \A j \in Keys : j # k => Stored(j)' = Stored(j)
  PROVE  MapOf' = [MapOf EXCEPT ![k] = v]
<1>1. MapOf' = [j \in Keys |-> Stored(j)']
  BY DEF MapOf
<1>2. [MapOf EXCEPT ![k] = v] = [j \in Keys |-> IF j = k THEN v ELSE Stored(j)]
  BY DEF MapOf
<1> QED BY <1>1, <1>2

\* The return of an operation is the return of the map.
LEMMA ReturnMaps ==
  ASSUME IInv, IInv', Return
  PROVE  /\ ReqOf # NoOp
         /\ \E v \in {ReqOf.val} \cup {Unknown : k \in {k \in Keys : MapOf[k] = Unknown}} :
              MapOf' = [MapOf EXCEPT ![ReqOf.key] = v]
         /\ ReqOf' = NoOp
<1>1. /\ op # NoOp /\ op.writes = <<>> /\ ~aborted /\ op' = NoOp
      /\ last' = [key |-> op.key, val |-> op.val, sound |-> op.sound]
      /\ torn' = IF op.sound THEN torn \ {op.key} ELSE torn \cup {op.key}
      /\ file' = file
  BY DEF Return
<1>2. /\ ReqOf # NoOp /\ ReqOf.key = op.key /\ ReqOf.val = Seen(op.val)
      /\ op \in Ops /\ op.key \in Keys
  BY <1>1, ReqShape
<1>3. ReqOf' = NoOp
  BY <1>1 DEF ReqOf
<1>4. \A j \in Keys : j # op.key => Stored(j)' = Stored(j)
  BY <1>1, OthersStored
<1> PICK k \in Keys : k = op.key
  BY <1>2
<1>5. CASE op.sound
  <2>1. last' # NoOp /\ last'.sound /\ last'.key = k /\ last'.val = op.val
    <3>1. last' \in [key : Keys, val : Values \cup {Absent}, sound : BOOLEAN]
      BY <1>1, <1>2, OpFacts
    <3> QED BY <1>1, <1>5, <3>1, ConstantsOK
  <2>2. ReadBack'
    BY IInvImplies, <2>1, GetFacts DEF IInv, ReadBack, Get, GetIn, NodesOf, Owns, Nodes
  <2>3. Seen(Get(k)') = Seen(op.val)
    BY <2>1, <2>2 DEF ReadBack, Get, NodesOf, Nodes
  <2>4. Stored(k)' = Seen(op.val)
    BY <1>1, <1>5, <2>3 DEF Stored, Get, NodesOf, Nodes
  <2>5. MapOf' = [MapOf EXCEPT ![k] = Seen(op.val)]
    BY <1>2, <1>4, <2>4, OneChanges
  <2> QED BY <2>5, <1>2, <1>3
<1>6. CASE ~op.sound
  <2>1. Stored(k)' = Unknown
    BY <1>1, <1>6 DEF Stored
  <2>2. MapOf' = [MapOf EXCEPT ![k] = Unknown]
    BY <1>2, <1>4, <2>1, OneChanges
  <2>3. \E j \in Keys : MapOf[j] = Unknown
    <3>1. PICK j \in torn : j \in Keys
      BY <1>1, <1>6 DEF IInv, OpInv, TypeOK
    <3>2. Stored(j) = Unknown
      BY <1>1, <3>1 DEF IInv, OpInv, Stored
    <3> QED BY <3>1, <3>2 DEF MapOf
  <2>4. Unknown \in {Unknown : j \in {j \in Keys : MapOf[j] = Unknown}}
    BY <2>3
  <2> QED BY <2>2, <2>4, <1>2, <1>3
<1> QED BY <1>5, <1>6

\* A crash is a crash of the map.
LEMMA CrashMaps ==
  ASSUME IInv, Crash
  PROVE  /\ ReqOf # NoOp
         /\ MapOf' = [MapOf EXCEPT ![ReqOf.key] = Unknown]
         /\ ReqOf' = NoOp
<1>1. op # NoOp /\ op' = NoOp /\ file' = file /\ torn' = torn \cup {op.key}
  BY DEF Crash
<1>2. ReqOf # NoOp /\ ReqOf.key = op.key /\ op.key \in Keys
  BY <1>1, ReqShape
<1>3. \A j \in Keys : j # op.key => Stored(j)' = Stored(j)
  BY <1>1, OthersStored
<1> PICK k \in Keys : k = op.key
  BY <1>2
<1>4. Stored(k)' = Unknown
  BY <1>1 DEF Stored
<1>5. MapOf' = [MapOf EXCEPT ![k] = Unknown]
  BY <1>3, <1>4, OneChanges
<1>6. ReqOf' = NoOp
  BY <1>1 DEF ReqOf
<1> QED BY <1>2, <1>5, <1>6

\* An empty file is an empty map.
LEMMA InitMaps ==
  ASSUME Init
  PROVE  Promise!Init
<1>1. file = <<>> /\ op = NoOp /\ torn = {}
  BY DEF Init
<1>2. \A k : Owns(file, k) = {}
  <2> SUFFICES ASSUME NEW p \in Chain(file) PROVE FALSE
    BY DEF Owns
  <2>1. file \in Seq(Cell) /\ Len(file) = 0
    BY <1>1, EmptySeq
  <2>2. p \in 1 .. Len(file)
    BY <2>1, ChainCells, Zenon
  <2> QED BY <2>1, <2>2
<1>3. \A k \in Keys : Stored(k) = Absent
  BY <1>1, <1>2, GetFacts DEF Stored, GetIn, Seen
<1> QED BY <1>1, <1>3 DEF Promise!Init

\* Every step is a step of the map or changes nothing of it.
LEMMA StepMaps ==
  ASSUME IInv, IInv', [Next]_vars
  PROVE  [Promise!Next]_<<MapOf, ReqOf>>
<1> USE DEF Promise!Next
<1>1. ASSUME NEW k \in Keys, Erase(k) \/ (\E v \in Values : Set(k, v))
      PROVE  Promise!Next
  <2>1. PICK v \in Values \cup {Absent}, ws \in Seq(WriteSet) : Begin(k, v, ws)
    BY <1>1, RequestBegins
  <2>2. MapOf' = MapOf /\ ReqOf = NoOp /\ ReqOf' = [key |-> k, val |-> Seen(v)]
    BY <2>1, BeginMaps
  <2>3. ReqOf' \in Promise!Requests
    BY <2>2, SeenShape DEF Promise!Requests
  <2>4. Promise!Call
    BY <2>2, <2>3 DEF Promise!Call, MapOf, ReqOf
  <2> QED BY <2>4
<1>2. ASSUME NextWrite PROVE UNCHANGED <<MapOf, ReqOf>>
  BY <1>2, NextWriteMaps
<1>3. ASSUME Return PROVE Promise!Next
  <2>1. Promise!Return
    BY <1>3, ReturnMaps DEF Promise!Return, MapOf, ReqOf
  <2> QED BY <2>1
<1>4. ASSUME Crash PROVE Promise!Next
  <2>1. Promise!Crash
    BY <1>4, CrashMaps DEF Promise!Crash, MapOf, ReqOf
  <2> QED BY <2>1
<1>5. ASSUME UNCHANGED vars PROVE UNCHANGED <<MapOf, ReqOf>>
  BY <1>5 DEF vars, MapOf, ReqOf, Stored, Get, NodesOf, Nodes
<1> HIDE DEF Promise!Next
<1> QED BY <1>1, <1>2, <1>3, <1>4, <1>5 DEF Next

\* The file is a map whose requests take effect at one moment: no write of a set or an
\* erase, and no crash between two of them, changes what is read under another key.
THEOREM Implements == Spec => IsMap
<1>1. Init => Promise!Init
  BY InitMaps
<1>2. IInv /\ IInv' /\ [Next]_vars => [Promise!Next]_Promise!mvars
  <2> SUFFICES ASSUME IInv, IInv', [Next]_vars PROVE [Promise!Next]_Promise!mvars
    OBVIOUS
  <2>1. [Promise!Next]_<<MapOf, ReqOf>>
    BY StepMaps
  <2> QED BY <2>1 DEF Promise!mvars, MapOf, ReqOf
<1> QED BY <1>1, <1>2, Invariance, PTL DEF Spec, IsMap, Promise!Spec
============================================================================
