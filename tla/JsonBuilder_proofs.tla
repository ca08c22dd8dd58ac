-------------------------- MODULE JsonBuilder_proofs --------------------------
(***************************************************************************)
(* Proofs about JsonBuilder: whatever the calls of UoutBuilderJson          *)
(* (uout/status_json.cc) send, take back and make room for, for names and  *)
(* values of any lengths, buffers of any size and texts of any depth.      *)
(***************************************************************************)
EXTENDS JsonBuilder, WellFoundedInduction, SequenceTheorems, TLAPS

--------------------------------------------------------------------------------
(* Induction *)

\* Induction over the naturals, for a set.
LEMMA NatSetInduction ==
  ASSUME NEW S, 0 \in S, \A n \in Nat : n \in S => n + 1 \in S
  PROVE  Nat \subseteq S
<1> DEFINE R == OpToRel(<, Nat)
           T == Nat \ S
<1> SUFFICES ASSUME T # {} PROVE FALSE
  OBVIOUS
<1>1. IsWellFoundedOn(R, Nat)
  BY NatLessThanWellFounded
<1>2. PICK n \in T : \A m \in T : ~(<<m, n>> \in R)
  <2> HIDE DEF R
  <2>1. T \subseteq Nat
    OBVIOUS
  <2> HIDE DEF T
  <2> QED BY <1>1, <2>1, WFMin
<1>3. \A m \in T : m < n => <<m, n>> \in R
  BY DEF OpToRel
<1>4. n # 0 /\ n - 1 \in Nat /\ n - 1 < n
  OBVIOUS
<1>5. n - 1 \notin T
  <2> HIDE DEF R
  <2> QED BY <1>2, <1>3, <1>4
<1> QED BY <1>4, <1>5

--------------------------------------------------------------------------------
(* Texts *)

Signs == {"{", "}", "[", "]", ":", ",", "name", "value", "rest", "newline", "stale"}
Piece == [c : Signs, n : Nat \ {0}]
Text == Seq(Piece)

\* A text is its first pieces and its last one.
LEMMA FrontLast ==
  ASSUME NEW s \in Text, s # <<>>
  PROVE  /\ Len(s) \in Nat \ {0}
         /\ Front(s) \in Text /\ Last(s) \in Piece
         /\ Len(Front(s)) = Len(s) - 1
         /\ s = Front(s) \o <<Last(s)>>
<1>1. Len(s) \in Nat \ {0}
  BY EmptySeq DEF Text
<1>2. Last(s) \in Piece
  BY <1>1, ElementOfSeq DEF Text, Last
<1>3. \A i \in 1 .. Len(s) - 1 : s[i] \in Piece
  BY <1>1, ElementOfSeq DEF Text
<1>4. Front(s) \in Text
  BY <1>1, <1>3, SubSeqProperties DEF Text, Front
<1>5. Len(Front(s)) = IF 1 <= Len(s) - 1 THEN (Len(s) - 1) - 1 + 1 ELSE 0
  BY <1>1, <1>3, SubSeqProperties DEF Front
<1>6. \A i \in 1 .. (Len(s) - 1) - 1 + 1 : Front(s)[i] = s[1 + i - 1]
  BY <1>1, <1>3, SubSeqProperties DEF Front
<1> DEFINE a == Front(s)
           x == Last(s)
           t == a \o <<x>>
<1>7. a \in Text /\ Len(a) = Len(s) - 1 /\ (\A i \in 1 .. Len(a) : a[i] = s[i]) /\ x = s[Len(s)]
  <2>1. a \in Text /\ x = s[Len(s)]
    BY <1>4 DEF Last
  <2>2. Len(a) = IF 1 <= Len(s) - 1 THEN (Len(s) - 1) - 1 + 1 ELSE 0
    BY <1>5
  <2>5. \A i \in 1 .. (Len(s) - 1) - 1 + 1 : a[i] = s[1 + i - 1]
    BY <1>6
  <2> HIDE DEF a, x, t
  <2>3. Len(a) = Len(s) - 1
    <3> DEFINE n == Len(s)
               k == Len(a)
    <3>1. n \in Nat /\ n >= 1 /\ k = IF 1 <= n - 1 THEN (n - 1) - 1 + 1 ELSE 0
      BY <1>1, <2>2
    <3> HIDE DEF n, k
    <3>2. k = n - 1
      BY <3>1
    <3> QED BY <3>2 DEF n, k
  <2>4. \A i \in 1 .. Len(a) : a[i] = s[i]
    BY <1>1, <2>3, <2>5
  <2> QED BY <2>1, <2>3, <2>4
<1>8. t = s
  <2> HIDE DEF a, x
  <2>1. <<x>> \in Text /\ Len(<<x>>) = 1 /\ <<x>>[1] = x
    BY <1>2 DEF Text, x
  <2>2. t \in Text /\ Len(t) = Len(s)
    BY <1>1, <1>7, <2>1, ConcatProperties DEF Text
  <2>3. \A i \in 1 .. Len(a) + 1 : t[i] = IF i <= Len(a) THEN a[i] ELSE <<x>>[i - Len(a)]
    BY <1>7, <2>1, ConcatProperties DEF Text
  <2>4. ASSUME NEW i \in 1 .. Len(s) PROVE t[i] = s[i]
    <3>1. i \in 1 .. Len(a) + 1 /\ Len(a) \in Nat
      BY <1>1, <1>7
    <3>2. CASE i <= Len(a)
      BY <1>7, <2>3, <3>1, <3>2
    <3>3. CASE ~(i <= Len(a))
      <4>1. i - Len(a) = 1 /\ i = Len(s)
        BY <1>1, <1>7, <3>1, <3>3
      <4> QED BY <1>7, <2>1, <2>3, <3>1, <3>3, <4>1
    <3> QED BY <3>2, <3>3
  <2> HIDE DEF t
  <2> QED BY <2>2, <2>4, SeqEqual, Zenon DEF Text
<1> QED BY <1>1, <1>2, <1>7, <1>8

\* A text with one piece more.
LEMMA OneMore ==
  ASSUME NEW s \in Text, NEW x \in Piece
  PROVE  /\ <<x>> \in Text
         /\ s \o <<x>> \in Text /\ s \o <<x>> # <<>>
         /\ Last(s \o <<x>>) = x
         /\ Front(s \o <<x>>) = s
<1> DEFINE t == s \o <<x>>
<1>1. <<x>> \in Text /\ Len(<<x>>) = 1 /\ <<x>>[1] = x
  BY DEF Text
<1>2. Len(s) \in Nat
  BY LenProperties DEF Text
<1>3. t \in Text /\ Len(t) = Len(s) + 1
  BY <1>1, <1>2, ConcatProperties DEF Text
<1>4. \A i \in 1 .. Len(s) + 1 : t[i] = IF i <= Len(s) THEN s[i] ELSE <<x>>[i - Len(s)]
  BY <1>1, ConcatProperties DEF Text
<1>5. t[Len(s) + 1] = x
  <2>1. (Len(s) + 1) - Len(s) = 1 /\ Len(s) + 1 \in 1 .. Len(s) + 1 /\ ~(Len(s) + 1 <= Len(s))
    BY <1>2
  <2> QED BY <1>1, <1>4, <2>1
<1>6. t # <<>> /\ Last(t) = x
  <2> HIDE DEF t
  <2> QED BY <1>2, <1>3, <1>5, EmptySeq DEF Last, Text
<1>7. Front(t) = s
  <2> HIDE DEF t
  <2>1. Front(t) \in Text /\ Len(Front(t)) = Len(s)
    <3>1. Front(t) \in Text /\ Len(Front(t)) = Len(t) - 1
      BY <1>3, <1>6, FrontLast
    <3> QED BY <1>2, <1>3, <3>1
  <2>2. \A i \in 1 .. Len(t) - 1 : t[i] \in Piece
    BY <1>2, <1>3, ElementOfSeq DEF Text
  <2>3. \A i \in 1 .. (Len(t) - 1) - 1 + 1 : Front(t)[i] = t[1 + i - 1]
    BY <1>2, <1>3, <2>2, SubSeqProperties DEF Front
  <2>4. ASSUME NEW i \in 1 .. Len(Front(t)) PROVE Front(t)[i] = s[i]
    BY <1>2, <1>3, <1>4, <2>1, <2>3 DEF t
  <2> QED BY <2>1, <2>4, SeqEqual, Zenon DEF Text
<1> QED BY <1>1, <1>3, <1>6, <1>7

--------------------------------------------------------------------------------
(* Widths *)

\* The recursive function of Width exists: at every place it is what its equation says.
LEMMA WidthDef ==
  ASSUME NEW s, Len(s) \in Nat
  PROVE  \E width : /\ Width(s) = width[Len(s)]
                    /\ width[0] = 0
                    /\ \A i \in 1 .. Len(s) : width[i] = width[i - 1] + s[i].n
<1> DEFINE l == Len(s)
           Def(h) == [i \in 0 .. l |-> IF i = 0 THEN 0 ELSE h[i - 1] + s[i].n]
           Goes(g, m) == g[0] = 0 /\ \A i \in 1 .. m : g[i] = g[i - 1] + s[i].n
           D == {m \in Nat : \E g : Goes(g, m)}
<1>1. 0 \in D
  <2>1. Goes([i \in {0} |-> 0], 0)
    OBVIOUS
  <2> QED BY <2>1
<1>2. ASSUME NEW m \in Nat, m \in D PROVE m + 1 \in D
  <2>1. PICK g : Goes(g, m)
    BY <1>2
  <2> DEFINE h == [i \in 0 .. m + 1 |-> IF i = m + 1 THEN g[m] + s[m + 1].n ELSE g[i]]
  <2>2. h[0] = 0
    BY <2>1
  <2>3. ASSUME NEW i \in 1 .. m PROVE h[i] = g[i] /\ h[i - 1] = g[i - 1]
    OBVIOUS
  <2>4. h[m + 1] = g[m] + s[m + 1].n /\ h[m] = g[m] /\ (m + 1) - 1 = m
    OBVIOUS
  <2> HIDE DEF h
  <2>5. ASSUME NEW i \in 1 .. m + 1 PROVE h[i] = h[i - 1] + s[i].n
    <3>1. CASE i \in 1 .. m
      BY <2>1, <2>3, <3>1
    <3>2. CASE i = m + 1
      BY <2>4, <3>2
    <3> QED BY <3>1, <3>2
  <2>6. Goes(h, m + 1)
    BY <2>2, <2>5
  <2> HIDE DEF Goes
  <2> QED BY <2>6
<1>3. l \in D
  <2> HIDE DEF D
  <2> QED BY <1>1, <1>2, NatSetInduction
<1>4. PICK g : Goes(g, l)
  BY <1>3
<1> DEFINE f == [i \in 0 .. l |-> g[i]]
<1>5. f = Def(f)
  <2>1. ASSUME NEW i \in 0 .. l PROVE f[i] = Def(f)[i]
    <3>1. CASE i = 0
      BY <1>4, <3>1
    <3>2. CASE i # 0
      <4>1. i - 1 \in 0 .. l /\ i \in 1 .. l
        BY <3>2
      <4>2. f[i - 1] = g[i - 1] /\ f[i] = g[i]
        BY <4>1
      <4>3. Def(f)[i] = f[i - 1] + s[i].n
        <5> HIDE DEF f
        <5> QED BY <3>2
      <4> QED BY <1>4, <4>1, <4>2, <4>3
    <3> QED BY <3>1, <3>2
  <2> QED BY <2>1
<1> DEFINE width == CHOOSE h : h = Def(h)
<1>6. width = Def(width)
  <2> HIDE DEF Def, f
  <2> QED BY <1>5
<1>7. Width(s) = width[l]
  BY DEF Width
<1>8. width[0] = 0
  <2>1. width[0] = Def(width)[0]
    BY <1>6
  <2> HIDE DEF width
  <2> QED BY <2>1
<1>9. ASSUME NEW i \in 1 .. l PROVE width[i] = width[i - 1] + s[i].n
  <2>1. width[i] = Def(width)[i]
    BY <1>6
  <2> HIDE DEF width
  <2> QED BY <2>1
<1> HIDE DEF width
<1> QED BY <1>7, <1>8, <1>9

\* A text has at least as many characters as pieces.
LEMMA WidthNat ==
  ASSUME NEW s \in Text
  PROVE  Width(s) \in Nat /\ Width(s) >= Len(s)
<1>1. Len(s) \in Nat
  BY LenProperties DEF Text
<1>2. PICK width : /\ Width(s) = width[Len(s)]
                   /\ width[0] = 0
                   /\ \A i \in 1 .. Len(s) : width[i] = width[i - 1] + s[i].n
  BY <1>1, WidthDef
<1> DEFINE D == {i \in Nat : i <= Len(s) => width[i] \in Nat /\ width[i] >= i}
<1>3. 0 \in D
  BY <1>2
<1>4. ASSUME NEW i \in Nat, i \in D PROVE i + 1 \in D
  <2> SUFFICES ASSUME i + 1 <= Len(s) PROVE width[i + 1] \in Nat /\ width[i + 1] >= i + 1
    OBVIOUS
  <2>1. width[i] \in Nat /\ width[i] >= i
    BY <1>1, <1>4
  <2>2. i + 1 \in 1 .. Len(s) /\ (i + 1) - 1 = i
    BY <1>1
  <2>3. s[i + 1] \in Piece
    BY <2>2, ElementOfSeq DEF Text
  <2>4. s[i + 1].n \in Nat /\ s[i + 1].n >= 1
    BY <2>3 DEF Piece
  <2>5. width[i + 1] = width[i] + s[i + 1].n
    BY <1>2, <2>2
  <2> QED BY <2>1, <2>4, <2>5
<1>5. Len(s) \in D
  <2> HIDE DEF D
  <2> QED BY <1>1, <1>3, <1>4, NatSetInduction
<1> QED BY <1>1, <1>2, <1>5

\* The characters of two texts.
LEMMA WidthConcat ==
  ASSUME NEW s \in Text, NEW t \in Text
  PROVE  s \o t \in Text /\ Width(s \o t) = Width(s) + Width(t)
<1> DEFINE u == s \o t
<1>1. Len(s) \in Nat /\ Len(t) \in Nat
  BY LenProperties DEF Text
<1>2. u \in Text /\ Len(u) = Len(s) + Len(t)
  BY ConcatProperties DEF Text
<1>3. \A i \in 1 .. Len(s) + Len(t) : u[i] = IF i <= Len(s) THEN s[i] ELSE t[i - Len(s)]
  BY ConcatProperties DEF Text
<1> HIDE DEF u
<1>4. PICK a : /\ Width(s) = a[Len(s)]
               /\ a[0] = 0
               /\ \A i \in 1 .. Len(s) : a[i] = a[i - 1] + s[i].n
  BY <1>1, WidthDef
<1>5. PICK b : /\ Width(t) = b[Len(t)]
               /\ b[0] = 0
               /\ \A i \in 1 .. Len(t) : b[i] = b[i - 1] + t[i].n
  BY <1>1, WidthDef
<1>10. Len(u) \in Nat
  BY <1>1, <1>2
<1>6. PICK c : /\ Width(u) = c[Len(u)]
               /\ c[0] = 0
               /\ \A i \in 1 .. Len(u) : c[i] = c[i - 1] + u[i].n
  BY <1>10, WidthDef
<1> DEFINE D == {i \in Nat : i <= Len(s) => c[i] = a[i]}
<1>7. Len(s) \in D
  <2>1. 0 \in D
    BY <1>4, <1>6
  <2>2. ASSUME NEW i \in Nat, i \in D PROVE i + 1 \in D
    <3> SUFFICES ASSUME i + 1 <= Len(s) PROVE c[i + 1] = a[i + 1]
      OBVIOUS
    <3>1. /\ i + 1 \in 1 .. Len(s) /\ i + 1 \in 1 .. Len(u) /\ i + 1 \in 1 .. Len(s) + Len(t)
          /\ (i + 1) - 1 = i
      BY <1>1, <1>2
    <3>2. c[i] = a[i] /\ u[i + 1] = s[i + 1]
      BY <1>1, <1>3, <2>2, <3>1
    <3>3. c[i + 1] = c[i] + u[i + 1].n /\ a[i + 1] = a[i] + s[i + 1].n
      BY <1>4, <1>6, <3>1
    <3> QED BY <3>2, <3>3
  <2> HIDE DEF D
  <2> QED BY <1>1, <2>1, <2>2, NatSetInduction
<1> DEFINE E == {i \in Nat : i <= Len(t) => b[i] \in Nat /\ c[Len(s) + i] = Width(s) + b[i]}
<1>8. Len(t) \in E
  <2>1. 0 \in E
    <3>1. c[Len(s)] = a[Len(s)] /\ Len(s) + 0 = Len(s) /\ Width(s) \in Nat
      BY <1>1, <1>7, WidthNat
    <3> QED BY <1>4, <1>5, <3>1
  <2>2. ASSUME NEW i \in Nat, i \in E PROVE i + 1 \in E
    <3> SUFFICES ASSUME i + 1 <= Len(t)
                 PROVE  b[i + 1] \in Nat /\ c[Len(s) + (i + 1)] = Width(s) + b[i + 1]
      OBVIOUS
    <3> DEFINE j == Len(s) + (i + 1)
    <3>1. /\ i + 1 \in 1 .. Len(t) /\ (i + 1) - 1 = i
          /\ j \in 1 .. Len(u) /\ j \in 1 .. Len(s) + Len(t)
          /\ j - 1 = Len(s) + i /\ ~(j <= Len(s)) /\ j - Len(s) = i + 1
      BY <1>1, <1>2
    <3>2. b[i] \in Nat /\ c[Len(s) + i] = Width(s) + b[i]
      BY <1>1, <2>2
    <3>3. u[j] = t[i + 1]
      BY <1>3, <3>1
    <3>4. c[j] = c[j - 1] + u[j].n
      BY <1>6, <3>1
    <3>5. b[i + 1] = b[i] + t[i + 1].n
      BY <1>5, <3>1
    <3>6. t[i + 1] \in Piece
      BY <3>1, ElementOfSeq DEF Text
    <3>7. t[i + 1].n \in Nat /\ Width(s) \in Nat
      BY <3>6, WidthNat DEF Piece
    <3>8. c[j] = (Width(s) + b[i]) + t[i + 1].n
      BY <3>1, <3>2, <3>3, <3>4
    <3> HIDE DEF j
    <3>9. b[i + 1] \in Nat /\ c[j] = Width(s) + b[i + 1]
      BY <3>2, <3>5, <3>7, <3>8
    <3> QED BY <3>9 DEF j
  <2> HIDE DEF E
  <2> QED BY <1>1, <2>1, <2>2, NatSetInduction
<1>9. c[Len(s) + Len(t)] = Width(s) + Width(t)
  BY <1>1, <1>5, <1>8
<1> QED BY <1>2, <1>6, <1>9 DEF u

\* The characters of no text and of one piece.
LEMMA WidthOne ==
  /\ <<>> \in Text /\ Width(<<>>) = 0
  /\ \A x \in Piece : <<x>> \in Text /\ Width(<<x>>) = x.n
<1>1. <<>> \in Text /\ Len(<<>>) = 0
  BY EmptySeq DEF Text
<1>2. Width(<<>>) = 0
  <2> DEFINE s == <<>>
  <2>1. Len(s) = 0
    BY <1>1
  <2> HIDE DEF s
  <2>2. Width(s) = 0
    BY <2>1, WidthDef
  <2> QED BY <2>2 DEF s
<1>3. ASSUME NEW x \in Piece PROVE <<x>> \in Text /\ Width(<<x>>) = x.n
  <2> DEFINE s == <<x>>
  <2>1. s \in Text /\ Len(s) = 1 /\ s[1] = x
    BY DEF Text
  <2>2. x.n \in Nat
    BY DEF Piece
  <2> HIDE DEF s
  <2>3. PICK width : /\ Width(s) = width[Len(s)]
                     /\ width[0] = 0
                     /\ \A i \in 1 .. Len(s) : width[i] = width[i - 1] + s[i].n
    BY <2>1, WidthDef
  <2>4. width[1] = width[1 - 1] + s[1].n
    BY <2>1, <2>3
  <2>5. Width(s) = x.n
    BY <2>1, <2>2, <2>3, <2>4
  <2> QED BY <2>1, <2>5 DEF s
<1> QED BY <1>1, <1>2, <1>3
--------------------------------------------------------------------------------
(* The texts of the calls *)

\* A text whose last piece has one character.
Short(s) == s # <<>> => Last(s).n = 1

\* The texts that the calls are made of, and their characters.
LEMMA NewTexts ==
  /\ \A c \in Signs : Char(c) \in Text /\ Width(Char(c)) = 1 /\ Char(c) = <<[c |-> c, n |-> 1]>>
  /\ \A k \in Nat \ {0} : Number(k) \in Text /\ Width(Number(k)) = k
  /\ \A k \in Nat : Quoted(k) \in Text /\ Width(Quoted(k)) = k + 2
  /\ \A k \in Nat : Key(k) \in Text /\ Width(Key(k)) = k + 3
  /\ Comma \in Text /\ Width(Comma) = 1
<1>1. ASSUME NEW c \in Signs, NEW k \in Nat \ {0} PROVE [c |-> c, n |-> k] \in Piece
  BY DEF Piece
<1>7. {"name", "value", ":", ","} \subseteq Signs
  BY DEF Signs
<1>2. ASSUME NEW c \in Signs PROVE Char(c) \in Text /\ Width(Char(c)) = 1
  <2> DEFINE x == [c |-> c, n |-> 1]
  <2>1. x \in Piece /\ x.n = 1 /\ Char(c) = <<x>>
    BY <1>1 DEF Char
  <2> HIDE DEF x
  <2> QED BY <2>1, WidthOne
<1>3. ASSUME NEW k \in Nat \ {0} PROVE Number(k) \in Text /\ Width(Number(k)) = k
  <2> DEFINE x == [c |-> "value", n |-> k]
  <2>1. x \in Piece /\ x.n = k /\ Number(k) = <<x>>
    BY <1>1, <1>7 DEF Number
  <2> HIDE DEF x
  <2> QED BY <2>1, WidthOne
<1>4. ASSUME NEW k \in Nat PROVE Quoted(k) \in Text /\ Width(Quoted(k)) = k + 2
  <2> DEFINE x == [c |-> "name", n |-> k + 2]
  <2>1. x \in Piece /\ x.n = k + 2 /\ Quoted(k) = <<x>>
    <3>1. k + 2 \in Nat \ {0}
      OBVIOUS
    <3> QED BY <1>1, <1>7, <3>1 DEF Quoted
  <2> HIDE DEF x
  <2> QED BY <2>1, WidthOne
<1>5. ASSUME NEW k \in Nat PROVE Key(k) \in Text /\ Width(Key(k)) = k + 3
  <2>1. Quoted(k) \in Text /\ Width(Quoted(k)) = k + 2 /\ Char(":") \in Text /\ Width(Char(":")) = 1
    BY <1>2, <1>4, <1>7
  <2>2. Key(k) \in Text /\ Width(Key(k)) = Width(Quoted(k)) + Width(Char(":"))
    BY <2>1, WidthConcat DEF Key
  <2> QED BY <2>1, <2>2
<1>6. Comma \in Text /\ Width(Comma) = 1
  BY <1>2, <1>7 DEF Comma
<1> QED BY <1>2, <1>3, <1>4, <1>5, <1>6 DEF Char

\* Two texts, one behind the other: the last piece is that of the second.
LEMMA ConcatLast ==
  ASSUME NEW s \in Text, NEW t \in Text, t # <<>>
  PROVE  /\ s \o t \in Text /\ s \o t # <<>>
         /\ Last(s \o t) = Last(t)
         /\ Front(s \o t) = s \o Front(t)
<1>1. Front(t) \in Text /\ Last(t) \in Piece /\ t = Front(t) \o <<Last(t)>>
  BY FrontLast
<1>2. <<Last(t)>> \in Text
  BY <1>1, OneMore
<1> DEFINE f == Front(t)
           l == <<Last(t)>>
           u == s \o f
<1>3. s \o (f \o l) = (s \o f) \o l
  <2>1. f \in Text /\ l \in Text
    BY <1>1, <1>2
  <2> HIDE DEF f, l
  <2> QED BY <2>1, ConcatAssociative DEF Text
<1>4. u \in Text
  BY <1>1, WidthConcat
<1>5. s \o t = u \o l
  BY <1>1, <1>3
<1>6. u \o l \in Text /\ u \o l # <<>> /\ Last(u \o l) = Last(t) /\ Front(u \o l) = u
  <2> HIDE DEF u
  <2> QED BY <1>1, <1>4, OneMore
<1> QED BY <1>5, <1>6

\* A text that ends with a character.
LEMMA CharLast ==
  ASSUME NEW s \in Text, NEW c \in Signs
  PROVE  /\ s \o Char(c) \in Text /\ s \o Char(c) # <<>>
         /\ Last(s \o Char(c)) = [c |-> c, n |-> 1] /\ Front(s \o Char(c)) = s
         /\ Width(s \o Char(c)) = Width(s) + 1
<1> DEFINE x == [c |-> c, n |-> 1]
<1>1. x \in Piece
  BY DEF Piece
<1>2. Char(c) = <<x>> /\ Char(c) \in Text /\ Width(Char(c)) = 1
  BY NewTexts
<1>3. Width(s \o Char(c)) = Width(s) + 1
  BY <1>2, WidthConcat
<1>4. s \o <<x>> \in Text /\ s \o <<x>> # <<>> /\ Last(s \o <<x>>) = x /\ Front(s \o <<x>>) = s
  <2> HIDE DEF x
  <2> QED BY <1>1, OneMore
<1> QED BY <1>2, <1>3, <1>4

\* A comma is taken back from a text and from the end of a text alike.
LEMMA UnreadConcat ==
  ASSUME NEW s \in Text, NEW t \in Text
  PROVE  /\ Unread(t) \in Text /\ Width(Unread(t)) <= Width(t)
         /\ t # <<>> => Unread(s \o t) = s \o Unread(t)
<1>1. CASE t = <<>>
  BY <1>1, WidthNat DEF Unread
<1>2. CASE t # <<>>
  <2>1. Front(t) \in Text /\ Last(t) \in Piece /\ t = Front(t) \o <<Last(t)>>
    BY <1>2, FrontLast
  <2>2. s \o t # <<>> /\ Last(s \o t) = Last(t) /\ Front(s \o t) = s \o Front(t)
    BY <1>2, ConcatLast
  <2>3. Width(t) = Width(Front(t)) + Last(t).n /\ Last(t).n \in Nat
    <3>1. <<Last(t)>> \in Text /\ Width(<<Last(t)>>) = Last(t).n
      BY <2>1, WidthOne
    <3>2. Width(Front(t) \o <<Last(t)>>) = Width(Front(t)) + Last(t).n
      BY <2>1, <3>1, WidthConcat
    <3> QED BY <2>1, <3>2 DEF Piece
  <2>4. Width(Front(t)) <= Width(t) /\ Width(t) <= Width(t)
    BY <2>1, <2>3, WidthNat
  <2> QED BY <1>2, <2>1, <2>2, <2>4 DEF Unread
<1> QED BY <1>1, <1>2

--------------------------------------------------------------------------------
(* The writer *)

Frames == [type : {"text", "continue"}, final : BOOLEAN, fragmented : BOOLEAN]

\* The frames of a message that is not finished: the first one alone says "text".
Begun(number, fs) ==
  /\ number = Len(fs)
  /\ \A i \in 1 .. Len(fs) :
       fs[i].type = (IF i = 1 THEN "text" ELSE "continue") /\ ~fs[i].final /\ fs[i].fragmented

\* OneMessage, as an operator of the frames.
Message(fs) ==
  \A i \in DOMAIN fs :
    /\ (fs[i].type = "text") = (i = 1)
    /\ fs[i].final => i = Len(fs)
    /\ fs[i].fragmented = (i > 1 \/ ~fs[i].final)

Buffers ==
  [ok : BOOLEAN, text : Text, size : Nat, nul : Nat, past : Nat, odd : SUBSET Causes, n : Int,
   chunks : Nat, frames : Seq(Frames), sent : Text, refused : BOOLEAN]

\* The head of the frame of a chunk.
LEMMA FrameHead ==
  ASSUME NEW number \in Nat, NEW final \in BOOLEAN
  PROVE  LET x == Frame(ChunkStatus(number, final))
         IN  /\ x \in Frames
             /\ x.type = (IF number = 0 THEN "text" ELSE "continue")
             /\ x.final <=> final
             /\ x.fragmented <=> (number # 0 \/ ~final)
<1> DEFINE status == ChunkStatus(number, final)
<1>1. /\ status \in {0, -1} <=> number = 0
      /\ status >= 0 <=> final
      /\ status # 0 <=> (number # 0 \/ ~final)
  <2>1. CASE final
    <3>1. /\ number = 0 => status = 0
          /\ number # 0 => status = number + 1
      BY <2>1 DEF ChunkStatus
    <3> HIDE DEF status
    <3>2. CASE number = 0
      BY <2>1, <3>1, <3>2
    <3>3. CASE number # 0
      BY <2>1, <3>1, <3>3
    <3> QED BY <3>2, <3>3
  <2>2. CASE ~final
    <3>1. status = -(number + 1) /\ -(number + 1) < 0 /\ (-(number + 1) = -1 <=> number = 0)
      BY <2>2 DEF ChunkStatus
    <3> HIDE DEF status
    <3> QED BY <2>2, <3>1
  <2> QED BY <2>1, <2>2
<1> HIDE DEF status
<1> DEFINE x == Frame(status)
<1>2. /\ x.type = (IF status \in {0, -1} THEN "text" ELSE "continue")
      /\ x.final = (status >= 0)
      /\ x.fragmented = (status # 0)
  BY DEF Frame
<1>3. x \in Frames
  <2>1. (status >= 0) \in BOOLEAN /\ (status # 0) \in BOOLEAN
    OBVIOUS
  <2>2. (IF status \in {0, -1} THEN "text" ELSE "continue") \in {"text", "continue"}
    OBVIOUS
  <2> QED BY <2>1, <2>2, Zenon DEF Frame, Frames
<1> HIDE DEF x
<1> QED BY <1>1, <1>2, <1>3 DEF x, status

\* The frame of one more chunk.
LEMMA OneFrame ==
  ASSUME NEW fs \in Seq(Frames), NEW number \in Nat, NEW final \in BOOLEAN,
         NEW gs, gs = Append(fs, Frame(ChunkStatus(number, final)))
  PROVE  /\ gs \in Seq(Frames)
         /\ Begun(number, fs) => IF final THEN Message(gs) /\ gs[Len(gs)].final
                                 ELSE Begun(number + 1, gs)
         /\ Last(gs) = gs[Len(gs)]
<1> DEFINE x == Frame(ChunkStatus(number, final))
<1>1. /\ x \in Frames
      /\ x.type = (IF number = 0 THEN "text" ELSE "continue")
      /\ x.final <=> final
      /\ x.fragmented <=> (number # 0 \/ ~final)
  BY FrameHead
<1> HIDE DEF x
<1>2. /\ gs \in Seq(Frames) /\ Len(gs) = Len(fs) + 1 /\ gs[Len(fs) + 1] = x
      /\ \A i \in 1 .. Len(fs) : gs[i] = fs[i]
  BY <1>1 DEF x
<1>3. Len(fs) \in Nat /\ DOMAIN gs = 1 .. Len(fs) + 1
  BY <1>2
<1>4. ASSUME Begun(number, fs), final PROVE Message(gs) /\ gs[Len(gs)].final
  <2>1. ASSUME NEW i \in 1 .. Len(fs) + 1
        PROVE  /\ (gs[i].type = "text") = (i = 1)
               /\ gs[i].final => i = Len(fs) + 1
               /\ gs[i].fragmented = (i > 1 \/ ~gs[i].final)
    <3>1. CASE i \in 1 .. Len(fs)
      <4>1. gs[i] = fs[i] /\ fs[i] \in Frames
        BY <1>2, <3>1
      <4>2. /\ fs[i].type = (IF i = 1 THEN "text" ELSE "continue")
            /\ ~fs[i].final /\ fs[i].fragmented
        BY <1>4, <3>1 DEF Begun
      <4>3. fs[i].fragmented \in BOOLEAN /\ fs[i].final \in BOOLEAN
        BY <4>1 DEF Frames
      <4> QED BY <4>1, <4>2, <4>3
    <3>2. CASE i = Len(fs) + 1
      <4>1. number = Len(fs) /\ (i = 1 <=> number = 0) /\ (i > 1 <=> number # 0)
        BY <1>3, <1>4, <3>2 DEF Begun
      <4>2. gs[i] = x
        BY <1>2, <3>2
      <4>3. x.final \in BOOLEAN /\ x.fragmented \in BOOLEAN
        BY <1>1 DEF Frames
      <4>4. (gs[i].type = "text") = (i = 1)
        BY <1>1, <4>1, <4>2
      <4>5. gs[i].final => i = Len(fs) + 1
        BY <3>2
      <4>6. gs[i].fragmented = (i > 1 \/ ~gs[i].final)
        BY <1>1, <1>4, <4>1, <4>2, <4>3
      <4> QED BY <4>4, <4>5, <4>6
    <3> QED BY <1>3, <3>1, <3>2
  <2>2. Message(gs)
    BY <1>2, <1>3, <2>1 DEF Message
  <2> QED BY <1>1, <1>2, <1>4, <2>2
<1>5. ASSUME Begun(number, fs), ~final PROVE Begun(number + 1, gs)
  <2>1. ASSUME NEW i \in 1 .. Len(gs)
        PROVE  /\ gs[i].type = (IF i = 1 THEN "text" ELSE "continue")
               /\ ~gs[i].final /\ gs[i].fragmented
    <3>1. CASE i \in 1 .. Len(fs)
      <4>1. gs[i] = fs[i]
        BY <1>2, <3>1
      <4> QED BY <1>5, <3>1, <4>1 DEF Begun
    <3>2. CASE i = Len(fs) + 1
      <4>1. number = Len(fs) /\ (i = 1 <=> number = 0)
        BY <1>3, <1>5, <3>2 DEF Begun
      <4>2. gs[i] = x
        BY <1>2, <3>2
      <4> QED BY <1>1, <1>5, <4>1, <4>2
    <3> QED BY <1>2, <1>3, <3>1, <3>2
  <2>2. number + 1 = Len(gs)
    BY <1>2, <1>5 DEF Begun
  <2> QED BY <2>1, <2>2 DEF Begun
<1>6. Last(gs) = gs[Len(gs)]
  BY DEF Last
<1> QED BY <1>2, <1>4, <1>5, <1>6
--------------------------------------------------------------------------------
(* The buffer *)

\* The fields of a buffer.
LEMMA BufferFields ==
  ASSUME NEW b \in Buffers
  PROVE  /\ b.ok \in BOOLEAN /\ b.text \in Text /\ b.size \in Nat /\ b.nul \in Nat
         /\ b.past \in Nat /\ b.odd \subseteq Causes
         /\ b.n \in Int /\ b.chunks \in Nat /\ b.frames \in Seq(Frames) /\ b.sent \in Text
         /\ b.refused \in BOOLEAN
BY DEF Buffers

\* The frames of a message that is not finished are those of one message.
LEMMA BegunMessage ==
  ASSUME NEW fs \in Seq(Frames), NEW number, Begun(number, fs)
  PROVE  Message(fs)
<1>1. ASSUME NEW i \in 1 .. Len(fs)
      PROVE  /\ (fs[i].type = "text") = (i = 1)
             /\ fs[i].final => i = Len(fs)
             /\ fs[i].fragmented = (i > 1 \/ ~fs[i].final)
  <2> DEFINE f == fs[i]
  <2>1. f \in Frames
    OBVIOUS
  <2>2. f.final \in BOOLEAN /\ f.fragmented \in BOOLEAN
    BY <2>1 DEF Frames
  <2>3. f.type = (IF i = 1 THEN "text" ELSE "continue") /\ ~f.final /\ f.fragmented
    BY DEF Begun
  <2> HIDE DEF f
  <2>4. (f.type = "text") = (i = 1)
    BY <2>3
  <2>5. f.fragmented = (i > 1 \/ ~f.final)
    BY <2>2, <2>3
  <2> QED BY <2>3, <2>4, <2>5 DEF f
<1> QED BY <1>1 DEF Message

\* What the call-back is given is sent as a whole, in a frame of its own, or refused.
LEMMA WritesFacts ==
  ASSUME NEW b \in Buffers, NEW s \in Text, NEW final \in BOOLEAN, NEW w \in Writes(b, s, final)
  PROVE  /\ w \in Buffers
         /\ w.ok = b.ok /\ w.text = b.text /\ w.size = b.size /\ w.nul = b.nul
         /\ w.past = b.past /\ w.odd = b.odd
         /\ \/ w.n = Width(s) /\ w.sent = b.sent \o s /\ w.refused = b.refused
            \/ w.n <= 0 /\ w.sent = b.sent /\ w.refused
         /\ Begun(b.chunks, b.frames) =>
              IF final THEN Message(w.frames) /\ (w.refused \/ Last(w.frames).final)
              ELSE Begun(w.chunks, w.frames)
<1>1. /\ b.ok \in BOOLEAN /\ b.text \in Text /\ b.size \in Nat /\ b.nul \in Nat
      /\ b.past \in Nat /\ b.odd \subseteq Causes
      /\ b.n \in Int /\ b.chunks \in Nat /\ b.frames \in Seq(Frames) /\ b.sent \in Text
      /\ b.refused \in BOOLEAN
  BY BufferFields
<1> DEFINE gs == Append(b.frames, Frame(ChunkStatus(b.chunks, final)))
           to == b.sent \o s
           many == Width(s)
<1>2. /\ gs \in Seq(Frames)
      /\ Begun(b.chunks, b.frames) => IF final THEN Message(gs) /\ gs[Len(gs)].final
                                      ELSE Begun(b.chunks + 1, gs)
      /\ Last(gs) = gs[Len(gs)]
  <2> DEFINE fs == b.frames
             number == b.chunks
  <2>1. fs \in Seq(Frames) /\ number \in Nat
    BY <1>1
  <2> HIDE DEF fs, number
  <2>2. \A hs : hs = Append(fs, Frame(ChunkStatus(number, final))) =>
          /\ hs \in Seq(Frames)
          /\ Begun(number, fs) => IF final THEN Message(hs) /\ hs[Len(hs)].final
                                  ELSE Begun(number + 1, hs)
          /\ Last(hs) = hs[Len(hs)]
    BY <2>1, OneFrame
  <2> QED BY <2>2 DEF fs, number
<1>3. to \in Text /\ many \in Nat
  BY <1>1, WidthConcat, WidthNat
<1>4. PICK a \in Answers :
        w = [b EXCEPT !.n = CASE a = "all" -> many [] a = "none" -> 0 [] OTHER -> -1,
                      !.chunks = IF final THEN 0 ELSE IF a = "all" THEN @ + 1 ELSE @,
                      !.frames = IF a = "all" THEN gs ELSE @,
                      !.sent = IF a = "all" THEN to ELSE @,
                      !.refused = @ \/ a # "all"]
  BY DEF Writes
<1> HIDE DEF gs, to, many
<1>5. b = [ok |-> b.ok, text |-> b.text, size |-> b.size, nul |-> b.nul,
             past |-> b.past, odd |-> b.odd, n |-> b.n,
           chunks |-> b.chunks, frames |-> b.frames, sent |-> b.sent, refused |-> b.refused]
  BY DEF Buffers
<1>6. CASE a = "all"
  <2>1. w = [ok |-> b.ok, text |-> b.text, size |-> b.size, nul |-> b.nul,
             past |-> b.past, odd |-> b.odd, n |-> many,
             chunks |-> IF final THEN 0 ELSE b.chunks + 1, frames |-> gs, sent |-> to,
             refused |-> b.refused]
    BY <1>1, <1>4, <1>5, <1>6
  <2>2. (IF final THEN 0 ELSE b.chunks + 1) \in Nat
    BY <1>1
  <2>3. w \in Buffers
    BY <1>1, <1>2, <1>3, <2>1, <2>2 DEF Buffers
  <2> QED BY <1>2, <2>1, <2>3 DEF many, to
<1>7. CASE a # "all"
  <2> DEFINE number == IF a = "none" THEN 0 ELSE -1
  <2>1. w = [ok |-> b.ok, text |-> b.text, size |-> b.size, nul |-> b.nul,
             past |-> b.past, odd |-> b.odd, n |-> number,
             chunks |-> IF final THEN 0 ELSE b.chunks, frames |-> b.frames, sent |-> b.sent,
             refused |-> TRUE]
    BY <1>1, <1>4, <1>5, <1>7
  <2>2. (IF final THEN 0 ELSE b.chunks) \in Nat /\ number \in Int /\ number <= 0
    BY <1>1
  <2> HIDE DEF number
  <2>3. w \in Buffers
    BY <1>1, <2>1, <2>2 DEF Buffers
  <2>4. Begun(b.chunks, b.frames) => Message(b.frames)
    BY <1>1, BegunMessage
  <2> QED BY <2>1, <2>2, <2>3, <2>4
<1> QED BY <1>6, <1>7

\* The text and its null character lie in the buffer, or there is none.
Lies(s, z) == Width(s) < z \/ (s = <<>> /\ z = 0)

\* Whatever is sent and grown in between: b has the same text as b0, its last piece still
\* in the buffer.
Follows(b0, b) ==
  /\ b \in Buffers
  /\ b.sent \o b.text = b0.sent \o b0.text
  /\ b.text = <<>> <=> b0.text = <<>>
  /\ b0.text # <<>> => Last(b.text) = Last(b0.text)
  /\ Lies(b0.text, b0.size) => Lies(b.text, b.size)
  /\ b.size = b0.size \/ (mine /\ b.size <= BufMax)
  /\ b0.refused => b.refused
  /\ b.past = b0.past /\ b0.odd \subseteq b.odd
  /\ Begun(b0.chunks, b0.frames) => Begun(b.chunks, b.frames)

\* write_some_json
LEMMA SomeWrittenFollows ==
  ASSUME NEW b0 \in Buffers, NEW b \in SomeWritten(b0)
  PROVE  /\ Follows(b0, b)
         /\ b.ok = b0.ok /\ b.size = b0.size /\ b.odd = b0.odd
         /\ Width(b.text) <= Width(b0.text)
         /\ ~eof /\ Short(b0.text) => b.refused \/ Width(b.text) <= 1
<1>1. /\ b0.text \in Text /\ b0.sent \in Text /\ b0.size \in Nat
      /\ Width(b0.text) \in Nat /\ Len(b0.text) \in Nat
  BY BufferFields, WidthNat, LenProperties DEF Text
<1>2. CASE eof \/ Len(b0.text) <= 1
  <2>1. b = b0
    BY <1>2 DEF SomeWritten
  <2>2. ASSUME ~eof, Short(b0.text) PROVE Width(b0.text) <= 1
    <3>1. CASE b0.text = <<>>
      BY <3>1, WidthOne
    <3>2. CASE b0.text # <<>>
      <4>1. /\ Len(b0.text) \in Nat \ {0} /\ Last(b0.text) \in Piece
            /\ Front(b0.text) \in Text /\ Len(Front(b0.text)) = Len(b0.text) - 1
            /\ b0.text = Front(b0.text) \o <<Last(b0.text)>>
        BY <1>1, <3>2, FrontLast
      <4>2. Len(Front(b0.text)) = 0
        BY <1>2, <2>2, <4>1
      <4>3. Front(b0.text) = <<>>
        BY <4>1, <4>2, EmptySeq DEF Text
      <4>4. Width(<<Last(b0.text)>>) = 1 /\ <<Last(b0.text)>> \in Text
        BY <2>2, <3>2, <4>1, WidthOne DEF Short
      <4>5. Width(<<>> \o <<Last(b0.text)>>) = 0 + 1
        BY <4>4, WidthOne, WidthConcat
      <4> QED BY <4>1, <4>3, <4>5
    <3> QED BY <3>1, <3>2
  <2> QED BY <1>1, <2>1, <2>2 DEF Follows
<1>3. CASE ~(eof \/ Len(b0.text) <= 1)
  <2> DEFINE f == Front(b0.text)
             x == Last(b0.text)
  <2>1. b0.text # <<>>
    BY <1>3, EmptySeq
  <2>2. f \in Text /\ x \in Piece /\ Len(f) = Len(b0.text) - 1 /\ b0.text = f \o <<x>>
    BY <1>1, <2>1, FrontLast
  <2> HIDE DEF f, x
  <2>3. Width(f) \in Nat \ {0}
    <3>1. Width(f) \in Nat /\ Width(f) >= Len(f) /\ Len(f) >= 1
      BY <1>1, <1>3, <2>2, WidthNat
    <3>2. Len(f) \in Nat
      BY <2>2, LenProperties DEF Text
    <3> QED BY <3>1, <3>2
  <2>4. /\ <<x>> \in Text /\ <<x>> # <<>> /\ Last(<<x>>) = x
        /\ Width(<<x>>) = x.n /\ Width(b0.text) = Width(f) + x.n /\ x.n \in Nat
    <3>1. <<x>> \in Text /\ Width(<<x>>) = x.n
      BY <2>2, WidthOne
    <3>2. Width(f \o <<x>>) = Width(f) + x.n
      BY <2>2, <3>1, WidthConcat
    <3>3. <<x>> # <<>> /\ Last(<<x>>) = x
      BY DEF Last
    <3>4. x.n \in Nat
      BY <2>2 DEF Piece
    <3> QED BY <2>2, <3>1, <3>2, <3>3, <3>4
  <2>5. PICK w \in Writes(b0, f, FALSE) :
          b = IF w.n > 0 THEN [w EXCEPT !.text = <<x>>, !.nul = @ + Idx(b0) - 1] ELSE w
    BY <1>3 DEF SomeWritten, f, x
  <2>6. /\ w \in Buffers
        /\ w.ok = b0.ok /\ w.text = b0.text /\ w.size = b0.size
        /\ w.past = b0.past /\ w.odd = b0.odd
        /\ \/ w.n = Width(f) /\ w.sent = b0.sent \o f /\ w.refused = b0.refused
           \/ w.n <= 0 /\ w.sent = b0.sent /\ w.refused
        /\ Begun(b0.chunks, b0.frames) => Begun(w.chunks, w.frames)
    BY <2>2, WritesFacts
  <2>7. CASE w.n > 0
    <3>1. w.n = Width(f) /\ w.sent = b0.sent \o f /\ w.refused = b0.refused
      BY <2>3, <2>6, <2>7, BufferFields
    <3> DEFINE k == w.nul + Idx(b0) - 1
    <3>2. b = [w EXCEPT !.text = <<x>>, !.nul = k]
      BY <2>5, <2>7
    <3>9. k \in Nat
      BY <1>1, <2>3, <2>4, <2>6, BufferFields DEF Idx
    <3> HIDE DEF k
    <3>3. /\ b \in Buffers /\ b.text = <<x>> /\ b.ok = w.ok /\ b.size = w.size
          /\ b.past = w.past /\ b.odd = w.odd
          /\ b.sent = w.sent /\ b.refused = w.refused /\ b.chunks = w.chunks /\ b.frames = w.frames
      BY <2>4, <2>6, <3>2, <3>9 DEF Buffers
    <3>4. b.sent \o b.text = b0.sent \o b0.text
      <4>1. (b0.sent \o f) \o <<x>> = b0.sent \o (f \o <<x>>)
        <5> DEFINE p == b0.sent
                   l == <<x>>
        <5>1. p \in Text /\ f \in Text /\ l \in Text
          BY <1>1, <2>2, <2>4
        <5> HIDE DEF p, l
        <5>2. (p \o f) \o l = p \o (f \o l)
          BY <5>1, ConcatAssociative DEF Text
        <5> QED BY <5>2 DEF p, l
      <4> QED BY <2>2, <3>1, <3>3, <4>1
    <3>5. Lies(b0.text, b0.size) => Lies(b.text, b.size)
      BY <1>1, <2>1, <2>3, <2>4, <2>6, <3>3 DEF Lies
    <3>6. Follows(b0, b)
      BY <2>1, <2>4, <2>6, <3>1, <3>3, <3>4, <3>5 DEF Follows, x
    <3>7. Width(b.text) <= Width(b0.text)
      BY <2>3, <2>4, <3>3
    <3>8. Short(b0.text) => Width(b.text) <= 1
      BY <2>1, <2>4, <3>3 DEF Short, x
    <3> QED BY <2>6, <3>3, <3>6, <3>7, <3>8
  <2>8. CASE ~(w.n > 0)
    <3>1. w.sent = b0.sent /\ w.refused
      BY <2>3, <2>6, <2>8
    <3>2. b = w
      BY <2>5, <2>8
    <3>3. Follows(b0, b)
      BY <2>6, <3>1, <3>2 DEF Follows
    <3> QED BY <1>1, <2>6, <3>1, <3>2, <3>3
  <2> QED BY <2>7, <2>8
<1> QED BY <1>2, <1>3

\* realloc_buffer.  It is asked for more than the text has.
LEMMA ReallocFollows ==
  ASSUME NEW b0 \in Buffers, b0.ok, mine, NEW new \in Nat,
         Lies(b0.text, b0.size) => new > Width(b0.text),
         NEW b \in Realloc(b0, new)
  PROVE  /\ Follows(b0, b)
         /\ b.text = b0.text
         /\ b.ok => b.size = new
         /\ b.odd = b0.odd
         /\ ~b.ok => b.refused \/ new > BufMax
<1>1. /\ b0.text \in Text /\ b0.size \in Nat /\ Width(b0.text) \in Nat
  BY BufferFields, WidthNat
<1>2. CASE new > BufMax
  <2>1. b = [b0 EXCEPT !.ok = FALSE]
    BY <1>2 DEF Realloc
  <2>2. /\ b \in Buffers /\ ~b.ok /\ b.text = b0.text /\ b.size = b0.size /\ b.sent = b0.sent
        /\ b.past = b0.past /\ b.odd = b0.odd /\ b.refused = b0.refused /\ b.chunks = b0.chunks /\ b.frames = b0.frames
    BY <2>1 DEF Buffers
  <2> QED BY <1>2, <2>2 DEF Follows
<1>3. CASE ~(new > BufMax) /\ b = [b0 EXCEPT !.ok = FALSE, !.refused = TRUE]
  <2>2. /\ b \in Buffers /\ ~b.ok /\ b.text = b0.text /\ b.size = b0.size /\ b.sent = b0.sent
        /\ b.past = b0.past /\ b.odd = b0.odd /\ b.refused /\ b.chunks = b0.chunks /\ b.frames = b0.frames
    BY <1>3 DEF Buffers
  <2> QED BY <2>2 DEF Follows
<1>4. CASE ~(new > BufMax) /\ b = [b0 EXCEPT !.size = new, !.nul = 0]
  <2>2. /\ b \in Buffers /\ b.ok /\ b.text = b0.text /\ b.size = new /\ b.sent = b0.sent
        /\ b.past = b0.past /\ b.odd = b0.odd /\ b.refused = b0.refused /\ b.chunks = b0.chunks /\ b.frames = b0.frames
    BY <1>4 DEF Buffers
  <2>3. new <= BufMax
    BY <1>4, SizesAssumption
  <2>4. Lies(b0.text, b0.size) => Lies(b.text, b.size)
    BY <2>2 DEF Lies
  <2> QED BY <2>2, <2>3, <2>4 DEF Follows
<1> QED BY <1>2, <1>3, <1>4 DEF Realloc

\* buffer_grow: there is room for as many characters, or the heap, the call-back or the
\* owner of the buffer has refused, or not even with an empty buffer is there enough.
LEMMA GrownFollows ==
  ASSUME NEW b0 \in Buffers, b0.ok, NEW required \in Nat \ {0}, NEW b \in Grown(b0, required)
  PROVE  /\ Follows(b0, b)
         /\ b.ok => Free(b) >= required
         /\ b.odd = b0.odd
         /\ ~b.ok /\ ~eof /\ Short(b0.text) => b.refused \/ ~mine \/ required + 1 > BufMax
         /\ Lies(b0.text, b0.size) \/ b.ok => Lies(b.text, b.size)
<1>1. PICK c \in SomeWritten(b0) :
        b \in IF c.text # <<>> /\ required + 20 < Free(c) THEN {c}
              ELSE IF ~mine THEN {[c EXCEPT !.ok = FALSE]}
              ELSE Realloc(c, required + Idx(c))
  BY DEF Grown
<1>2. /\ Follows(b0, c) /\ c.ok /\ c.size = b0.size /\ c.odd = b0.odd
      /\ ~eof /\ Short(b0.text) => c.refused \/ Width(c.text) <= 1
  BY SomeWrittenFollows
<1>3. c \in Buffers /\ Width(c.text) \in Nat /\ c.size \in Nat
  BY <1>2, BufferFields, WidthNat DEF Follows
<1>4. CASE c.text # <<>> /\ required + 20 < Free(c)
  <2>1. b = c
    BY <1>1, <1>4
  <2>2. Free(c) >= required /\ Lies(c.text, c.size)
    BY <1>3, <1>4 DEF Free, Idx, Lies
  <2> QED BY <1>2, <2>1, <2>2
<1>5. CASE ~(c.text # <<>> /\ required + 20 < Free(c)) /\ ~mine
  <2>1. b = [c EXCEPT !.ok = FALSE]
    BY <1>1, <1>5
  <2>2. /\ b \in Buffers /\ ~b.ok /\ b.text = c.text /\ b.size = c.size /\ b.sent = c.sent
        /\ b.past = c.past /\ b.odd = c.odd /\ b.refused = c.refused /\ b.chunks = c.chunks /\ b.frames = c.frames
    BY <1>3, <2>1 DEF Buffers
  <2>3. Follows(b0, b)
    BY <1>2, <2>2 DEF Follows
  <2> QED BY <1>2, <1>5, <2>2, <2>3 DEF Follows
<1>6. CASE ~(c.text # <<>> /\ required + 20 < Free(c)) /\ mine
  <2> DEFINE new == required + Idx(c)
  <2>1. b \in Realloc(c, new)
    BY <1>1, <1>6
  <2>2. new \in Nat /\ new > Width(c.text) /\ new = required + Width(c.text)
    BY <1>3 DEF Idx
  <2> HIDE DEF new
  <2>3. /\ Follows(c, b) /\ b.text = c.text /\ b.odd = c.odd
        /\ b.ok => b.size = new
        /\ ~b.ok => b.refused \/ new > BufMax
    BY <1>2, <1>3, <1>6, <2>1, <2>2, ReallocFollows
  <2>4. Follows(b0, b)
    BY <1>2, <2>3 DEF Follows
  <2>5. b.ok => Free(b) >= required
    BY <1>3, <2>2, <2>3 DEF Free, Idx
  <2>6. ASSUME ~b.ok, ~eof, Short(b0.text), ~b.refused PROVE required + 1 > BufMax
    <3>1. ~c.refused
      BY <2>3, <2>6 DEF Follows
    <3>2. Width(c.text) <= 1 /\ new > BufMax
      BY <1>2, <2>3, <2>6, <3>1
    <3> QED BY <1>3, <2>2, <3>2, SizesAssumption
  <2>7. b.ok => Lies(b.text, b.size)
    BY <1>3, <2>2, <2>3 DEF Lies
  <2> QED BY <1>2, <2>3, <2>4, <2>5, <2>6, <2>7 DEF Follows
<1> QED BY <1>4, <1>5, <1>6
--------------------------------------------------------------------------------
(* The invariant *)

Brackets == {"{", "["}

Types ==
  /\ text \in Text /\ sent \in Text /\ doc \in Text /\ size \in Nat
  /\ mine \in BOOLEAN /\ nul \in Nat /\ eof \in BOOLEAN /\ past \in Nat /\ odd \subseteq Causes
  /\ refused \in BOOLEAN /\ nest \in Seq(Brackets)
  /\ chunks \in Nat /\ frames \in Seq(Frames)
  /\ state \in {"building", "failed", "aborted", "written", "destroyed"}

\* The text in the buffer ends with one character, and there is one whenever anything has
\* been asked for; the frames of a message that is not ended await more.
Shape ==
  /\ Types
  /\ Short(text)
  /\ state = "building" => ~eof /\ (text = <<>> <=> doc = <<>>) /\ (doc = <<>> => nest = <<>>)
  /\ IF eof THEN Message(frames) ELSE Begun(chunks, frames)
  /\ depth = Len(nest)

\* No call has written something else than it was asked for.
Asked(causes) == causes \cap {"number", "append"} = {}

\* TextAsAsked, of an empty buffer too.
TextInv ==
  Asked(odd) => /\ state = "building" => sent \o text = doc
                /\ state = "failed" /\ text # <<>> => sent \o text = doc

\* The calls that may write behind the end, and those that stop the program.
Past(many, causes, st) ==
  many > 0 => \/ "append" \in causes
              \/ many = 1 /\ st = "aborted" /\ causes \cap {"long", "exact"} # {}

SizeInv ==
  /\ Past(past, odd, state)
  /\ Lies(text, size)
  /\ size <= BufMax \/ (~mine /\ size \in UserSizes)

\* The buffer as it is.
LEMMA NowFacts ==
  ASSUME Types
  PROVE  /\ Now \in Buffers /\ Now.ok /\ Now.text = text /\ Now.size = size /\ Now.sent = sent
         /\ Now.refused = refused /\ Now.chunks = chunks /\ Now.frames = frames
         /\ Now.past = past /\ Now.odd = odd
         /\ Follows(Now, Now)
<1>1. /\ Now \in Buffers /\ Now.ok /\ Now.text = text /\ Now.size = size /\ Now.sent = sent
      /\ Now.refused = refused /\ Now.chunks = chunks /\ Now.frames = frames
      /\ Now.past = past /\ Now.odd = odd
  BY DEF Now, Types, Buffers
<1> QED BY <1>1 DEF Follows

\* not_enough_buffer
LEMMA RoomFollows ==
  ASSUME Types, NEW required \in Nat \ {0}, NEW b \in Room(required)
  PROVE  /\ Follows(Now, b)
         /\ b.ok => Free(b) >= required
         /\ b.odd = odd
         /\ ~b.ok /\ ~eof /\ Short(text) => b.refused \/ ~mine \/ required + 1 > BufMax
         /\ Lies(text, size) \/ b.ok => Lies(b.text, b.size)
<1>1. /\ Now \in Buffers /\ Now.ok /\ Now.text = text /\ Now.size = size /\ Now.odd = odd
      /\ Follows(Now, Now) /\ Width(text) \in Nat /\ size \in Nat
  BY NowFacts, WidthNat DEF Types
<1>2. CASE Free(Now) < required
  <2>1. b \in Grown(Now, required)
    BY <1>2 DEF Room
  <2> QED BY <1>1, <2>1, GrownFollows
<1>3. CASE ~(Free(Now) < required)
  <2>1. b = Now
    BY <1>3 DEF Room
  <2>2. Free(Now) = size - Width(text)
    BY <1>1 DEF Free, Idx
  <2>3. Free(b) >= required /\ Lies(b.text, b.size)
    BY <1>1, <1>3, <2>1, <2>2 DEF Lies
  <2> QED BY <1>1, <2>1, <2>3
<1> QED BY <1>2, <1>3

\* A step of the caller that leaves the buffer e.
LEMMA BufferStep ==
  ASSUME Shape, state = "building", NEW e \in Buffers, Buffer(e), Short(e.text),
         Begun(chunks, frames) => Begun(e.chunks, e.frames),
         doc' \in Text, nest' \in Seq(Brackets), depth' = Len(nest'),
         mine' = mine, eof' = eof,
         state' \in {"building", "failed", "aborted"},
         state' = "building" => (e.text = <<>> <=> doc' = <<>>) /\ (doc' = <<>> => nest' = <<>>)
  PROVE  /\ Shape'
         /\ (/\ SizeInv /\ Lies(e.text, e.size) /\ Past(e.past, e.odd, state')
             /\ e.size = size \/ (mine /\ e.size <= BufMax)) => SizeInv'
<1>1. /\ e.text \in Text /\ e.size \in Nat /\ e.nul \in Nat /\ e.past \in Nat /\ e.odd \subseteq Causes
      /\ e.chunks \in Nat /\ e.frames \in Seq(Frames) /\ e.sent \in Text
      /\ e.refused \in BOOLEAN /\ Width(e.text) \in Nat
  BY BufferFields, WidthNat
<1>2. /\ text' = e.text /\ size' = e.size /\ nul' = e.nul
      /\ chunks' = e.chunks /\ frames' = e.frames /\ sent' = e.sent /\ refused' = e.refused
      /\ past' = e.past /\ odd' = e.odd
  BY DEF Buffer, Wrote
<1>3. ~eof /\ Begun(chunks', frames')
  BY <1>2 DEF Shape
<1>4. Types'
  BY <1>1, <1>2 DEF Shape, Types
<1>5. Short(text')
  BY <1>2
<1>6. state' = "building" =>
        ~eof' /\ (text' = <<>> <=> doc' = <<>>) /\ (doc' = <<>> => nest' = <<>>)
  BY <1>2, <1>3
<1>7. Shape'
  BY <1>3, <1>4, <1>5, <1>6 DEF Shape
<1>8. ASSUME SizeInv, Lies(e.text, e.size), Past(e.past, e.odd, state'),
             e.size = size \/ (mine /\ e.size <= BufMax)
      PROVE  SizeInv'
  BY <1>2, <1>8 DEF SizeInv
<1> QED BY <1>7, <1>8

\* What has been written behind the end stays, and what has been noted.
LEMMA PastStays ==
  ASSUME SizeInv, state = "building", NEW causes, odd \subseteq causes, NEW st
  PROVE  Past(past, causes, st)
BY DEF SizeInv, Past

\* Why a call may fail and why it may stop the program.
Excused(b, outcome) ==
  \/ outcome = "building" \/ b.refused \/ ~mine
  \/ outcome = "failed" /\ "again" \in b.odd
  \/ outcome = "aborted" /\ b.odd \cap {"long", "exact", "far"} # {}

\* A call that asks for nothing more: it fails, aborts, or has only moved the text.
LEMMA GivesKeeps ==
  ASSUME Shape, state = "building", NEW b, Follows(Now, b),
         NEW outcome \in {"building", "failed", "aborted"}, Gives(b, outcome)
  PROVE  /\ Shape'
         /\ TextInv => TextInv'
         /\ SizeInv => SizeInv'
         /\ Excused(b, outcome) => OnlyRefusalFails'
<1>1. /\ Now \in Buffers /\ Now.text = text /\ Now.size = size /\ Now.sent = sent
      /\ Now.chunks = chunks /\ Now.frames = frames /\ Now.past = past /\ Now.odd = odd
  BY NowFacts DEF Shape
<1>2. /\ b \in Buffers /\ b.sent \o b.text = sent \o text /\ (b.text = <<>> <=> text = <<>>)
      /\ text # <<>> => Last(b.text) = Last(text)
      /\ Begun(chunks, frames) => Begun(b.chunks, b.frames)
      /\ b.size = size \/ (mine /\ b.size <= BufMax)
      /\ b.past = past /\ odd \subseteq b.odd /\ (Lies(text, size) => Lies(b.text, b.size))
  BY <1>1 DEF Follows
<1>3. Buffer(b) /\ state' = outcome /\ UNCHANGED <<mine, depth, eof, nest, doc>>
  BY DEF Gives
<1>4. Short(b.text)
  BY <1>2 DEF Shape, Short
<1>5. Shape' /\ (SizeInv => SizeInv')
  <2>1. /\ doc' \in Text /\ nest' \in Seq(Brackets) /\ depth' = Len(nest')
        /\ mine' = mine /\ eof' = eof /\ state' \in {"building", "failed", "aborted"}
        /\ (b.text = <<>> <=> doc' = <<>>) /\ (doc' = <<>> => nest' = <<>>)
    BY <1>2, <1>3 DEF Shape, Types
  <2>2. SizeInv => Past(b.past, b.odd, state') /\ Lies(b.text, b.size)
    BY <1>2, PastStays DEF SizeInv
  <2> QED BY <1>2, <1>3, <1>4, <2>1, <2>2, BufferStep
<1>6. TextInv => TextInv'
  <2>1. Asked(odd') => Asked(odd)
    BY <1>2, <1>3 DEF Asked, Buffer
  <2> QED BY <1>2, <1>3, <2>1 DEF TextInv, Buffer, Wrote
<1>7. Excused(b, outcome) => OnlyRefusalFails'
  BY <1>3 DEF OnlyRefusalFails, Excused, Buffer, Wrote
<1> QED BY <1>5, <1>6, <1>7

\* A buffer with a cause noted.
LEMMA NotedFollows ==
  ASSUME NEW a, NEW b, Follows(a, b), NEW cause \in Causes
  PROVE  LET c == Noted(b, cause)
         IN  /\ Follows(a, c) /\ c.ok = b.ok /\ c.text = b.text /\ c.size = b.size
             /\ c.refused = b.refused /\ c.odd = b.odd \union {cause}
<1> DEFINE c == Noted(b, cause)
<1>1. b \in Buffers
  BY DEF Follows
<1>2. /\ c \in Buffers /\ c.ok = b.ok /\ c.text = b.text /\ c.size = b.size /\ c.sent = b.sent
      /\ c.refused = b.refused /\ c.chunks = b.chunks /\ c.frames = b.frames
      /\ c.past = b.past /\ c.odd = b.odd \union {cause}
  BY <1>1 DEF Noted, Buffers
<1> HIDE DEF c
<1>3. Follows(a, c)
  BY <1>2 DEF Follows
<1> QED BY <1>2, <1>3 DEF c

\* A buffer with another text.
Retext(b, s) == [b EXCEPT !.text = s, !.nul = 0]

\* What of the buffer another text changes.
LEMMA RetextFacts ==
  ASSUME NEW b \in Buffers, NEW s \in Text, NEW e, e = Retext(b, s) \/ e = [b EXCEPT !.text = s]
  PROVE  /\ e \in Buffers /\ e.ok = b.ok /\ e.text = s /\ e.size = b.size /\ e.sent = b.sent
         /\ e.refused = b.refused /\ e.chunks = b.chunks /\ e.frames = b.frames
         /\ e.past = b.past /\ e.odd = b.odd
<1>1. CASE e = Retext(b, s)
  BY <1>1 DEF Retext, Buffers
<1>2. CASE e = [b EXCEPT !.text = s]
  BY <1>2 DEF Buffers
<1> QED BY <1>1, <1>2

\* A text that does not fit: one character may lie behind the end, and the program stops.
LEMMA OverflowKeeps ==
  ASSUME Shape, state = "building", NEW b, Follows(Now, b), Overflows(b)
  PROVE  /\ Shape'
         /\ TextInv => TextInv'
         /\ b.odd \cap {"long", "exact"} # {} => (SizeInv => SizeInv') /\ OnlyRefusalFails'
<1>1. PICK over \in {0, 1} : Gives(Behind(b, over), "aborted")
  BY DEF Overflows
<1> DEFINE e == Behind(b, over)
<1>2. /\ Now.text = text /\ Now.size = size /\ Now.sent = sent
      /\ Now.chunks = chunks /\ Now.frames = frames /\ Now.past = past /\ Now.odd = odd
  BY NowFacts DEF Shape
<1>3. /\ b \in Buffers /\ (text # <<>> => Last(b.text) = Last(text))
      /\ b.text = <<>> <=> text = <<>>
      /\ Begun(chunks, frames) => Begun(b.chunks, b.frames)
      /\ b.size = size \/ (mine /\ b.size <= BufMax)
      /\ b.past = past /\ odd \subseteq b.odd /\ (Lies(text, size) => Lies(b.text, b.size))
  BY <1>2 DEF Follows
<1>4. /\ e \in Buffers /\ e.text = b.text /\ e.size = b.size /\ e.odd = b.odd
      /\ e.chunks = b.chunks /\ e.frames = b.frames
      /\ e.past = b.past \/ (b.past = 0 /\ e.past = 1)
  <2>1. b.past \in Nat /\ over \in Nat
    BY <1>3, BufferFields
  <2>2. CASE over > b.past
    <3>1. e = [b EXCEPT !.past = over] /\ b.past = 0 /\ over = 1
      BY <1>1, <2>1, <2>2 DEF Behind
    <3> QED BY <1>3, <2>1, <3>1 DEF Buffers
  <2>3. CASE ~(over > b.past)
    BY <1>3, <2>3 DEF Behind
  <2> QED BY <2>2, <2>3
<1>5. Gives(e, "aborted")
  BY <1>1
<1> HIDE DEF e
<1>6. Buffer(e) /\ state' = "aborted" /\ UNCHANGED <<mine, depth, eof, nest, doc>>
  BY <1>5 DEF Gives
<1>7. Short(e.text)
  BY <1>3, <1>4 DEF Shape, Short
<1>8. /\ doc' \in Text /\ nest' \in Seq(Brackets) /\ depth' = Len(nest')
      /\ mine' = mine /\ eof' = eof /\ state' \in {"building", "failed", "aborted"}
      /\ state' # "building"
  BY <1>6 DEF Shape, Types
<1>9. /\ Shape'
      /\ (/\ SizeInv /\ Lies(e.text, e.size) /\ Past(e.past, e.odd, state')
          /\ e.size = size \/ (mine /\ e.size <= BufMax)) => SizeInv'
  BY <1>3, <1>4, <1>6, <1>7, <1>8, BufferStep
<1>10. ASSUME b.odd \cap {"long", "exact"} # {}, SizeInv PROVE SizeInv'
  <2>1. Past(past, b.odd, state')
    BY <1>3, <1>10, PastStays
  <2>2. Past(e.past, e.odd, state')
    BY <1>3, <1>4, <1>6, <1>10, <2>1 DEF Past
  <2> QED BY <1>3, <1>4, <1>9, <1>10, <2>2 DEF SizeInv
<1>11. TextInv'
  BY <1>6 DEF TextInv
<1>12. b.odd \cap {"long", "exact"} # {} => OnlyRefusalFails'
  BY <1>4, <1>6 DEF OnlyRefusalFails, Buffer
<1> QED BY <1>9, <1>10, <1>11, <1>12

\* A text is appended to what the buffer b holds: that is what is left in it.
LEMMA Appends ==
  ASSUME NEW b \in Buffers, NEW new \in Text, new # <<>>,
         NEW e \in Buffers, e.text = b.text \o new, e.size = b.size, e.sent = b.sent
  PROVE  /\ e.text # <<>> /\ Last(e.text) = Last(new)
         /\ e.sent \o e.text = (b.sent \o b.text) \o new
         /\ Free(e) = Free(b) - Width(new)
         /\ Free(e) \in Int
         /\ Free(e) > 0 => Lies(e.text, e.size)
<1> DEFINE s == b.text
           p == b.sent
           u == e.text
           z == e.size
<1>1. s \in Text /\ p \in Text /\ z \in Nat /\ u \in Text
  BY BufferFields
<1> HIDE DEF s, p
<1>2. u # <<>> /\ Last(u) = Last(new) /\ Width(u) = Width(s) + Width(new)
  <2>1. u = s \o new
    BY DEF s
  <2> HIDE DEF u
  <2> QED BY <1>1, <2>1, ConcatLast, WidthConcat
<1>3. p \o (s \o new) = (p \o s) \o new
  BY <1>1, ConcatAssociative DEF Text
<1>4. e.sent \o e.text = (b.sent \o b.text) \o new
  BY <1>3 DEF p, s
<1>5. Free(e) = z - Width(u) /\ Free(b) = z - Width(s)
  BY DEF Free, Idx, s
<1> HIDE DEF u, z
<1>6. Width(s) \in Nat /\ Width(new) \in Nat /\ Width(u) \in Nat
  BY <1>1, WidthNat
<1>7. Free(e) = Free(b) - Width(new) /\ Free(e) \in Int
  BY <1>1, <1>2, <1>5, <1>6
<1>8. Free(e) > 0 => Lies(u, z)
  BY <1>1, <1>5, <1>6 DEF Lies
<1> QED BY <1>2, <1>4, <1>7, <1>8 DEF u, z

\* There is room for the text, or it is a number or a value too long for the room made.
Roomed(rooms, new) ==
  \A b \in rooms : b.ok /\ Width(new) >= Free(b) => b.odd \cap {"long", "exact"} # {}

\* A call that appends its text, fails, or stops the program.
LEMMA AddsKeeps ==
  ASSUME Shape, state = "building", NEW rooms, \A b \in rooms : Follows(Now, b),
         NEW new \in Text, new # <<>>, Last(new).n = 1,
         NEW brackets \in Seq(Brackets), NEW deeper, depth + deeper = Len(brackets),
         Adds(rooms, new, deeper, brackets)
  PROVE  /\ Shape'
         /\ TextInv => TextInv'
         /\ Roomed(rooms, new) /\ SizeInv => SizeInv'
         /\ Roomed(rooms, new) /\ (\A b \in rooms : b.ok \/ Excused(b, "failed"))
              => OnlyRefusalFails'
<1>1. PICK b \in rooms :
        IF ~b.ok THEN Fails(b)
        ELSE IF Width(new) >= Free(b) THEN Overflows(b)
        ELSE /\ Buffer([b EXCEPT !.text = @ \o new, !.nul = 0])
             /\ doc' = doc \o new
             /\ depth' = depth + deeper
             /\ nest' = brackets
             /\ UNCHANGED <<mine, eof, state>>
  BY DEF Adds
<1>2. Follows(Now, b)
  BY <1>1
<1>3. CASE ~b.ok
  <2>1. PICK outcome \in {"failed", state} : Gives(b, outcome)
    BY <1>1, <1>3 DEF Fails
  <2>2. /\ Shape'
        /\ TextInv => TextInv'
        /\ SizeInv => SizeInv'
        /\ Excused(b, outcome) => OnlyRefusalFails'
    BY <1>2, <2>1, GivesKeeps
  <2>3. Excused(b, "failed") => Excused(b, outcome)
    BY <2>1 DEF Excused
  <2> QED BY <1>3, <2>2, <2>3
<1>5. CASE b.ok /\ Width(new) >= Free(b)
  <2>1. Overflows(b)
    BY <1>1, <1>5
  <2>2. /\ Shape'
        /\ TextInv => TextInv'
        /\ b.odd \cap {"long", "exact"} # {} => (SizeInv => SizeInv') /\ OnlyRefusalFails'
    BY <1>2, <2>1, OverflowKeeps
  <2> QED BY <1>5, <2>2 DEF Roomed
<1>4. CASE b.ok /\ ~(Width(new) >= Free(b))
  <2> DEFINE e == [b EXCEPT !.text = @ \o new, !.nul = 0]
  <2>1. /\ Buffer(e) /\ doc' = doc \o new /\ depth' = depth + deeper
        /\ nest' = brackets /\ UNCHANGED <<mine, eof, state>>
    BY <1>1, <1>4
  <2>2. /\ Now.text = text /\ Now.size = size /\ Now.sent = sent /\ Now.chunks = chunks
        /\ Now.frames = frames /\ Now.past = past /\ Now.odd = odd
    BY NowFacts DEF Shape
  <2>3. b \in Buffers /\ b.sent \o b.text = sent \o text /\ b.past = past /\ odd \subseteq b.odd
    BY <1>2, <2>2 DEF Follows
  <2>4. /\ e \in Buffers
        /\ e.text = b.text \o new /\ e.size = b.size /\ e.sent = b.sent
        /\ e.chunks = b.chunks /\ e.frames = b.frames /\ e.past = b.past /\ e.odd = b.odd
        /\ e.text # <<>> /\ Last(e.text) = Last(new)
        /\ e.sent \o e.text = (b.sent \o b.text) \o new
        /\ Free(e) = Free(b) - Width(new) /\ Free(e) \in Int
        /\ Free(e) > 0 => Lies(e.text, e.size)
    <3> DEFINE u == b.text \o new
    <3>1. u \in Text
      BY <2>3, BufferFields, WidthConcat
    <3>2. e = Retext(b, u)
      BY DEF Retext
    <3> HIDE DEF e, u
    <3>3. /\ e \in Buffers /\ e.text = u /\ e.size = b.size /\ e.sent = b.sent
          /\ e.chunks = b.chunks /\ e.frames = b.frames /\ e.past = b.past /\ e.odd = b.odd
      BY <2>3, <3>1, <3>2, RetextFacts
    <3> QED BY <2>3, <3>3, Appends DEF u
  <2> HIDE DEF e
  <2>5. doc' \in Text /\ doc' # <<>>
    BY <2>1, ConcatLast DEF Shape, Types
  <2>6. /\ Shape'
        /\ (/\ SizeInv /\ Lies(e.text, e.size) /\ Past(e.past, e.odd, state')
            /\ e.size = size \/ (mine /\ e.size <= BufMax)) => SizeInv'
    <3>1. Short(e.text) /\ (Begun(chunks, frames) => Begun(e.chunks, e.frames))
      BY <1>2, <2>2, <2>4 DEF Short, Follows
    <3> QED BY <2>1, <2>4, <2>5, <3>1, BufferStep
  <2>7. ASSUME TextInv, Asked(odd') PROVE TextInv'
    <3>4. odd' = e.odd
      BY <2>1 DEF Buffer
    <3>5. Asked(odd)
      BY <2>3, <2>4, <2>7, <3>4 DEF Asked
    <3>1. text' = e.text /\ sent' = e.sent /\ sent \o text = doc /\ state' = "building"
      BY <2>1, <2>7, <3>5 DEF Buffer, Wrote, TextInv
    <3>2. sent' \o text' = doc'
      BY <2>1, <2>3, <2>4, <3>1
    <3> QED BY <3>1, <3>2 DEF TextInv
  <2>10. TextInv => TextInv'
    BY <2>7 DEF TextInv
  <2>8. ASSUME SizeInv PROVE SizeInv'
    <3>1. Width(new) \in Nat /\ Free(b) \in Int
      BY <2>3, BufferFields, WidthNat DEF Free, Idx
    <3>4. Width(new) < Free(b)
      BY <1>4, <3>1
    <3>5. Past(e.past, e.odd, state')
      BY <2>3, <2>4, <2>8, PastStays
    <3>2. Lies(e.text, e.size)
      BY <2>4, <3>1, <3>4
    <3>3. e.size = size \/ (mine /\ e.size <= BufMax)
      BY <1>2, <2>2, <2>4 DEF Follows
    <3> QED BY <2>6, <2>8, <3>2, <3>3, <3>5
  <2>9. OnlyRefusalFails'
    BY <2>1 DEF OnlyRefusalFails
  <2> QED BY <1>4, <2>6, <2>10, <2>8, <2>9
<1> QED BY <1>3, <1>4, <1>5
--------------------------------------------------------------------------------
(* Steps *)

\* No call asks for more than the largest buffer has when there is one character in it.
Roomy ==
  /\ 21 <= BufMax
  /\ \A k \in Lengths : k + 23 <= BufMax
  /\ \A k, v \in Lengths : k + v + 11 <= BufMax
  /\ \A d \in Digits : d + 11 <= BufMax
  /\ \A r \in Expected : r + 1 <= BufMax

\* What a step preserves.
Keeps ==
  /\ Shape'
  /\ TextInv => TextInv'
  /\ SizeInv => SizeInv'
  /\ Roomy => OnlyRefusalFails'

\* A call that makes room and appends its text.
LEMMA RoomKeeps ==
  ASSUME Shape, state = "building", NEW required \in Nat \ {0},
         NEW new \in Text, new # <<>>, Last(new).n = 1,
         Width(new) < required,
         Roomy => required + 1 <= BufMax,
         NEW brackets \in Seq(Brackets), NEW deeper, depth + deeper = Len(brackets),
         Adds(Room(required), new, deeper, brackets)
  PROVE  Keeps
<1> DEFINE rooms == Room(required)
<1>1. ASSUME NEW b \in rooms
      PROVE  /\ Follows(Now, b)
             /\ b.ok => Free(b) >= required
             /\ ~b.ok => b.refused \/ ~mine \/ required + 1 > BufMax
  BY RoomFollows DEF Shape
<1>2. ASSUME NEW b \in rooms, b.ok PROVE Width(new) < Free(b)
  <2>1. b \in Buffers
    BY <1>1, <1>2 DEF Follows
  <2>2. Width(new) \in Nat /\ Free(b) \in Int
    BY <2>1, BufferFields, WidthNat DEF Free, Idx
  <2> QED BY <1>1, <1>2, <2>2
<1>3. ASSUME Roomy, NEW b \in rooms PROVE b.ok \/ Excused(b, "failed")
  <2>1. b.ok \/ b.refused \/ ~mine
    BY <1>1, <1>3, SizesAssumption
  <2> QED BY <2>1 DEF Excused
<1>4. Adds(rooms, new, deeper, brackets)
  OBVIOUS
<1>6. Roomed(rooms, new)
  <2>1. ASSUME NEW b \in rooms, b.ok, Width(new) >= Free(b) PROVE FALSE
    <3>1. b \in Buffers
      BY <1>1, <2>1 DEF Follows
    <3>2. Width(new) \in Nat /\ Free(b) \in Int
      BY <3>1, BufferFields, WidthNat DEF Free, Idx
    <3> QED BY <1>2, <2>1, <3>2
  <2> HIDE DEF rooms
  <2> QED BY <2>1 DEF Roomed
<1> HIDE DEF rooms
<1>5. /\ Shape'
      /\ TextInv => TextInv'
      /\ Roomed(rooms, new) /\ SizeInv => SizeInv'
      /\ Roomed(rooms, new) /\ (\A b \in rooms : b.ok \/ Excused(b, "failed"))
           => OnlyRefusalFails'
  BY <1>1, <1>4, AddsKeeps
<1> QED BY <1>3, <1>5, <1>6 DEF Keeps

\* A text of the caller that ends with a character.
LEMMA NewText ==
  ASSUME NEW s \in Text, NEW c \in Signs
  PROVE  LET new == s \o Char(c)
         IN  new \in Text /\ new # <<>> /\ Last(new).n = 1 /\ Width(new) = Width(s) + 1
<1>1. Last(s \o Char(c)) = [c |-> c, n |-> 1]
  BY CharLast
<1>2. Last(s \o Char(c)).n = 1
  BY <1>1
<1> QED BY <1>2, CharLast

\* The same for a character alone.
LEMMA NewChar ==
  ASSUME NEW c \in Signs
  PROVE  Char(c) \in Text /\ Char(c) # <<>> /\ Last(Char(c)).n = 1 /\ Width(Char(c)) = 1
<1>1. Char(c) = <<[c |-> c, n |-> 1]>>
  BY DEF Char
<1>2. Char(c) # <<>> /\ Last(Char(c)) = [c |-> c, n |-> 1]
  BY <1>1 DEF Last
<1>3. Last(Char(c)).n = 1
  BY <1>2
<1> QED BY <1>2, <1>3, NewTexts

\* The rooms of names and of pairs.
LEMMA Rooms ==
  /\ \A k, v \in Nat : PairRoom(k, v) = Room(k + v + 10) /\ k + v + 10 \in Nat \ {0}
  /\ \A k \in Nat : NameRoom(k) = Room(k + 20) /\ k + 20 \in Nat \ {0}
  /\ NameRoom(0) = Room(20) /\ 20 \in Nat \ {0} /\ (Roomy => 20 + 1 <= BufMax)
<1>1. \A k \in Nat : k + 10 + 10 = k + 20
  OBVIOUS
<1>2. 0 + 10 + 10 = 20
  OBVIOUS
<1>3. Roomy => 20 + 1 <= BufMax
  BY SizesAssumption DEF Roomy
<1> QED BY <1>1, <1>2, <1>3 DEF PairRoom, NameRoom

\* open_root_object
LEMMA OpenRootKeeps ==
  ASSUME Shape, OpenRoot
  PROVE  Keeps
<1>1. state = "building" /\ depth = 0 /\ 0 \in Nat
  BY DEF OpenRoot, Building
<1>2. <<"{">> \in Seq(Brackets) /\ Len(<<"{">>) = depth + 1
  BY <1>1 DEF Brackets
<1>3. CASE Adds(NameRoom(0), Char("{"), 1, <<"{">>)
  <2> DEFINE new == Char("{")
             brackets == <<"{">>
  <2>1. new \in Text /\ new # <<>> /\ Last(new).n = 1 /\ Width(new) = 1
    BY NewChar DEF Signs
  <2>2. Adds(Room(20), new, 1, brackets)
    BY <1>3, Rooms
  <2>3. 20 \in Nat \ {0} /\ (Roomy => 20 + 1 <= BufMax)
    BY Rooms
  <2>4. Width(new) < 20
    <3> HIDE DEF new
    <3>1. Width(new) = 1
      BY <2>1
    <3> QED BY <3>1
  <2> HIDE DEF new, brackets
  <2> QED BY <1>1, <1>2, <2>1, <2>2, <2>3, <2>4, RoomKeeps DEF brackets
<1>4. ASSUME NEW k \in Lengths,
             Adds(NameRoom(k), Char("{") \o Key(4) \o Quoted(k) \o Comma, 1, <<"{">>)
      PROVE  Keeps
  <2> DEFINE s == Char("{") \o Key(4) \o Quoted(k)
             new == s \o Comma
             brackets == <<"{">>
             required == k + 20
  <2>1. k \in Nat
    BY SizesAssumption
  <2>2. s \in Text /\ Width(s) = k + 10
    <3>1. Char("{") \in Text /\ Width(Char("{")) = 1
      BY NewChar DEF Signs
    <3>2. Key(4) \in Text /\ Width(Key(4)) = 7 /\ Quoted(k) \in Text /\ Width(Quoted(k)) = k + 2
      BY <2>1, NewTexts
    <3> DEFINE p == Char("{") \o Key(4)
    <3>3. p \in Text /\ Width(p) = 1 + 7
      BY <3>1, <3>2, WidthConcat
    <3> HIDE DEF p
    <3>4. p \o Quoted(k) \in Text /\ Width(p \o Quoted(k)) = (1 + 7) + (k + 2)
      BY <3>2, <3>3, WidthConcat
    <3>5. (1 + 7) + (k + 2) = k + 10
      BY <2>1
    <3> QED BY <3>4, <3>5 DEF p
  <2>3. Adds(Room(required), new, 1, brackets)
    BY <1>4, <2>1, Rooms
  <2> HIDE DEF s
  <2>4. new \in Text /\ new # <<>> /\ Last(new).n = 1 /\ Width(new) = Width(s) + 1
    BY <2>2, NewText DEF Comma, Signs
  <2>5. required \in Nat \ {0} /\ Width(new) < required /\ (Roomy => required + 1 <= BufMax)
    BY <2>1, <2>2, <2>4, SizesAssumption DEF Roomy
  <2> HIDE DEF new, brackets, required
  <2> QED BY <1>1, <1>2, <2>3, <2>4, <2>5, RoomKeeps DEF brackets
<1> QED BY <1>3, <1>4 DEF OpenRoot

\* add_object and add_array, with a name and without one.
LEMMA NestKeeps ==
  ASSUME Shape, state = "building", NEW bracket \in Brackets,
         \/ \E k \in Lengths :
              Adds(NameRoom(k), Key(k) \o Char(bracket), 1, Append(nest, bracket))
         \/ Adds(NameRoom(0), Char(bracket), 1, Append(nest, bracket))
  PROVE  Keeps
<1>1. bracket \in Signs
  BY DEF Signs, Brackets
<1> DEFINE brackets == Append(nest, bracket)
<1>2. brackets \in Seq(Brackets) /\ depth + 1 = Len(brackets)
  BY DEF Shape, Types
<1> HIDE DEF brackets
<1>3. ASSUME NEW k \in Lengths, Adds(NameRoom(k), Key(k) \o Char(bracket), 1, brackets)
      PROVE  Keeps
  <2> DEFINE new == Key(k) \o Char(bracket)
             required == k + 20
  <2>1. k \in Nat
    BY SizesAssumption
  <2>2. Key(k) \in Text /\ Width(Key(k)) = k + 3
    BY <2>1, NewTexts
  <2>3. Adds(Room(required), new, 1, brackets)
    BY <1>3, <2>1, Rooms
  <2>4. new \in Text /\ new # <<>> /\ Last(new).n = 1 /\ Width(new) = (k + 3) + 1
    BY <1>1, <2>1, <2>2, NewText
  <2> HIDE DEF new
  <2>5. required \in Nat \ {0} /\ Width(new) < required /\ (Roomy => required + 1 <= BufMax)
    BY <2>1, <2>4, SizesAssumption DEF Roomy
  <2> HIDE DEF required
  <2> QED BY <1>2, <2>3, <2>4, <2>5, RoomKeeps
<1>4. ASSUME Adds(NameRoom(0), Char(bracket), 1, brackets) PROVE Keeps
  <2> DEFINE new == Char(bracket)
  <2>1. new \in Text /\ new # <<>> /\ Last(new).n = 1 /\ Width(new) = 1
    BY <1>1, NewChar
  <2>2. Adds(Room(20), new, 1, brackets)
    BY <1>4, Rooms
  <2>3. 20 \in Nat \ {0} /\ (Roomy => 20 + 1 <= BufMax)
    BY Rooms
  <2> HIDE DEF new
  <2>4. Width(new) < 20
    BY <2>1
  <2> QED BY <1>2, <2>1, <2>2, <2>3, <2>4, RoomKeeps
<1> QED BY <1>3, <1>4 DEF brackets

\* The calls that open a bracket.
LEMMA OpenKeeps ==
  ASSUME Shape, Open
  PROVE  Keeps
BY NestKeeps DEF Open, Within, ValueDue, Building, Brackets

\* put_kv and add_key_value_pair
LEMMA PutKvKeeps ==
  ASSUME Shape, NEW k \in Lengths, PutKv(k)
  PROVE  Keeps
<1>1. state = "building" /\ k \in Nat
  BY SizesAssumption DEF PutKv, Within, Building
<1>2. nest \in Seq(Brackets) /\ depth + 0 = Len(nest)
  BY DEF Shape, Types
<1>3. Key(k) \in Text /\ Width(Key(k)) = k + 3
  BY <1>1, NewTexts
<1>4. ASSUME NEW v \in Lengths, Adds(PairRoom(k, v), Key(k) \o Quoted(v) \o Comma, 0, nest)
      PROVE  Keeps
  <2> DEFINE s == Key(k) \o Quoted(v)
             new == s \o Comma
             required == k + v + 10
  <2>1. v \in Nat
    BY SizesAssumption
  <2>2. s \in Text /\ Width(s) = k + v + 5
    <3>1. Quoted(v) \in Text /\ Width(Quoted(v)) = v + 2
      BY <2>1, NewTexts
    <3> QED BY <1>1, <1>3, <2>1, <3>1, WidthConcat
  <2>3. Adds(Room(required), new, 0, nest)
    BY <1>1, <1>4, <2>1, Rooms
  <2> HIDE DEF s
  <2>4. new \in Text /\ new # <<>> /\ Last(new).n = 1 /\ Width(new) = Width(s) + 1
    BY <2>2, NewText DEF Comma, Signs
  <2>5. required \in Nat \ {0} /\ Width(new) < required /\ (Roomy => required + 1 <= BufMax)
    BY <1>1, <2>1, <2>2, <2>4, SizesAssumption DEF Roomy
  <2> HIDE DEF new, required
  <2> QED BY <1>1, <1>2, <2>3, <2>4, <2>5, RoomKeeps
<1>5. ASSUME NEW d \in Digits, Adds(NumberRoom(k, d), Key(k) \o Number(d) \o Comma, 0, nest)
      PROVE  Keeps
  <2> DEFINE s == Key(k) \o Number(d)
             new == s \o Comma
             rooms == NumberRoom(k, d)
  <2>1. d \in Nat \ {0}
    BY SizesAssumption
  <2>2. s \in Text /\ Width(s) = k + 3 + d
    <3>1. Number(d) \in Text /\ Width(Number(d)) = d
      BY <2>1, NewTexts
    <3> QED BY <1>3, <3>1, WidthConcat
  <2>3. Adds(rooms, new, 0, nest)
    BY <1>5
  <2> HIDE DEF s
  <2>4. new \in Text /\ new # <<>> /\ Last(new).n = 1 /\ Width(new) = Width(s) + 1
    BY <2>2, NewText DEF Comma, Signs
  <2>5. Width(new) = k + d + 4
    BY <1>1, <2>1, <2>2, <2>4
  <2>6. ASSUME NEW b \in rooms
        PROVE  /\ Follows(Now, b)
               /\ b.ok => Free(b) >= k + 20 /\ (d > 15 => "long" \in b.odd)
               /\ b.ok \/ b.refused \/ ~mine \/ (k + 20) + 1 > BufMax
    <3>1. PICK r \in NameRoom(k) : b = IF r.ok /\ d > 15 THEN Noted(r, "long") ELSE r
      BY <2>6 DEF NumberRoom
    <3>2. r \in Room(k + 20) /\ k + 20 \in Nat \ {0}
      BY <1>1, <3>1, Rooms
    <3>3. /\ Follows(Now, r)
          /\ r.ok => Free(r) >= k + 20
          /\ r.ok \/ r.refused \/ ~mine \/ (k + 20) + 1 > BufMax
      BY <1>1, <3>2, RoomFollows DEF Shape
    <3>4. CASE r.ok /\ d > 15
      <4>1. b = Noted(r, "long")
        BY <3>1, <3>4
      <4>2. /\ Follows(Now, b) /\ b.ok = r.ok /\ b.text = r.text /\ b.size = r.size
            /\ b.odd = r.odd \union {"long"}
        BY <3>3, <4>1, NotedFollows DEF Causes
      <4> QED BY <3>3, <3>4, <4>2 DEF Free, Idx
    <3>5. CASE ~(r.ok /\ d > 15)
      BY <3>1, <3>3, <3>5
    <3> QED BY <3>4, <3>5
  <2> HIDE DEF new, rooms
  <2>7. Roomed(rooms, new)
    <3>1. ASSUME NEW b \in rooms, b.ok, Width(new) >= Free(b) PROVE "long" \in b.odd
      <4>1. b \in Buffers
        BY <2>6, <3>1 DEF Follows
      <4>2. Free(b) \in Int
        BY <4>1, BufferFields, WidthNat DEF Free, Idx
      <4> QED BY <1>1, <2>1, <2>5, <2>6, <3>1, <4>2
    <3> QED BY <3>1 DEF Roomed
  <2>8. ASSUME Roomy, NEW b \in rooms PROVE b.ok \/ Excused(b, "failed")
    <3>1. k + 23 <= BufMax
      BY <2>8 DEF Roomy
    <3>2. ~((k + 20) + 1 > BufMax)
      BY <1>1, <3>1, SizesAssumption
    <3> QED BY <2>6, <2>8, <3>2 DEF Excused
  <2>9. /\ Shape'
        /\ TextInv => TextInv'
        /\ Roomed(rooms, new) /\ SizeInv => SizeInv'
        /\ Roomed(rooms, new) /\ (\A b \in rooms : b.ok \/ Excused(b, "failed"))
             => OnlyRefusalFails'
    BY <1>1, <1>2, <2>3, <2>4, <2>6, AddsKeeps
  <2> QED BY <2>7, <2>8, <2>9 DEF Keeps
<1> QED BY <1>4, <1>5 DEF PutKv

\* add_key
LEMMA AddKeyKeeps ==
  ASSUME Shape, NEW k \in Lengths, AddKey(k)
  PROVE  Keeps
<1>1. state = "building" /\ k \in Nat
  BY SizesAssumption DEF AddKey, Within, Building
<1>2. nest \in Seq(Brackets) /\ depth + 0 = Len(nest)
  BY DEF Shape, Types
<1> DEFINE new == Key(k)
           required == k + 20
<1>3. Quoted(k) \in Text /\ Width(Quoted(k)) = k + 2
  BY <1>1, NewTexts
<1>4. new \in Text /\ new # <<>> /\ Last(new).n = 1 /\ Width(new) = (k + 2) + 1
  BY <1>3, NewText DEF Key, Signs
<1>5. required \in Nat \ {0} /\ Width(new) < required /\ (Roomy => required + 1 <= BufMax)
  BY <1>1, <1>4, SizesAssumption DEF Roomy
<1>6. Adds(Room(required), new, 0, nest)
  BY <1>1, Rooms DEF AddKey
<1> HIDE DEF new, required
<1> QED BY <1>1, <1>2, <1>4, <1>5, <1>6, RoomKeeps

\* copy_to_buf
LEMMA CopyToBufKeeps ==
  ASSUME Shape, NEW k \in Lengths, CopyToBuf(k + 2)
  PROVE  Keeps
<1>1. state = "building" /\ doc = <<>> /\ k \in Nat /\ k + 2 \in Nat
  BY SizesAssumption DEF CopyToBuf, Building
<1>2. <<>> \in Seq(Brackets) /\ depth + 0 = Len(<<>>)
  BY <1>1 DEF Shape, Types
<1> DEFINE s == Number((k + 2) - 1)
           new == s \o Char("rest")
           required == (k + 2) + 20
           brackets == <<>>
<1>3. s \in Text /\ Width(s) = k + 1
  <2>1. (k + 2) - 1 \in Nat \ {0} /\ (k + 2) - 1 = k + 1
    BY <1>1
  <2> QED BY <2>1, NewTexts
<1>4. Adds(Room(required), new, 0, brackets)
  BY <1>1, Rooms DEF CopyToBuf
<1> HIDE DEF s
<1>5. new \in Text /\ new # <<>> /\ Last(new).n = 1 /\ Width(new) = Width(s) + 1
  BY <1>3, NewText DEF Signs
<1>6. required \in Nat \ {0} /\ Width(new) < required /\ (Roomy => required + 1 <= BufMax)
  BY <1>1, <1>3, <1>5, SizesAssumption DEF Roomy
<1> HIDE DEF new, required, brackets
<1> QED BY <1>1, <1>2, <1>4, <1>5, <1>6, RoomKeeps DEF brackets

\* A call that appends s to the buffer and is asked for new: it notes a cause or does as it
\* is asked.
LEMMA PutKeeps ==
  ASSUME Shape, state = "building", NEW b, Follows(Now, b),
         NEW s \in Text, s # <<>>, Last(s).n = 1, NEW new \in Text, new # <<>>,
         NEW e \in Buffers, e.text = b.text \o s, e.size = b.size, e.sent = b.sent,
         e.chunks = b.chunks, e.frames = b.frames, b.odd \subseteq e.odd,
         Asked(e.odd) => s = new,
         e.past = b.past \/ "append" \in e.odd,
         Buffer(e), doc' = doc \o new, UNCHANGED <<mine, depth, eof, nest, state>>
  PROVE  /\ Shape'
         /\ TextInv => TextInv'
         /\ SizeInv /\ Lies(e.text, e.size) => SizeInv'
         /\ OnlyRefusalFails'
<1>1. /\ Now.text = text /\ Now.size = size /\ Now.sent = sent /\ Now.chunks = chunks
      /\ Now.frames = frames /\ Now.past = past /\ Now.odd = odd
  BY NowFacts DEF Shape
<1>2. b \in Buffers /\ b.sent \o b.text = sent \o text /\ b.past = past /\ odd \subseteq b.odd
  BY <1>1 DEF Follows
<1>3. /\ e.text # <<>> /\ Last(e.text) = Last(s)
      /\ e.sent \o e.text = (b.sent \o b.text) \o s
  BY <1>2, Appends
<1>4. doc' \in Text /\ doc' # <<>>
  BY ConcatLast DEF Shape, Types
<1>5. /\ Shape'
      /\ (/\ SizeInv /\ Lies(e.text, e.size) /\ Past(e.past, e.odd, state')
          /\ e.size = size \/ (mine /\ e.size <= BufMax)) => SizeInv'
  <2>1. Short(e.text) /\ (Begun(chunks, frames) => Begun(e.chunks, e.frames))
    BY <1>1, <1>3 DEF Short, Follows
  <2>2. /\ nest' \in Seq(Brackets) /\ depth' = Len(nest') /\ mine' = mine /\ eof' = eof
        /\ state' \in {"building", "failed", "aborted"}
    BY DEF Shape, Types
  <2> QED BY <1>3, <1>4, <2>1, <2>2, BufferStep
<1>6. e.size = size \/ (mine /\ e.size <= BufMax)
  BY <1>1 DEF Follows
<1>7. ASSUME TextInv, Asked(odd') PROVE TextInv'
  <2>3. odd' = e.odd
    BY DEF Buffer
  <2>4. Asked(odd) /\ s = new
    BY <1>2, <1>7, <2>3 DEF Asked
  <2>1. text' = e.text /\ sent' = e.sent /\ sent \o text = doc /\ state' = "building"
    BY <1>7, <2>4 DEF Buffer, Wrote, TextInv
  <2>2. sent' \o text' = doc'
    BY <1>2, <1>3, <2>1, <2>4
  <2> QED BY <2>1, <2>2 DEF TextInv
<1>10. TextInv => TextInv'
  BY <1>7 DEF TextInv
<1>9. SizeInv => Past(e.past, e.odd, state')
  <2>1. SizeInv => Past(past, e.odd, state')
    BY <1>2, PastStays
  <2> QED BY <1>2, <2>1 DEF Past
<1>8. OnlyRefusalFails'
  BY DEF OnlyRefusalFails
<1> QED BY <1>5, <1>6, <1>10, <1>8, <1>9

\* add_value_s, add_value and add_value_d
LEMMA AddValueKeeps ==
  ASSUME Shape, AddValue
  PROVE  Keeps
<1>1. state = "building" /\ nest \in Seq(Brackets) /\ depth + 0 = Len(nest)
  <2>1. state = "building"
    BY DEF AddValue, Within, Building
  <2>2. nest \in Seq(Brackets) /\ depth + 0 = Len(nest)
    BY DEF Shape, Types
  <2> QED BY <2>1, <2>2
<1>2. ASSUME NEW v \in Lengths, Adds(PairRoom(3, v), Quoted(v) \o Comma, 0, nest)
      PROVE  Keeps
  <2> DEFINE s == Quoted(v)
             new == s \o Comma
             required == 3 + v + 10
  <2>1. v \in Nat /\ 3 \in Nat
    BY SizesAssumption
  <2>2. s \in Text /\ Width(s) = v + 2
    BY <2>1, NewTexts
  <2>3. Adds(Room(required), new, 0, nest)
    BY <1>2, <2>1, Rooms
  <2> HIDE DEF s
  <2>4. new \in Text /\ new # <<>> /\ Last(new).n = 1 /\ Width(new) = Width(s) + 1
    BY <2>2, NewText DEF Comma, Signs
  <2>5. required \in Nat \ {0} /\ Width(new) < required /\ (Roomy => required + 1 <= BufMax)
    BY <2>1, <2>2, <2>4, SizesAssumption DEF Roomy
  <2> HIDE DEF new, required
  <2> QED BY <1>1, <2>3, <2>4, <2>5, RoomKeeps
<1>3. ASSUME NEW d \in Digits, NEW b \in PairRoom(0, d),
             IF b.ok
             THEN /\ Buffer(Noted([b EXCEPT !.text = @ \o Comma, !.nul = 0], "number"))
                  /\ doc' = doc \o Number(d) \o Comma
                  /\ UNCHANGED <<mine, depth, eof, nest, state>>
             ELSE Fails(b)
      PROVE  Keeps
  <2>1. d \in Nat \ {0} /\ 0 + d + 10 \in Nat \ {0} /\ 0 \in Nat
    BY SizesAssumption
  <2>2. b \in Room(0 + d + 10)
    BY <1>3, <2>1, Rooms
  <2>3. /\ Follows(Now, b)
        /\ b.ok => Free(b) >= 0 + d + 10
        /\ b.ok \/ b.refused \/ ~mine \/ (0 + d + 10) + 1 > BufMax
    BY <1>1, <2>1, <2>2, RoomFollows DEF Shape
  <2>4. b \in Buffers
    BY <2>3 DEF Follows
  <2>5. CASE ~b.ok
    <3>1. PICK outcome \in {"failed", "building"} : Gives(b, outcome)
      BY <1>1, <1>3, <2>5 DEF Fails
    <3>2. /\ Shape' /\ (TextInv => TextInv') /\ (SizeInv => SizeInv')
          /\ Excused(b, outcome) => OnlyRefusalFails'
      BY <1>1, <2>3, <3>1, GivesKeeps
    <3>3. Roomy => b.refused \/ ~mine
      <4>1. Roomy => d + 11 <= BufMax
        BY DEF Roomy
      <4> QED BY <2>1, <2>3, <2>5, <4>1, SizesAssumption
    <3> QED BY <3>2, <3>3 DEF Keeps, Excused
  <2>6. CASE b.ok
    <3> DEFINE s == Comma
               u == b.text \o s
               c == Retext(b, u)
               e == Noted(c, "number")
               new == Number(d) \o Comma
    <3>1. s \in Text /\ s # <<>> /\ Last(s).n = 1 /\ Width(s) = 1
      BY NewChar DEF Comma, Signs
    <3>2. new \in Text /\ new # <<>> /\ doc' = doc \o new
      <4>1. Number(d) \in Text
        BY <2>1, NewTexts
      <4>2. new \in Text /\ new # <<>>
        BY <4>1, NewText DEF Comma, Signs
      <4>3. (doc \o Number(d)) \o Comma = doc \o (Number(d) \o Comma)
        <5> DEFINE p == doc
                   q == Number(d)
                   r == Comma
        <5>1. p \in Text /\ q \in Text /\ r \in Text
          BY <3>1, <4>1 DEF Shape, Types, s
        <5> HIDE DEF p, q, r
        <5>2. (p \o q) \o r = p \o (q \o r)
          BY <5>1, ConcatAssociative DEF Text
        <5> QED BY <5>2 DEF p, q, r
      <4> QED BY <1>3, <2>6, <4>2, <4>3
    <3>3. Buffer(e)
      BY <1>3, <2>6 DEF Retext
    <3>7. u \in Text
      BY <2>4, <3>1, BufferFields, WidthConcat
    <3>4. /\ e \in Buffers /\ e.text = u /\ e.size = b.size /\ e.sent = b.sent
          /\ e.chunks = b.chunks /\ e.frames = b.frames /\ e.past = b.past
          /\ e.odd = b.odd \union {"number"}
      <4> HIDE DEF u, c
      <4>1. /\ c \in Buffers /\ c.text = u /\ c.size = b.size /\ c.sent = b.sent
            /\ c.chunks = b.chunks /\ c.frames = b.frames /\ c.past = b.past /\ c.odd = b.odd
        BY <2>4, <3>7, RetextFacts DEF c
      <4> QED BY <4>1 DEF Noted, Buffers, Causes
    <3> HIDE DEF s, e, new
    <3>5. Lies(e.text, e.size)
      <4>1. Free(e) = Free(b) - Width(s) /\ Free(e) \in Int /\ (Free(e) > 0 => Lies(e.text, e.size))
        BY <2>4, <3>1, <3>4, Appends
      <4>2. Free(b) \in Int
        BY <2>4, BufferFields, WidthNat DEF Free, Idx
      <4> QED BY <2>1, <2>3, <2>6, <3>1, <4>1, <4>2
    <3>8. ~Asked(e.odd) /\ b.odd \subseteq e.odd
      BY <3>4 DEF Asked
    <3>6. /\ Shape' /\ (TextInv => TextInv') /\ (SizeInv => SizeInv') /\ OnlyRefusalFails'
      <4>1. UNCHANGED <<mine, depth, eof, nest, state>>
        BY <1>3, <2>6
      <4>2. e.text = b.text \o s
        BY <3>4
      <4> QED BY <1>1, <2>3, <3>1, <3>2, <3>3, <3>4, <3>5, <3>8, <4>1, <4>2, PutKeeps
    <3> QED BY <3>6 DEF Keeps
  <2> QED BY <2>5, <2>6
<1> QED BY <1>2, <1>3 DEF AddValue

\* Two steps that move the text, one after the other.
LEMMA FollowsOn ==
  ASSUME NEW a, NEW b, NEW c, Follows(a, b), Follows(b, c)
  PROVE  Follows(a, c)
BY DEF Follows

\* The room of read_json_from_function.
LEMMA ReadFollows ==
  ASSUME Types, Short(text), ~eof, NEW required \in Nat \ {0}, NEW n \in Nat,
         NEW b \in Read(required, n)
  PROVE  /\ Follows(Now, b)
         /\ b.ok => n < Free(b)
         /\ ~b.ok => \/ b.refused \/ ~mine \/ required + 1 > BufMax
                     \/ "again" \in b.odd
<1>1. PICK r \in Room(required) :
        b \in IF ~r.ok \/ Fits(r, n) THEN {r}
              ELSE LET missing == n + 1 - Free(r)
                   IN  {Noted([c EXCEPT !.ok = Fits(c, n)], "again")
                          : c \in IF Free(r) < missing THEN Grown(r, missing) ELSE {r}}
  BY DEF Read
<1>2. /\ Follows(Now, r)
      /\ ~r.ok => r.refused \/ ~mine \/ required + 1 > BufMax
  BY RoomFollows
<1>3. r \in Buffers /\ Free(r) \in Int
  <2>1. r \in Buffers
    BY <1>2 DEF Follows
  <2> QED BY <2>1, BufferFields, WidthNat DEF Free, Idx
<1>4. CASE ~r.ok \/ Fits(r, n)
  <2>1. b = r
    BY <1>1, <1>4
  <2> QED BY <1>2, <1>4, <2>1 DEF Fits
<1>5. CASE ~(~r.ok \/ Fits(r, n))
  <2> DEFINE missing == n + 1 - Free(r)
  <2>1. PICK c \in IF Free(r) < missing THEN Grown(r, missing) ELSE {r} :
          b = Noted([c EXCEPT !.ok = Fits(c, n)], "again")
    BY <1>1, <1>5
  <2>2. r.ok /\ missing \in Nat \ {0}
    BY <1>3, <1>5 DEF Fits
  <2> HIDE DEF missing
  <2>3. Follows(r, c)
    <3>1. CASE Free(r) < missing
      BY <1>3, <2>1, <2>2, <3>1, GrownFollows
    <3>2. CASE ~(Free(r) < missing)
      <4>1. c = r
        BY <2>1, <3>2
      <4> QED BY <1>3, <4>1 DEF Follows
    <3> QED BY <3>1, <3>2
  <2>4. Follows(Now, c) /\ c \in Buffers
    BY <1>2, <2>3, FollowsOn DEF Follows
  <2>5. Fits(c, n) \in BOOLEAN
    BY <2>4 DEF Fits, Buffers
  <2> DEFINE ok == Fits(c, n)
             d == [c EXCEPT !.ok = ok]
  <2>6. /\ d \in Buffers /\ d.ok = ok /\ d.text = c.text /\ d.size = c.size /\ d.sent = c.sent
        /\ d.refused = c.refused /\ d.chunks = c.chunks /\ d.frames = c.frames
        /\ d.past = c.past /\ d.odd = c.odd
    <3> HIDE DEF ok
    <3> QED BY <2>4, <2>5 DEF Buffers, ok
  <2>10. b = Noted(d, "again")
    BY <2>1
  <2> HIDE DEF d
  <2>7. Follows(Now, d)
    BY <2>4, <2>6 DEF Follows
  <2>9. /\ Follows(Now, b) /\ b.ok = d.ok /\ b.text = d.text /\ b.size = d.size
        /\ b.odd = d.odd \union {"again"}
    BY <2>7, <2>10, NotedFollows DEF Causes
  <2>8. b.ok => n < Free(b)
    BY <2>6, <2>9 DEF Fits, Free, Idx
  <2> QED BY <2>8, <2>9
<1> QED BY <1>4, <1>5

\* read_json_from_function
LEMMA ReadJsonKeeps ==
  ASSUME Shape, NEW k \in Lengths, NEW required \in Expected, ReadJson(required, k + 1)
  PROVE  Keeps
<1> DEFINE n == k + 1
           s == Number(n)
           new == s \o Comma
           rooms == {IF b.ok /\ n + 1 = Free(b) THEN Noted(b, "exact") ELSE b
                       : b \in Read(required, n)}
<1>1. state = "building" /\ nest \in Seq(Brackets) /\ depth + 0 = Len(nest)
  BY DEF ReadJson, ValueDue, Building, Shape, Types
<1>2. n \in Nat \ {0} /\ required \in Nat \ {0}
  BY SizesAssumption
<1>3. s \in Text /\ Width(s) = n
  <2> HIDE DEF n
  <2> QED BY <1>2, NewTexts
<1>4. Adds(rooms, new, 0, nest)
  BY DEF ReadJson
<1> HIDE DEF n, s
<1>5. new \in Text /\ new # <<>> /\ Last(new).n = 1 /\ Width(new) = n + 1
  BY <1>3, NewText DEF Comma, Signs
<1>6. ASSUME NEW b \in rooms
      PROVE  /\ Follows(Now, b)
             /\ b.ok => n < Free(b) /\ (n + 1 = Free(b) => "exact" \in b.odd)
             /\ ~b.ok => \/ b.refused \/ ~mine \/ required + 1 > BufMax
                         \/ "again" \in b.odd
  <2>1. PICK r \in Read(required, n) :
          b = IF r.ok /\ n + 1 = Free(r) THEN Noted(r, "exact") ELSE r
    BY <1>6
  <2>2. /\ Follows(Now, r)
        /\ r.ok => n < Free(r)
        /\ ~r.ok => \/ r.refused \/ ~mine \/ required + 1 > BufMax
                    \/ "again" \in r.odd
    BY <1>1, <1>2, <2>1, ReadFollows DEF Shape
  <2>3. CASE r.ok /\ n + 1 = Free(r)
    <3>1. b = Noted(r, "exact")
      BY <2>1, <2>3
    <3>2. /\ Follows(Now, b) /\ b.ok = r.ok /\ b.text = r.text /\ b.size = r.size
          /\ b.odd = r.odd \union {"exact"}
      BY <2>2, <3>1, NotedFollows DEF Causes
    <3> QED BY <2>2, <2>3, <3>2 DEF Free, Idx
  <2>4. CASE ~(r.ok /\ n + 1 = Free(r))
    BY <2>1, <2>2, <2>4
  <2> QED BY <2>3, <2>4
<1> HIDE DEF new, rooms
<1>7. Roomed(rooms, new)
  <2>1. ASSUME NEW b \in rooms, b.ok, Width(new) >= Free(b) PROVE "exact" \in b.odd
    <3>1. b \in Buffers
      BY <1>6, <2>1 DEF Follows
    <3>2. Free(b) \in Int
      BY <3>1, BufferFields, WidthNat DEF Free, Idx
    <3> QED BY <1>2, <1>5, <1>6, <2>1, <3>2
  <2> QED BY <2>1 DEF Roomed
<1>8. ASSUME Roomy, NEW b \in rooms PROVE b.ok \/ Excused(b, "failed")
  <2>1. required + 1 <= BufMax
    BY <1>8 DEF Roomy
  <2>2. ~(required + 1 > BufMax)
    BY <1>2, <2>1, SizesAssumption
  <2> QED BY <1>6, <1>8, <2>2 DEF Excused
<1>9. /\ Shape'
      /\ TextInv => TextInv'
      /\ Roomed(rooms, new) /\ SizeInv => SizeInv'
      /\ Roomed(rooms, new) /\ (\A b \in rooms : b.ok \/ Excused(b, "failed"))
           => OnlyRefusalFails'
  BY <1>1, <1>4, <1>5, <1>6, AddsKeeps
<1> QED BY <1>7, <1>8, <1>9 DEF Keeps

\* The brackets without the last one.
LEMMA NestFront ==
  ASSUME NEW s \in Seq(Brackets), s # <<>>
  PROVE  Front(s) \in Seq(Brackets) /\ Len(Front(s)) = Len(s) - 1
<1>1. Len(s) \in Nat /\ Len(s) >= 1
  BY EmptySeq, LenProperties
<1>2. \A i \in 1 .. Len(s) - 1 : s[i] \in Brackets
  BY <1>1, ElementOfSeq
<1>3. Front(s) \in Seq(Brackets)
  BY <1>1, <1>2, SubSeqProperties DEF Front
<1>4. Len(Front(s)) = IF 1 <= Len(s) - 1 THEN (Len(s) - 1) - 1 + 1 ELSE 0
  BY <1>1, <1>2, SubSeqProperties DEF Front
<1> DEFINE n == Len(s)
           m == Len(Front(s))
<1>5. n \in Nat /\ n >= 1 /\ m = IF 1 <= n - 1 THEN (n - 1) - 1 + 1 ELSE 0
  BY <1>1, <1>4
<1> HIDE DEF n, m
<1>6. m = n - 1
  BY <1>5
<1> QED BY <1>3, <1>6 DEF n, m

\* close_object, close_array and close_root_object
LEMMA ClosesKeeps ==
  ASSUME Shape, state = "building", nest # <<>>,
         NEW new \in Text, new # <<>>, Last(new).n = 1, Width(new) <= 2, Closes(new)
  PROVE  Keeps
<1>1. PICK b \in Room(20) :
        IF b.ok
        THEN /\ Buffer([b EXCEPT !.text = Unread(@) \o new, !.nul = 0])
             /\ doc' = Unread(doc) \o new
             /\ depth' = depth - 1
             /\ nest' = Front(nest)
             /\ UNCHANGED <<mine, eof, state>>
        ELSE Gives(b, "aborted")
  BY Rooms DEF Closes
<1>2. /\ Follows(Now, b)
      /\ b.ok => Free(b) >= 20
      /\ ~b.ok => b.refused \/ ~mine \/ 20 + 1 > BufMax
  BY Rooms, RoomFollows DEF Shape
<1>3. CASE ~b.ok
  <2>1. /\ Shape'
        /\ TextInv => TextInv'
        /\ SizeInv => SizeInv'
        /\ Excused(b, "aborted") => OnlyRefusalFails'
    BY <1>1, <1>2, <1>3, GivesKeeps
  <2>2. Roomy => b.refused \/ ~mine
    BY <1>2, <1>3, Rooms, SizesAssumption
  <2> QED BY <2>1, <2>2 DEF Keeps, Excused
<1>4. CASE b.ok
  <2> DEFINE t == Unread(b.text)
             u == t \o new
             e == [b EXCEPT !.text = u, !.nul = 0]
             c == [b EXCEPT !.text = t]
  <2>1. /\ Buffer(e) /\ doc' = Unread(doc) \o new /\ depth' = depth - 1
        /\ nest' = Front(nest) /\ UNCHANGED <<mine, eof, state>>
    BY <1>1, <1>4
  <2>2. /\ Now.text = text /\ Now.size = size /\ Now.sent = sent /\ Now.chunks = chunks
        /\ Now.frames = frames /\ Now.past = past /\ Now.odd = odd
    BY NowFacts DEF Shape
  <2>3. /\ b \in Buffers /\ b.sent \o b.text = sent \o text
        /\ b.past = past /\ odd \subseteq b.odd
        /\ b.text \in Text /\ b.sent \in Text /\ b.size \in Nat
    BY <1>2, <2>2, BufferFields DEF Follows
  <2>4. text # <<>> /\ b.text # <<>> /\ doc # <<>>
    BY <1>2, <2>2 DEF Shape, Follows
  <2>5. /\ t \in Text /\ Width(t) <= Width(b.text)
        /\ Unread(b.sent \o b.text) = b.sent \o t
    BY <2>3, <2>4, UnreadConcat
  <2>6. /\ c \in Buffers /\ c.text = t /\ c.size = b.size /\ c.sent = b.sent
        /\ c.chunks = b.chunks /\ c.frames = b.frames
    <3> HIDE DEF t, c
    <3> QED BY <2>3, <2>5, RetextFacts DEF c
  <2>7. u \in Text
    <3> HIDE DEF t
    <3> QED BY <2>5, WidthConcat
  <2>8. e = Retext(b, u)
    BY DEF Retext
  <2>9. /\ e \in Buffers /\ e.text = u /\ e.size = b.size /\ e.sent = b.sent
        /\ e.chunks = b.chunks /\ e.frames = b.frames /\ e.past = b.past /\ e.odd = b.odd
    <3> HIDE DEF e, u
    <3> QED BY <2>3, <2>7, <2>8, RetextFacts
  <2> HIDE DEF e, c
  <2>10. /\ e.text # <<>> /\ Last(e.text) = Last(new)
         /\ e.sent \o e.text = (c.sent \o c.text) \o new
         /\ Free(e) = Free(c) - Width(new) /\ Free(e) \in Int
         /\ Free(e) > 0 => Lies(e.text, e.size)
    <3>1. e.text = c.text \o new /\ e.size = c.size /\ e.sent = c.sent
      BY <2>6, <2>9
    <3> QED BY <2>6, <2>9, <3>1, Appends
  <2>11. Lies(e.text, e.size)
    <3>1. Free(c) = b.size - Width(t) /\ Free(b) = b.size - Width(b.text)
      BY <2>6 DEF Free, Idx
    <3>2. Width(t) \in Nat /\ Width(b.text) \in Nat /\ Width(new) \in Nat
      BY <2>3, <2>5, WidthNat
    <3> HIDE DEF t
    <3>3. Free(e) > 0
      BY <1>2, <1>4, <2>3, <2>5, <2>10, <3>1, <3>2
    <3> QED BY <2>10, <3>3
  <2>12. doc' \in Text /\ doc' # <<>>
    <3>1. Unread(doc) \in Text
      BY UnreadConcat, WidthOne DEF Shape, Types
    <3> QED BY <2>1, <3>1, ConcatLast
  <2>13. nest' \in Seq(Brackets) /\ depth' = Len(nest')
    BY <2>1, NestFront DEF Shape, Types
  <2>14. /\ Shape'
         /\ (/\ SizeInv /\ Lies(e.text, e.size) /\ Past(e.past, e.odd, state')
             /\ e.size = size \/ (mine /\ e.size <= BufMax)) => SizeInv'
    <3>1. Short(e.text) /\ (Begun(chunks, frames) => Begun(e.chunks, e.frames))
      BY <1>2, <2>2, <2>9, <2>10 DEF Short, Follows
    <3> QED BY <2>1, <2>9, <2>10, <2>12, <2>13, <3>1, BufferStep
  <2>15. e.size = size \/ (mine /\ e.size <= BufMax)
    BY <1>2, <2>2, <2>9 DEF Follows
  <2>16. ASSUME TextInv, Asked(odd') PROVE TextInv'
    <3>3. odd' = e.odd
      BY <2>1 DEF Buffer
    <3>4. Asked(odd)
      BY <2>3, <2>9, <2>16, <3>3 DEF Asked
    <3>1. text' = e.text /\ sent' = e.sent /\ sent \o text = doc /\ state' = "building"
      BY <2>1, <2>16, <3>4 DEF Buffer, Wrote, TextInv
    <3>2. sent' \o text' = doc'
      BY <2>1, <2>3, <2>5, <2>6, <2>10, <3>1
    <3> QED BY <3>1, <3>2 DEF TextInv
  <2>18. TextInv => TextInv'
    BY <2>16 DEF TextInv
  <2>19. SizeInv => Past(e.past, e.odd, state')
    BY <2>3, <2>9, PastStays
  <2>17. OnlyRefusalFails'
    BY <2>1 DEF OnlyRefusalFails
  <2> QED BY <2>11, <2>14, <2>15, <2>17, <2>18, <2>19 DEF Keeps
<1> QED BY <1>3, <1>4

\* The calls that close a bracket.
LEMMA CloseKeeps ==
  ASSUME Shape, CloseObject \/ CloseArray \/ CloseRootObject
  PROVE  Keeps
<1>1. state = "building" /\ nest # <<>>
  BY DEF CloseObject, CloseArray, CloseRootObject, Within, Building
<1>2. PICK new : /\ new \in {Char("}") \o Comma, Char("]") \o Comma, Char("}")}
                 /\ Closes(new)
  BY DEF CloseObject, CloseArray, CloseRootObject
<1>3. {"}", "]", ","} \subseteq Signs
  BY DEF Signs
<1>4. ASSUME NEW c \in Signs
      PROVE  /\ Char(c) \in Text /\ Char(c) # <<>> /\ Last(Char(c)).n = 1 /\ Width(Char(c)) <= 2
             /\ Char(c) \o Comma \in Text /\ Char(c) \o Comma # <<>>
             /\ Last(Char(c) \o Comma).n = 1 /\ Width(Char(c) \o Comma) <= 2
  <2> DEFINE s == Char(c)
             r == s \o Comma
  <2>1. s \in Text /\ s # <<>> /\ Last(s).n = 1 /\ Width(s) = 1
    BY NewChar
  <2> HIDE DEF s
  <2>2. r \in Text /\ r # <<>> /\ Last(r).n = 1 /\ Width(r) = Width(s) + 1
    BY <1>3, <2>1, NewText DEF Comma
  <2> HIDE DEF r
  <2>3. Width(s) <= 2 /\ Width(r) <= 2
    BY <2>1, <2>2
  <2> QED BY <2>1, <2>2, <2>3 DEF s, r
<1>5. new \in Text /\ new # <<>> /\ Last(new).n = 1 /\ Width(new) <= 2
  <2> DEFINE Good(t) == t \in Text /\ t # <<>> /\ Last(t).n = 1 /\ Width(t) <= 2
  <2>1. "}" \in Signs /\ "]" \in Signs
    BY <1>3
  <2>2. Good(Char("}")) /\ Good(Char("}") \o Comma) /\ Good(Char("]") \o Comma)
    BY <1>4, <2>1, Zenon
  <2> HIDE DEF Good
  <2>3. Good(new)
    BY <1>2, <2>2, Zenon
  <2> QED BY <2>3 DEF Good
<1> QED BY <1>1, <1>2, <1>5, ClosesKeeps

\* cat_to_buf
LEMMA CatToBufKeeps ==
  ASSUME Shape, NEW k \in Lengths, CatToBuf(k + 2)
  PROVE  Keeps
<1> DEFINE n == k + 2
           p == Number(n - 1)
           new == p \o Comma
           q == <<[c |-> "stale", n |-> n - 1]>>
           stale == q \o Char("stale")
<1>1. state = "building" /\ nest \in Seq(Brackets) /\ depth + 0 = Len(nest)
  <2>1. state = "building"
    BY DEF CatToBuf, Within, Building
  <2>2. nest \in Seq(Brackets) /\ depth + 0 = Len(nest)
    BY DEF Shape, Types
  <2> QED BY <2>1, <2>2
<1>2. PICK b \in NameRoom(n) :
        IF ~b.ok THEN Fails(b)
        ELSE /\ Buffer(IF b.nul = 0 THEN [b EXCEPT !.text = @ \o new]
                       ELSE Behind(Noted([b EXCEPT !.text = @ \o stale], "append"),
                                   b.nul + n + 1 - Free(b)))
             /\ doc' = doc \o new
             /\ UNCHANGED <<mine, depth, eof, nest, state>>
  BY DEF CatToBuf
<1>3. /\ k \in Nat /\ n \in Nat /\ n - 1 \in Nat \ {0} /\ n - 1 = k + 1
      /\ n + 20 \in Nat \ {0} /\ n + 20 = k + 22
  BY SizesAssumption
<1>4. p \in Text /\ Width(p) = k + 1 /\ q \in Text /\ Width(q) = k + 1
  <2>1. p \in Text /\ Width(p) = k + 1
    BY <1>3, NewTexts
  <2> DEFINE x == [c |-> "stale", n |-> n - 1]
  <2>2. x \in Piece /\ x.n = k + 1
    BY <1>3 DEF Piece, Signs
  <2> HIDE DEF x
  <2>3. <<x>> \in Text /\ Width(<<x>>) = k + 1
    BY <2>2, WidthOne
  <2> QED BY <2>1, <2>3 DEF x
<1> HIDE DEF p, q
<1>5. /\ new \in Text /\ new # <<>> /\ Last(new).n = 1 /\ Width(new) = (k + 1) + 1
      /\ stale \in Text /\ stale # <<>> /\ Last(stale).n = 1 /\ Width(stale) = (k + 1) + 1
  BY <1>4, NewText DEF Comma, Signs
<1> HIDE DEF new, stale
<1>6. /\ Follows(Now, b)
      /\ b.ok => Free(b) >= n + 20
      /\ ~b.ok => b.refused \/ ~mine \/ (n + 20) + 1 > BufMax
  <2>1. b \in Room(n + 20)
    BY <1>3, Rooms
  <2> HIDE DEF n
  <2> QED BY <1>1, <1>3, <2>1, RoomFollows DEF Shape
<1>7. b \in Buffers
  BY <1>6 DEF Follows
<1>8. CASE ~b.ok
  <2>1. PICK outcome \in {"failed", "building"} : Gives(b, outcome)
    BY <1>1, <1>2, <1>8 DEF Fails
  <2>2. /\ Shape'
        /\ TextInv => TextInv'
        /\ SizeInv => SizeInv'
        /\ Excused(b, outcome) => OnlyRefusalFails'
    BY <1>1, <1>6, <2>1, GivesKeeps
  <2>3. Roomy => (n + 20) + 1 <= BufMax
    BY <1>3 DEF Roomy
  <2>4. Roomy => b.refused \/ ~mine
    BY <1>3, <1>6, <1>8, <2>3, SizesAssumption
  <2> QED BY <2>2, <2>4 DEF Keeps, Excused
<1>9. CASE b.ok
  <2> DEFINE s == IF b.nul = 0 THEN new ELSE stale
             u == b.text \o s
             c == [b EXCEPT !.text = u]
             there == Noted(c, "append")
             far == b.nul + n + 1 - Free(b)
             e == IF b.nul = 0 THEN c ELSE Behind(there, far)
  <2>1. Buffer(e) /\ doc' = doc \o new /\ UNCHANGED <<mine, depth, eof, nest, state>>
    BY <1>2, <1>9
  <2>2. /\ s \in Text /\ s # <<>> /\ Last(s).n = 1 /\ Width(s) = (k + 1) + 1
        /\ b.nul = 0 => s = new
    BY <1>5
  <2> HIDE DEF s
  <2>3. u \in Text
    BY <1>7, <2>2, BufferFields, WidthConcat
  <2>7. /\ c \in Buffers /\ c.text = u /\ c.size = b.size /\ c.sent = b.sent
        /\ c.chunks = b.chunks /\ c.frames = b.frames /\ c.past = b.past /\ c.odd = b.odd
    <3> HIDE DEF u
    <3> QED BY <1>7, <2>3, RetextFacts
  <2>8. far \in Int
    BY <1>3, <1>7, BufferFields, WidthNat DEF Free, Idx
  <2> HIDE DEF c, u, far
  <2>9. /\ there \in Buffers /\ there.text = u /\ there.size = b.size /\ there.sent = b.sent
        /\ there.chunks = b.chunks /\ there.frames = b.frames /\ there.past = b.past
        /\ there.odd = b.odd \union {"append"}
    BY <2>7 DEF Noted, Buffers, Causes
  <2> HIDE DEF there
  <2>4. /\ e \in Buffers /\ e.text = u /\ e.size = b.size /\ e.sent = b.sent
        /\ e.chunks = b.chunks /\ e.frames = b.frames /\ b.odd \subseteq e.odd
        /\ e.past = b.past \/ "append" \in e.odd
        /\ Asked(e.odd) => s = new
    <3>1. CASE b.nul = 0
      BY <2>2, <2>7, <3>1
    <3>2. CASE b.nul # 0 /\ far > there.past
      <4>1. far \in Nat
        BY <2>8, <2>9, <3>2, BufferFields
      <4>2. e = [there EXCEPT !.past = far]
        BY <3>2 DEF Behind
      <4>3. /\ e \in Buffers /\ e.text = there.text /\ e.size = there.size /\ e.sent = there.sent
            /\ e.chunks = there.chunks /\ e.frames = there.frames /\ e.odd = there.odd
        BY <2>9, <4>1, <4>2 DEF Buffers
      <4> QED BY <2>9, <4>3 DEF Asked
    <3>3. CASE b.nul # 0 /\ ~(far > there.past)
      <4>1. e = there
        BY <3>3 DEF Behind
      <4> QED BY <2>9, <4>1 DEF Asked
    <3> QED BY <3>1, <3>2, <3>3
  <2>10. e.text = b.text \o s
    BY <2>4 DEF u
  <2> HIDE DEF e
  <2>5. Lies(e.text, e.size)
    <3>1. Free(e) = Free(b) - Width(s) /\ Free(e) \in Int /\ (Free(e) > 0 => Lies(e.text, e.size))
      BY <1>7, <2>2, <2>4, <2>10, Appends
    <3>2. Free(b) \in Int
      BY <1>7, BufferFields, WidthNat DEF Free, Idx
    <3>3. Free(b) >= k + 22
      BY <1>3, <1>6, <1>9
    <3> QED BY <1>3, <2>2, <3>1, <3>2, <3>3
  <2>6. /\ Shape'
        /\ TextInv => TextInv'
        /\ SizeInv /\ Lies(e.text, e.size) => SizeInv'
        /\ OnlyRefusalFails'
    BY <1>1, <1>5, <1>6, <2>1, <2>2, <2>4, <2>10, PutKeeps
  <2> QED BY <2>5, <2>6 DEF Keeps
<1> QED BY <1>8, <1>9

\* get_a_buffer and advance_position
LEMMA GetAndAdvanceKeeps ==
  ASSUME Shape, NEW k \in Lengths, GetAndAdvance(k + 2)
  PROVE  Keeps
<1> DEFINE n == k + 2
           p == Number(n - 1)
           new == p \o Comma
<1>1. state = "building" /\ nest \in Seq(Brackets) /\ depth = Len(nest)
  <2>1. state = "building"
    BY DEF GetAndAdvance, Within, Building
  <2> QED BY <2>1 DEF Shape, Types
<1>2. PICK b \in IF Free(Now) < n + 1 THEN Grown(Now, n) ELSE {Now} :
        IF ~b.ok THEN Fails(b)
        ELSE IF n > Idx(b) THEN Gives(Noted(b, "far"), "aborted")
        ELSE LET c == [b EXCEPT !.text = @ \o new, !.nul = 0]
             IN  \E e \in IF Free(c) = 0 THEN Grown(c, 1) ELSE {c} :
                   IF ~e.ok THEN Gives([e EXCEPT !.text = <<>>, !.nul = 0], "failed")
                   ELSE /\ Buffer(e) /\ doc' = doc \o new
                        /\ UNCHANGED <<mine, depth, eof, nest, state>>
  BY DEF GetAndAdvance
<1>3. k \in Nat /\ n \in Nat \ {0} /\ n = k + 2 /\ n - 1 \in Nat \ {0} /\ n - 1 = k + 1
  BY SizesAssumption
<1>4. p \in Text /\ Width(p) = k + 1
  BY <1>3, NewTexts
<1> HIDE DEF p
<1>5. new \in Text /\ new # <<>> /\ Last(new).n = 1 /\ Width(new) = (k + 1) + 1
  BY <1>4, NewText DEF Comma, Signs
<1> HIDE DEF new, n
<1>6. /\ Now \in Buffers /\ Now.ok /\ Now.text = text /\ Now.size = size /\ Now.sent = sent
      /\ Now.chunks = chunks /\ Now.frames = frames /\ Follows(Now, Now)
      /\ Now.past = past /\ Now.odd = odd
      /\ Short(text) /\ ~eof
  BY <1>1, NowFacts DEF Shape
<1>7. /\ Follows(Now, b)
      /\ b.ok => Free(b) >= n
      /\ ~b.ok => b.refused \/ ~mine \/ n + 1 > BufMax
  <2>1. CASE Free(Now) < n + 1
    BY <1>2, <1>3, <1>6, <2>1, GrownFollows
  <2>2. CASE ~(Free(Now) < n + 1)
    <3>1. b = Now
      BY <1>2, <2>2
    <3>2. Free(Now) \in Int
      BY <1>6, BufferFields, WidthNat DEF Free, Idx
    <3> QED BY <1>3, <1>6, <2>2, <3>1, <3>2
  <2> QED BY <2>1, <2>2
<1>8. /\ b \in Buffers /\ b.text \in Text /\ b.sent \in Text /\ b.size \in Nat
      /\ b.sent \o b.text = sent \o text /\ b.past = past /\ odd \subseteq b.odd
  BY <1>6, <1>7, BufferFields DEF Follows
<1>9. CASE ~b.ok
  <2>1. PICK outcome \in {"failed", "building"} : Gives(b, outcome)
    BY <1>1, <1>2, <1>9 DEF Fails
  <2>2. /\ Shape'
        /\ TextInv => TextInv'
        /\ SizeInv => SizeInv'
        /\ Excused(b, outcome) => OnlyRefusalFails'
    BY <1>1, <1>7, <2>1, GivesKeeps
  <2>3. Roomy => n + 1 <= BufMax
    BY <1>3, SizesAssumption DEF Roomy
  <2>4. Roomy => b.refused \/ ~mine
    BY <1>3, <1>7, <1>9, <2>3, SizesAssumption
  <2> QED BY <2>2, <2>4 DEF Keeps, Excused
<1>10. CASE b.ok /\ n > Idx(b)
  <2> DEFINE c == Noted(b, "far")
  <2>1. Gives(c, "aborted")
    BY <1>2, <1>10
  <2>2. Follows(Now, c) /\ c.odd = b.odd \union {"far"}
    BY <1>7, NotedFollows DEF Causes
  <2> HIDE DEF c
  <2>3. /\ Shape'
        /\ TextInv => TextInv'
        /\ SizeInv => SizeInv'
        /\ Excused(c, "aborted") => OnlyRefusalFails'
    BY <1>1, <2>1, <2>2, GivesKeeps
  <2> QED BY <2>2, <2>3 DEF Keeps, Excused
<1>11. CASE b.ok /\ ~(n > Idx(b))
  <2> DEFINE u == b.text \o new
             c == [b EXCEPT !.text = u, !.nul = 0]
  <2>1. PICK e \in IF Free(c) = 0 THEN Grown(c, 1) ELSE {c} :
          IF ~e.ok THEN Gives([e EXCEPT !.text = <<>>, !.nul = 0], "failed")
          ELSE Buffer(e) /\ doc' = doc \o new /\ UNCHANGED <<mine, depth, eof, nest, state>>
    BY <1>2, <1>11
  <2>2. u \in Text /\ c = Retext(b, u)
    BY <1>5, <1>8, WidthConcat DEF Retext
  <2>3. /\ c \in Buffers /\ c.ok /\ c.text = u /\ c.size = b.size /\ c.sent = b.sent
        /\ c.refused = b.refused /\ c.chunks = b.chunks /\ c.frames = b.frames
        /\ c.past = b.past /\ c.odd = b.odd
    <3> HIDE DEF u, c
    <3> QED BY <1>8, <1>11, <2>2, RetextFacts
  <2> HIDE DEF c
  <2>4. /\ c.text # <<>> /\ Last(c.text) = Last(new)
        /\ c.sent \o c.text = (b.sent \o b.text) \o new
        /\ Free(c) = Free(b) - Width(new) /\ Free(c) \in Int
        /\ Free(c) > 0 => Lies(c.text, c.size)
    BY <1>5, <1>8, <2>3, Appends
  <2>5. Short(c.text) /\ 1 \in Nat \ {0}
    BY <1>5, <2>4 DEF Short
  <2>6. Free(c) >= 0
    <3>1. Free(b) \in Int /\ Free(b) >= n
      BY <1>7, <1>8, <1>11, WidthNat DEF Free, Idx
    <3> QED BY <1>3, <1>5, <2>4, <3>1
  <2>7. /\ Follows(c, e)
        /\ ~e.ok => e.refused \/ ~mine \/ 1 + 1 > BufMax
        /\ e.ok => Lies(e.text, e.size)
    <3>1. CASE Free(c) = 0
      BY <1>6, <2>1, <2>3, <2>5, <3>1, GrownFollows
    <3>2. CASE Free(c) # 0
      <4>1. e = c
        BY <2>1, <3>2
      <4>2. Lies(c.text, c.size)
        BY <2>4, <2>6, <3>2
      <4> QED BY <2>3, <4>1, <4>2 DEF Follows
    <3> QED BY <3>1, <3>2
  <2>8. /\ e \in Buffers /\ e.sent \o e.text = (b.sent \o b.text) \o new
        /\ e.text # <<>> /\ Last(e.text) = Last(new)
        /\ e.size = size \/ (mine /\ e.size <= BufMax)
        /\ Begun(chunks, frames) => Begun(e.chunks, e.frames)
        /\ e.past = past /\ odd \subseteq e.odd
    BY <1>6, <1>7, <1>8, <2>3, <2>4, <2>7 DEF Follows
  <2>11. SizeInv => Past(e.past, e.odd, state')
    BY <1>1, <2>8, PastStays
  <2>9. CASE ~e.ok
    <3> DEFINE z == <<>>
               f == Retext(e, z)
    <3>1. Buffer(f) /\ state' = "failed" /\ UNCHANGED <<mine, depth, eof, nest, doc>>
      BY <2>1, <2>9 DEF Gives, Retext
    <3>2. z \in Text /\ Width(z) = 0
      BY WidthOne
    <3>3. /\ f \in Buffers /\ f.text = z /\ f.size = e.size /\ f.sent = e.sent
          /\ f.refused = e.refused /\ f.chunks = e.chunks /\ f.frames = e.frames
          /\ f.past = e.past /\ f.odd = e.odd
      <4> HIDE DEF z
      <4> QED BY <2>8, <3>2, RetextFacts
    <3>4. Short(f.text) /\ Lies(f.text, f.size)
      <4>1. f.size \in Nat
        BY <3>3, BufferFields
      <4>2. f.text = <<>>
        BY <3>3
      <4> HIDE DEF f
      <4> QED BY <3>2, <4>1, <4>2 DEF Short, Lies
    <3> HIDE DEF f
    <3>5. /\ doc' \in Text /\ nest' \in Seq(Brackets) /\ depth' = Len(nest')
          /\ mine' = mine /\ eof' = eof /\ state' \in {"building", "failed", "aborted"}
          /\ state' # "building"
      BY <1>1, <3>1 DEF Shape, Types
    <3>6. Shape' /\ (SizeInv => SizeInv')
      BY <1>1, <2>8, <2>11, <3>1, <3>3, <3>4, <3>5, BufferStep
    <3>7. TextInv'
      BY <3>1, <3>3 DEF TextInv, Buffer, Wrote
    <3>8. Roomy => OnlyRefusalFails'
      <4>1. Roomy => e.refused \/ ~mine
        BY <2>7, <2>9, SizesAssumption DEF Roomy
      <4> QED BY <3>1, <3>3, <4>1 DEF OnlyRefusalFails, Buffer, Wrote
    <3> QED BY <3>6, <3>7, <3>8 DEF Keeps
  <2>10. CASE e.ok
    <3>1. Buffer(e) /\ doc' = doc \o new /\ UNCHANGED <<mine, depth, eof, nest, state>>
      BY <2>1, <2>10
    <3>2. doc' \in Text /\ doc' # <<>>
      BY <1>5, <3>1, ConcatLast DEF Shape, Types
    <3>3. Short(e.text)
      BY <1>5, <2>8 DEF Short
    <3>4. /\ nest' \in Seq(Brackets) /\ depth' = Len(nest')
          /\ state' \in {"building", "failed", "aborted"}
      BY <1>1, <3>1
    <3>5. Shape' /\ (SizeInv => SizeInv')
      BY <1>1, <2>7, <2>8, <2>10, <2>11, <3>1, <3>2, <3>3, <3>4, BufferStep
    <3>6. TextInv => TextInv'
      <4>1. Asked(odd') => Asked(odd)
        BY <2>8, <3>1 DEF Buffer, Asked
      <4> QED BY <1>1, <1>8, <2>8, <3>1, <4>1 DEF TextInv, Buffer, Wrote
    <3>7. OnlyRefusalFails'
      BY <1>1, <3>1 DEF OnlyRefusalFails
    <3> QED BY <3>5, <3>6, <3>7 DEF Keeps
  <2> QED BY <2>9, <2>10
<1> QED BY <1>9, <1>10, <1>11

\* alloc_bigger_buffer
LEMMA AllocBiggerKeeps ==
  ASSUME Shape, AllocBigger(BufMax)
  PROVE  Keeps
<1>1. state = "building" /\ BufMax > size
  BY DEF AllocBigger, Building
<1>2. /\ Now \in Buffers /\ Now.ok /\ Now.text = text /\ Now.size = size /\ Follows(Now, Now)
      /\ size \in Nat /\ Width(text) \in Nat
  BY NowFacts, WidthNat DEF Shape, Types
<1>3. CASE mine
  <2>1. PICK b \in Realloc(Now, BufMax) : IF b.ok THEN Gives(b, state) ELSE Fails(b)
    BY <1>3 DEF AllocBigger
  <2>2. BufMax \in Nat /\ (Lies(Now.text, Now.size) => BufMax > Width(Now.text))
    BY <1>1, <1>2, WidthOne, SizesAssumption DEF Lies
  <2>3. Follows(Now, b) /\ (~b.ok => b.refused \/ BufMax > BufMax)
    BY <1>2, <1>3, <2>1, <2>2, ReallocFollows
  <2>4. ~b.ok => b.refused
    BY <2>2, <2>3
  <2>5. PICK outcome \in {"failed", "building"} : Gives(b, outcome) /\ (b.ok => outcome = "building")
    BY <1>1, <2>1 DEF Fails
  <2>6. /\ Shape'
        /\ TextInv => TextInv'
        /\ SizeInv => SizeInv'
        /\ Excused(b, outcome) => OnlyRefusalFails'
    BY <1>1, <2>3, <2>5, GivesKeeps
  <2> QED BY <2>4, <2>5, <2>6 DEF Keeps, Excused
<1>4. CASE ~mine
  <2> DEFINE c == Noted(Now, "foreign")
  <2>1. Gives(c, "aborted")
    BY <1>4, SizesAssumption DEF AllocBigger
  <2>2. Follows(Now, c)
    BY <1>2, NotedFollows DEF Causes
  <2> HIDE DEF c
  <2>3. /\ Shape'
        /\ TextInv => TextInv'
        /\ SizeInv => SizeInv'
        /\ Excused(c, "aborted") => OnlyRefusalFails'
    BY <1>1, <2>1, <2>2, GivesKeeps
  <2> QED BY <1>4, <2>3 DEF Keeps, Excused
<1> QED BY <1>3, <1>4

\* write_some_json
LEMMA WriteSomeKeeps ==
  ASSUME Shape, WriteSome
  PROVE  Keeps
<1>1. state = "building"
  BY DEF WriteSome, Building
<1>2. PICK b \in SomeWritten(Now) : Gives(b, "building")
  BY <1>1 DEF WriteSome
<1>3. Now \in Buffers
  BY NowFacts DEF Shape
<1>4. Follows(Now, b)
  BY <1>2, <1>3, SomeWrittenFollows
<1>5. /\ Shape'
      /\ TextInv => TextInv'
      /\ SizeInv => SizeInv'
      /\ Excused(b, "building") => OnlyRefusalFails'
  BY <1>1, <1>2, <1>4, GivesKeeps
<1> QED BY <1>5 DEF Keeps, Excused

\* write_json and writeln_json: what leaves the buffer, and in which frames.
LEMMA WrittenFacts ==
  ASSUME Shape, ~eof, NEW final \in BOOLEAN, NEW line \in BOOLEAN, NEW w \in Written(final, line)
  PROVE  /\ w \in Buffers
         /\ IF final THEN Message(w.frames) /\ (w.refused \/ Last(w.frames).final)
            ELSE Begun(w.chunks, w.frames)
         /\ refused => w.refused
         /\ ~w.refused /\ text # <<>> => w.sent \in {sent \o text, (sent \o text) \o Line}
<1>1. /\ Now \in Buffers /\ Now.text = text /\ Now.size = size /\ Now.sent = sent
      /\ Now.refused = refused /\ Now.chunks = chunks /\ Now.frames = frames
      /\ text \in Text /\ sent \in Text /\ Begun(chunks, frames)
  BY NowFacts DEF Shape, Types
<1>2. /\ Line \in Text
      /\ Empty \in Text
  <2>1. {"newline", "{", "}"} \subseteq Signs
    BY DEF Signs
  <2>2. Char("newline") \in Text /\ Char("{") \in Text /\ Char("}") \in Text
    BY <2>1, NewTexts
  <2> QED BY <2>2, WidthConcat DEF Line, Empty
<1>3. CASE line /\ text # <<>> /\ Free(Now) < 1
  <2>1. PICK v \in Writes(Now, text, FALSE) : w \in Writes(v, Line, final)
    BY <1>3 DEF Written
  <2>2. /\ v \in Buffers
        /\ \/ v.n = Width(text) /\ v.sent = sent \o text /\ v.refused = refused
           \/ v.n <= 0 /\ v.sent = sent /\ v.refused
        /\ Begun(v.chunks, v.frames)
    <3>1. /\ v \in Buffers
          /\ \/ v.n = Width(text) /\ v.sent = Now.sent \o text /\ v.refused = Now.refused
             \/ v.n <= 0 /\ v.sent = Now.sent /\ v.refused
          /\ Begun(Now.chunks, Now.frames) => Begun(v.chunks, v.frames)
      BY <1>1, <2>1, WritesFacts
    <3> QED BY <1>1, <3>1
  <2>3. /\ w \in Buffers
        /\ \/ w.n = Width(Line) /\ w.sent = v.sent \o Line /\ w.refused = v.refused
           \/ w.n <= 0 /\ w.sent = v.sent /\ w.refused
        /\ IF final THEN Message(w.frames) /\ (w.refused \/ Last(w.frames).final)
           ELSE Begun(w.chunks, w.frames)
    BY <1>2, <2>1, <2>2, WritesFacts
  <2> QED BY <2>2, <2>3
<1>4. CASE ~(line /\ text # <<>> /\ Free(Now) < 1)
  <2> DEFINE body == IF text = <<>> THEN Empty ELSE text
             tail == IF line THEN Line ELSE <<>>
             all == body \o tail
  <2>1. w \in Writes(Now, all, final)
    BY <1>4 DEF Written
  <2>2. body \in Text /\ tail \in Text
    BY <1>1, <1>2, WidthOne
  <2>3. all \in Text
    <3> HIDE DEF body, tail
    <3> QED BY <2>2, WidthConcat
  <2>4. text # <<>> => sent \o all = (sent \o text) \o tail
    <3>1. text # <<>> => body = text
      OBVIOUS
    <3> DEFINE p == sent
               q == text
    <3>2. p \in Text /\ q \in Text
      BY <1>1
    <3> HIDE DEF p, q, tail
    <3>3. p \o (q \o tail) = (p \o q) \o tail
      BY <2>2, <3>2, ConcatAssociative DEF Text
    <3> QED BY <3>1, <3>3 DEF p, q
  <2>5. (sent \o text) \o tail \in {sent \o text, (sent \o text) \o Line}
    <3> DEFINE p == sent \o text
    <3>1. p \in Text
      BY <1>1, WidthConcat
    <3> HIDE DEF p
    <3>2. p \o <<>> = p
      BY <3>1, ConcatEmptySeq DEF Text
    <3> QED BY <3>2 DEF p
  <2> HIDE DEF all, tail
  <2>6. /\ w \in Buffers
        /\ \/ w.n = Width(all) /\ w.sent = sent \o all /\ w.refused = refused
           \/ w.n <= 0 /\ w.sent = sent /\ w.refused
        /\ IF final THEN Message(w.frames) /\ (w.refused \/ Last(w.frames).final)
           ELSE Begun(w.chunks, w.frames)
    <3>1. /\ w \in Buffers
          /\ \/ w.n = Width(all) /\ w.sent = Now.sent \o all /\ w.refused = Now.refused
             \/ w.n <= 0 /\ w.sent = Now.sent /\ w.refused
          /\ Begun(Now.chunks, Now.frames) =>
               IF final THEN Message(w.frames) /\ (w.refused \/ Last(w.frames).final)
               ELSE Begun(w.chunks, w.frames)
      BY <1>1, <2>1, <2>3, WritesFacts
    <3> QED BY <1>1, <3>1
  <2> QED BY <2>4, <2>5, <2>6
<1> QED BY <1>3, <1>4

\* A text that is written, in one or two calls of the call-back.
LEMMA WritesOutKeeps ==
  ASSUME Shape, ~eof, state # "aborted", NEW final \in BOOLEAN, NEW line \in BOOLEAN,
         NEW outcome \in {"written", "destroyed"}, WritesOut(final, line, outcome)
  PROVE  Keeps
<1>1. PICK w \in Written(final, line) : text' = <<>> /\ Wrote(w)
  BY DEF WritesOut
<1>2. /\ eof' = final /\ state' = outcome
      /\ nul' = IF line THEN 0 ELSE nul + Idx(Now)
      /\ odd' = IF final THEN odd ELSE odd \union {"more"}
      /\ UNCHANGED <<size, mine, depth, past, nest, doc>>
  BY DEF WritesOut
<1>3. /\ w \in Buffers
      /\ IF final THEN Message(w.frames) ELSE Begun(w.chunks, w.frames)
  BY WrittenFacts
<1>4. /\ chunks' = w.chunks /\ frames' = w.frames /\ sent' = w.sent /\ refused' = w.refused
      /\ w.chunks \in Nat /\ w.frames \in Seq(Frames) /\ w.sent \in Text /\ w.refused \in BOOLEAN
  BY <1>1, <1>3, BufferFields DEF Wrote
<1>10. nul' \in Nat /\ odd' \subseteq Causes /\ odd \subseteq odd'
  <2>1. Idx(Now) \in Nat /\ nul \in Nat /\ odd \subseteq Causes
    BY NowFacts, BufferFields, WidthNat DEF Idx, Shape, Types
  <2> QED BY <1>2, <2>1 DEF Causes
<1>5. Types'
  BY <1>1, <1>2, <1>4, <1>10, WidthOne DEF Shape, Types
<1>6. Shape'
  BY <1>1, <1>2, <1>3, <1>4, <1>5 DEF Shape, Short
<1>7. TextInv'
  BY <1>1, <1>2 DEF TextInv
<1>8. SizeInv => SizeInv'
  <2>1. Lies(<<>>, size)
    BY WidthOne DEF Lies, Shape, Types
  <2>2. SizeInv => Past(past', odd', state')
    BY <1>2, <1>10 DEF SizeInv, Past
  <2> QED BY <1>1, <1>2, <2>1, <2>2 DEF SizeInv
<1>9. OnlyRefusalFails'
  BY <1>2 DEF OnlyRefusalFails
<1> QED BY <1>6, <1>7, <1>8, <1>9 DEF Keeps

\* write_json, writeln_json and the destructor
LEMMA WriteJsonKeeps ==
  ASSUME Shape, WriteJson
  PROVE  Keeps
BY WritesOutKeeps DEF WriteJson

\* The destructor, after a final text and without one.
LEMMA DestroyKeeps ==
  ASSUME Shape, Destroy
  PROVE  Keeps
<1>1. CASE eof
  <2>1. /\ state' = "destroyed"
        /\ UNCHANGED <<wvars, text, size, mine, nul, depth, eof, past, odd, nest, doc>>
    BY <1>1 DEF Destroy
  <2>2. Types'
    BY <2>1 DEF Shape, Types, wvars
  <2>3. Shape'
    BY <1>1, <2>1, <2>2 DEF Shape, wvars
  <2>4. state # "aborted"
    BY DEF Destroy
  <2> QED BY <2>1, <2>3, <2>4 DEF Keeps, TextInv, SizeInv, Past, OnlyRefusalFails, wvars
<1>2. CASE ~eof
  BY <1>2, WritesOutKeeps DEF Destroy
<1> QED BY <1>1, <1>2

\* Every step of the caller.
LEMMA NextKeeps ==
  ASSUME Shape, Next
  PROVE  Keeps
<1>1. CASE UoutPrinter
  BY <1>1, OpenRootKeeps, OpenKeeps, CloseKeeps, PutKvKeeps DEF UoutPrinter
<1>2. CASE CloseArray \/ AddValue
  BY <1>2, CloseKeeps, AddValueKeeps
<1>3. ASSUME NEW k \in Lengths,
             \/ AddKey(k) \/ \E required \in Expected : ReadJson(required, k + 1)
             \/ GetAndAdvance(k + 2) \/ CatToBuf(k + 2) \/ CopyToBuf(k + 2)
      PROVE  Keeps
  BY <1>3, AddKeyKeeps, ReadJsonKeeps, GetAndAdvanceKeeps, CatToBufKeeps, CopyToBufKeeps
<1>4. CASE AllocBigger(BufMax) \/ WriteSome \/ WriteJson \/ Destroy
  BY <1>4, AllocBiggerKeeps, WriteSomeKeeps, WriteJsonKeeps, DestroyKeeps
<1> QED BY <1>1, <1>2, <1>3, <1>4 DEF Next

\* A step that changes nothing.
LEMMA StutterKeeps ==
  ASSUME Shape, UNCHANGED vars
  PROVE  /\ Shape'
         /\ TextInv => TextInv'
         /\ SizeInv => SizeInv'
         /\ OnlyRefusalFails => OnlyRefusalFails'
BY DEF vars, wvars, Shape, Types, TextInv, SizeInv, OnlyRefusalFails

\* The beginning.
LEMMA InitKeeps ==
  ASSUME Init
  PROVE  Shape /\ TextInv /\ SizeInv /\ OnlyRefusalFails
<1>1. size \in Nat /\ (size = 0 \/ (~mine /\ size \in UserSizes)) /\ mine \in BOOLEAN
  <2>1. CASE mine = TRUE /\ size = 0
    BY <2>1
  <2>2. CASE mine = FALSE /\ size \in UserSizes
    BY <2>2, SizesAssumption
  <2> QED BY <2>1, <2>2 DEF Init
<1>2. /\ text = <<>> /\ nul = 0 /\ depth = 0 /\ eof = FALSE /\ past = 0 /\ odd = {}
      /\ nest = <<>> /\ doc = <<>> /\ state = "building"
      /\ chunks = 0 /\ frames = <<>> /\ sent = <<>> /\ refused = FALSE
  BY DEF Init, WriterInit
<1>3. Types
  <2>1. <<>> \in Text /\ <<>> \in Seq(Brackets) /\ <<>> \in Seq(Frames)
    BY WidthOne
  <2> QED BY <1>1, <1>2, <2>1 DEF Types
<1>4. Begun(chunks, frames)
  <2>1. Len(frames) = 0 /\ 1 .. 0 = {}
    BY <1>2
  <2> QED BY <1>2, <2>1 DEF Begun
<1>5. depth = Len(nest)
  BY <1>2
<1>6. Shape
  BY <1>2, <1>3, <1>4, <1>5 DEF Shape, Short
<1>7. TextInv
  BY <1>2, WidthOne, ConcatEmptySeq DEF TextInv, Text
<1>8. SizeInv
  <2>1. Lies(<<>>, size)
    BY <1>1, WidthOne DEF Lies
  <2>2. 0 <= BufMax
    BY SizesAssumption
  <2> QED BY <1>1, <1>2, <2>1, <2>2 DEF SizeInv, Past
<1> QED BY <1>2, <1>6, <1>7, <1>8 DEF OnlyRefusalFails

--------------------------------------------------------------------------------
(* What a reader of JSON expects *)

\* In front of a text a value is expected.
Start == [stack |-> <<>>, want |-> "value"]

\* The recursive function of Parsed exists.
LEMMA ParsedDef ==
  ASSUME NEW s, Len(s) \in Nat
  PROVE  \E after : /\ Parsed(s) = after[Len(s)]
                    /\ after[0] = Start
                    /\ \A i \in 1 .. Len(s) : after[i] = After(after[i - 1], s[i])
<1> DEFINE l == Len(s)
           Def(h) == [i \in 0 .. l |-> IF i = 0 THEN Start ELSE After(h[i - 1], s[i])]
           Goes(g, m) == g[0] = Start /\ \A i \in 1 .. m : g[i] = After(g[i - 1], s[i])
           D == {m \in Nat : \E g : Goes(g, m)}
<1>1. 0 \in D
  <2>1. Goes([i \in {0} |-> Start], 0)
    OBVIOUS
  <2> QED BY <2>1
<1>2. ASSUME NEW m \in Nat, m \in D PROVE m + 1 \in D
  <2>1. PICK g : Goes(g, m)
    BY <1>2
  <2> DEFINE h == [i \in 0 .. m + 1 |-> IF i = m + 1 THEN After(g[m], s[m + 1]) ELSE g[i]]
  <2>2. h[0] = Start
    BY <2>1
  <2>3. ASSUME NEW i \in 1 .. m PROVE h[i] = g[i] /\ h[i - 1] = g[i - 1]
    OBVIOUS
  <2>4. h[m + 1] = After(g[m], s[m + 1]) /\ h[m] = g[m] /\ (m + 1) - 1 = m
    OBVIOUS
  <2> HIDE DEF h
  <2>5. ASSUME NEW i \in 1 .. m + 1 PROVE h[i] = After(h[i - 1], s[i])
    <3>1. CASE i \in 1 .. m
      BY <2>1, <2>3, <3>1
    <3>2. CASE i = m + 1
      BY <2>4, <3>2
    <3> QED BY <3>1, <3>2
  <2>6. Goes(h, m + 1)
    BY <2>2, <2>5
  <2> HIDE DEF Goes
  <2> QED BY <2>6
<1>3. l \in D
  <2> HIDE DEF D
  <2> QED BY <1>1, <1>2, NatSetInduction
<1>4. PICK g : Goes(g, l)
  BY <1>3
<1> DEFINE f == [i \in 0 .. l |-> g[i]]
<1>5. f = Def(f)
  <2>1. ASSUME NEW i \in 0 .. l PROVE f[i] = Def(f)[i]
    <3>1. CASE i = 0
      BY <1>4, <3>1
    <3>2. CASE i # 0
      <4>1. i - 1 \in 0 .. l /\ i \in 1 .. l
        BY <3>2
      <4>2. f[i - 1] = g[i - 1] /\ f[i] = g[i]
        BY <4>1
      <4>3. Def(f)[i] = After(f[i - 1], s[i])
        <5> HIDE DEF f
        <5> QED BY <3>2
      <4> QED BY <1>4, <4>1, <4>2, <4>3
    <3> QED BY <3>1, <3>2
  <2> QED BY <2>1
<1> DEFINE after == CHOOSE h : h = Def(h)
<1>6. after = Def(after)
  <2> HIDE DEF Def, f
  <2> QED BY <1>5
<1>7. Parsed(s) = after[l]
  BY DEF Parsed, Start
<1>8. after[0] = Start
  <2>1. after[0] = Def(after)[0]
    BY <1>6
  <2> HIDE DEF after
  <2> QED BY <2>1
<1>9. ASSUME NEW i \in 1 .. l PROVE after[i] = After(after[i - 1], s[i])
  <2>1. after[i] = Def(after)[i]
    BY <1>6
  <2> HIDE DEF after
  <2> QED BY <2>1
<1> HIDE DEF after
<1> QED BY <1>7, <1>8, <1>9

\* A piece more is read from where the text before it ends.
LEMMA ParsedOne ==
  /\ Parsed(<<>>) = Start
  /\ \A s \in Text, x \in Piece : Parsed(s \o <<x>>) = After(Parsed(s), x)
<1>1. Parsed(<<>>) = Start
  <2> DEFINE s == <<>>
  <2>1. Len(s) = 0
    OBVIOUS
  <2> HIDE DEF s
  <2>2. Parsed(s) = Start
    BY <2>1, ParsedDef
  <2> QED BY <2>2 DEF s
<1>2. ASSUME NEW s \in Text, NEW x \in Piece PROVE Parsed(s \o <<x>>) = After(Parsed(s), x)
  <2> DEFINE t == s \o <<x>>
  <2>1. <<x>> \in Text /\ Len(<<x>>) = 1 /\ <<x>>[1] = x
    BY DEF Text
  <2>2. Len(s) \in Nat
    BY LenProperties DEF Text
  <2>3. Len(t) = Len(s) + 1
    BY <2>1, <2>2, ConcatProperties DEF Text
  <2>4. \A i \in 1 .. Len(s) + 1 : t[i] = IF i <= Len(s) THEN s[i] ELSE <<x>>[i - Len(s)]
    BY <2>1, ConcatProperties DEF Text
  <2>5. t[Len(s) + 1] = x
    <3>1. (Len(s) + 1) - Len(s) = 1 /\ Len(s) + 1 \in 1 .. Len(s) + 1 /\ ~(Len(s) + 1 <= Len(s))
      BY <2>2
    <3> QED BY <2>1, <2>4, <3>1
  <2> HIDE DEF t
  <2>6. PICK a : /\ Parsed(s) = a[Len(s)]
                 /\ a[0] = Start
                 /\ \A i \in 1 .. Len(s) : a[i] = After(a[i - 1], s[i])
    BY <2>2, ParsedDef
  <2>7. Len(t) \in Nat
    BY <2>2, <2>3
  <2>8. PICK c : /\ Parsed(t) = c[Len(t)]
                 /\ c[0] = Start
                 /\ \A i \in 1 .. Len(t) : c[i] = After(c[i - 1], t[i])
    BY <2>7, ParsedDef
  <2> DEFINE D == {i \in Nat : i <= Len(s) => c[i] = a[i]}
  <2>9. Len(s) \in D
    <3>1. 0 \in D
      BY <2>6, <2>8
    <3>2. ASSUME NEW i \in Nat, i \in D PROVE i + 1 \in D
      <4> SUFFICES ASSUME i + 1 <= Len(s) PROVE c[i + 1] = a[i + 1]
        OBVIOUS
      <4>1. /\ i + 1 \in 1 .. Len(s) /\ i + 1 \in 1 .. Len(t) /\ i + 1 \in 1 .. Len(s) + 1
            /\ (i + 1) - 1 = i
        BY <2>2, <2>3
      <4>2. c[i] = a[i] /\ t[i + 1] = s[i + 1]
        BY <2>2, <2>4, <3>2, <4>1
      <4>3. c[i + 1] = After(c[i], t[i + 1]) /\ a[i + 1] = After(a[i], s[i + 1])
        BY <2>6, <2>8, <4>1
      <4> QED BY <4>2, <4>3
    <3> HIDE DEF D
    <3> QED BY <2>2, <3>1, <3>2, NatSetInduction
  <2>10. c[Len(s)] = a[Len(s)] /\ Len(t) \in 1 .. Len(t) /\ Len(t) - 1 = Len(s)
    BY <2>2, <2>3, <2>9
  <2>11. c[Len(t)] = After(c[Len(s)], t[Len(t)])
    BY <2>8, <2>10
  <2>12. Parsed(t) = After(Parsed(s), x)
    BY <2>3, <2>5, <2>6, <2>8, <2>10, <2>11
  <2> QED BY <2>12 DEF t
<1> QED BY <1>1, <1>2

\* What one piece does, of those that are expected.
LEMMA AfterFacts ==
  ASSUME NEW stack \in Seq(Brackets), NEW want, NEW x \in Piece
  PROVE  LET st == [stack |-> stack, want |-> want]
         IN  /\ x.c \in {"rest", "newline"} => After(st, x) = st
             /\ x.c = "{" /\ want \in {"value", "element"} =>
                  After(st, x) = [stack |-> Append(stack, "{"), want |-> "member"]
             /\ x.c = "[" /\ want \in {"value", "element"} =>
                  After(st, x) = [stack |-> Append(stack, "["), want |-> "element"]
             /\ x.c = "name" /\ want \in {"key", "member"} =>
                  After(st, x) = [stack |-> stack, want |-> "colon"]
             /\ x.c = ":" /\ want = "colon" => After(st, x) = [stack |-> stack, want |-> "value"]
             /\ x.c \in {"name", "value"} /\ want \in {"value", "element"} =>
                  After(st, x) = [stack |-> stack, want |-> IF stack = <<>> THEN "end" ELSE "next"]
             /\ x.c = "," /\ want = "next" =>
                  After(st, x) = [stack |-> stack,
                                  want |-> IF Last(stack) = "{" THEN "key" ELSE "value"]
             /\ x.c = "}" /\ want \in {"next", "member"} /\ Last(stack) = "{" =>
                  After(st, x) = [stack |-> Front(stack),
                                  want |-> IF Front(stack) = <<>> THEN "end" ELSE "next"]
             /\ x.c = "]" /\ want \in {"next", "element"} /\ Last(stack) = "[" =>
                  After(st, x) = [stack |-> Front(stack),
                                  want |-> IF Front(stack) = <<>> THEN "end" ELSE "next"]
<1> DEFINE st == [stack |-> stack, want |-> want]
<1>1. /\ st.stack = stack /\ st.want = want
      /\ \A w : [st EXCEPT !.want = w] = [stack |-> stack, want |-> w]
  OBVIOUS
<1> HIDE DEF st
<1>2. x.c \in {"rest", "newline"} => After(st, x) = st
  BY DEF After
<1>3. x.c = "{" /\ want \in {"value", "element"} =>
        After(st, x) = [stack |-> Append(stack, "{"), want |-> "member"]
  BY <1>1 DEF After
<1>4. x.c = "[" /\ want \in {"value", "element"} =>
        After(st, x) = [stack |-> Append(stack, "["), want |-> "element"]
  BY <1>1 DEF After
<1>5. x.c = "name" /\ want \in {"key", "member"} =>
        After(st, x) = [stack |-> stack, want |-> "colon"]
  BY <1>1 DEF After
<1>6. x.c = ":" /\ want = "colon" => After(st, x) = [stack |-> stack, want |-> "value"]
  BY <1>1 DEF After
<1>7. x.c \in {"name", "value"} /\ want \in {"value", "element"} =>
        After(st, x) = [stack |-> stack, want |-> IF stack = <<>> THEN "end" ELSE "next"]
  BY <1>1 DEF After
<1>8. x.c = "," /\ want = "next" =>
        After(st, x) = [stack |-> stack, want |-> IF Last(stack) = "{" THEN "key" ELSE "value"]
  BY <1>1 DEF After
<1>9. x.c = "}" /\ want \in {"next", "member"} /\ Last(stack) = "{" =>
        After(st, x) = [stack |-> Front(stack),
                        want |-> IF Front(stack) = <<>> THEN "end" ELSE "next"]
  BY <1>1 DEF After
<1>10. x.c = "]" /\ want \in {"next", "element"} /\ Last(stack) = "[" =>
        After(st, x) = [stack |-> Front(stack),
                        want |-> IF Front(stack) = <<>> THEN "end" ELSE "next"]
  BY <1>1 DEF After
<1> QED BY <1>2, <1>3, <1>4, <1>5, <1>6, <1>7, <1>8, <1>9, <1>10 DEF st

\* Behind the text s a reader expects want, and has these brackets open.
Awaits(s, stack, want) == Parsed(s) = [stack |-> stack, want |-> want]

\* The texts of a caller: what their last character says is what a reader expects, and a
\* comma that may be taken back stands behind a value.
Grammar(s, stack) ==
  IF stack = <<>>
  THEN s # <<>> => IsJson(s)
  ELSE /\ s # <<>> /\ stack[1] = "{"
       /\ \E want :
            /\ Awaits(s, stack, want)
            /\ \/ Last(s).c = "{" /\ want = "member" /\ Last(stack) = "{"
               \/ Last(s).c = "[" /\ want = "element" /\ Last(stack) = "["
               \/ Last(s).c = ":" /\ want = "value"
               \/ /\ Last(s).c = "," /\ want = (IF Last(stack) = "{" THEN "key" ELSE "value")
                  /\ Awaits(Front(s), stack, "next")

\* A bracket more and a bracket less.
LEMMA StackAppend ==
  ASSUME NEW stack \in Seq(Brackets), NEW b \in Brackets, NEW root,
         IF stack = <<>> THEN b = root ELSE stack[1] = root
  PROVE  LET more == Append(stack, b)
         IN  more \in Seq(Brackets) /\ more # <<>> /\ more[1] = root /\ Last(more) = b
<1> DEFINE more == Append(stack, b)
           n == Len(stack)
<1>1. n \in Nat /\ more \in Seq(Brackets) /\ Len(more) = n + 1 /\ more[n + 1] = b
      /\ (\A i \in 1 .. n : more[i] = stack[i]) /\ (n = 0 <=> stack = <<>>)
  BY EmptySeq, AppendProperties, LenProperties
<1> HIDE DEF more, n
<1>2. more # <<>> /\ Last(more) = b
  BY <1>1, EmptySeq DEF Last
<1>3. more[1] = root
  <2>1. CASE stack = <<>>
    <3>1. n + 1 = 1
      BY <1>1, <2>1
    <3> QED BY <1>1, <2>1, <3>1
  <2>2. CASE stack # <<>>
    <3>1. 1 \in 1 .. n
      BY <1>1, <2>2
    <3> QED BY <1>1, <2>2, <3>1
  <2> QED BY <2>1, <2>2
<1> QED BY <1>1, <1>2, <1>3 DEF more

\* The brackets without the one that closes.
LEMMA StackFront ==
  ASSUME NEW stack \in Seq(Brackets), stack # <<>>, NEW root, stack[1] = root
  PROVE  /\ Front(stack) \in Seq(Brackets)
         /\ Front(stack) # <<>> => Front(stack)[1] = root
         /\ Front(stack) = <<>> <=> Len(stack) = 1
         /\ Last(stack) # root => Front(stack) # <<>>
         /\ Last(stack) \in Brackets
<1> DEFINE less == Front(stack)
           n == Len(stack)
<1>1. less \in Seq(Brackets) /\ Len(less) = n - 1
  BY NestFront
<1>2. n \in Nat /\ n >= 1
  BY EmptySeq, LenProperties
<1>3. \A i \in 1 .. n - 1 : stack[i] \in Brackets
  BY <1>2, ElementOfSeq
<1>4. \A i \in 1 .. (n - 1) - 1 + 1 : less[i] = stack[1 + i - 1]
  BY <1>2, <1>3, SubSeqProperties DEF Front
<1>5. Last(stack) = stack[n] /\ stack[n] \in Brackets
  BY <1>2, ElementOfSeq DEF Last
<1> HIDE DEF less, n
<1>6. less = <<>> <=> n = 1
  BY <1>1, <1>2, EmptySeq
<1>7. less # <<>> => 1 \in 1 .. (n - 1) - 1 + 1 /\ 1 + 1 - 1 = 1
  BY <1>2, <1>6
<1>8. less # <<>> => less[1] = root
  BY <1>4, <1>7
<1>9. Last(stack) # root => less # <<>>
  BY <1>5, <1>6
<1> QED BY <1>1, <1>5, <1>6, <1>8, <1>9 DEF less, n

\* The pieces of the texts.
LEMMA Pieces ==
  /\ \A c \in Signs : \E x \in Piece : x.c = c /\ Char(c) = <<x>>
  /\ \A k \in Nat : \E x \in Piece : x.c = "name" /\ Quoted(k) = <<x>>
  /\ \A k \in Nat \ {0} : \E x \in Piece : x.c = "value" /\ Number(k) = <<x>>
<1>1. ASSUME NEW c \in Signs, NEW k \in Nat \ {0}
      PROVE  [c |-> c, n |-> k] \in Piece /\ [c |-> c, n |-> k].c = c
  BY DEF Piece
<1>2. "name" \in Signs /\ "value" \in Signs
  BY DEF Signs
<1>3. ASSUME NEW k \in Nat PROVE k + 2 \in Nat \ {0}
  OBVIOUS
<1>4. \A c \in Signs : \E x \in Piece : x.c = c /\ Char(c) = <<x>>
  <2>1. 1 \in Nat \ {0}
    OBVIOUS
  <2> QED BY <1>1, <2>1, Zenon DEF Char
<1>5. \A k \in Nat : \E x \in Piece : x.c = "name" /\ Quoted(k) = <<x>>
  BY <1>1, <1>2, <1>3, Zenon DEF Quoted
<1>6. \A k \in Nat \ {0} : \E x \in Piece : x.c = "value" /\ Number(k) = <<x>>
  BY <1>1, <1>2, Zenon DEF Number
<1> QED BY <1>4, <1>5, <1>6

\* Three texts.
LEMMA TextAssoc ==
  ASSUME NEW a \in Text, NEW b \in Text, NEW c \in Text
  PROVE  a \o (b \o c) = (a \o b) \o c
BY ConcatAssociative DEF Text

\* The same facts with the words of Awaits.
LEMMA AwaitsAfter ==
  ASSUME NEW s \in Text, NEW x \in Piece, NEW stack \in Seq(Brackets), NEW want,
         Awaits(s, stack, want)
  PROVE  LET t == s \o <<x>>
         IN  /\ t \in Text /\ t # <<>> /\ Last(t) = x /\ Front(t) = s
             /\ x.c \in {"rest", "newline"} => Awaits(t, stack, want)
             /\ x.c = "{" /\ want \in {"value", "element"} =>
                  Awaits(t, Append(stack, "{"), "member")
             /\ x.c = "[" /\ want \in {"value", "element"} =>
                  Awaits(t, Append(stack, "["), "element")
             /\ x.c = "name" /\ want \in {"key", "member"} => Awaits(t, stack, "colon")
             /\ x.c = ":" /\ want = "colon" => Awaits(t, stack, "value")
             /\ x.c \in {"name", "value"} /\ want \in {"value", "element"} =>
                  Awaits(t, stack, IF stack = <<>> THEN "end" ELSE "next")
             /\ x.c = "," /\ want = "next" =>
                  Awaits(t, stack, IF Last(stack) = "{" THEN "key" ELSE "value")
             /\ x.c = "}" /\ want \in {"next", "member"} /\ Last(stack) = "{" =>
                  Awaits(t, Front(stack), IF Front(stack) = <<>> THEN "end" ELSE "next")
             /\ x.c = "]" /\ want \in {"next", "element"} /\ Last(stack) = "[" =>
                  Awaits(t, Front(stack), IF Front(stack) = <<>> THEN "end" ELSE "next")
<1> DEFINE st == [stack |-> stack, want |-> want]
           t == s \o <<x>>
<1>1. t \in Text /\ t # <<>> /\ Last(t) = x /\ Front(t) = s
  BY OneMore
<1>2. Parsed(t) = After(st, x)
  BY ParsedOne DEF Awaits
<1>3. /\ x.c \in {"rest", "newline"} => After(st, x) = st
      /\ x.c = "{" /\ want \in {"value", "element"} =>
           After(st, x) = [stack |-> Append(stack, "{"), want |-> "member"]
      /\ x.c = "[" /\ want \in {"value", "element"} =>
           After(st, x) = [stack |-> Append(stack, "["), want |-> "element"]
      /\ x.c = "name" /\ want \in {"key", "member"} =>
           After(st, x) = [stack |-> stack, want |-> "colon"]
      /\ x.c = ":" /\ want = "colon" => After(st, x) = [stack |-> stack, want |-> "value"]
      /\ x.c \in {"name", "value"} /\ want \in {"value", "element"} =>
           After(st, x) = [stack |-> stack, want |-> IF stack = <<>> THEN "end" ELSE "next"]
      /\ x.c = "," /\ want = "next" =>
           After(st, x) = [stack |-> stack, want |-> IF Last(stack) = "{" THEN "key" ELSE "value"]
      /\ x.c = "}" /\ want \in {"next", "member"} /\ Last(stack) = "{" =>
           After(st, x) = [stack |-> Front(stack),
                           want |-> IF Front(stack) = <<>> THEN "end" ELSE "next"]
      /\ x.c = "]" /\ want \in {"next", "element"} /\ Last(stack) = "[" =>
           After(st, x) = [stack |-> Front(stack),
                           want |-> IF Front(stack) = <<>> THEN "end" ELSE "next"]
  BY AfterFacts
<1> HIDE DEF t
<1> QED BY <1>1, <1>2, <1>3 DEF Awaits, t

\* A comma behind a value.
LEMMA CommaGrammar ==
  ASSUME NEW s \in Text, NEW stack \in Seq(Brackets), stack # <<>>, stack[1] = "{",
         Awaits(s, stack, "next")
  PROVE  Grammar(s \o Comma, stack)
<1>1. PICK x \in Piece : x.c = "," /\ Comma = <<x>>
  BY Pieces DEF Signs, Comma
<1> DEFINE t == s \o <<x>>
           more == IF Last(stack) = "{" THEN "key" ELSE "value"
<1>2. t # <<>> /\ Last(t) = x /\ Front(t) = s /\ Awaits(t, stack, more)
  BY <1>1, AwaitsAfter
<1> HIDE DEF t, more
<1>3. Grammar(t, stack)
  BY <1>1, <1>2 DEF Grammar, more
<1> QED BY <1>1, <1>3 DEF t

\* A value and its comma.
LEMMA ValueGrammar ==
  ASSUME NEW s \in Text, NEW stack \in Seq(Brackets), stack # <<>>, stack[1] = "{",
         NEW want \in {"value", "element"}, Awaits(s, stack, want),
         NEW new, (\E k \in Nat : new = Quoted(k)) \/ (\E k \in Nat \ {0} : new = Number(k))
  PROVE  new \in Text /\ Grammar((s \o new) \o Comma, stack)
<1>1. PICK x \in Piece : new = <<x>> /\ x.c \in {"name", "value"}
  BY Pieces, Zenon
<1>2. new \in Text
  BY <1>1, OneMore
<1>3. s \o new \in Text /\ Awaits(s \o new, stack, "next")
  BY <1>1, AwaitsAfter
<1> QED BY <1>2, <1>3, CommaGrammar

\* A name and its colon.
LEMMA KeyGrammar ==
  ASSUME NEW s \in Text, NEW stack \in Seq(Brackets), stack # <<>>, stack[1] = "{",
         NEW want \in {"key", "member"}, Awaits(s, stack, want), NEW k \in Nat
  PROVE  /\ s \o Key(k) \in Text
         /\ Awaits(s \o Key(k), stack, "value") /\ Grammar(s \o Key(k), stack)
<1>1. PICK x \in Piece : x.c = "name" /\ Quoted(k) = <<x>>
  BY Pieces
<1>2. PICK y \in Piece : y.c = ":" /\ Char(":") = <<y>>
  BY Pieces DEF Signs
<1> DEFINE r == s \o <<x>>
           t == r \o <<y>>
<1>3. r \in Text /\ Awaits(r, stack, "colon")
  BY <1>1, AwaitsAfter
<1> HIDE DEF r
<1>4. t \in Text /\ t # <<>> /\ Last(t) = y /\ Awaits(t, stack, "value")
  BY <1>2, <1>3, AwaitsAfter
<1>5. t = s \o Key(k)
  <2>1. <<x>> \in Text /\ <<y>> \in Text
    BY OneMore
  <2> DEFINE a == <<x>>
             b == <<y>>
  <2> HIDE DEF a, b
  <2>2. s \o (a \o b) = (s \o a) \o b
    BY <2>1, TextAssoc DEF a, b
  <2> QED BY <1>1, <1>2, <2>2 DEF a, b, r, Key
<1> HIDE DEF t
<1>6. Grammar(t, stack)
  BY <1>2, <1>4 DEF Grammar
<1> QED BY <1>4, <1>5, <1>6

\* A bracket that opens.
LEMMA OpenGrammar ==
  ASSUME NEW s \in Text, NEW stack \in Seq(Brackets), NEW b \in Brackets,
         IF stack = <<>> THEN b = "{" ELSE stack[1] = "{",
         NEW want \in {"value", "element"}, Awaits(s, stack, want)
  PROVE  /\ s \o Char(b) \in Text /\ Grammar(s \o Char(b), Append(stack, b))
         /\ Awaits(s \o Char(b), Append(stack, b), IF b = "{" THEN "member" ELSE "element")
<1>1. PICK x \in Piece : x.c = b /\ Char(b) = <<x>>
  <2>1. b \in Signs
    BY DEF Signs, Brackets
  <2> QED BY <2>1, Pieces, Zenon
<1> DEFINE t == s \o <<x>>
           more == Append(stack, b)
<1>2. t \in Text /\ t # <<>> /\ Last(t) = x
      /\ Awaits(t, more, IF b = "{" THEN "member" ELSE "element")
  BY <1>1, AwaitsAfter DEF Brackets
<1>3. more # <<>> /\ more[1] = "{" /\ Last(more) = b
  BY StackAppend
<1> HIDE DEF t, more
<1>4. Grammar(t, more)
  BY <1>1, <1>2, <1>3 DEF Grammar, Brackets
<1> QED BY <1>1, <1>2, <1>4 DEF t, more

\* A bracket that closes, where a comma has been taken back.
LEMMA CloseGrammar ==
  ASSUME NEW s \in Text, NEW stack \in Seq(Brackets), stack # <<>>, Grammar(s, stack),
         Last(s).c # ":",
         NEW b, b = (IF Last(stack) = "{" THEN "}" ELSE "]")
  PROVE  LET t == Unread(s) \o Char(b)
         IN  IF Front(stack) = <<>> THEN Grammar(t, Front(stack))
             ELSE Grammar(t \o Comma, Front(stack))
<1>4. PICK x \in Piece : x.c = b /\ Char(b) = <<x>>
  BY Pieces DEF Signs
<1> DEFINE r == Unread(s)
           t == r \o <<x>>
           less == Front(stack)
<1>1. stack[1] = "{" /\ s # <<>>
  BY DEF Grammar
<1>2. Last(stack) \in Brackets
  BY <1>1, StackFront
<1>3. PICK want \in {"next", "member", "element"} :
        /\ r \in Text /\ Awaits(r, stack, want)
        /\ want = "member" => Last(stack) = "{"
        /\ want = "element" => Last(stack) = "["
  <2>1. PICK w :
          /\ Awaits(s, stack, w)
          /\ \/ Last(s).c = "{" /\ w = "member" /\ Last(stack) = "{"
             \/ Last(s).c = "[" /\ w = "element" /\ Last(stack) = "["
             \/ Last(s).c = "," /\ Awaits(Front(s), stack, "next")
    BY DEF Grammar
  <2>2. r \in Text
    BY UnreadConcat, WidthOne
  <2>3. r = IF Last(s).c = "," THEN Front(s) ELSE s
    BY <1>1 DEF Unread
  <2> QED BY <2>1, <2>2, <2>3
<1> HIDE DEF r
<1>5. /\ t \in Text /\ t # <<>>
      /\ Awaits(t, less, IF less = <<>> THEN "end" ELSE "next")
  BY <1>2, <1>3, <1>4, AwaitsAfter DEF Brackets
<1>6. less \in Seq(Brackets) /\ (less # <<>> => less[1] = "{")
  BY <1>1, StackFront
<1> HIDE DEF t, less
<1>7. CASE less = <<>>
  <2>1. Parsed(t) = [stack |-> less, want |-> "end"]
    BY <1>5, <1>7 DEF Awaits
  <2>2. IsJson(t)
    <3> DEFINE p == [stack |-> less, want |-> "end"]
    <3>1. p.want = "end"
      OBVIOUS
    <3>2. Parsed(t) = p
      BY <2>1
    <3> HIDE DEF p
    <3>3. Parsed(t).want = "end"
      BY <3>1, <3>2
    <3> QED BY <3>3, Zenon DEF IsJson
  <2>3. Grammar(t, less)
    BY <1>7, <2>2 DEF Grammar
  <2> QED BY <1>4, <1>7, <2>3 DEF t, r, less
<1>8. CASE less # <<>>
  <2>1. Grammar(t \o Comma, less)
    BY <1>5, <1>6, <1>8, CommaGrammar
  <2> QED BY <1>4, <1>8, <2>1 DEF t, r, less
<1> QED BY <1>7, <1>8

\* Where names are due and where values are.
LEMMA GrammarDue ==
  ASSUME NEW s, NEW stack, stack # <<>>, Grammar(s, stack)
  PROVE  /\ s # <<>> /\ stack[1] = "{"
         /\ Last(stack) = "{" /\ Last(s).c # ":" =>
              \E want \in {"key", "member"} : Awaits(s, stack, want)
         /\ Last(stack) = "[" \/ Last(s).c = ":" =>
              \E want \in {"value", "element"} : Awaits(s, stack, want)
BY DEF Grammar

\* A text and one of four parts.
LEMMA TextAssoc4 ==
  \A s, a, b, c, d \in Text : s \o (((a \o b) \o c) \o d) = (((s \o a) \o b) \o c) \o d
<1> TAKE s, a, b, c, d \in Text
<1> DEFINE p == (a \o b) \o c
           q == a \o b
<1>1. q \in Text
  BY WidthConcat
<1>2. p \in Text
  <2> HIDE DEF q
  <2>1. q \o c \in Text
    BY <1>1, WidthConcat
  <2> QED BY <2>1 DEF q
<1>3. s \o p = ((s \o a) \o b) \o c
  <2>1. s \o q = (s \o a) \o b
    BY TextAssoc
  <2> HIDE DEF q
  <2>2. s \o (q \o c) = (s \o q) \o c
    BY <1>1, TextAssoc
  <2> QED BY <2>1, <2>2 DEF q
<1> HIDE DEF p
<1>4. s \o (p \o d) = (s \o p) \o d
  BY <1>2, TextAssoc
<1> QED BY <1>3, <1>4 DEF p

\* A text in the making is one of the grammar; what is written as a whole is JSON.
JsonInv ==
  /\ state = "building" => Grammar(doc, nest)
  /\ state = "failed" => doc = <<>> \/ nest # <<>> \/ refused
  /\ state = "written" => eof \/ "more" \in odd
  /\ state \in {"written", "destroyed"} /\ nest = <<>> /\ doc # <<>> /\ ~refused
       /\ Asked(odd) /\ "more" \notin odd
       => IsJson(sent) /\ Last(frames).final

\* A step of the caller, which fails or adds what the grammar has.
LEMMA JsonStep ==
  ASSUME JsonInv, state = "building",
         state' \in {"building", "failed", "aborted"},
         \/ doc' = doc /\ nest' = nest /\ (state' = "failed" => doc = <<>> \/ nest # <<>> \/ refused')
         \/ state' = "building" /\ Grammar(doc', nest')
  PROVE  JsonInv'
<1>1. state' = "building" => Grammar(doc', nest')
  BY DEF JsonInv
<1>2. state' = "failed" => doc' = <<>> \/ nest' # <<>> \/ refused'
  OBVIOUS
<1> QED BY <1>1, <1>2 DEF JsonInv

\* A call that appends its text, which is one of the grammar.
LEMMA AddsJson ==
  ASSUME JsonInv, state = "building", doc = <<>> \/ nest # <<>>,
         NEW rooms, NEW new, NEW deeper, NEW brackets, Adds(rooms, new, deeper, brackets),
         Grammar(doc \o new, brackets)
  PROVE  JsonInv'
<1>1. \/ doc' = doc /\ nest' = nest /\ state' \in {"building", "failed", "aborted"}
      \/ doc' = doc \o new /\ nest' = brackets /\ state' = "building"
  BY DEF Adds, Overflows, Fails, Gives
<1> QED BY <1>1, JsonStep

\* The start of a text.
LEMMA RootJson ==
  ASSUME Shape, JsonInv, OpenRoot \/ \E k \in Lengths : CopyToBuf(k + 2)
  PROVE  JsonInv'
<1>1. /\ state = "building" /\ doc = <<>> /\ nest = <<>>
      /\ doc \in Text /\ nest \in Seq(Brackets)
  BY DEF OpenRoot, CopyToBuf, Building, Shape, Types
<1>2. Awaits(doc, nest, "value")
  BY <1>1, ParsedOne DEF Awaits, Start
<1> DEFINE p == Char("{")
           r == doc \o p
           brackets == <<"{">>
<1>3. p \in Text /\ Comma \in Text
  BY NewChar DEF Comma, Signs
<1>4. r \in Text /\ Grammar(r, brackets) /\ Awaits(r, brackets, "member")
  <2>1. "{" \in Brackets /\ "value" \in {"value", "element"}
    BY DEF Brackets
  <2>2. Append(nest, "{") = brackets
    BY <1>1
  <2>3. /\ r \in Text /\ Grammar(r, Append(nest, "{"))
        /\ Awaits(r, Append(nest, "{"), IF "{" = "{" THEN "member" ELSE "element")
    BY <1>1, <1>2, <2>1, OpenGrammar
  <2> QED BY <2>2, <2>3
<1>5. brackets \in Seq(Brackets) /\ brackets # <<>> /\ brackets[1] = "{"
  BY DEF Brackets
<1> HIDE DEF p, r, brackets
<1>6. CASE Adds(NameRoom(0), p, 1, brackets)
  BY <1>1, <1>4, <1>6, AddsJson DEF r
<1>7. ASSUME NEW k \in Lengths, Adds(NameRoom(k), p \o Key(4) \o Quoted(k) \o Comma, 1, brackets)
      PROVE  JsonInv'
  <2>1. k \in Nat /\ 4 \in Nat
    BY SizesAssumption
  <2>2. Key(4) \in Text /\ Quoted(k) \in Text
    BY <2>1, NewTexts
  <2> DEFINE t == r \o Key(4)
             new == p \o Key(4) \o Quoted(k) \o Comma
  <2>3. t \in Text /\ Awaits(t, brackets, "value")
    BY <1>4, <1>5, <2>1, KeyGrammar
  <2> HIDE DEF t
  <2>4. Grammar((t \o Quoted(k)) \o Comma, brackets)
    BY <1>5, <2>1, <2>3, ValueGrammar
  <2>5. doc \o new = (t \o Quoted(k)) \o Comma
    BY <1>1, <1>3, <2>2, TextAssoc4 DEF t, r
  <2>6. Grammar(doc \o new, brackets) /\ Adds(NameRoom(k), new, 1, brackets)
    BY <1>7, <2>4, <2>5
  <2> HIDE DEF new
  <2> QED BY <1>1, <2>6, AddsJson
<1>8. ASSUME NEW k \in Lengths, CopyToBuf(k + 2) PROVE JsonInv'
  <2> DEFINE n == (k + 2) - 1
             new == Number(n) \o Char("rest")
             t == doc \o Number(n)
  <2>1. n \in Nat \ {0}
    BY SizesAssumption
  <2>2. Adds(NameRoom(k + 2), new, 0, nest)
    BY <1>1, <1>8 DEF CopyToBuf
  <2> HIDE DEF n
  <2>3. PICK x \in Piece : x.c = "value" /\ Number(n) = <<x>>
    BY <2>1, Pieces
  <2>4. PICK y \in Piece : y.c = "rest" /\ Char("rest") = <<y>>
    BY Pieces DEF Signs
  <2>5. t \in Text /\ Awaits(t, nest, "end")
    BY <1>1, <1>2, <2>3, AwaitsAfter
  <2> HIDE DEF t
  <2>6. Awaits(t \o <<y>>, nest, "end")
    BY <1>1, <2>4, <2>5, AwaitsAfter
  <2>7. doc \o new = t \o <<y>>
    <3>1. Number(n) \in Text /\ Char("rest") \in Text
      BY <2>1, NewTexts DEF Signs
    <3>2. doc \o new = (doc \o Number(n)) \o Char("rest")
      BY <1>1, <3>1, TextAssoc, Zenon
    <3> QED BY <2>4, <3>2 DEF t
  <2>8. Grammar(doc \o new, nest)
    <3> DEFINE q == [stack |-> nest, want |-> "end"]
    <3>1. q.want = "end" /\ Parsed(doc \o new) = q
      BY <2>6, <2>7 DEF Awaits
    <3> HIDE DEF q, new
    <3>2. IsJson(doc \o new)
      BY <3>1 DEF IsJson
    <3> QED BY <1>1, <3>2 DEF Grammar
  <2> HIDE DEF new
  <2> QED BY <1>1, <2>2, <2>8, AddsJson
<1> QED BY <1>6, <1>7, <1>8 DEF OpenRoot, p, brackets

\* The other calls that open a bracket.
LEMMA NestJson ==
  ASSUME Shape, JsonInv, Open
  PROVE  JsonInv'
<1>1. /\ state = "building" /\ nest # <<>> /\ doc \in Text /\ nest \in Seq(Brackets)
      /\ Grammar(doc, nest) /\ nest[1] = "{"
  <2>1. state = "building" /\ nest # <<>>
    BY DEF Open, Within, ValueDue, Building
  <2> QED BY <2>1, GrammarDue DEF JsonInv, Shape, Types
<1>2. ASSUME NEW bracket \in Brackets, Within("{"), NEW k \in Lengths,
             Adds(NameRoom(k), Key(k) \o Char(bracket), 1, Append(nest, bracket))
      PROVE  JsonInv'
  <2> DEFINE new == Key(k) \o Char(bracket)
             t == doc \o Key(k)
  <2>1. k \in Nat
    BY SizesAssumption
  <2>2. PICK want \in {"key", "member"} : Awaits(doc, nest, want)
    BY <1>1, <1>2, GrammarDue DEF Within
  <2>3. t \in Text /\ Awaits(t, nest, "value")
    BY <1>1, <2>1, <2>2, KeyGrammar
  <2> HIDE DEF t
  <2>4. Grammar(t \o Char(bracket), Append(nest, bracket))
    BY <1>1, <2>3, OpenGrammar
  <2>5. doc \o new = t \o Char(bracket)
    <3>1. Key(k) \in Text /\ bracket \in Signs
      BY <2>1, NewTexts DEF Brackets, Signs
    <3>2. Char(bracket) \in Text
      BY <3>1, NewTexts
    <3> QED BY <1>1, <3>1, <3>2, TextAssoc DEF t
  <2>6. /\ Adds(NameRoom(k), new, 1, Append(nest, bracket))
        /\ Grammar(doc \o new, Append(nest, bracket))
    BY <1>2, <2>4, <2>5
  <2> HIDE DEF new
  <2> QED BY <1>1, <2>6, AddsJson
<1>3. ASSUME NEW bracket \in Brackets, ValueDue,
             Adds(NameRoom(0), Char(bracket), 1, Append(nest, bracket))
      PROVE  JsonInv'
  <2>1. PICK want \in {"value", "element"} : Awaits(doc, nest, want)
    BY <1>1, <1>3, GrammarDue DEF ValueDue
  <2>2. Grammar(doc \o Char(bracket), Append(nest, bracket))
    BY <1>1, <2>1, OpenGrammar
  <2> QED BY <1>1, <1>3, <2>2, AddsJson
<1> QED BY <1>2, <1>3 DEF Open, Brackets

\* A name alone and a name with a value.
LEMMA KeyJson ==
  ASSUME Shape, JsonInv, NEW k \in Lengths, AddKey(k) \/ PutKv(k)
  PROVE  JsonInv'
<1>1. k \in Nat /\ Within("{")
  BY SizesAssumption DEF AddKey, PutKv
<1>2. /\ state = "building" /\ nest # <<>> /\ doc \in Text /\ nest \in Seq(Brackets)
      /\ Grammar(doc, nest) /\ nest[1] = "{"
  <2>1. state = "building" /\ nest # <<>>
    BY <1>1 DEF Within, Building
  <2> QED BY <2>1, GrammarDue DEF JsonInv, Shape, Types
<1> DEFINE t == doc \o Key(k)
<1>4. t \in Text /\ Awaits(t, nest, "value") /\ Grammar(t, nest)
  <2>1. PICK want \in {"key", "member"} : Awaits(doc, nest, want)
    BY <1>1, <1>2, GrammarDue DEF Within
  <2> QED BY <1>1, <1>2, <2>1, KeyGrammar
<1> HIDE DEF t
<1>5. CASE AddKey(k)
  <2>1. Adds(NameRoom(k), Key(k), 0, nest)
    BY <1>5 DEF AddKey
  <2> QED BY <1>2, <1>4, <2>1, AddsJson DEF t
<1>6. ASSUME NEW rooms, NEW value,
             (\E v \in Nat : value = Quoted(v)) \/ (\E v \in Nat \ {0} : value = Number(v)),
             Adds(rooms, Key(k) \o value \o Comma, 0, nest)
      PROVE  JsonInv'
  <2> DEFINE new == Key(k) \o value \o Comma
  <2>1. value \in Text /\ Grammar((t \o value) \o Comma, nest)
    BY <1>2, <1>4, <1>6, ValueGrammar
  <2>2. doc \o new = (t \o value) \o Comma
    <3>1. Key(k) \in Text /\ Comma \in Text
      BY <1>1, NewTexts
    <3> DEFINE a == Key(k)
               c == Comma
    <3>2. a \in Text /\ c \in Text /\ doc \in Text /\ value \in Text
      BY <1>2, <2>1, <3>1
    <3> HIDE DEF a, c, new
    <3> DEFINE p == a \o value
    <3>3. p \in Text /\ doc \o p = (doc \o a) \o value
      BY <3>2, WidthConcat, TextAssoc
    <3> HIDE DEF p
    <3>4. doc \o (p \o c) = (doc \o p) \o c
      BY <3>2, <3>3, TextAssoc
    <3> QED BY <3>3, <3>4 DEF t, a, c, new, p
  <2>3. Adds(rooms, new, 0, nest) /\ Grammar(doc \o new, nest)
    BY <1>6, <2>1, <2>2
  <2> HIDE DEF new
  <2> QED BY <1>2, <2>3, AddsJson
<1>7. CASE PutKv(k)
  <2>1. ASSUME NEW v \in Lengths, Adds(PairRoom(k, v), Key(k) \o Quoted(v) \o Comma, 0, nest)
        PROVE  JsonInv'
    <3>1. v \in Nat
      BY SizesAssumption
    <3> QED BY <1>6, <2>1, <3>1
  <2>2. ASSUME NEW d \in Digits, Adds(NumberRoom(k, d), Key(k) \o Number(d) \o Comma, 0, nest)
        PROVE  JsonInv'
    <3>1. d \in Nat \ {0}
      BY SizesAssumption
    <3> QED BY <1>6, <2>2, <3>1
  <2> QED BY <1>7, <2>1, <2>2 DEF PutKv
<1> QED BY <1>5, <1>7

\* add_value_s, add_value and add_value_d, read_json_from_function, cat_to_buf, get_a_buffer
\* and advance_position: a value and its comma, or nothing.
LEMMA ValueJson ==
  ASSUME Shape, JsonInv, state = "building", ValueDue,
         \/ /\ doc' = doc /\ nest' = nest
            /\ state' \in {"building", "failed", "aborted"}
         \/ /\ nest' = nest /\ state' = "building"
            /\ \E new : /\ \/ \E v \in Nat : new = Quoted(v)
                           \/ \E v \in Nat \ {0} : new = Number(v)
                        /\ doc' = (doc \o new) \o Comma
  PROVE  JsonInv'
<1>1. /\ nest # <<>> /\ doc \in Text /\ nest \in Seq(Brackets)
      /\ Grammar(doc, nest) /\ nest[1] = "{"
  <2>1. nest # <<>>
    BY DEF ValueDue
  <2> QED BY <2>1, GrammarDue DEF JsonInv, Shape, Types
<1>2. PICK want \in {"value", "element"} : Awaits(doc, nest, want)
  BY <1>1, GrammarDue DEF ValueDue
<1>3. CASE doc' = doc /\ nest' = nest /\ state' \in {"building", "failed", "aborted"}
  BY <1>1, <1>3, JsonStep
<1>4. ASSUME NEW new, (\E v \in Nat : new = Quoted(v)) \/ (\E v \in Nat \ {0} : new = Number(v)),
             doc' = (doc \o new) \o Comma, nest' = nest, state' = "building"
      PROVE  JsonInv'
  <2>1. Grammar((doc \o new) \o Comma, nest)
    BY <1>1, <1>2, <1>4, ValueGrammar
  <2>2. Grammar(doc', nest')
    BY <1>4, <2>1
  <2> QED BY <1>4, <2>2, JsonStep
<1> QED BY <1>3, <1>4

\* The same for a text that has the comma behind the value.
LEMMA NumberComma ==
  ASSUME Shape, NEW new, (\E v \in Nat : new = Quoted(v)) \/ (\E v \in Nat \ {0} : new = Number(v))
  PROVE  doc \o (new \o Comma) = (doc \o new) \o Comma
<1>1. new \in Text /\ Comma \in Text /\ doc \in Text
  BY NewTexts DEF Shape, Types
<1> QED BY <1>1, TextAssoc

\* A call that makes room for a value and appends it with its comma.
LEMMA AddsValueJson ==
  ASSUME Shape, JsonInv, state = "building", ValueDue, NEW rooms, NEW new,
         (\E v \in Nat : new = Quoted(v)) \/ (\E v \in Nat \ {0} : new = Number(v)),
         Adds(rooms, new \o Comma, 0, nest)
  PROVE  JsonInv'
<1>1. \/ doc' = doc /\ nest' = nest /\ state' \in {"building", "failed", "aborted"}
      \/ doc' = doc \o (new \o Comma) /\ nest' = nest /\ state' = "building"
  BY DEF Adds, Overflows, Fails, Gives
<1>2. doc \o (new \o Comma) = (doc \o new) \o Comma
  BY NumberComma
<1> QED BY <1>1, <1>2, ValueJson

\* The calls for values.
LEMMA ValuesJson ==
  ASSUME Shape, JsonInv,
         \/ AddValue
         \/ \E k \in Lengths : \/ \E required \in Expected : ReadJson(required, k + 1)
                              \/ GetAndAdvance(k + 2) \/ CatToBuf(k + 2)
  PROVE  JsonInv'
<1>1. state = "building" /\ ValueDue
  BY DEF AddValue, ReadJson, GetAndAdvance, CatToBuf, ValueDue, Within, Building
<1>2. CASE AddValue
  <2>1. ASSUME NEW v \in Lengths, Adds(PairRoom(3, v), Quoted(v) \o Comma, 0, nest)
        PROVE  JsonInv'
    <3>1. v \in Nat
      BY SizesAssumption
    <3> QED BY <1>1, <2>1, <3>1, AddsValueJson
  <2>2. ASSUME NEW d \in Digits, NEW b,
               IF b.ok
               THEN /\ Buffer(Noted([b EXCEPT !.text = @ \o Comma, !.nul = 0], "number"))
                    /\ doc' = doc \o Number(d) \o Comma
                    /\ UNCHANGED <<mine, depth, eof, nest, state>>
               ELSE Fails(b)
        PROVE  JsonInv'
    <3>1. d \in Nat \ {0}
      BY SizesAssumption
    <3>2. \/ doc' = doc /\ nest' = nest /\ state' \in {"building", "failed", "aborted"}
          \/ doc' = (doc \o Number(d)) \o Comma /\ nest' = nest /\ state' = "building"
      BY <1>1, <2>2 DEF Fails, Gives
    <3> QED BY <1>1, <3>1, <3>2, ValueJson
  <2> QED BY <1>2, <2>1, <2>2 DEF AddValue
<1>3. ASSUME NEW k \in Lengths, NEW required \in Expected, ReadJson(required, k + 1) PROVE JsonInv'
  <2>1. k + 1 \in Nat \ {0}
    BY SizesAssumption
  <2> DEFINE rooms == {IF b.ok /\ (k + 1) + 1 = Free(b) THEN Noted(b, "exact") ELSE b
                         : b \in Read(required, k + 1)}
  <2>2. Adds(rooms, Number(k + 1) \o Comma, 0, nest)
    BY <1>3 DEF ReadJson
  <2> HIDE DEF rooms
  <2> QED BY <1>1, <2>1, <2>2, AddsValueJson
<1>4. ASSUME NEW k \in Lengths, GetAndAdvance(k + 2) \/ CatToBuf(k + 2) PROVE JsonInv'
  <2> DEFINE new == Number((k + 2) - 1)
  <2>1. (k + 2) - 1 \in Nat \ {0}
    BY SizesAssumption
  <2>2. \/ doc' = doc /\ nest' = nest /\ state' \in {"building", "failed", "aborted"}
        \/ doc' = doc \o (new \o Comma) /\ nest' = nest /\ state' = "building"
    <3>1. CASE GetAndAdvance(k + 2)
      BY <1>1, <3>1 DEF GetAndAdvance, Fails, Gives
    <3>2. CASE CatToBuf(k + 2)
      BY <1>1, <3>2 DEF CatToBuf, Fails, Gives
    <3> QED BY <1>4, <3>1, <3>2
  <2>3. doc \o (new \o Comma) = (doc \o new) \o Comma
    BY <2>1, NumberComma
  <2> QED BY <1>1, <2>1, <2>2, <2>3, ValueJson
<1> QED BY <1>2, <1>3, <1>4

\* close_object, close_array and close_root_object
LEMMA CloseJson ==
  ASSUME Shape, JsonInv, CloseObject \/ CloseArray \/ CloseRootObject
  PROVE  JsonInv'
<1>1. /\ state = "building" /\ nest # <<>> /\ Last(doc).c # ":"
      /\ Grammar(doc, nest) /\ nest[1] = "{" /\ doc \in Text /\ nest \in Seq(Brackets)
  <2>1. state = "building" /\ nest # <<>> /\ Last(doc).c # ":"
    BY DEF CloseObject, CloseArray, CloseRootObject, Within, Building
  <2> QED BY <2>1, GrammarDue DEF JsonInv, Shape, Types
<1>2. Front(nest) = <<>> <=> depth = 1
  BY <1>1, StackFront DEF Shape
<1> DEFINE b == IF Last(nest) = "{" THEN "}" ELSE "]"
           t == Unread(doc) \o Char(b)
<1>3. IF Front(nest) = <<>> THEN Grammar(t, Front(nest)) ELSE Grammar(t \o Comma, Front(nest))
  BY <1>1, CloseGrammar
<1>4. t \o Comma = Unread(doc) \o (Char(b) \o Comma)
  <2>1. b \in Signs /\ "," \in Signs
    BY DEF Signs
  <2> HIDE DEF b
  <2>2. Unread(doc) \in Text /\ Char(b) \in Text /\ Comma \in Text
    BY <1>1, <2>1, NewTexts, UnreadConcat, WidthOne
  <2> QED BY <2>2, TextAssoc
<1>5. PICK new : /\ Closes(new)
                 /\ IF Front(nest) = <<>> THEN new = Char(b) ELSE new = Char(b) \o Comma
  <2>1. CASE CloseObject
    <3>1. Closes(Char("}") \o Comma) /\ Last(nest) = "{" /\ depth # 1
      <4>1. depth # 1
        <5>1. depth > 1 /\ depth = Len(nest)
          BY <2>1 DEF CloseObject, Shape
        <5>2. Len(nest) \in Nat
          BY <1>1, LenProperties
        <5> QED BY <5>1, <5>2
      <4> QED BY <2>1, <4>1 DEF CloseObject, Within
    <3> QED BY <1>2, <3>1
  <2>2. CASE CloseArray
    <3>1. Closes(Char("]") \o Comma) /\ Last(nest) = "["
      BY <2>2 DEF CloseArray, Within
    <3>2. Front(nest) # <<>>
      BY <1>1, <3>1, StackFront
    <3> QED BY <3>1, <3>2
  <2>3. CASE CloseRootObject
    <3>1. Closes(Char("}")) /\ Last(nest) = "{" /\ depth = 1
      BY <2>3 DEF CloseRootObject, Within
    <3> QED BY <1>2, <3>1
  <2> QED BY <2>1, <2>2, <2>3
<1>6. \/ doc' = doc /\ nest' = nest /\ state' = "aborted"
      \/ doc' = Unread(doc) \o new /\ nest' = Front(nest) /\ state' = "building"
  BY <1>1, <1>5 DEF Closes, Gives
<1>7. CASE doc' = doc /\ nest' = nest /\ state' = "aborted"
  BY <1>1, <1>7, JsonStep
<1>8. CASE doc' = Unread(doc) \o new /\ nest' = Front(nest) /\ state' = "building"
  <2> HIDE DEF b
  <2>1. Grammar(doc', nest')
    BY <1>3, <1>4, <1>5, <1>8
  <2> QED BY <1>1, <1>8, <2>1, JsonStep
<1> QED BY <1>6, <1>7, <1>8

\* A text that is written as a whole is all that was asked for, and a line end.
LEMMA WritesOutJson ==
  ASSUME Shape, TextInv, JsonInv, ~eof, state \in {"building", "failed", "written"},
         NEW line \in BOOLEAN, NEW outcome \in {"written", "destroyed"},
         WritesOut(TRUE, line, outcome)
  PROVE  JsonInv'
<1>1. PICK w \in Written(TRUE, line) : text' = <<>> /\ Wrote(w)
  BY DEF WritesOut
<1>2. eof' /\ state' = outcome /\ nest' = nest /\ doc' = doc /\ odd' = odd
  BY DEF WritesOut
<1>3. /\ w.refused \/ Last(w.frames).final
      /\ refused => w.refused
      /\ ~w.refused /\ text # <<>> => w.sent \in {sent \o text, (sent \o text) \o Line}
  <2>1. TRUE \in BOOLEAN
    OBVIOUS
  <2> QED BY <1>1, <2>1, WrittenFacts
<1>4. ASSUME nest = <<>>, doc # <<>>, ~w.refused, Asked(odd), "more" \notin odd
      PROVE  IsJson(w.sent)
  <2>1. state = "building"
    BY <1>3, <1>4 DEF JsonInv
  <2>2. IsJson(doc) /\ sent \o text = doc /\ text # <<>> /\ doc \in Text
    BY <1>4, <2>1 DEF JsonInv, Grammar, TextInv, Shape, Types
  <2>3. IsJson(doc \o Line)
    <3>1. PICK x \in Piece : x.c = "newline" /\ Line = <<x>>
      BY Pieces DEF Signs, Line
    <3>2. After(Parsed(doc), x) = Parsed(doc)
      BY <3>1 DEF After
    <3>3. Parsed(doc \o Line) = Parsed(doc)
      BY <2>2, <3>1, <3>2, ParsedOne
    <3> QED BY <2>2, <3>3 DEF IsJson
  <2> QED BY <1>3, <1>4, <2>2, <2>3
<1>5. sent' = w.sent /\ frames' = w.frames /\ refused' = w.refused
  BY <1>1 DEF Wrote
<1>6. nest' = <<>> /\ doc' # <<>> /\ ~refused' /\ Asked(odd') /\ "more" \notin odd'
        => IsJson(sent') /\ Last(frames').final
  BY <1>2, <1>3, <1>4, <1>5
<1>7. state' # "building" /\ state' # "failed"
  BY <1>2
<1> QED BY <1>2, <1>6, <1>7 DEF JsonInv

\* Every step keeps the grammar.
LEMMA JsonKept ==
  ASSUME Shape, TextInv, JsonInv, Next
  PROVE  JsonInv'
<1>1. CASE UoutPrinter
  BY <1>1, RootJson, NestJson, CloseJson, KeyJson DEF UoutPrinter
<1>2. CASE CloseArray \/ AddValue
  BY <1>2, CloseJson, ValuesJson
<1>3. ASSUME NEW k \in Lengths,
             \/ AddKey(k) \/ \E required \in Expected : ReadJson(required, k + 1)
             \/ GetAndAdvance(k + 2) \/ CatToBuf(k + 2) \/ CopyToBuf(k + 2)
      PROVE  JsonInv'
  BY <1>3, KeyJson, ValuesJson, RootJson
<1>4. CASE AllocBigger(BufMax) \/ WriteSome
  <2>1. /\ state = "building" /\ doc' = doc /\ nest' = nest
        /\ state' \in {"building", "failed", "aborted"}
    BY <1>4 DEF AllocBigger, WriteSome, Building, Fails, Gives
  <2>2. state' = "failed" => refused'
    <3>1. CASE AllocBigger(BufMax) /\ mine
      <4>1. PICK b \in Realloc(Now, BufMax) : IF b.ok THEN Gives(b, state) ELSE Fails(b)
        BY <3>1 DEF AllocBigger
      <4>2. refused' = b.refused /\ (b.ok => state' = "building")
        BY <2>1, <4>1 DEF Fails, Gives, Buffer, Wrote
      <4>3. b.ok \/ b.refused
        <5>1. Now \in Buffers /\ Now.ok /\ ~(BufMax > BufMax)
          BY NowFacts, SizesAssumption DEF Shape
        <5> QED BY <4>1, <5>1 DEF Realloc, Buffers
      <4> QED BY <4>2, <4>3
    <3>2. CASE AllocBigger(BufMax) /\ ~mine
      BY <3>2, SizesAssumption DEF AllocBigger, Gives
    <3>3. CASE WriteSome
      BY <2>1, <3>3 DEF WriteSome, Gives
    <3> QED BY <1>4, <3>1, <3>2, <3>3
  <2> QED BY <2>1, <2>2, JsonStep
<1>5. CASE WriteJson
  <2>1. PICK final, line \in BOOLEAN : WritesOut(final, line, "written")
    BY <1>5 DEF WriteJson
  <2>2. CASE final
    <3>1. final = TRUE
      BY <2>1, <2>2
    <3> QED BY <1>5, <2>1, <3>1, WritesOutJson DEF WriteJson
  <2>3. CASE ~final
    <3>1. "more" \in odd' /\ state' = "written"
      BY <2>1, <2>3 DEF WritesOut
    <3> QED BY <3>1 DEF JsonInv
  <2> QED BY <2>2, <2>3
<1>6. CASE Destroy
  <2>1. CASE eof
    <3>1. /\ state' = "destroyed" /\ sent' = sent /\ frames' = frames /\ refused' = refused
          /\ nest' = nest /\ doc' = doc /\ odd' = odd
      BY <1>6, <2>1 DEF Destroy, wvars
    <3>2. state \in {"failed", "written"}
      BY <1>6, <2>1 DEF Destroy, Shape
    <3>3. nest = <<>> /\ doc # <<>> /\ ~refused /\ Asked(odd) /\ "more" \notin odd
            => IsJson(sent) /\ Last(frames).final
      BY <3>2 DEF JsonInv
    <3> QED BY <3>1, <3>3 DEF JsonInv
  <2>2. CASE ~eof
    BY <1>6, <2>2, WritesOutJson DEF Destroy
  <2> QED BY <2>1, <2>2
<1> QED BY <1>1, <1>2, <1>3, <1>4, <1>5, <1>6 DEF Next

--------------------------------------------------------------------------------
(* Theorems *)

\* The buffer, the caller's brackets and the frames are at every time of a builder: every
\* text is one of pieces, m_obj_ct counts the open brackets, what is in the buffer ends with
\* one character, and the frames are those of a message begun or ended.
THEOREM Invariance == Spec => []Shape
<1>1. Init => Shape
  BY InitKeeps
<1>2. Shape /\ [Next]_vars => Shape'
  BY NextKeeps, StutterKeeps DEF Keeps
<1> QED BY <1>1, <1>2, PTL DEF Spec

\* postcond(myBuf_size > myBuf_idx): for names, values and buffers of any size the text and
\* its null character lie in the buffer.  Behind its end nothing is written but by cat_to_buf
\* behind a chunk, and one character by a number of more than fifteen or a value of
\* read_json_from_function that fills its room to the last one; these stop the program.
THEOREM TextStaysInBuffer == Spec => []InBounds
<1> DEFINE IInv == Shape /\ SizeInv
<1>1. Init => IInv
  BY InitKeeps
<1>2. IInv /\ [Next]_vars => IInv'
  BY NextKeeps, StutterKeeps DEF Keeps
<1>3. IInv => InBounds
  BY DEF InBounds, Shape, SizeInv, Lies, Past
<1> QED BY <1>1, <1>2, <1>3, PTL DEF Spec

\* What has left the buffer and what is in it are together the text asked for, whatever was
\* sent, refused, taken back and grown in between, until a call writes something else than it
\* was asked for (add_value of a number, cat_to_buf behind a chunk).
THEOREM NothingLostOrTwice == Spec => []TextAsAsked
<1> DEFINE IInv == Shape /\ TextInv
<1>1. Init => IInv
  BY InitKeeps
<1>2. IInv /\ [Next]_vars => IInv'
  BY NextKeeps, StutterKeeps DEF Keeps
<1>3. IInv => TextAsAsked
  BY DEF TextAsAsked, Shape, TextInv, Asked
<1> QED BY <1>1, <1>2, <1>3, PTL DEF Spec

\* A call fails, or stops the program, only when the call-back or the heap has refused, when
\* the buffer is a user's, or for the calls that make less room than they need: sending all but
\* one character always makes enough room for the others in a buffer of BUF_MAX_SIZE that has
\* place for every pair the caller writes and for one character more.
THEOREM FailsOnlyIfRefused == ASSUME Roomy PROVE Spec => []OnlyRefusalFails
<1> DEFINE IInv == Shape /\ OnlyRefusalFails
<1>1. Init => IInv
  BY InitKeeps
<1>2. IInv /\ [Next]_vars => IInv'
  BY NextKeeps, StutterKeeps DEF Keeps
<1>3. IInv => OnlyRefusalFails
  OBVIOUS
<1> QED BY <1>1, <1>2, <1>3, PTL DEF Spec

\* Whatever is sent, the frames are those of one websocket message; and what arrives of a
\* finished text, if nothing was refused, is one JSON value whose last frame says so: for
\* texts of any depth, and whatever names and values are put, sent, taken back and grown in
\* between, unless a call has written something else than it was asked for or the text was
\* handed on with final = false.
THEOREM OneJsonValue == Spec => []MessageIsJson
<1> DEFINE IInv == Shape /\ TextInv /\ JsonInv
<1>1. Init => IInv
  <2> SUFFICES ASSUME Init PROVE JsonInv
    BY InitKeeps
  <2> QED BY DEF Init, JsonInv, Grammar
<1>2. IInv /\ [Next]_vars => IInv'
  <2> SUFFICES ASSUME Shape, TextInv, JsonInv, [Next]_vars PROVE IInv'
    OBVIOUS
  <2>1. CASE Next
    BY <2>1, NextKeeps, JsonKept DEF Keeps
  <2>2. CASE UNCHANGED vars
    <3>1. JsonInv'
      BY <2>2 DEF vars, wvars, JsonInv
    <3> QED BY <2>2, <3>1, StutterKeeps
  <2> QED BY <2>1, <2>2
<1>3. IInv => MessageIsJson
  <2> SUFFICES ASSUME Shape, JsonInv PROVE MessageIsJson
    OBVIOUS
  <2>1. Message(frames)
    BY BegunMessage DEF Shape, Types
  <2> QED BY <2>1 DEF MessageIsJson, OneMessage, Message, JsonInv, Asked
<1> QED BY <1>1, <1>2, <1>3, PTL DEF Spec
================================================================================
