-------------------------------- MODULE Cli_proofs --------------------------------
(***************************************************************************)
(* Proofs about Cli: the reader is the abstract line editor, each command  *)
(* reaches its handler as asked for, and what is printed are whole lines,  *)
(* for commands, JSON texts, mistakes and buffers of any size.             *)
(***************************************************************************)
EXTENDS Cli, WellFoundedInduction, SequenceTheorems, FiniteSetTheorems, TLAPS

--------------------------------------------------------------------------------
(* Induction *)

\* Induction over the naturals, for a set.
LEMMA NatSetInduction ==
  ASSUME NEW S, 0 \in S, \A n \in Nat : n \in S => n + 1 \in S
  PROVE  Nat \subseteq S
<1> DEFINE R == OpToRel(<, Nat)
           T == Nat \ S
<1> SUFFICES ASSUME T # {} PROVE FALSE
  OBVIOUS
<1>1. IsWellFoundedOn(R, Nat)
  BY NatLessThanWellFounded
<1>2. PICK n \in T : \A m \in T : ~(<<m, n>> \in R)
  <2> HIDE DEF R
  <2>1. T \subseteq Nat
    OBVIOUS
  <2> HIDE DEF T
  <2> QED BY <1>1, <2>1, WFMin
<1>3. \A m \in T : m < n => <<m, n>> \in R
  BY DEF OpToRel
<1>4. n # 0 /\ n - 1 \in Nat /\ n - 1 < n
  OBVIOUS
<1>5. n - 1 \notin T
  <2> HIDE DEF R
  <2> QED BY <1>2, <1>3, <1>4
<1> QED BY <1>4, <1>5

\* What a loop of l steps goes through
Runs(l, S, base, step) ==
  {f \in [0 .. l -> S] : f[0] = base /\ \A i \in 1 .. l : f[i] = step[<<f[i - 1], i>>]}

\* A loop has a state behind each of its steps.
LEMMA Iterates ==
  ASSUME NEW l \in Nat, NEW S, NEW base \in S, NEW step \in [S \X (1 .. l) -> S]
  PROVE  Runs(l, S, base, step) # {}
<1> DEFINE Goes(f, m) == f[0] = base /\ \A i \in 1 .. m : f[i] = step[<<f[i - 1], i>>]
           D == {m \in Nat : m <= l => \E f \in [0 .. m -> S] : Goes(f, m)}
<1>1. 0 \in D
  <2> DEFINE f == [i \in 0 .. 0 |-> base]
  <2>1. f \in [0 .. 0 -> S] /\ Goes(f, 0)
    OBVIOUS
  <2> QED BY <2>1
<1>2. ASSUME NEW m \in Nat, m \in D PROVE m + 1 \in D
  <2> SUFFICES ASSUME m + 1 <= l PROVE \E f \in [0 .. m + 1 -> S] : Goes(f, m + 1)
    OBVIOUS
  <2>1. PICK g \in [0 .. m -> S] : Goes(g, m)
    BY <1>2
  <2> DEFINE x == step[<<g[m], m + 1>>]
             f == [i \in 0 .. m + 1 |-> IF i = m + 1 THEN x ELSE g[i]]
  <2>2. x \in S
    <3>1. <<g[m], m + 1>> \in S \X (1 .. l)
      OBVIOUS
    <3> QED BY <3>1
  <2>3. f \in [0 .. m + 1 -> S]
    <3> HIDE DEF x
    <3> QED BY <2>2
  <2>4. f[0] = base /\ f[m + 1] = step[<<f[m], m + 1>>]
    <3>1. f[0] = g[0] /\ f[m + 1] = x /\ f[m] = g[m]
      OBVIOUS
    <3> QED BY <2>1, <3>1
  <2>5. ASSUME NEW i \in 1 .. m PROVE f[i] = g[i] /\ f[i - 1] = g[i - 1]
    OBVIOUS
  <2> HIDE DEF f
  <2>6. ASSUME NEW i \in 1 .. m + 1 PROVE f[i] = step[<<f[i - 1], i>>]
    <3>1. CASE i \in 1 .. m
      BY <2>1, <2>5, <3>1
    <3>2. CASE i = m + 1
      <4>1. i - 1 = m
        BY <3>2
      <4> QED BY <2>4, <3>2, <4>1
    <3> QED BY <3>1, <3>2
  <2> QED BY <2>3, <2>4, <2>6
<1>3. l \in D
  <2> HIDE DEF D
  <2> QED BY <1>1, <1>2, NatSetInduction
<1> QED BY <1>3 DEF Runs

\* Induction over the steps of a loop.
LEMMA LoopInduction ==
  ASSUME NEW l \in Nat, NEW D, 0 \in D, \A i \in 1 .. l : i - 1 \in D => i \in D
  PROVE  0 .. l \subseteq D
<1> DEFINE E == {i \in Nat : i <= l => i \in D}
<1>1. 0 \in E
  OBVIOUS
<1>2. ASSUME NEW i \in Nat, i \in E PROVE i + 1 \in E
  <2> SUFFICES ASSUME i + 1 <= l PROVE i + 1 \in D
    OBVIOUS
  <2>1. i + 1 \in 1 .. l /\ (i + 1) - 1 = i /\ i \in D
    BY <1>2
  <2> QED BY <2>1
<1>3. Nat \subseteq E
  <2> HIDE DEF E
  <2> QED BY <1>1, <1>2, NatSetInduction
<1> QED BY <1>3

\* What holds in front of a loop and is kept by each step holds behind each of them.
LEMMA Stays ==
  ASSUME NEW l \in Nat, NEW S, NEW h, h[0] \in S, \A i \in 1 .. l : h[i - 1] \in S => h[i] \in S
  PROVE  \A i \in 0 .. l : h[i] \in S
<1> DEFINE D == {i \in 0 .. l : h[i] \in S}
<1>1. 0 \in D
  OBVIOUS
<1>2. \A i \in 1 .. l : i - 1 \in D => i \in D
  OBVIOUS
<1>3. 0 .. l \subseteq D
  <2> HIDE DEF D
  <2> QED BY <1>1, <1>2, LoopInduction
<1> QED BY <1>3

--------------------------------------------------------------------------------
(* Sequences and numbers *)

\* Sequences of a few elements
LEMMA Few ==
  ASSUME NEW S, NEW a \in S, NEW b \in S, NEW c \in S, NEW d \in S, NEW e \in S
  PROVE  <<a>> \in Seq(S) /\ <<a, b, c, d, e>> \in Seq(S)
OBVIOUS

\* One more element
LEMMA OneMore ==
  ASSUME NEW S, NEW s \in Seq(S), NEW x \in S
  PROVE  /\ Append(s, x) \in Seq(S) /\ Len(Append(s, x)) = Len(s) + 1
         /\ Append(s, x)[Len(s) + 1] = x
         /\ \A i \in 1 .. Len(s) : Append(s, x)[i] = s[i]
OBVIOUS

\* A number is even or odd.
LEMMA EvenOdd ==
  ASSUME NEW n \in Nat
  PROVE  /\ n % 2 \in {0, 1}
         /\ n % 2 = 0 <=> ~(n % 2 = 1)
         /\ (n + 1) % 2 = 1 <=> ~(n % 2 = 1)
OBVIOUS

--------------------------------------------------------------------------------
(* Lines *)

\* What is typed for a parameter is made of the characters of a line.
LEMMA TypedChars ==
  ASSUME NEW p \in Params
  PROVE  Typed(p) \in Seq(Chars)
<1>1. p.key \in Seq(Chars)
  <2>1. Letters \subseteq Chars
    BY DEF Chars
  <2> QED BY <2>1, ParamsAssumption
<1>2. CASE p.val = NoVal
  BY <1>1, <1>2 DEF Typed
<1>3. CASE p.val # NoVal
  <2>1. p.val \in Seq(Chars)
    <3>1. Letters \subseteq Chars
      BY DEF Chars
    <3> QED BY <1>3, <3>1, ParamsAssumption
  <2>2. "=" \in Chars /\ "quote" \in Chars
    BY DEF Chars
  <2>3. <<"=">> \in Seq(Chars) /\ <<"quote">> \in Seq(Chars)
    BY <2>2
  <2> QED BY <1>1, <1>3, <2>1, <2>3 DEF Typed
<1> QED BY <1>2, <1>3

\* Blanks are characters of a line.
LEMMA SpacesChars ==
  ASSUME NEW n \in Nat
  PROVE  /\ Spaces(n) \in Seq(Chars) /\ Len(Spaces(n)) = n
         /\ \A i \in 1 .. n : Spaces(n)[i] = " "
<1>1. " " \in Chars
  BY DEF Chars
<1>2. Spaces(n) \in [1 .. n -> Chars]
  BY <1>1 DEF Spaces
<1>3. \A i \in 1 .. n : Spaces(n)[i] = " "
  BY DEF Spaces
<1>4. Spaces(n) \in Seq(Chars)
  BY <1>2, SeqDef
<1>5. DOMAIN Spaces(n) = 1 .. n
  BY DEF Spaces
<1>6. Len(Spaces(n)) = n
  BY <1>4, <1>5, LenProperties
<1> QED BY <1>3, <1>4, <1>6

\* The recursive function of LineOf
LEMMA LineDef ==
  ASSUME NEW ps \in Seq(Params), NEW n \in Nat \ {0}
  PROVE  \E text \in [0 .. Len(ps) -> Seq(Chars)] :
           /\ LineOf(ps, n) = text[Len(ps)]
           /\ text[0] = Spaces(n - 1)
           /\ \A i \in 1 .. Len(ps) : text[i] = text[i - 1] \o Typed(ps[i]) \o Spaces(n)
<1> DEFINE l == Len(ps)
           S == Seq(Chars)
           Def(h) == [i \in 0 .. Len(ps) |-> IF i = 0 THEN Spaces(n - 1)
                                             ELSE h[i - 1] \o Typed(ps[i]) \o Spaces(n)]
           step == [x \in S \X (1 .. l) |-> x[1] \o Typed(ps[x[2]]) \o Spaces(n)]
           text == CHOOSE h : h = Def(h)
<1>1. l \in Nat
  BY LenProperties
<1>2. step \in [S \X (1 .. l) -> S]
  <2> SUFFICES ASSUME NEW s \in S, NEW i \in 1 .. l
               PROVE  s \o Typed(ps[i]) \o Spaces(n) \in S
    OBVIOUS
  <2>1. Typed(ps[i]) \in S
    BY ElementOfSeq, TypedChars
  <2>2. Spaces(n) \in S
    BY SpacesChars
  <2> QED BY <2>1, <2>2
<1>3. Spaces(n - 1) \in S
  <2>1. n - 1 \in Nat
    OBVIOUS
  <2> QED BY <2>1, SpacesChars
<1>4. \A s \in S, i \in 1 .. l : step[<<s, i>>] = s \o Typed(ps[i]) \o Spaces(n)
  OBVIOUS
<1>5. LineOf(ps, n) = text[l]
  BY DEF LineOf
<1>6. \A h : Def(h) = [i \in 0 .. l |-> IF i = 0 THEN Spaces(n - 1)
                                       ELSE h[i - 1] \o Typed(ps[i]) \o Spaces(n)]
  OBVIOUS
<1>7. text = Def(text) \/ \A h : h # Def(h)
  <2> HIDE DEF Def
  <2> QED OBVIOUS
<1> HIDE DEF l, S, step, text, Def
<1>8. PICK f \in Runs(l, S, Spaces(n - 1), step) : TRUE
  BY <1>1, <1>2, <1>3, Iterates
<1>9. f \in [0 .. l -> S] /\ f[0] = Spaces(n - 1)
      /\ \A i \in 1 .. l : f[i] = step[<<f[i - 1], i>>]
  BY <1>8 DEF Runs
<1>10. f = Def(f)
  <2>1. ASSUME NEW i \in 0 .. l PROVE f[i] = Def(f)[i]
    <3>1. CASE i = 0
      BY <1>6, <1>9, <3>1
    <3>2. CASE i # 0
      <4>1. i \in 1 .. l /\ i - 1 \in 0 .. l
        BY <1>1, <3>2
      <4>2. Def(f)[i] = f[i - 1] \o Typed(ps[i]) \o Spaces(n)
        BY <1>6, <3>2
      <4> QED BY <1>4, <1>9, <4>1, <4>2
    <3> QED BY <3>1, <3>2
  <2> QED BY <1>6, <1>9, <2>1
<1>11. text = Def(text)
  BY <1>7, <1>10
<1>12. text[0] = Spaces(n - 1)
  <2>1. 0 \in 0 .. l
    BY <1>1
  <2>2. Def(text)[0] = Spaces(n - 1)
    BY <1>6, <2>1
  <2> QED BY <1>11, <2>2
<1>13. ASSUME NEW i \in 1 .. l PROVE text[i] = text[i - 1] \o Typed(ps[i]) \o Spaces(n)
  <2>1. i \in 0 .. l /\ i # 0
    BY <1>1
  <2> QED BY <1>6, <1>11, <2>1
<1>14. \A i \in 0 .. l : text[i] \in S
  <2>1. ASSUME NEW i \in 1 .. l, text[i - 1] \in S PROVE text[i] \in S
    <3>1. <<text[i - 1], i>> \in S \X (1 .. l)
      BY <2>1
    <3>2. step[<<text[i - 1], i>>] \in S
      BY <1>2, <3>1
    <3>3. step[<<text[i - 1], i>>] = text[i - 1] \o Typed(ps[i]) \o Spaces(n)
      BY <1>4, <2>1
    <3> QED BY <1>13, <3>2, <3>3
  <2> QED BY <1>1, <1>3, <1>12, <2>1, Stays
<1>15. text \in [0 .. l -> S]
  BY <1>6, <1>11, <1>14
<1> QED BY <1>5, <1>12, <1>13, <1>15 DEF l, S

--------------------------------------------------------------------------------
(* The reader *)

\* A line is one of parameters or of a JSON text.
LEMMA LineKinds ==
  ASSUME NEW w \in Lines
  PROVE  \/ \E ps \in Seq(Params), n \in {1, 2} : w = TextLine(ps, n)
         \/ \E d \in Docs : w = JsonLine(d)
<1>1. Lists \subseteq Seq(Params)
  <2>1. \A k \in 0 .. MaxParams : k \in Nat
    BY ParamsAssumption
  <2> QED BY <2>1, SeqDef DEF Lists
<1>2. \/ \E ps \in Lists, n \in {1, 2} : w = TextLine(ps, n)
      \/ \E d \in Docs : w = JsonLine(d)
  BY DEF Lines
<1> QED BY <1>1, <1>2

\* A command line is made of characters.
LEMMA LineChars ==
  ASSUME NEW w \in Lines
  PROVE  w.text \in Seq(Chars)
<1>1. ASSUME NEW ps \in Seq(Params), NEW n \in {1, 2}
      PROVE  LineOf(ps, n) \in Seq(Chars)
  <2>1. n \in Nat \ {0}
    OBVIOUS
  <2>2. PICK text \in [0 .. Len(ps) -> Seq(Chars)] : LineOf(ps, n) = text[Len(ps)]
    BY <2>1, LineDef
  <2>3. Len(ps) \in 0 .. Len(ps)
    BY LenProperties
  <2> QED BY <2>2, <2>3
<1>2. <<"{", "quote", ";", "quote", "}">> \in Seq(Chars)
  <2>1. {"{", "quote", ";", "}"} \subseteq Chars
    BY DEF Chars
  <2>2. "{" \in Chars /\ "quote" \in Chars /\ ";" \in Chars /\ "}" \in Chars
    BY <2>1
  <2> QED BY <2>2, Few
<1>3. \A ps, n : TextLine(ps, n).text = LineOf(ps, n)
  BY DEF TextLine
<1>4. \A d : JsonLine(d).text = <<"{", "quote", ";", "quote", "}">>
  BY DEF JsonLine
<1> QED BY <1>1, <1>2, <1>3, <1>4, LineKinds

\* A character of a line is none of the keys that edit it.
LEMMA NoEditKey == Chars \cap {"newline", "backspace"} = {}
BY CharsAssumption DEF Chars

\* The quotes of a text
QuotesOf(s) == {i \in DOMAIN s : s[i] = "quote"}
Quotes(s) == Cardinality(QuotesOf(s))

\* A text has a number of quotes.
LEMMA QuotesNat ==
  ASSUME NEW s \in Seq(Chars)
  PROVE  IsFiniteSet(QuotesOf(s)) /\ Quotes(s) \in Nat
<1>1. Len(s) \in Nat /\ DOMAIN s = 1 .. Len(s)
  BY LenProperties
<1>2. IsFiniteSet(1 .. Len(s))
  BY <1>1, FS_Interval
<1>3. QuotesOf(s) \in SUBSET (1 .. Len(s))
  BY <1>1 DEF QuotesOf
<1>4. IsFiniteSet(QuotesOf(s))
  BY <1>2, <1>3, FS_Subset
<1> QED BY <1>4, FS_CardinalityType DEF Quotes

\* No text, no quotes
LEMMA QuotesEmpty == Quotes(<<>>) = 0
<1>1. QuotesOf(<<>>) = {}
  BY DEF QuotesOf
<1> QED BY <1>1, FS_EmptySet DEF Quotes

\* One more character
LEMMA QuotesAppend ==
  ASSUME NEW s \in Seq(Chars), NEW c \in Chars
  PROVE  Quotes(Append(s, c)) = Quotes(s) + IF c = "quote" THEN 1 ELSE 0
<1> DEFINE l == Len(s)
           t == Append(s, c)
<1>1. l \in Nat /\ DOMAIN s = 1 .. l
  BY LenProperties
<1>2. t \in Seq(Chars) /\ Len(t) = l + 1 /\ t[l + 1] = c /\ \A i \in 1 .. l : t[i] = s[i]
  OBVIOUS
<1>3. DOMAIN t = 1 .. l + 1
  <2> HIDE DEF t
  <2> QED BY <1>2, LenProperties
<1> HIDE DEF l, t
<1>4. IsFiniteSet(QuotesOf(s)) /\ Quotes(s) \in Nat
  BY QuotesNat
<1>5. CASE c = "quote"
  <2>1. QuotesOf(t) = QuotesOf(s) \cup {l + 1}
    BY <1>1, <1>2, <1>3, <1>5 DEF QuotesOf
  <2>2. l + 1 \notin QuotesOf(s)
    BY <1>1 DEF QuotesOf
  <2>3. Quotes(t) = Quotes(s) + 1
    BY <1>4, <2>1, <2>2, FS_AddElement DEF Quotes
  <2> QED BY <1>5, <2>3 DEF t
<1>6. CASE c # "quote"
  <2>1. QuotesOf(t) = QuotesOf(s)
    BY <1>1, <1>2, <1>3, <1>6 DEF QuotesOf
  <2>2. Quotes(t) = Quotes(s)
    BY <2>1 DEF Quotes
  <2> QED BY <1>4, <1>6, <2>2 DEF t
<1> QED BY <1>5, <1>6

\* Erasing the last character
LEMMA QuotesFront ==
  ASSUME NEW s \in Seq(Chars), s # <<>>
  PROVE  /\ Front(s) \in Seq(Chars)
         /\ Front(s) = SubSeq(s, 1, Len(s) - 1)
         /\ Quotes(Front(s)) = Quotes(s) - IF Last(s) = "quote" THEN 1 ELSE 0
<1> DEFINE f == Front(s)
           c == Last(s)
<1>1. Len(s) \in Nat \ {0}
  BY EmptySeq
<1>2. f = SubSeq(s, 1, Len(s) - 1) /\ c = s[Len(s)]
  BY DEF Front, Last
<1>3. f \in Seq(Chars) /\ c \in Chars /\ s = Append(f, c)
  BY <1>1, <1>2
<1> HIDE DEF f, c
<1>4. Quotes(s) = Quotes(f) + IF c = "quote" THEN 1 ELSE 0
  BY <1>3, QuotesAppend
<1>5. Quotes(f) \in Nat
  BY <1>3, QuotesNat
<1>6. Quotes(f) = Quotes(s) - IF c = "quote" THEN 1 ELSE 0
  BY <1>4, <1>5
<1> QED BY <1>2, <1>3, <1>6 DEF f, c

\* quote_count counts the quotes of the line being edited, nobody types when nothing is
\* asked for, and what is worked on is a line.
EditInv ==
  /\ chars \in Seq(Chars)
  /\ quote_count = Quotes(chars)
  /\ todo \in Seq(Chars)
  /\ want # NoVal => want \in Lines
  /\ todo # <<>> => want # NoVal
  /\ phase # "idle" => line # NoLine

\* Reading a character keeps the count.
LEMMA ReadKeeps ==
  ASSUME EditInv, NEW c \in Chars \cup {"newline", "backspace"}, ReadChar(c)
  PROVE  /\ chars' \in Seq(Chars) /\ quote_count' = Quotes(chars')
         /\ line = NoLine /\ (line' = NoLine \/ line' \in Seq(Chars))
<1> USE DEF EditInv
<1>1. CASE c = "newline"
  BY <1>1, QuotesEmpty DEF ReadChar, Discard, Buffer
<1>2. CASE c = "backspace"
  <2>1. Backspace /\ line = NoLine
    BY <1>2 DEF ReadChar
  <2>2. CASE chars = <<>>
    BY <2>1, <2>2 DEF Backspace, Buffer
  <2>3. CASE chars # <<>>
    BY <2>1, <2>3, QuotesFront DEF Backspace, Buffer
  <2> QED BY <2>2, <2>3
<1>3. CASE c \in Chars /\ c = ";" /\ quote_count % 2 = 0
  <2>1. EndOfLine /\ line = NoLine
    BY <1>3, NoEditKey DEF ReadChar
  <2> QED BY <2>1, QuotesEmpty DEF EndOfLine
<1>4. CASE c \in Chars /\ ~(c = ";" /\ quote_count % 2 = 0)
  <2>1. /\ Buffer(Append(chars, c), quote_count + IF c = "quote" THEN 1 ELSE 0)
        /\ line = NoLine
    BY <1>4, NoEditKey DEF ReadChar
  <2>2. Append(chars, c) \in Seq(Chars)
    BY <1>4, OneMore
  <2> QED BY <1>4, <2>1, <2>2, QuotesAppend DEF Buffer
<1> QED BY <1>1, <1>2, <1>3, <1>4

\* Each action keeps EditInv.
LEMMA EditInvNext ==
  ASSUME EditInv, [Next]_vars
  PROVE  EditInv'
<1>1. CASE UNCHANGED vars
  BY <1>1 DEF EditInv, vars, bufvars
<1>2. CASE Choose
  <2>1. want' \in Lines /\ todo' = want'.text \o <<";">> /\ want' # NoVal
    BY <1>2, WantAssumption DEF Choose
  <2>2. todo' \in Seq(Chars)
    <3>1. want'.text \in Seq(Chars)
      BY <2>1, LineChars
    <3>2. <<";">> \in Seq(Chars)
      <4>1. ";" \in Chars
        BY DEF Chars
      <4> QED BY <4>1, Few
    <3> QED BY ConcatProperties, <2>1, <3>1, <3>2
  <2> QED BY <1>2, <2>1, <2>2 DEF Choose, EditInv, bufvars
<1>3. CASE Answered
  BY <1>3 DEF Answered, EditInv, bufvars
<1>4. CASE TypeNext
  <2>1. Head(todo) \in Chars /\ Tail(todo) \in Seq(Chars)
    BY <1>4, HeadTailProperties DEF TypeNext, EditInv
  <2>2. ReadChar(Head(todo))
    BY <1>4 DEF TypeNext
  <2>3. /\ chars' \in Seq(Chars) /\ quote_count' = Quotes(chars')
        /\ line = NoLine
    BY <2>1, <2>2, ReadKeeps
  <2> QED BY <1>4, <2>1, <2>3 DEF TypeNext, Typing, EditInv
<1>5. CASE Slip
  <2>1. PICK c \in Slips : ReadChar(c)
    BY <1>5 DEF Slip
  <2>2. c \in Chars
    BY NamesAssumption
  <2>3. /\ chars' \in Seq(Chars) /\ quote_count' = Quotes(chars')
        /\ line = NoLine
    BY <2>1, <2>2, ReadKeeps
  <2> QED BY <1>5, <2>3 DEF Slip, Typing, EditInv
<1>6. CASE Correct
  <2>1. /\ chars' \in Seq(Chars) /\ quote_count' = Quotes(chars')
        /\ line = NoLine
    BY <1>6, ReadKeeps DEF Correct
  <2> QED BY <1>6, <2>1 DEF Correct, Typing, EditInv
<1>7. CASE Restart
  <2>1. /\ chars' \in Seq(Chars) /\ quote_count' = Quotes(chars')
        /\ line = NoLine
    BY <1>7, ReadKeeps DEF Restart
  <2>2. want \in Lines /\ todo' = want.text \o <<";">>
    BY <1>7 DEF Restart, EditInv
  <2>3. todo' \in Seq(Chars)
    <3>1. want.text \in Seq(Chars)
      BY <2>2, LineChars
    <3>2. <<";">> \in Seq(Chars)
      <4>1. ";" \in Chars
        BY DEF Chars
      <4> QED BY <4>1, Few
    <3> QED BY ConcatProperties, <2>2, <3>1, <3>2
  <2> QED BY <1>7, <2>1, <2>3 DEF Restart, Typing, EditInv
<1>8. CASE EnlargeBuffer
  BY <1>8 DEF EnlargeBuffer, Enlarge, EditInv, uservars
<1>9. CASE IgnoreEmpty \/ NoCommand \/ ReplyFailure \/ RootClose \/ EndJson
  BY <1>9 DEF IgnoreEmpty, NoCommand, IsText, ReplyFailure, RootClose, EndJson, Done,
              EditInv, uservars
<1>10. CASE Refuse \/ Process \/ BeginJson
  BY <1>10 DEF Refuse, Process, BeginJson, IsText, EditInv, uservars, bufvars
<1>11. CASE PrintEntry \/ StatusMessage
  BY <1>11 DEF PrintEntry, StatusMessage, EditInv, uservars, bufvars
<1>12. CASE JsonMember \/ CommandMember \/ OtherMember
  BY <1>12 DEF JsonMember, CommandMember, OtherMember, NextMember, EditInv, uservars, bufvars
<1>13. CASE Overrun \/ Undefined
  <2>1. line # NoLine
    BY <1>13 DEF Overrun, Undefined, AtCommand, Walking, EditInv
  <2> QED BY <1>13, <2>1 DEF Overrun, Undefined, EditInv, vars, uservars, bufvars
<1> QED BY <1>1, <1>2, <1>3, <1>4, <1>5, <1>6, <1>7, <1>8, <1>9, <1>10, <1>11, <1>12, <1>13
        DEF Next

\* Initially there is no line.
LEMMA EditInvInit == Init => EditInv
<1> SUFFICES ASSUME Init PROVE EditInv
  OBVIOUS
<1>1. <<>> \in Seq(Chars)
  OBVIOUS
<1> QED BY <1>1, QuotesEmpty DEF Init, ReaderInit, EditInv

\* EditInv always holds.
LEMMA Edited == Spec => []EditInv
BY EditInvInit, EditInvNext, PTL DEF Spec

\* Reading a character is a step of the editor, or nothing.
LEMMA ReadIsEdit ==
  ASSUME EditInv, NEW c \in Chars \cup {"newline", "backspace"}, ReadChar(c)
  PROVE  Editor!Next \/ UNCHANGED <<chars, line>>
<1> USE DEF EditInv
<1>1. CASE c = "newline"
  <2>1. Editor!Discard
    BY <1>1 DEF ReadChar, Discard, Buffer, Editor!Discard
  <2> QED BY <2>1 DEF Editor!Next
<1>2. CASE c = "backspace"
  <2>1. Backspace /\ line = NoLine
    BY <1>2 DEF ReadChar
  <2>2. CASE chars = <<>>
    BY <2>1, <2>2 DEF Backspace, Buffer
  <2>3. CASE chars # <<>>
    <3>1. Editor!Erase
      BY <2>1, <2>3, QuotesFront DEF Backspace, Buffer, Editor!Erase
    <3> QED BY <3>1 DEF Editor!Next
  <2> QED BY <2>2, <2>3
<1>3. Editor!InQuotes <=> quote_count % 2 = 1
  <2>1. Editor!InQuotes <=> Cardinality({i \in DOMAIN chars : chars[i] = "quote"}) % 2 = 1
    BY DEF Editor!InQuotes, Editor!Cardinality, Cardinality
  <2>2. {i \in DOMAIN chars : chars[i] = "quote"} = QuotesOf(chars)
    BY DEF QuotesOf
  <2> QED BY <2>1, <2>2 DEF Quotes
<1>4. quote_count % 2 = 0 <=> ~(quote_count % 2 = 1)
  BY QuotesNat, EvenOdd
<1> HIDE DEF EditInv
<1>5. CASE c \in Chars /\ c = ";" /\ quote_count % 2 = 0
  <2>1. EndOfLine /\ line = NoLine
    BY <1>5, NoEditKey DEF ReadChar
  <2>2. Editor!End
    BY <1>3, <1>4, <1>5, <2>1 DEF EndOfLine, Editor!End
  <2> QED BY <2>2 DEF Editor!Next
<1>6. CASE c \in Chars /\ ~(c = ";" /\ quote_count % 2 = 0)
  <2>1. /\ Buffer(Append(chars, c), quote_count + IF c = "quote" THEN 1 ELSE 0)
        /\ line = NoLine
    BY <1>6, NoEditKey DEF ReadChar
  <2>2. c = ";" => Editor!InQuotes
    BY <1>3, <1>4, <1>6
  <2>3. Editor!Type(c)
    BY <2>1, <2>2 DEF Buffer, Editor!Type
  <2> QED BY <1>6, <2>3 DEF Editor!Next
<1> QED BY <1>1, <1>2, <1>5, <1>6

\* Each action is a step of the editor, or nothing to it.
LEMMA StepIsEdit ==
  ASSUME EditInv, [Next]_vars
  PROVE  [Editor!Next]_<<chars, line>>
<1>1. CASE UNCHANGED vars \/ Choose \/ Answered \/ Refuse \/ Process \/ BeginJson
           \/ PrintEntry \/ StatusMessage \/ Overrun \/ Undefined
  BY <1>1 DEF vars, bufvars, Choose, Answered, Refuse, Process, BeginJson, PrintEntry,
              StatusMessage, Overrun, Undefined
<1>2. CASE EnlargeBuffer
  BY <1>2 DEF EnlargeBuffer, Enlarge
<1>3. CASE JsonMember \/ CommandMember \/ OtherMember
  BY <1>3 DEF JsonMember, CommandMember, OtherMember, NextMember, bufvars
<1>4. CASE TypeNext
  <2>1. Head(todo) \in Chars
    BY <1>4, HeadTailProperties DEF TypeNext, EditInv
  <2> QED BY <1>4, <2>1, ReadIsEdit DEF TypeNext
<1>5. CASE Slip
  <2>1. PICK c \in Slips : ReadChar(c)
    BY <1>5 DEF Slip
  <2>2. c \in Chars
    BY NamesAssumption
  <2> QED BY <2>1, <2>2, ReadIsEdit
<1>6. CASE Correct
  BY <1>6, ReadIsEdit DEF Correct
<1>7. CASE Restart
  BY <1>7, ReadIsEdit DEF Restart
<1>8. CASE IgnoreEmpty \/ NoCommand \/ ReplyFailure \/ RootClose \/ EndJson
  <2>1. line # NoLine /\ Done
    BY <1>8 DEF IgnoreEmpty, NoCommand, IsText, ReplyFailure, RootClose, EndJson, EditInv
  <2>2. Editor!Done
    BY <2>1 DEF Done, Editor!Done
  <2> QED BY <2>2 DEF Editor!Next
<1> QED BY <1>1, <1>2, <1>3, <1>4, <1>5, <1>6, <1>7, <1>8 DEF Next

\* However the buffer grows and whatever is erased or thrown away, what is read is what
\* the abstract editor has: the reader implements it.
THEOREM IsLineEditor == Spec => IsEditor
<1>1. Init => Editor!Init
  BY DEF Init, ReaderInit, Editor!Init
<1>2. EditInv /\ [Next]_vars => [Editor!Next]_Editor!evars
  <2> SUFFICES ASSUME EditInv, [Next]_vars PROVE [Editor!Next]_Editor!evars
    OBVIOUS
  <2>1. [Editor!Next]_<<chars, line>>
    BY StepIsEdit
  <2> QED BY <2>1 DEF Editor!evars
<1> QED BY <1>1, <1>2, Edited, PTL DEF Spec, IsEditor, Editor!Spec

--------------------------------------------------------------------------------
(* A line is read as it is asked for *)

\* Where in a text a quote is open: nowhere can that be if a ";" is outside quotes or a quote
\* is left open at the end.
OpenIn(s) ==
  {open \in SUBSET (0 .. Len(s)) :
     /\ 0 \notin open /\ Len(s) \notin open
     /\ \A i \in 1 .. Len(s) : /\ i \in open <=> (s[i] = "quote" <=> i - 1 \notin open)
                               /\ s[i] = ";" => i - 1 \in open}

Texts == {s \in Seq(Chars) : OpenIn(s) # {}}

\* A text without quotes and ";"
LEMMA PlainText ==
  ASSUME NEW s \in Seq(Chars), \A i \in 1 .. Len(s) : s[i] # "quote" /\ s[i] # ";"
  PROVE  s \in Texts
<1>1. {} \in OpenIn(s)
  BY DEF OpenIn
<1> QED BY <1>1 DEF Texts

\* A text in quotes
LEMMA QuotedText ==
  ASSUME NEW v \in Seq(Chars), \A i \in 1 .. Len(v) : v[i] # "quote",
         NEW s \in Seq(Chars), Len(s) = Len(v) + 2,
         s[1] = "quote", s[Len(s)] = "quote", \A i \in 1 .. Len(v) : s[i + 1] = v[i]
  PROVE  s \in Texts
<1> DEFINE l == Len(s)
           open == 1 .. l - 1
<1>1. Len(v) \in Nat /\ l \in Nat /\ l = Len(v) + 2
  BY LenProperties
<1>2. \A i \in 2 .. l - 1 : s[i] # "quote"
  <2> SUFFICES ASSUME NEW i \in 2 .. l - 1 PROVE s[i] # "quote"
    OBVIOUS
  <2>1. i - 1 \in 1 .. Len(v) /\ (i - 1) + 1 = i
    BY <1>1
  <2> QED BY <2>1
<1>3. s[1] = "quote" /\ s[l] = "quote"
  OBVIOUS
<1> HIDE DEF l
<1>4. open \in SUBSET (0 .. l) /\ 0 \notin open /\ l \notin open
  BY <1>1
<1>5. ASSUME NEW i \in 1 .. l
      PROVE  /\ i \in open <=> (s[i] = "quote" <=> i - 1 \notin open)
             /\ s[i] = ";" => i - 1 \in open
  <2>1. CASE i = 1
    <3>1. i \in open /\ i - 1 \notin open
      BY <1>1, <2>1
    <3> QED BY <1>3, <2>1, <3>1
  <2>2. CASE i = l
    <3>1. i \notin open /\ i - 1 \in open
      BY <1>1, <2>2
    <3> QED BY <1>3, <2>2, <3>1
  <2>3. CASE i \in 2 .. l - 1
    <3>1. i \in open /\ i - 1 \in open
      BY <1>1, <2>3
    <3> QED BY <1>2, <2>3, <3>1
  <2>4. i = 1 \/ i = l \/ i \in 2 .. l - 1
    BY <1>1
  <2> QED BY <2>1, <2>2, <2>3, <2>4
<1>6. open \in OpenIn(s)
  BY <1>4, <1>5 DEF OpenIn, l
<1> QED BY <1>6 DEF Texts

\* One text behind the other
LEMMA TextsConcat ==
  ASSUME NEW s \in Texts, NEW t \in Texts
  PROVE  s \o t \in Texts
<1> DEFINE k == Len(s)
           l == Len(t)
           u == s \o t
<1>1. s \in Seq(Chars) /\ t \in Seq(Chars) /\ k \in Nat /\ l \in Nat
  BY LenProperties DEF Texts
<1>2. u \in Seq(Chars) /\ Len(u) = k + l
  BY <1>1, ConcatProperties
<1>3. (\A i \in 1 .. k : u[i] = s[i]) /\ (\A i \in k + 1 .. k + l : u[i] = t[i - k])
  BY <1>1
<1>4. PICK p \in OpenIn(s) : TRUE
  BY DEF Texts
<1>5. PICK q \in OpenIn(t) : TRUE
  BY DEF Texts
<1> HIDE DEF u, k, l
<1>6. /\ p \in SUBSET (0 .. k) /\ 0 \notin p /\ k \notin p
      /\ \A i \in 1 .. k : /\ i \in p <=> (s[i] = "quote" <=> i - 1 \notin p)
                           /\ s[i] = ";" => i - 1 \in p
  BY <1>4 DEF OpenIn, k
<1>7. /\ q \in SUBSET (0 .. l) /\ 0 \notin q /\ l \notin q
      /\ \A i \in 1 .. l : /\ i \in q <=> (t[i] = "quote" <=> i - 1 \notin q)
                           /\ t[i] = ";" => i - 1 \in q
  BY <1>5 DEF OpenIn, l
<1>8. (\A i \in p : i \in Nat /\ i < k) /\ (\A i \in q : i \in Nat /\ i # 0 /\ i < l)
  <2>1. \A i \in p : i \in 0 .. k /\ i # k
    BY <1>6
  <2>2. \A i \in q : i \in 0 .. l /\ i # 0 /\ i # l
    BY <1>7
  <2> QED BY <1>1, <2>1, <2>2
<1> DEFINE r == p \cup {i \in k .. k + l : i - k \in q}
<1>9. r \in SUBSET (0 .. k + l)
  <2> SUFFICES ASSUME NEW i \in r PROVE i \in 0 .. k + l
    OBVIOUS
  <2>1. i \in p => i \in 0 .. k + l
    BY <1>1, <1>8
  <2>2. i \in k .. k + l => i \in 0 .. k + l
    BY <1>1
  <2> QED BY <2>1, <2>2
<1>10. \A i \in 0 .. k : i \in r <=> i \in p
  <2> SUFFICES ASSUME NEW i \in 0 .. k PROVE i \in r <=> i \in p
    OBVIOUS
  <2>1. i - k \notin q
    BY <1>1, <1>8
  <2> QED BY <2>1
<1>11. \A i \in k .. k + l : i \in r <=> i - k \in q
  <2> SUFFICES ASSUME NEW i \in k .. k + l PROVE i \in r <=> i - k \in q
    OBVIOUS
  <2>1. i \notin p
    BY <1>1, <1>8
  <2> QED BY <2>1
<1> HIDE DEF r
<1>12. 0 \notin r /\ k + l \notin r
  <2>1. 0 \in 0 .. k /\ k + l \in k .. k + l /\ (k + l) - k = l
    BY <1>1
  <2> QED BY <1>6, <1>7, <1>10, <1>11, <2>1
<1>13. ASSUME NEW i \in 1 .. k + l
       PROVE  /\ i \in r <=> (u[i] = "quote" <=> i - 1 \notin r)
              /\ u[i] = ";" => i - 1 \in r
  <2>1. CASE i <= k
    <3>1. i \in 1 .. k /\ i \in 0 .. k /\ i - 1 \in 0 .. k
      BY <1>1, <2>1
    <3> QED BY <1>3, <1>6, <1>10, <3>1
  <2>2. CASE ~(i <= k)
    <3>1. i \in k + 1 .. k + l /\ i \in k .. k + l /\ i - 1 \in k .. k + l /\ i - k \in 1 .. l
          /\ (i - 1) - k = (i - k) - 1
      BY <1>1, <2>2
    <3>2. /\ i \in r <=> i - k \in q
          /\ i - 1 \in r <=> (i - k) - 1 \in q
          /\ u[i] = t[i - k]
      BY <1>3, <1>11, <3>1
    <3> QED BY <1>7, <3>1, <3>2
  <2> QED BY <2>1, <2>2
<1>14. r \in OpenIn(u)
  BY <1>2, <1>9, <1>12, <1>13 DEF OpenIn
<1> QED BY <1>2, <1>14 DEF Texts, u

\* The number of quotes tells whether one is open.
LEMMA OpenIsOdd ==
  ASSUME NEW t \in Seq(Chars), NEW open \in OpenIn(t), NEW s \in Seq(Chars),
         Len(s) <= Len(t), \A i \in 1 .. Len(s) : s[i] = t[i]
  PROVE  Quotes(s) % 2 = 1 <=> Len(s) \in open
<1> DEFINE l == Len(s)
           D == {i \in 0 .. l : Quotes(SubSeq(s, 1, i)) % 2 = 1 <=> i \in open}
<1>1. l \in Nat /\ Len(t) \in Nat /\ l <= Len(t)
  BY LenProperties
<1>2. 0 \in D
  <2>1. SubSeq(s, 1, 0) = <<>>
    OBVIOUS
  <2>2. 0 \notin open
    BY DEF OpenIn
  <2>3. ~(0 % 2 = 1) /\ 0 \in 0 .. l
    BY <1>1
  <2> QED BY <2>1, <2>2, <2>3, QuotesEmpty
<1>3. ASSUME NEW i \in 1 .. l, i - 1 \in D PROVE i \in D
  <2> DEFINE u == SubSeq(s, 1, i - 1)
  <2>1. u \in Seq(Chars) /\ s[i] \in Chars /\ SubSeq(s, 1, i) = Append(u, s[i])
    BY <1>1
  <2>2. Quotes(u) % 2 = 1 <=> i - 1 \in open
    BY <1>3
  <2> HIDE DEF u
  <2>3. Quotes(SubSeq(s, 1, i)) = Quotes(u) + IF s[i] = "quote" THEN 1 ELSE 0
    BY <2>1, QuotesAppend
  <2>4. Quotes(u) \in Nat
    BY <2>1, QuotesNat
  <2>5. i \in 1 .. Len(t) /\ s[i] = t[i]
    BY <1>1
  <2>6. i \in open <=> (s[i] = "quote" <=> i - 1 \notin open)
    BY <2>5 DEF OpenIn
  <2>7. Quotes(SubSeq(s, 1, i)) % 2 = 1 <=> i \in open
    <3>1. CASE s[i] = "quote"
      <4>1. Quotes(SubSeq(s, 1, i)) = Quotes(u) + 1
        BY <2>3, <3>1
      <4>2. (Quotes(u) + 1) % 2 = 1 <=> ~(Quotes(u) % 2 = 1)
        BY <2>4, EvenOdd
      <4> QED BY <2>2, <2>6, <3>1, <4>1, <4>2
    <3>2. CASE s[i] # "quote"
      <4>1. Quotes(SubSeq(s, 1, i)) = Quotes(u)
        BY <2>3, <2>4, <3>2
      <4> QED BY <2>2, <2>6, <3>2, <4>1
    <3> QED BY <3>1, <3>2
  <2> QED BY <1>1, <2>7
<1>4. l \in D
  <2> HIDE DEF D
  <2>1. 0 .. l \subseteq D
    BY <1>1, <1>2, <1>3, LoopInduction
  <2> QED BY <1>1, <2>1
<1>5. SubSeq(s, 1, l) = s
  BY SubSeqFull
<1> QED BY <1>4, <1>5

\* What is typed for a parameter leaves no quote open and has no ";" outside quotes.
LEMMA TypedText ==
  ASSUME NEW p \in Params
  PROVE  Typed(p) \in Texts
<1>1. ASSUME NEW s \in Seq(Letters) PROVE s \in Texts
  <2>1. Letters \subseteq Chars /\ "quote" \notin Letters /\ ";" \notin Letters
    BY CharsAssumption DEF Chars
  <2>2. s \in Seq(Chars)
    BY <2>1, SeqMonotonic
  <2>3. \A i \in 1 .. Len(s) : s[i] \in Letters
    BY ElementOfSeq
  <2>4. \A i \in 1 .. Len(s) : s[i] # "quote" /\ s[i] # ";"
    BY <2>1, <2>3
  <2> QED BY <2>2, <2>4, PlainText
<1>2. p.key \in Texts
  BY <1>1, ParamsAssumption
<1>3. CASE p.val = NoVal
  <2>1. Typed(p) = p.key
    BY <1>2, <1>3 DEF Typed, Texts
  <2> QED BY <1>2, <2>1
<1>4. CASE p.val # NoVal
  <2>1. <<"=">> \in Texts
    <3>1. "=" \in Chars
      BY DEF Chars
    <3>2. <<"=">> \in Seq(Chars) /\ Len(<<"=">>) = 1 /\ <<"=">>[1] = "="
      BY <3>1
    <3>3. \A i \in 1 .. Len(<<"=">>) : <<"=">>[i] # "quote" /\ <<"=">>[i] # ";"
      <4> DEFINE e == <<"=">>
      <4>1. Len(e) = 1 /\ e[1] = "="
        OBVIOUS
      <4> HIDE DEF e
      <4>2. \A i \in 1 .. Len(e) : e[i] = "="
        BY <4>1
      <4>3. \A i \in 1 .. Len(e) : e[i] # "quote" /\ e[i] # ";"
        BY <4>2
      <4> QED BY <4>3 DEF e
    <3> QED BY <3>2, <3>3, PlainText
  <2>2. CASE ~p.quoted
    <3>1. p.val \in Texts
      BY <1>1, <1>4, <2>2, ParamsAssumption
    <3>2. Typed(p) = p.key \o (<<"=">> \o p.val)
      BY <1>4, <2>2 DEF Typed
    <3> QED BY <1>2, <2>1, <3>1, <3>2, TextsConcat
  <2>3. CASE p.quoted
    <3> DEFINE v == p.val
               s == <<"quote">> \o v \o <<"quote">>
    <3>1. v \in Seq(Chars \ {"quote"})
      BY <1>4, <2>3, ParamsAssumption
    <3>2. v \in Seq(Chars)
      <4> HIDE DEF v
      <4>1. Chars \ {"quote"} \subseteq Chars
        OBVIOUS
      <4> QED BY <3>1, <4>1, SeqMonotonic
    <3>3. \A i \in 1 .. Len(v) : v[i] # "quote"
      <4> HIDE DEF v
      <4>1. \A i \in 1 .. Len(v) : v[i] \in Chars \ {"quote"}
        BY <3>1, ElementOfSeq
      <4> QED BY <4>1
    <3>4. "quote" \in Chars
      BY DEF Chars
    <3>5. Typed(p) = p.key \o (<<"=">> \o s)
      BY <1>4, <2>3 DEF Typed
    <3> HIDE DEF v
    <3>6. s \in Seq(Chars) /\ Len(s) = Len(v) + 2 /\ s[1] = "quote" /\ s[Len(s)] = "quote"
          /\ \A i \in 1 .. Len(v) : s[i + 1] = v[i]
      BY <3>2, <3>4
    <3> HIDE DEF s
    <3>7. s \in Texts
      BY <3>2, <3>3, <3>6, QuotedText
    <3> QED BY <1>2, <2>1, <3>5, <3>7, TextsConcat
  <2> QED BY <2>2, <2>3, ParamsAssumption
<1> QED BY <1>3, <1>4

\* Nor does a whole line.
LEMMA LineText ==
  ASSUME NEW w \in Lines
  PROVE  w.text \in Texts
<1>1. ASSUME NEW n \in Nat PROVE Spaces(n) \in Texts
  <2>1. Spaces(n) \in Seq(Chars) /\ Len(Spaces(n)) = n /\ \A i \in 1 .. n : Spaces(n)[i] = " "
    BY SpacesChars
  <2>2. \A i \in 1 .. Len(Spaces(n)) : Spaces(n)[i] # "quote" /\ Spaces(n)[i] # ";"
    BY <2>1
  <2> QED BY <2>1, <2>2, PlainText
<1>2. ASSUME NEW ps \in Seq(Params), NEW n \in {1, 2} PROVE LineOf(ps, n) \in Texts
  <2>1. n \in Nat \ {0} /\ n \in Nat /\ n - 1 \in Nat /\ Len(ps) \in Nat
    BY LenProperties
  <2>2. PICK text \in [0 .. Len(ps) -> Seq(Chars)] :
          /\ LineOf(ps, n) = text[Len(ps)]
          /\ text[0] = Spaces(n - 1)
          /\ \A i \in 1 .. Len(ps) : text[i] = text[i - 1] \o Typed(ps[i]) \o Spaces(n)
    BY <2>1, LineDef
  <2>3. ASSUME NEW i \in 1 .. Len(ps), text[i - 1] \in Texts PROVE text[i] \in Texts
    <3>1. Typed(ps[i]) \in Texts
      BY ElementOfSeq, TypedText
    <3>2. Spaces(n) \in Texts
      BY <1>1, <2>1
    <3>3. text[i - 1] \o Typed(ps[i]) \in Texts
      BY <2>3, <3>1, TextsConcat
    <3> QED BY <2>2, <3>2, <3>3, TextsConcat
  <2>4. text[0] \in Texts
    BY <1>1, <2>1, <2>2
  <2>5. \A i \in 0 .. Len(ps) : text[i] \in Texts
    BY <2>1, <2>3, <2>4, Stays
  <2> QED BY <2>1, <2>2, <2>5
<1>3. <<"{", "quote", ";", "quote", "}">> \in Texts
  <2> DEFINE s == <<"{", "quote", ";", "quote", "}">>
             open == {2, 3}
  <2>1. {"{", "quote", ";", "}"} \subseteq Chars
    BY DEF Chars
  <2>2. "{" \in Chars /\ "quote" \in Chars /\ ";" \in Chars /\ "}" \in Chars
    BY <2>1
  <2>3. s \in Seq(Chars)
    BY <2>2, Few
  <2>4. Len(s) = 5 /\ s[1] = "{" /\ s[2] = "quote" /\ s[3] = ";" /\ s[4] = "quote" /\ s[5] = "}"
    OBVIOUS
  <2> HIDE DEF s
  <2>5. ASSUME NEW i \in 1 .. 5
        PROVE  /\ i \in open <=> (s[i] = "quote" <=> i - 1 \notin open)
               /\ s[i] = ";" => i - 1 \in open
    <3>1. i \in {1, 2, 3, 4, 5}
      OBVIOUS
    <3>2. s[i] = "quote" <=> i \in {2, 4}
      BY <2>4, <3>1
    <3>3. s[i] = ";" <=> i = 3
      BY <2>4, <3>1
    <3>4. i \in open <=> (i \in {2, 4} <=> i - 1 \notin open)
      BY <3>1
    <3>5. i = 3 => i - 1 \in open
      OBVIOUS
    <3> QED BY <3>2, <3>3, <3>4, <3>5
  <2>6. open \in SUBSET (0 .. 5) /\ 0 \notin open /\ 5 \notin open
    OBVIOUS
  <2>7. open \in OpenIn(s)
    BY <2>4, <2>5, <2>6 DEF OpenIn
  <2> QED BY <2>3, <2>7 DEF Texts, s
<1>4. \A ps, n : TextLine(ps, n).text = LineOf(ps, n)
  BY DEF TextLine
<1>5. \A d : JsonLine(d).text = <<"{", "quote", ";", "quote", "}">>
  BY DEF JsonLine
<1> QED BY <1>2, <1>3, <1>4, <1>5, LineKinds

\* All that is typed for what is asked for
Whole == want.text \o <<";">>

\* The first of it is in the buffer and the rest is still to be typed.
Underway ==
  /\ Len(todo) <= Len(Whole)
  /\ Len(chars) = Len(Whole) - Len(todo) + wrong
  /\ \A i \in 1 .. Len(Whole) - Len(todo) : chars[i] = Whole[i]
  /\ \A i \in 1 .. Len(todo) : todo[i] = Whole[Len(Whole) - Len(todo) + i]

\* A line is complete only when all of it has been typed.
ReadInv ==
  /\ wrong \in Nat
  /\ want = NoVal => line = NoLine
  /\ todo = <<>> => chars = <<>> /\ wrong = 0
  /\ todo # <<>> => line = NoLine /\ Underway
  /\ line # NoLine => line = want.text

\* The text and the ";" behind it
LEMMA WholeLine ==
  ASSUME want \in Lines
  PROVE  /\ want.text \in Seq(Chars) /\ Whole \in Seq(Chars)
         /\ Len(want.text) \in Nat /\ Len(Whole) = Len(want.text) + 1
         /\ Whole[Len(Whole)] = ";"
         /\ \A i \in 1 .. Len(want.text) : Whole[i] = want.text[i]
<1> DEFINE t == want.text
           e == <<";">>
<1>1. t \in Seq(Chars)
  BY LineChars
<1>2. ";" \in Chars
  BY DEF Chars
<1>3. e \in Seq(Chars) /\ Len(e) = 1 /\ e[1] = ";"
  BY <1>2, Few
<1>4. Whole = t \o e
  BY DEF Whole
<1> HIDE DEF t, e
<1>5. Len(t) \in Nat
  BY <1>1, LenProperties
<1>6. /\ t \o e \in Seq(Chars) /\ Len(t \o e) = Len(t) + Len(e)
      /\ \A i \in 1 .. Len(t) + Len(e) :
           (t \o e)[i] = IF i <= Len(t) THEN t[i] ELSE e[i - Len(t)]
  BY <1>1, <1>3, ConcatProperties
<1> DEFINE n == Len(t)
<1> HIDE DEF n
<1>7. n \in Nat /\ Len(t \o e) = n + 1
  BY <1>3, <1>5, <1>6 DEF n
<1>8. \A i \in 1 .. n : (t \o e)[i] = t[i]
  <2> SUFFICES ASSUME NEW i \in 1 .. n PROVE (t \o e)[i] = t[i]
    OBVIOUS
  <2>1. i \in 1 .. n + 1 /\ i <= n
    BY <1>7
  <2> QED BY <1>3, <1>6, <2>1 DEF n
<1>9. (t \o e)[n + 1] = e[1]
  <2>1. n + 1 \in 1 .. n + 1 /\ ~(n + 1 <= n) /\ (n + 1) - n = 1
    BY <1>7
  <2> QED BY <1>3, <1>6, <2>1 DEF n
<1> QED BY <1>1, <1>3, <1>4, <1>6, <1>7, <1>8, <1>9 DEF t, n

\* What is typed by mistake is added to the line.
LEMMA ReadAdds ==
  ASSUME NEW c \in Chars, ReadChar(c), ~(c = ";" /\ quote_count % 2 = 0)
  PROVE  line = NoLine /\ line' = line /\ chars' = Append(chars, c)
<1>1. c # "newline" /\ c # "backspace"
  BY NoEditKey
<1> QED BY <1>1 DEF ReadChar, Buffer

\* The next character is one more of the line, and the last one completes it.
LEMMA TypeReads ==
  ASSUME EditInv, ReadInv, TypeNext
  PROVE  ReadInv'
<1> DEFINE w == want.text
           c == Head(todo)
           n == Len(todo)
<1>1. todo # <<>> /\ wrong = 0 /\ ReadChar(c) /\ todo' = Tail(todo) /\ UNCHANGED <<wrong, want>>
  BY DEF TypeNext, Typing
<1>2. want \in Lines /\ want # NoVal /\ todo \in Seq(Chars) /\ chars \in Seq(Chars)
  BY <1>1 DEF EditInv
<1>3. /\ w \in Seq(Chars) /\ Whole \in Seq(Chars) /\ Len(w) \in Nat /\ Len(Whole) = Len(w) + 1
      /\ Whole[Len(Whole)] = ";" /\ \A i \in 1 .. Len(w) : Whole[i] = w[i]
  BY <1>2, WholeLine
<1>4. n \in Nat \ {0} /\ c \in Chars /\ c = todo[1]
  BY <1>1, <1>2, EmptySeq, HeadTailProperties
<1>5. /\ todo' \in Seq(Chars) /\ Len(todo') = n - 1
      /\ \A i \in 1 .. n - 1 : todo'[i] = todo[i + 1]
  BY <1>1, <1>2, HeadTailProperties
<1>6. Whole' = Whole
  BY <1>1 DEF Whole
<1>7. /\ n <= Len(Whole) /\ Len(chars) = Len(Whole) - n + wrong
      /\ \A i \in 1 .. Len(Whole) - n : chars[i] = Whole[i]
      /\ \A i \in 1 .. n : todo[i] = Whole[Len(Whole) - n + i]
  BY <1>1 DEF ReadInv, Underway
<1> DEFINE l == Len(w)
           m == l + 1 - n
<1> HIDE DEF w, c, n, l
<1>8. l \in Nat /\ Len(Whole) = l + 1
  BY <1>3 DEF l
<1>9. m \in 0 .. l /\ l + 1 - m = n
  BY <1>4, <1>7, <1>8
<1>10. Len(chars) = m
  BY <1>1, <1>4, <1>7, <1>8
<1>11. Len(Whole) - n = m
  BY <1>4, <1>8
<1> HIDE DEF m
<1>12. \A i \in 1 .. n : todo[i] = Whole[m + i]
  BY <1>7, <1>11
<1>13. c = Whole[m + 1]
  BY <1>4, <1>12
<1>14. \A i \in 1 .. m : chars[i] = Whole[i] /\ chars[i] = w[i]
  <2> SUFFICES ASSUME NEW i \in 1 .. m PROVE chars[i] = Whole[i] /\ chars[i] = w[i]
    OBVIOUS
  <2>1. i \in 1 .. l
    BY <1>8, <1>9
  <2>2. chars[i] = Whole[i]
    BY <1>7, <1>11
  <2> QED BY <1>3, <2>1, <2>2 DEF l
<1>15. PICK open \in OpenIn(w) : TRUE
  <2>1. w \in Texts
    BY <1>2, LineText DEF w
  <2> QED BY <2>1 DEF Texts
<1>16. quote_count \in Nat /\ (quote_count % 2 = 1 <=> m \in open)
  <2>1. quote_count = Quotes(chars) /\ quote_count \in Nat
    BY QuotesNat DEF EditInv
  <2>2. Len(chars) <= Len(w)
    BY <1>8, <1>9, <1>10 DEF l
  <2>3. \A i \in 1 .. Len(chars) : chars[i] = w[i]
    BY <1>10, <1>14
  <2>4. Quotes(chars) % 2 = 1 <=> Len(chars) \in open
    BY <1>2, <1>3, <2>2, <2>3, OpenIsOdd
  <2> QED BY <1>10, <2>1, <2>4
<1>17. quote_count % 2 = 0 <=> m \notin open
  BY <1>16, EvenOdd
<1>18. CASE m # l
  <2>1. m + 1 \in 1 .. l /\ (m + 1) - 1 = m
    BY <1>8, <1>9, <1>18
  <2>2. c = w[m + 1]
    BY <1>3, <1>13, <2>1 DEF l
  <2>3. c = ";" => m \in open
    BY <1>15, <2>1, <2>2 DEF OpenIn, l
  <2>4. line = NoLine /\ line' = line /\ chars' = Append(chars, c)
    BY <1>1, <1>4, <1>17, <2>3, ReadAdds
  <2>5. /\ Len(chars') = m + 1 /\ chars'[m + 1] = c
        /\ \A i \in 1 .. m : chars'[i] = chars[i]
    BY <1>2, <1>4, <1>10, <2>4, OneMore
  <2>6. n - 1 \in Nat \ {0} /\ (l + 1) - (n - 1) = m + 1
    BY <1>4, <1>8, <1>9, <1>18
  <2>7. todo' # <<>>
    BY <1>5, <2>6, EmptySeq
  <2>8. Len(todo') <= Len(Whole') /\ Len(Whole') - Len(todo') = m + 1
    <3>1. Len(todo') = n - 1 /\ Len(Whole') = l + 1
      BY <1>5, <1>6, <1>8
    <3>2. n - 1 <= l + 1
      BY <1>8, <1>9, <2>6
    <3> QED BY <2>6, <3>1, <3>2
  <2>9. Len(chars') = Len(Whole') - Len(todo') + wrong'
    BY <1>1, <1>9, <2>5, <2>8
  <2>10. \A i \in 1 .. m + 1 : chars'[i] = Whole'[i]
    <3> SUFFICES ASSUME NEW i \in 1 .. m + 1 PROVE chars'[i] = Whole'[i]
      OBVIOUS
    <3>1. CASE i = m + 1
      BY <1>6, <1>13, <2>5, <3>1
    <3>2. CASE i # m + 1
      <4>1. i \in 1 .. m
        BY <1>9, <3>2
      <4> QED BY <1>6, <1>14, <2>5, <4>1
    <3> QED BY <3>1, <3>2
  <2>11. \A i \in 1 .. Len(todo') : todo'[i] = Whole'[m + 1 + i]
    <3> SUFFICES ASSUME NEW i \in 1 .. n - 1 PROVE todo'[i] = Whole'[m + 1 + i]
      BY <1>5
    <3>1. i + 1 \in 1 .. n /\ m + (i + 1) = m + 1 + i
      BY <1>4, <1>8, <1>9
    <3> QED BY <1>5, <1>6, <1>12, <3>1
  <2>12. Underway'
    BY <2>8, <2>9, <2>10, <2>11 DEF Underway
  <2> QED BY <1>1, <1>2, <2>4, <2>7, <2>12 DEF ReadInv
<1>19. CASE m = l
  <2>1. n = 1
    BY <1>4, <1>8, <1>9, <1>19
  <2>2. c = ";"
    BY <1>3, <1>8, <1>13, <1>19
  <2>3. m \notin open
    BY <1>15, <1>19 DEF OpenIn, l
  <2>4. c # "newline" /\ c # "backspace"
    BY <1>4, NoEditKey
  <2>5. line' = chars /\ chars' = <<>>
    BY <1>1, <1>17, <2>2, <2>3, <2>4 DEF ReadChar, EndOfLine
  <2>6. chars = w
    <3>1. Len(chars) = Len(w)
      BY <1>10, <1>19 DEF l
    <3> QED BY <1>2, <1>3, <1>10, <1>14, <3>1, SeqEqual
  <2>7. todo' = <<>>
    <3>1. Len(todo') = 0
      BY <1>5, <2>1
    <3> QED BY <1>5, <3>1, EmptySeq
  <2>8. want'.text = w
    BY <1>1 DEF w
  <2> QED BY <1>1, <1>2, <2>5, <2>6, <2>7, <2>8 DEF ReadInv
<1> QED BY <1>18, <1>19

\* A mistake is behind what is right.
LEMMA SlipReads ==
  ASSUME EditInv, ReadInv, Slip
  PROVE  ReadInv'
<1> DEFINE m == Len(Whole) - Len(todo)
<1>1. /\ todo # <<>> /\ todo' = todo /\ wrong' = wrong + 1 /\ want' = want
      /\ todo \in Seq(Chars) /\ chars \in Seq(Chars) /\ want \in Lines /\ want # NoVal
  BY DEF Slip, Typing, EditInv
<1>2. PICK c \in Slips : ReadChar(c) /\ (c = ";" => quote_count % 2 = 1)
  BY DEF Slip
<1>3. c \in Chars
  BY NamesAssumption
<1>4. line = NoLine /\ line' = line /\ chars' = Append(chars, c)
  <2>1. quote_count \in Nat
    BY QuotesNat DEF EditInv
  <2>2. ~(c = ";" /\ quote_count % 2 = 0)
    BY <1>2, <2>1, EvenOdd
  <2> QED BY <1>2, <1>3, <2>2, ReadAdds
<1>5. wrong \in Nat /\ Underway
  BY <1>1 DEF ReadInv
<1>6. Len(todo) \in Nat /\ Len(chars) \in Nat /\ Len(Whole) \in Nat
  BY <1>1, LenProperties, WholeLine
<1>7. Len(chars') = Len(chars) + 1 /\ \A i \in 1 .. Len(chars) : chars'[i] = chars[i]
  BY <1>1, <1>3, <1>4, OneMore
<1>8. m \in Nat /\ m <= Len(chars) /\ Len(chars) = m + wrong
  BY <1>5, <1>6 DEF Underway
<1>9. \A i \in 1 .. m : chars'[i] = Whole[i]
  <2> SUFFICES ASSUME NEW i \in 1 .. m PROVE chars'[i] = Whole[i]
    OBVIOUS
  <2>1. i \in 1 .. Len(chars)
    BY <1>6, <1>8
  <2> QED BY <1>5, <1>7, <2>1 DEF Underway
<1>10. Whole' = Whole
  BY <1>1 DEF Whole
<1>11. Len(chars') = m + wrong'
  BY <1>1, <1>5, <1>7, <1>8
<1>12. Underway'
  BY <1>1, <1>5, <1>9, <1>10, <1>11 DEF Underway
<1> QED BY <1>1, <1>4, <1>5, <1>12 DEF ReadInv

\* A mistake is erased, and nothing else.
LEMMA CorrectReads ==
  ASSUME EditInv, ReadInv, Correct
  PROVE  ReadInv'
<1> DEFINE m == Len(Whole) - Len(todo)
<1>1. wrong > 0 /\ wrong' = wrong - 1 /\ todo' = todo /\ want' = want /\ ReadChar("backspace")
  BY DEF Correct, Typing
<1>2. todo # <<>> /\ wrong \in Nat /\ Underway
  BY <1>1 DEF ReadInv
<1>3. todo \in Seq(Chars) /\ chars \in Seq(Chars) /\ want \in Lines /\ want # NoVal
  BY <1>2 DEF EditInv
<1>4. Len(todo) \in Nat /\ Len(chars) \in Nat /\ Len(Whole) \in Nat
  BY <1>3, LenProperties, WholeLine
<1>5. m \in Nat /\ Len(chars) = m + wrong /\ \A i \in 1 .. m : chars[i] = Whole[i]
  BY <1>2, <1>4 DEF Underway
<1> HIDE DEF m
<1>6. chars # <<>>
  BY <1>1, <1>2, <1>5, EmptySeq
<1>7. line = NoLine /\ line' = line /\ chars' = Front(chars)
  BY <1>1, <1>6 DEF ReadChar, Backspace, Buffer
<1>8. chars' = SubSeq(chars, 1, Len(chars) - 1)
  BY <1>3, <1>6, <1>7, QuotesFront
<1>9. Len(chars') = Len(chars) - 1 /\ \A i \in 1 .. Len(chars) - 1 : chars'[i] = chars[i]
  <2> DEFINE k == Len(chars)
             s == chars
  <2>1. k \in Nat \ {0}
    BY <1>3, <1>6, EmptySeq
  <2>2. s \in Seq(Chars) /\ chars' = SubSeq(s, 1, k - 1) /\ k = Len(s)
    BY <1>3, <1>8
  <2> HIDE DEF k, s
  <2>3. Len(SubSeq(s, 1, k - 1)) = k - 1 /\ \A i \in 1 .. k - 1 : SubSeq(s, 1, k - 1)[i] = s[i]
    BY <2>1, <2>2
  <2> QED BY <2>2, <2>3 DEF k, s
<1>10. \A i \in 1 .. m : chars'[i] = Whole[i]
  <2> SUFFICES ASSUME NEW i \in 1 .. m PROVE chars'[i] = Whole[i]
    OBVIOUS
  <2>1. i \in 1 .. Len(chars) - 1
    BY <1>1, <1>2, <1>4, <1>5
  <2> QED BY <1>5, <1>9, <2>1
<1>11. Whole' = Whole
  BY <1>1 DEF Whole
<1>12. wrong' \in Nat /\ Len(chars') = m + wrong'
  BY <1>1, <1>2, <1>5, <1>9
<1>13. Underway'
  BY <1>1, <1>2, <1>10, <1>11, <1>12 DEF Underway, m
<1> QED BY <1>1, <1>2, <1>3, <1>7, <1>12, <1>13 DEF ReadInv

\* Nothing has been typed yet.
LEMMA BeginReads ==
  ASSUME want' \in Lines, want' # NoVal, todo' = Whole', chars' = <<>>, wrong' = 0,
         line' = NoLine
  PROVE  ReadInv'
<1>1. /\ Whole' \in Seq(Chars) /\ Len(Whole') \in Nat \ {0}
  <2>1. \A u \in Lines : (u.text \o <<";">>) \in Seq(Chars) /\ Len(u.text \o <<";">>) \in Nat \ {0}
    <3> SUFFICES ASSUME NEW u \in Lines
                 PROVE  (u.text \o <<";">>) \in Seq(Chars)
                        /\ Len(u.text \o <<";">>) \in Nat \ {0}
      OBVIOUS
    <3> DEFINE e == <<";">>
               t == u.text
    <3>1. u.text \in Seq(Chars)
      BY LineChars
    <3>2. ";" \in Chars
      BY DEF Chars
    <3>3. e \in Seq(Chars) /\ Len(e) = 1 /\ t \in Seq(Chars) /\ Len(t) \in Nat
      BY <3>1, <3>2, Few, LenProperties
    <3> HIDE DEF e, t
    <3>4. t \o e \in Seq(Chars) /\ Len(t \o e) = Len(t) + Len(e)
      BY <3>3, ConcatProperties
    <3>5. Len(t \o e) \in Nat \ {0}
      BY <3>3, <3>4
    <3> QED BY <3>4, <3>5 DEF e, t
  <2> QED BY <2>1 DEF Whole
<1>2. todo' # <<>>
  BY <1>1, EmptySeq
<1>3. Len(todo') = Len(Whole') /\ Len(Whole') - Len(todo') = 0 /\ Len(chars') = 0
  BY <1>1
<1> DEFINE n == Len(Whole')
<1>4. \A i \in 1 .. Len(todo') : todo'[i] = Whole'[0 + i]
  BY <1>1, <1>3
<1>5. Len(todo') <= Len(Whole') /\ Len(chars') = 0 + wrong'
  BY <1>1, <1>3
<1>6. Underway'
  BY <1>3, <1>4, <1>5 DEF Underway
<1> QED BY <1>2, <1>6 DEF ReadInv

\* Each action keeps ReadInv.
LEMMA ReadInvNext ==
  ASSUME EditInv, EditInv', ReadInv, [Next]_vars
  PROVE  ReadInv'
<1>1. CASE Choose
  <2>1. want' \in Lines /\ todo' = Whole' /\ want' # NoVal
    BY <1>1, WantAssumption DEF Choose, Whole
  <2>2. todo = <<>> /\ line = NoLine
    BY <1>1 DEF Choose, EditInv, ReadInv
  <2>3. chars' = <<>> /\ wrong' = 0 /\ line' = NoLine
    BY <1>1, <2>2 DEF Choose, ReadInv, bufvars
  <2> QED BY <2>1, <2>3, BeginReads
<1>2. CASE Restart
  <2>1. want' = want /\ todo # <<>> /\ todo' = Whole' /\ wrong' = 0
    BY <1>2 DEF Restart, Typing, Whole
  <2>2. want \in Lines /\ want # NoVal
    BY <2>1 DEF EditInv
  <2>3. chars' = <<>> /\ line' = NoLine
    BY <1>2 DEF Restart, ReadChar, Discard, Buffer
  <2> QED BY <2>1, <2>2, <2>3, BeginReads
<1>3. CASE TypeNext
  BY <1>3, TypeReads
<1>4. CASE Slip
  BY <1>4, SlipReads
<1>5. CASE Correct
  BY <1>5, CorrectReads
<1>6. CASE Answered
  BY <1>6 DEF Answered, AtRest, ReadInv, bufvars
<1>7. ASSUME UNCHANGED <<chars, todo, wrong, want, line>> PROVE ReadInv'
  BY <1>7 DEF ReadInv, Underway, Whole
<1>8. ASSUME line # NoLine, Done, UNCHANGED <<todo, wrong, want>> PROVE ReadInv'
  BY <1>8 DEF Done, ReadInv
<1>9. CASE IgnoreEmpty \/ NoCommand \/ ReplyFailure \/ RootClose \/ EndJson
  <2>1. line # NoLine /\ Done /\ UNCHANGED <<todo, wrong, want>>
    BY <1>9 DEF IgnoreEmpty, NoCommand, IsText, ReplyFailure, RootClose, EndJson, EditInv,
                uservars
  <2> QED BY <1>8, <2>1
<1>10. CASE UNCHANGED vars \/ Refuse \/ Process \/ BeginJson \/ PrintEntry \/ StatusMessage
            \/ Overrun \/ Undefined
  <2>1. UNCHANGED <<chars, todo, wrong, want, line>>
    BY <1>10 DEF vars, Refuse, Process, BeginJson, PrintEntry, StatusMessage, Overrun,
                 Undefined, uservars, bufvars
  <2> QED BY <1>7, <2>1
<1>11. CASE EnlargeBuffer \/ JsonMember \/ CommandMember \/ OtherMember
  <2>1. UNCHANGED <<chars, todo, wrong, want, line>>
    BY <1>11 DEF EnlargeBuffer, Enlarge, JsonMember, CommandMember, OtherMember, NextMember,
                 uservars, bufvars
  <2> QED BY <1>7, <2>1
<1> QED BY <1>1, <1>2, <1>3, <1>4, <1>5, <1>6, <1>9, <1>10, <1>11 DEF Next

\* Initially nothing is asked for.
LEMMA ReadInvInit == Init => ReadInv
BY DEF Init, ReaderInit, ReadInv

\* A line that is worked on is the one the user has asked for, whatever was typed by mistake,
\* erased or thrown away before, and it has been typed to its end.
THEOREM LineIsAsked == Spec => [](line # NoLine => want # NoVal /\ todo = <<>> /\ line = want.text)
<1>1. EditInv /\ EditInv' /\ ReadInv /\ [Next]_vars => ReadInv'
  BY ReadInvNext
<1>2. ReadInv => (line # NoLine => want # NoVal /\ todo = <<>> /\ line = want.text)
  BY DEF ReadInv
<1> QED BY <1>1, <1>2, ReadInvInit, Edited, PTL DEF Spec

--------------------------------------------------------------------------------
(* Taking a line apart *)

\* Until finds the first stop.
LEMMA UntilIs ==
  ASSUME NEW s \in Seq(Chars), NEW i \in Nat \ {0}, NEW stops, NEW j \in i .. Len(s) + 1,
         j = Len(s) + 1 \/ s[j] \in stops, \A k \in i .. j - 1 : s[k] \notin stops
  PROVE  Until(s, i, stops) = j
<1> DEFINE l == Len(s)
<1>1. l \in Nat
  BY LenProperties
<1> DEFINE First(m) == (m = l + 1 \/ s[m] \in stops) /\ \A k \in i .. m - 1 : s[k] \notin stops
<1>2. Until(s, i, stops) = CHOOSE m \in i .. l + 1 : First(m)
  BY DEF Until
<1>3. First(j) /\ j \in i .. l + 1
  OBVIOUS
<1>4. ASSUME NEW m \in i .. l + 1, First(m) PROVE m = j
  <2> HIDE DEF l
  <2>1. CASE m < j
    <3>1. m \in i .. j - 1 /\ m # l + 1
      BY <1>1, <1>3, <2>1
    <3> QED BY <1>3, <1>4, <3>1
  <2>2. CASE j < m
    <3>1. j \in i .. m - 1 /\ j # l + 1
      BY <1>1, <1>3, <2>2
    <3> QED BY <1>3, <1>4, <3>1
  <2>3. m \in Int /\ j \in Int
    BY <1>1
  <2> QED BY <2>1, <2>2, <2>3
<1> HIDE DEF First, l
<1> QED BY <1>2, <1>3, <1>4

\* A part of a sequence
LEMMA PartIs ==
  ASSUME NEW S, NEW s \in Seq(S), NEW t \in Seq(S), NEW b \in Nat \ {0},
         \A k \in 1 .. Len(t) : s[b + k - 1] = t[k]
  PROVE  SubSeq(s, b, b + Len(t) - 1) = t
<1> DEFINE n == Len(t)
<1>1. n \in Nat
  BY LenProperties
<1>2. ASSUME NEW i \in b .. b + n - 1 PROVE s[i] \in S
  <2>1. i - b + 1 \in 1 .. n /\ b + (i - b + 1) - 1 = i
    BY <1>1
  <2>2. t[i - b + 1] \in S
    BY <2>1, ElementOfSeq
  <2>3. s[b + (i - b + 1) - 1] = t[i - b + 1]
    BY <2>1
  <2> QED BY <2>1, <2>2, <2>3
<1> DEFINE e == b + n - 1
<1>3. b \in Int /\ e \in Int /\ e - b + 1 = n /\ (b <= e \/ n = 0)
  BY <1>1
<1> HIDE DEF n, e
<1>4. /\ SubSeq(s, b, e) \in Seq(S)
      /\ Len(SubSeq(s, b, e)) = IF b <= e THEN e - b + 1 ELSE 0
      /\ \A i \in 1 .. e - b + 1 : SubSeq(s, b, e)[i] = s[b + i - 1]
  BY <1>2, <1>3, SubSeqProperties DEF e
<1>5. Len(SubSeq(s, b, e)) = n
  BY <1>1, <1>3, <1>4
<1>6. \A i \in 1 .. n : SubSeq(s, b, e)[i] = t[i]
  BY <1>3, <1>4 DEF n
<1>7. SubSeq(s, b, e) = t
  BY <1>4, <1>5, <1>6, SeqEqual DEF n
<1> QED BY <1>7 DEF n, e

\* A sequence grows by one part after the other.
Grows(l, text, add) == \A i \in 1 .. l : text[i] = text[i - 1] \o add[i]

\* At the end it begins as it has been before.
AllPrefixes(l, text) ==
  \A i \in 0 .. l : /\ Len(text[i]) <= Len(text[l])
                     /\ \A k \in 1 .. Len(text[i]) : text[l][k] = text[i][k]

\* What is put together from parts begins with the first of them.
LEMMA PartsPrefix ==
  ASSUME NEW S, NEW l \in Nat, NEW text \in [0 .. l -> Seq(S)],
         NEW add \in [1 .. l -> Seq(S)], Grows(l, text, add)
  PROVE  AllPrefixes(l, text)
<1> DEFINE Begins(s, t) == Len(s) <= Len(t) /\ \A k \in 1 .. Len(s) : t[k] = s[k]
           D == {m \in 0 .. l : \A i \in 0 .. m : Begins(text[i], text[m])}
<1>1. ASSUME NEW s \in Seq(S), NEW t \in Seq(S), NEW u \in Seq(S), Begins(s, t)
      PROVE  Begins(s, t \o u)
  <2> DEFINE a == Len(s)
             b == Len(t)
             c == Len(u)
  <2>1. a \in Nat /\ b \in Nat /\ c \in Nat /\ a <= b
    BY <1>1, LenProperties
  <2>2. /\ Len(t \o u) = b + c
        /\ \A i \in 1 .. b + c : (t \o u)[i] = IF i <= b THEN t[i] ELSE u[i - b]
    BY ConcatProperties
  <2> HIDE DEF a, b, c
  <2>3. Len(s) <= Len(t \o u)
    BY <2>1, <2>2 DEF a
  <2>4. ASSUME NEW k \in 1 .. a PROVE (t \o u)[k] = s[k]
    <3>1. k \in 1 .. b + c /\ k <= b
      BY <2>1
    <3>2. t[k] = s[k]
      BY <1>1 DEF a
    <3> QED BY <2>2, <3>1, <3>2
  <2> QED BY <2>3, <2>4 DEF a
<1>2. \A s \in Seq(S) : Begins(s, s)
  <2> SUFFICES ASSUME NEW s \in Seq(S) PROVE Len(s) <= Len(s)
    OBVIOUS
  <2>1. Len(s) \in Nat
    BY LenProperties
  <2> QED BY <2>1
<1> HIDE DEF Begins
<1>3. 0 \in D
  BY <1>2
<1>4. ASSUME NEW m \in 1 .. l, m - 1 \in D PROVE m \in D
  <2>1. ASSUME NEW i \in 0 .. m PROVE Begins(text[i], text[m])
    <3>1. CASE i = m
      <4>1. text[m] \in Seq(S)
        OBVIOUS
      <4> QED BY <1>2, <3>1, <4>1
    <3>2. CASE i # m
      <4>1. i \in 0 .. m - 1 /\ i \in 0 .. l /\ m - 1 \in 0 .. l
        BY <3>2
      <4>2. Begins(text[i], text[m - 1])
        BY <1>4, <4>1
      <4>3. text[i] \in Seq(S) /\ text[m - 1] \in Seq(S) /\ add[m] \in Seq(S)
        BY <4>1
      <4>4. Begins(text[i], text[m - 1] \o add[m])
        BY <1>1, <4>2, <4>3
      <4> QED BY <4>4 DEF Grows
    <3> QED BY <3>1, <3>2
  <2> QED BY <2>1
<1>5. l \in D
  <2> HIDE DEF D
  <2>1. 0 .. l \subseteq D
    BY <1>3, <1>4, LoopInduction
  <2> QED BY <2>1
<1>6. \A i \in 0 .. l : Begins(text[i], text[l])
  BY <1>5
<1> QED BY <1>6 DEF Begins, AllPrefixes

\* Where each parameter is in a line: behind a blank, with n blanks behind it
LEMMA LineParts ==
  ASSUME NEW ps \in Seq(Params), NEW n \in Nat \ {0}
  PROVE  \E at \in [0 .. Len(ps) -> Nat \ {0}] :
           /\ LineOf(ps, n) \in Seq(Chars)
           /\ at[0] = n /\ at[Len(ps)] = Len(LineOf(ps, n)) + 1
           /\ \A k \in 1 .. n - 1 : LineOf(ps, n)[k] = " "
           /\ \A i \in 0 .. Len(ps) : at[i] <= Len(LineOf(ps, n)) + 1
           /\ \A i \in 1 .. Len(ps) :
                /\ at[i] = at[i - 1] + Len(Typed(ps[i])) + n
                /\ \A k \in 1 .. Len(Typed(ps[i])) :
                     LineOf(ps, n)[at[i - 1] + k - 1] = Typed(ps[i])[k]
                /\ \A k \in at[i - 1] + Len(Typed(ps[i])) .. at[i] - 1 : LineOf(ps, n)[k] = " "
<1> DEFINE l == Len(ps)
           s == LineOf(ps, n)
           add == [i \in 1 .. l |-> Typed(ps[i]) \o Spaces(n)]
<1>1. l \in Nat
  BY LenProperties
<1>2. PICK text \in [0 .. l -> Seq(Chars)] :
        /\ s = text[l] /\ text[0] = Spaces(n - 1)
        /\ \A i \in 1 .. l : text[i] = text[i - 1] \o Typed(ps[i]) \o Spaces(n)
  BY LineDef
<1>3. \A i \in 1 .. l : Typed(ps[i]) \in Seq(Chars)
  BY ElementOfSeq, TypedChars
<1>4. Spaces(n) \in Seq(Chars) /\ Len(Spaces(n)) = n /\ \A i \in 1 .. n : Spaces(n)[i] = " "
  BY SpacesChars
<1>5. n - 1 \in Nat /\ Len(Spaces(n - 1)) = n - 1 /\ \A i \in 1 .. n - 1 : Spaces(n - 1)[i] = " "
  <2>1. n - 1 \in Nat
    OBVIOUS
  <2> QED BY <2>1, SpacesChars
<1>6. add \in [1 .. l -> Seq(Chars)]
  BY <1>3, <1>4, ConcatProperties
<1>7. \A i \in 1 .. l : add[i] = Typed(ps[i]) \o Spaces(n)
  OBVIOUS
<1> HIDE DEF l, s, add
<1>8. \A i \in 1 .. l : text[i] = text[i - 1] \o add[i]
  <2> SUFFICES ASSUME NEW i \in 1 .. l PROVE text[i] = text[i - 1] \o add[i]
    OBVIOUS
  <2>1. i - 1 \in 0 .. l
    BY <1>1
  <2>2. text[i - 1] \in Seq(Chars)
    BY <2>1
  <2>3. Typed(ps[i]) \in Seq(Chars) /\ Spaces(n) \in Seq(Chars)
    BY <1>3, <1>4
  <2> DEFINE u == text[i - 1]
             t == Typed(ps[i])
             sp == Spaces(n)
  <2>4. u \in Seq(Chars) /\ t \in Seq(Chars) /\ sp \in Seq(Chars)
    BY <2>2, <2>3
  <2>5. text[i] = u \o t \o sp /\ add[i] = t \o sp
    BY <1>2, <1>7
  <2> HIDE DEF u, t, sp
  <2>6. (u \o t) \o sp = u \o (t \o sp)
    BY <2>4, ConcatAssociative
  <2>7. text[i] = u \o add[i]
    BY <2>5, <2>6
  <2> QED BY <2>7 DEF u
<1>9. \A i \in 0 .. l : /\ Len(text[i]) <= Len(text[l])
                        /\ \A k \in 1 .. Len(text[i]) : text[l][k] = text[i][k]
  <2>1. Grows(l, text, add)
    BY <1>8 DEF Grows
  <2>2. AllPrefixes(l, text)
    BY <1>1, <1>2, <1>6, <2>1, PartsPrefix
  <2> QED BY <2>2 DEF AllPrefixes
<1> DEFINE at == [i \in 0 .. l |-> Len(text[i]) + 1]
<1>10. at \in [0 .. l -> Nat \ {0}]
  <2>1. \A i \in 0 .. l : Len(text[i]) \in Nat
    BY LenProperties
  <2> QED BY <2>1
<1>11. \A i \in 0 .. l : at[i] = Len(text[i]) + 1
  OBVIOUS
<1> HIDE DEF at
<1>12. 0 \in 0 .. l /\ l \in 0 .. l
  BY <1>1
<1>13. s \in Seq(Chars) /\ at[0] = n /\ at[l] = Len(s) + 1
  <2>1. at[0] = n
    <3>1. at[0] = Len(text[0]) + 1
      BY <1>11, <1>12
    <3>2. Len(text[0]) = n - 1
      BY <1>2, <1>5
    <3> QED BY <3>1, <3>2
  <2>2. s \in Seq(Chars)
    BY <1>2, <1>12
  <2> QED BY <1>2, <1>11, <1>12, <2>1, <2>2
<1>14. \A k \in 1 .. n - 1 : s[k] = " "
  <2>1. Len(text[0]) = n - 1
    BY <1>2, <1>5
  <2> QED BY <1>2, <1>5, <1>9, <1>12, <2>1
<1>15. \A i \in 0 .. l : at[i] <= Len(s) + 1
  <2> SUFFICES ASSUME NEW i \in 0 .. l PROVE at[i] <= Len(s) + 1
    OBVIOUS
  <2>1. Len(text[i]) \in Nat /\ Len(text[l]) \in Nat
    BY <1>12, LenProperties
  <2>2. Len(text[i]) <= Len(text[l])
    BY <1>9
  <2> QED BY <1>2, <1>11, <2>1, <2>2
<1>16. ASSUME NEW i \in 1 .. l
       PROVE  /\ at[i] = at[i - 1] + Len(Typed(ps[i])) + n
              /\ \A k \in 1 .. Len(Typed(ps[i])) : s[at[i - 1] + k - 1] = Typed(ps[i])[k]
              /\ \A k \in at[i - 1] + Len(Typed(ps[i])) .. at[i] - 1 : s[k] = " "
  <2> DEFINE t == Typed(ps[i])
             sp == Spaces(n)
             u == text[i - 1]
             b == Len(u)
             c == Len(t)
  <2>1. i - 1 \in 0 .. l /\ i \in 0 .. l
    BY <1>1
  <2>2. u \in Seq(Chars) /\ t \in Seq(Chars) /\ sp \in Seq(Chars)
    BY <1>3, <1>4, <2>1
  <2>3. b \in Nat /\ c \in Nat
    BY <2>2, LenProperties
  <2>4. text[i] = u \o t \o sp
    BY <1>2
  <2>5. Len(sp) = n /\ \A k \in 1 .. n : sp[k] = " "
    BY <1>4
  <2>6. at[i - 1] = b + 1 /\ at[i] = Len(text[i]) + 1
    BY <1>11, <2>1
  <2>7. \A k \in 1 .. Len(text[i]) : s[k] = text[i][k]
    BY <1>2, <1>9, <2>1
  <2> HIDE DEF t, sp, u
  <2>8. u \o t \in Seq(Chars) /\ Len(u \o t) = b + c
        /\ \A k \in 1 .. b + c : (u \o t)[k] = IF k <= b THEN u[k] ELSE t[k - b]
    BY <2>2, ConcatProperties
  <2>9. Len(text[i]) = b + c + n
        /\ \A k \in 1 .. b + c + n :
             text[i][k] = IF k <= b + c THEN (u \o t)[k] ELSE sp[k - (b + c)]
    <3> DEFINE v == u \o t
               d == b + c
    <3>1. v \in Seq(Chars) /\ Len(v) = d /\ text[i] = v \o sp
      BY <2>4, <2>8
    <3> HIDE DEF v, d
    <3>2. /\ Len(v \o sp) = Len(v) + Len(sp)
          /\ \A k \in 1 .. Len(v) + Len(sp) :
               (v \o sp)[k] = IF k <= Len(v) THEN v[k] ELSE sp[k - Len(v)]
      BY <2>2, <3>1, ConcatProperties
    <3>3. /\ Len(text[i]) = d + n
          /\ \A k \in 1 .. d + n : text[i][k] = IF k <= d THEN v[k] ELSE sp[k - d]
      BY <2>5, <3>1, <3>2
    <3> QED BY <3>3 DEF v, d
  <2> HIDE DEF b, c
  <2>10. at[i] = at[i - 1] + c + n
    BY <2>3, <2>6, <2>9
  <2>11. ASSUME NEW k \in 1 .. c PROVE s[at[i - 1] + k - 1] = t[k]
    <3>1. at[i - 1] + k - 1 = b + k /\ b + k \in 1 .. b + c + n /\ b + k <= b + c
          /\ b + k \in 1 .. b + c /\ ~(b + k <= b) /\ (b + k) - b = k
      BY <2>3, <2>6
    <3>2. s[b + k] = text[i][b + k]
      BY <2>7, <2>9, <3>1
    <3>3. text[i][b + k] = (u \o t)[b + k]
      BY <2>9, <3>1
    <3>4. (u \o t)[b + k] = t[k]
      BY <2>8, <3>1
    <3> QED BY <3>1, <3>2, <3>3, <3>4
  <2>12. ASSUME NEW k \in at[i - 1] + c .. at[i] - 1 PROVE s[k] = " "
    <3>1. k \in 1 .. b + c + n /\ ~(k <= b + c) /\ k - (b + c) \in 1 .. n
      BY <2>3, <2>6, <2>9
    <3>2. s[k] = text[i][k]
      BY <2>7, <2>9, <3>1
    <3>3. text[i][k] = sp[k - (b + c)]
      BY <2>9, <3>1
    <3> QED BY <2>5, <3>1, <3>2, <3>3
  <2> QED BY <2>10, <2>11, <2>12 DEF t, c
<1> QED BY <1>10, <1>13, <1>14, <1>15, <1>16 DEF l, s

\* t is in s from b on.
At(s, b, t) == \A k \in 1 .. Len(t) : s[b + k - 1] = t[k]

\* So are its parts.
LEMMA AtConcat ==
  ASSUME NEW s, NEW b \in Nat, NEW u \in Seq(Chars), NEW v \in Seq(Chars), At(s, b, u \o v)
  PROVE  /\ At(s, b, u) /\ At(s, b + Len(u), v)
         /\ u \o v \in Seq(Chars) /\ Len(u \o v) = Len(u) + Len(v)
<1> DEFINE m == Len(u)
           n == Len(v)
<1>1. m \in Nat /\ n \in Nat
  BY LenProperties
<1>2. /\ u \o v \in Seq(Chars) /\ Len(u \o v) = m + n
      /\ \A i \in 1 .. m + n : (u \o v)[i] = IF i <= m THEN u[i] ELSE v[i - m]
  BY ConcatProperties
<1>3. \A k \in 1 .. m + n : s[b + k - 1] = (u \o v)[k]
  BY <1>2 DEF At
<1> HIDE DEF m, n
<1>4. ASSUME NEW k \in 1 .. m PROVE s[b + k - 1] = u[k]
  <2>1. k \in 1 .. m + n /\ k <= m
    BY <1>1
  <2> QED BY <1>2, <1>3, <2>1
<1>5. ASSUME NEW k \in 1 .. n PROVE s[b + m + k - 1] = v[k]
  <2>1. m + k \in 1 .. m + n /\ ~(m + k <= m) /\ (m + k) - m = k
        /\ b + (m + k) - 1 = b + m + k - 1
    BY <1>1
  <2>2. s[b + (m + k) - 1] = (u \o v)[m + k]
    BY <1>3, <2>1
  <2>3. (u \o v)[m + k] = v[k]
    BY <1>2, <2>1
  <2> QED BY <2>1, <2>2, <2>3
<1> QED BY <1>2, <1>4, <1>5 DEF At, m, n

\* A single character
LEMMA AtOne ==
  ASSUME NEW s, NEW b \in Nat, NEW x \in Chars, At(s, b, <<x>>)
  PROVE  s[b] = x /\ <<x>> \in Seq(Chars) /\ Len(<<x>>) = 1
<1> DEFINE t == <<x>>
<1>1. Len(t) = 1 /\ t[1] = x
  OBVIOUS
<1>2. t \in Seq(Chars)
  BY Few
<1> HIDE DEF t
<1>3. 1 \in 1 .. Len(t) /\ b + 1 - 1 = b
  BY <1>1
<1>4. s[b] = x
  BY <1>1, <1>3 DEF At, t
<1> QED BY <1>1, <1>2, <1>4 DEF t

\* None of the characters of a part is a stop.
LEMMA UntilBehind ==
  ASSUME NEW s \in Seq(Chars), NEW b \in Nat \ {0}, NEW t \in Seq(Chars), NEW stops,
         At(s, b, t), \A k \in 1 .. Len(t) : t[k] \notin stops,
         b + Len(t) <= Len(s) + 1, b + Len(t) = Len(s) + 1 \/ s[b + Len(t)] \in stops
  PROVE  Until(s, b, stops) = b + Len(t)
<1> DEFINE n == Len(t)
           l == Len(s)
<1>1. n \in Nat /\ l \in Nat
  BY LenProperties
<1>2. \A k \in 1 .. n : s[b + k - 1] \notin stops
  BY DEF At
<1> HIDE DEF n, l
<1>3. \A i \in b .. b + n - 1 : s[i] \notin stops
  <2> SUFFICES ASSUME NEW i \in b .. b + n - 1 PROVE s[i] \notin stops
    OBVIOUS
  <2>1. i - b + 1 \in 1 .. n /\ b + (i - b + 1) - 1 = i
    BY <1>1
  <2>2. s[b + (i - b + 1) - 1] \notin stops
    BY <1>2, <2>1
  <2> QED BY <2>1, <2>2
<1>4. b + n <= l + 1 /\ (b + n = l + 1 \/ s[b + n] \in stops)
  BY DEF n, l
<1>5. b + n \in b .. l + 1
  BY <1>1, <1>4
<1> DEFINE j == b + n
<1>6. j \in b .. l + 1 /\ (j = l + 1 \/ s[j] \in stops)
  BY <1>4, <1>5
<1>7. \A k \in b .. j - 1 : s[k] \notin stops
  <2> SUFFICES ASSUME NEW k \in b .. j - 1 PROVE s[k] \notin stops
    OBVIOUS
  <2>1. k \in b .. b + n - 1
    BY <1>1
  <2> QED BY <1>3, <2>1
<1> HIDE DEF j
<1>8. Until(s, b, stops) = j
  BY <1>6, <1>7, UntilIs DEF l
<1> QED BY <1>8 DEF j, n

\* Keys, and values without quotes, are letters.
LEMMA KeyAndValueText ==
  ASSUME NEW p \in Params
  PROVE  /\ p.key \in Seq(Chars) /\ Len(p.key) \in Nat \ {0}
         /\ \A k \in 1 .. Len(p.key) : p.key[k] \in Letters
         /\ p.val # NoVal => p.val \in Seq(Chars) /\ Len(p.val) \in Nat
         /\ p.val # NoVal /\ p.quoted => \A k \in 1 .. Len(p.val) : p.val[k] # "quote"
         /\ p.val # NoVal /\ ~p.quoted => \A k \in 1 .. Len(p.val) : p.val[k] \in Letters
<1>1. Letters \subseteq Chars
  BY DEF Chars
<1>2. p.key \in Seq(Letters) /\ p.key # <<>> /\ p.quoted \in BOOLEAN
      /\ (p.val # NoVal => p.val \in Seq(IF p.quoted THEN Chars \ {"quote"} ELSE Letters))
  BY ParamsAssumption
<1> DEFINE key == p.key
           val == p.val
<1>3. key \in Seq(Chars) /\ Len(key) \in Nat \ {0} /\ \A k \in 1 .. Len(key) : key[k] \in Letters
  <2>1. key \in Seq(Letters) /\ key # <<>>
    BY <1>2
  <2> HIDE DEF key
  <2> QED BY <1>1, <2>1, SeqMonotonic, EmptySeq, ElementOfSeq
<1>4. CASE val # NoVal /\ p.quoted
  <2>1. val \in Seq(Chars \ {"quote"})
    BY <1>2, <1>4
  <2> DEFINE S == Chars \ {"quote"}
  <2>2. S \subseteq Chars /\ "quote" \notin S
    OBVIOUS
  <2>3. val \in Seq(S)
    BY <2>1
  <2> HIDE DEF S, val
  <2>4. val \in Seq(Chars) /\ Len(val) \in Nat
    BY <2>2, <2>3, SeqMonotonic, LenProperties
  <2>5. \A k \in 1 .. Len(val) : val[k] \in S
    BY <2>3, ElementOfSeq
  <2>6. \A k \in 1 .. Len(val) : val[k] # "quote"
    BY <2>2, <2>5
  <2> QED BY <1>3, <1>4, <2>4, <2>6 DEF val, key
<1>5. CASE val # NoVal /\ ~p.quoted
  <2>1. val \in Seq(Letters)
    BY <1>2, <1>5
  <2> HIDE DEF val
  <2>2. val \in Seq(Chars) /\ Len(val) \in Nat
    BY <1>1, <2>1, SeqMonotonic, LenProperties
  <2>3. \A k \in 1 .. Len(val) : val[k] \in Letters
    BY <2>1, ElementOfSeq
  <2> QED BY <1>3, <1>5, <2>2, <2>3 DEF val, key
<1>6. CASE val = NoVal
  BY <1>3, <1>6
<1> QED BY <1>4, <1>5, <1>6

\* A letter ends nothing.
LEMMA LettersOnly ==
  ASSUME NEW c \in Letters
  PROVE  c # "quote" /\ c # ";" /\ c # " " /\ c # "=" /\ c # "{" /\ c \notin {" ", "="}
BY CharsAssumption

\* There are blanks from i up to j.
Blanks(s, i, j) == \A k \in i .. j - 1 : s[k] = " "

\* The first of some blanks
LEMMA BlanksFirst ==
  ASSUME NEW s, NEW i \in Nat, NEW j \in Nat, i < j, Blanks(s, i, j)
  PROVE  s[i] = " " /\ Blanks(s, i + 1, j)
<1>1. i \in i .. j - 1
  OBVIOUS
<1>2. \A k \in (i + 1) .. j - 1 : k \in i .. j - 1
  OBVIOUS
<1> QED BY <1>1, <1>2 DEF Blanks

\* t is in s from b on, with blanks behind it up to e.
Placed(s, b, e, t) ==
  /\ e <= Len(s) + 1 /\ b + Len(t) < e
  /\ At(s, b, t) /\ Blanks(s, b + Len(t), e)

\* A part that is a text
LEMMA AtPart ==
  ASSUME NEW s \in Seq(Chars), NEW b \in Nat \ {0}, NEW t \in Seq(Chars), At(s, b, t)
  PROVE  SubSeq(s, b, b + Len(t) - 1) = t
BY PartIs DEF At

\* Where the key of a parameter ends
KeyEnd(b, p) == b + Len(p.key)

\* The key of a parameter is found.
LEMMA KeyFound ==
  ASSUME NEW p \in Params, NEW s \in Seq(Chars), NEW b \in Nat \ {0}, NEW e \in Nat,
         NEW rest \in Seq(Chars), Typed(p) = p.key \o rest, Placed(s, b, e, Typed(p))
  PROVE  LET c == KeyEnd(b, p)
         IN  /\ c \in Nat /\ b < c /\ c <= Len(s) /\ c + Len(rest) < e
             /\ At(s, c, rest) /\ Blanks(s, c + Len(rest), e)
             /\ ~Blank(s, b)
             /\ s[c] \in {" ", "="} => Parameter(s, b) = KeyAndValue(s, b, c)
             /\ SubSeq(s, b, c - 1) = p.key
<1> DEFINE c == KeyEnd(b, p)
           key == p.key
           n == Len(key)
           l == Len(s)
           r == Len(rest)
           t == Typed(p)
<1>1. key \in Seq(Chars) /\ n \in Nat \ {0} /\ \A k \in 1 .. n : key[k] \in Letters
  BY KeyAndValueText
<1>2. l \in Nat /\ r \in Nat
  BY LenProperties
<1>3. t = key \o rest /\ Placed(s, b, e, t)
  OBVIOUS
<1> HIDE DEF key, t
<1>4. At(s, b, t) /\ b + Len(t) < e /\ e <= l + 1 /\ Blanks(s, b + Len(t), e)
  BY <1>3 DEF Placed
<1>5. At(s, b, key) /\ At(s, b + n, rest) /\ Len(t) = n + r
  BY <1>1, <1>3, <1>4, AtConcat
<1>6. n \in Nat \ {0} /\ c = b + n
  BY <1>1 DEF key, KeyEnd
<1> HIDE DEF n, l, r, c
<1>7. b + Len(t) = c + r
  <2> DEFINE z == Len(t)
  <2>1. z = n + r
    BY <1>5
  <2> HIDE DEF z
  <2>2. b + z = c + r
    BY <1>2, <1>6, <2>1
  <2> QED BY <2>2 DEF z
<1>8. c + r < e /\ e <= l + 1
  BY <1>4, <1>7
<1>9. c \in Nat /\ b < c /\ c - 1 = b + n - 1
  BY <1>6
<1>10. c \in Nat /\ b < c /\ c <= l /\ c + r < e /\ b + Len(t) = c + r /\ c - 1 = b + n - 1
  BY <1>2, <1>7, <1>8, <1>9
<1>11. s[b] \in Letters
  <2>1. 1 \in 1 .. n /\ b + 1 - 1 = b
    BY <1>6
  <2>2. s[b + 1 - 1] = key[1]
    BY <1>5, <2>1 DEF At, n
  <2> QED BY <1>1, <2>1, <2>2
<1>12. ~Blank(s, b)
  BY <1>11, LettersOnly DEF Blank
<1>13. SubSeq(s, b, c - 1) = key
  BY <1>1, <1>5, <1>10, AtPart DEF n
<1>14. ASSUME s[c] \in {" ", "="} PROVE Parameter(s, b) = KeyAndValue(s, b, c)
  <2> DEFINE stops == {" ", "="}
  <2>1. \A k \in 1 .. n : key[k] \notin stops
    BY <1>1, LettersOnly
  <2>2. s[b + n] \in stops
    BY <1>6, <1>14
  <2> HIDE DEF stops
  <2>3. b + n <= l + 1
    BY <1>2, <1>6, <1>10
  <2>4. Until(s, b, stops) = b + n
    BY <1>1, <1>5, <2>1, <2>2, <2>3, UntilBehind DEF l, n
  <2> QED BY <1>6, <2>4 DEF Parameter, stops
<1> QED BY <1>4, <1>5, <1>6, <1>10, <1>12, <1>13, <1>14 DEF l, r, key, c

\* What becomes of a parameter: it is taken for what it is, and if it is wrong that is
\* noticed.
Found(s, b, e, p) ==
  /\ b <= Len(s) /\ ~Blank(s, b)
  /\ Bad(p) => Parameter(s, b) = Error
  /\ ~Bad(p) => \E next \in b + 1 .. e : /\ Parameter(s, b) = Item(p.key, p.val, next)
                                         /\ Blanks(s, next, e)

\* A parameter without a value
LEMMA FoundKey ==
  ASSUME NEW p \in Params, NEW s \in Seq(Chars), NEW b \in Nat \ {0}, NEW e \in Nat,
         Placed(s, b, e, Typed(p)), p.val = NoVal
  PROVE  Found(s, b, e, p)
<1> DEFINE c == KeyEnd(b, p)
           rest == <<>>
<1>1. rest \in Seq(Chars) /\ Len(rest) = 0
  BY EmptySeq
<1>2. Typed(p) = p.key \o rest
  BY DEF Typed
<1> HIDE DEF rest, c
<1>3. /\ c \in Nat /\ b < c /\ c <= Len(s) /\ c + Len(rest) < e
      /\ Blanks(s, c + Len(rest), e)
      /\ ~Blank(s, b)
      /\ s[c] \in {" ", "="} => Parameter(s, b) = KeyAndValue(s, b, c)
      /\ SubSeq(s, b, c - 1) = p.key
  BY <1>1, <1>2, KeyFound DEF c
<1>4. c + Len(rest) = c
  <2>1. c \in Nat
    BY <1>3
  <2> QED BY <1>1, <2>1
<1>5. s[c] = " "
  BY <1>3, <1>4, BlanksFirst
<1>6. Parameter(s, b) = Item(p.key, NoVal, c)
  BY <1>3, <1>5 DEF KeyAndValue
<1>7. ~Bad(p)
  <2>1. <<>> \in Seq(Chars)
    BY EmptySeq
  <2> QED BY <2>1, CharsAssumption DEF Bad
<1>8. c \in b + 1 .. e /\ b <= Len(s)
  <2>1. Len(s) \in Nat
    BY LenProperties
  <2>2. c \in Nat /\ b < c /\ c <= Len(s) /\ c < e
    BY <1>3, <1>4
  <2> QED BY <2>1, <2>2
<1> QED BY <1>3, <1>4, <1>6, <1>7, <1>8 DEF Found

\* Where the value of a parameter begins
LEMMA ValueFound ==
  ASSUME NEW p \in Params, NEW s \in Seq(Chars), NEW b \in Nat \ {0}, NEW e \in Nat,
         Placed(s, b, e, Typed(p)), NEW q \in Seq(Chars), Typed(p) = p.key \o (<<"=">> \o q)
  PROVE  LET v == KeyEnd(b, p) + 1 IN
         /\ v \in Nat \ {0} /\ b < v /\ v <= Len(s) /\ b <= Len(s) /\ v + Len(q) < e
         /\ At(s, v, q) /\ Blanks(s, v + Len(q), e)
         /\ ~Blank(s, b)
         /\ Parameter(s, b) = ValueAt(s, p.key, v)
<1> DEFINE c == KeyEnd(b, p)
           v == c + 1
           eq == <<"=">>
           rest == eq \o q
           l == Len(s)
<1>1. "=" \in Chars
  BY DEF Chars
<1>2. eq \in Seq(Chars) /\ Len(eq) = 1
  BY <1>1, Few
<1>3. rest \in Seq(Chars) /\ Len(rest) = 1 + Len(q)
  <2> HIDE DEF eq
  <2> QED BY <1>2, ConcatProperties
<1>4. Typed(p) = p.key \o rest /\ l \in Nat /\ Len(q) \in Nat
  BY LenProperties
<1> HIDE DEF rest, c, l
<1>5. /\ c \in Nat /\ b < c /\ c <= l /\ c + Len(rest) < e
      /\ At(s, c, rest) /\ Blanks(s, c + Len(rest), e)
      /\ ~Blank(s, b)
      /\ s[c] \in {" ", "="} => Parameter(s, b) = KeyAndValue(s, b, c)
      /\ SubSeq(s, b, c - 1) = p.key
  BY <1>3, <1>4, KeyFound DEF c, l
<1>6. v = c + 1
  OBVIOUS
<1> HIDE DEF v
<1>7. At(s, c, eq) /\ At(s, c + 1, q)
  <2>1. At(s, c, eq \o q)
    BY <1>5 DEF rest
  <2> HIDE DEF eq
  <2> QED BY <1>2, <1>5, <2>1, AtConcat
<1>8. s[c] = "="
  BY <1>1, <1>5, <1>7, AtOne
<1>9. c \in Nat /\ b < c /\ c <= l /\ c + Len(rest) < e
  BY <1>5
<1>10. v + Len(q) < e /\ c + Len(rest) = v + Len(q)
  <2> DEFINE r == Len(rest)
             n == Len(q)
  <2>1. r = 1 + n /\ n \in Nat
    BY <1>3, <1>4
  <2>2. c \in Nat /\ v = c + 1
    BY <1>6, <1>9
  <2> HIDE DEF r, n
  <2>3. c + r = v + n
    BY <2>1, <2>2
  <2>4. c + Len(rest) = v + Len(q)
    BY <2>3 DEF r, n
  <2> QED BY <1>9, <2>4
<1>11. v <= l
  <2>1. e <= l + 1
    BY DEF Placed, l
  <2> QED BY <1>4, <1>6, <1>10, <1>9, <2>1
<1>12. Parameter(s, b) = ValueAt(s, p.key, v)
  <2>1. Parameter(s, b) = KeyAndValue(s, b, c)
    BY <1>5, <1>8
  <2>2. ~(c > l)
    BY <1>4, <1>9
  <2>3. ~(c > l \/ s[c] = " ")
    BY <1>8, <2>2
  <2> QED BY <1>5, <1>6, <2>1, <2>3 DEF KeyAndValue, l
<1>13. v \in Nat \ {0} /\ b < v /\ b <= l
  BY <1>4, <1>6, <1>11, <1>9
<1> QED BY <1>5, <1>6, <1>7, <1>10, <1>11, <1>12, <1>13 DEF l, v, c

\* A parameter with a value without quotes
LEMMA FoundPlain ==
  ASSUME NEW p \in Params, NEW s \in Seq(Chars), NEW b \in Nat \ {0}, NEW e \in Nat,
         Placed(s, b, e, Typed(p)), p.val # NoVal, ~p.quoted
  PROVE  Found(s, b, e, p)
<1> DEFINE val == p.val
           m == Len(val)
           v == KeyEnd(b, p) + 1
           l == Len(s)
<1>1. val \in Seq(Chars) /\ m \in Nat /\ \A k \in 1 .. m : val[k] \in Letters
  BY KeyAndValueText
<1>2. Typed(p) = p.key \o (<<"=">> \o val)
  BY DEF Typed
<1>3. e <= l + 1 /\ l \in Nat
  BY LenProperties DEF Placed
<1> HIDE DEF val, v, l
<1>4. /\ v \in Nat \ {0} /\ b < v /\ v <= l /\ b <= l /\ v + m < e
      /\ At(s, v, val) /\ Blanks(s, v + m, e)
      /\ ~Blank(s, b)
      /\ Parameter(s, b) = ValueAt(s, p.key, v)
  BY <1>1, <1>2, ValueFound DEF v, l
<1>5. m \in Nat
  BY <1>1
<1> HIDE DEF m
<1>6. s[v + m] = " " /\ Blanks(s, v + m + 1, e)
  <2> DEFINE x == v + m
  <2>1. x \in Nat /\ x < e /\ Blanks(s, x, e)
    BY <1>4, <1>5
  <2> HIDE DEF x
  <2>2. s[x] = " " /\ Blanks(s, x + 1, e)
    BY <2>1, BlanksFirst
  <2> QED BY <2>2 DEF x
<1>7. CASE val = <<>>
  <2>1. m = 0
    BY <1>7, EmptySeq DEF m
  <2>2. v + m = v
    BY <1>4, <2>1
  <2>3. Bad(p)
    BY <1>7 DEF Bad, val
  <2>4. ValueAt(s, p.key, v) = Error
    BY <1>6, <2>2 DEF ValueAt
  <2> QED BY <1>4, <2>3, <2>4 DEF Found, l
<1>8. CASE val # <<>>
  <2>1. m \in Nat \ {0}
    BY <1>1, <1>8, EmptySeq DEF m
  <2>2. \A k \in 1 .. m : val[k] \in Letters
    BY <1>1 DEF m
  <2>3. Until(s, v, {" ", "="}) = v + m
    <3> DEFINE stops == {" ", "="}
    <3>1. \A k \in 1 .. m : val[k] \notin stops
      BY <2>2, LettersOnly
    <3>2. s[v + m] \in stops
      BY <1>6
    <3> HIDE DEF stops
    <3>3. v + m <= l + 1
      BY <1>3, <1>4, <1>5
    <3>4. Until(s, v, stops) = v + m
      BY <1>1, <1>4, <3>1, <3>2, <3>3, UntilBehind DEF l, m
    <3> QED BY <3>4 DEF stops
  <2>4. SubSeq(s, v, v + m - 1) = val
    BY <1>1, <1>4, AtPart DEF m
  <2>5. s[v] \in Letters
    <3>1. 1 \in 1 .. m /\ v + 1 - 1 = v
      BY <1>4, <2>1
    <3>2. s[v + 1 - 1] = val[1]
      BY <1>4, <3>1 DEF At, m
    <3> QED BY <2>2, <3>1, <3>2
  <2>6. ~(v > l)
    BY <1>3, <1>4
  <2>7. ~(v > l \/ s[v] \in {";", " "}) /\ s[v] # "quote"
    BY <2>5, <2>6, LettersOnly
  <2>8. ValueAt(s, p.key, v) = Item(p.key, val, v + m + 1)
    <3> DEFINE w == Until(s, v, {" ", "="})
    <3>1. ValueAt(s, p.key, v) = Item(p.key, SubSeq(s, v, w - 1), w + 1)
      BY <2>7 DEF ValueAt, l
    <3>2. w = v + m
      BY <2>3
    <3> HIDE DEF w
    <3>3. v \in Nat
      BY <1>4
    <3>4. w - 1 = v + m - 1
      BY <1>5, <3>2, <3>3
    <3>5. SubSeq(s, v, w - 1) = val
      BY <2>4, <3>4
    <3>6. w + 1 = v + m + 1
      BY <3>2
    <3> QED BY <3>1, <3>5, <3>6
  <2>9. ~Bad(p)
    BY <1>8 DEF Bad, val
  <2>10. v + m + 1 \in b + 1 .. e
    BY <1>4, <1>5
  <2> QED BY <1>4, <1>6, <2>8, <2>9, <2>10 DEF Found, l, val
<1> QED BY <1>7, <1>8

\* A parameter with a value in quotes
LEMMA FoundQuoted ==
  ASSUME NEW p \in Params, NEW s \in Seq(Chars), NEW b \in Nat \ {0}, NEW e \in Nat,
         Placed(s, b, e, Typed(p)), p.val # NoVal, p.quoted
  PROVE  Found(s, b, e, p)
<1> DEFINE val == p.val
           m == Len(val)
           v == KeyEnd(b, p) + 1
           l == Len(s)
           quo == <<"quote">>
           u == v + 1
           q == (quo \o val) \o quo
<1>1. val \in Seq(Chars) /\ m \in Nat /\ \A k \in 1 .. m : val[k] # "quote"
  BY KeyAndValueText
<1>2. Typed(p) = p.key \o (<<"=">> \o q)
  BY DEF Typed
<1>3. e <= l + 1 /\ l \in Nat
  BY LenProperties DEF Placed
<1>4. "quote" \in Chars
  BY DEF Chars
<1>5. quo \in Seq(Chars) /\ Len(quo) = 1
  BY <1>4, Few
<1> HIDE DEF val, v, l, quo
<1>6. quo \o val \in Seq(Chars) /\ Len(quo \o val) = 1 + m
  <2>1. quo \in Seq(Chars) /\ val \in Seq(Chars)
    BY <1>1, <1>5
  <2>2. Len(quo \o val) = Len(quo) + Len(val) /\ quo \o val \in Seq(Chars)
    BY <2>1, ConcatProperties
  <2> QED BY <1>5, <2>2
<1>7. q \in Seq(Chars) /\ Len(q) = (1 + m) + 1
  BY <1>5, <1>6, ConcatProperties
<1>8. m \in Nat
  BY <1>1
<1>9. q = (quo \o val) \o quo
  OBVIOUS
<1> HIDE DEF q
<1>10. /\ v \in Nat \ {0} /\ b < v /\ v <= l /\ b <= l /\ v + Len(q) < e
       /\ At(s, v, q) /\ Blanks(s, v + Len(q), e)
       /\ ~Blank(s, b)
       /\ Parameter(s, b) = ValueAt(s, p.key, v)
  BY <1>2, <1>7, ValueFound DEF v, l
<1> HIDE DEF m
<1>11. At(s, v, quo \o val) /\ At(s, v + Len(quo \o val), quo)
  BY <1>5, <1>6, <1>9, <1>10, AtConcat
<1>12. At(s, v, quo) /\ At(s, v + Len(quo), val)
  BY <1>1, <1>5, <1>10, <1>11, AtConcat
<1>13. u \in Nat \ {0} /\ v + Len(quo) = u /\ v + Len(quo \o val) = u + m /\ u + m \in Nat
       /\ v + Len(q) = u + m + 1
  BY <1>5, <1>6, <1>7, <1>8, <1>10
<1>14. s[v] = "quote" /\ s[u + m] = "quote"
  <2>1. At(s, u + m, <<"quote">>) /\ At(s, v, <<"quote">>)
    BY <1>11, <1>12, <1>13 DEF quo
  <2> QED BY <1>4, <1>10, <1>13, <2>1, AtOne
<1>15. At(s, u, val)
  BY <1>12, <1>13
<1>16. u + m + 1 < e /\ u + m <= l + 1 /\ ~(u + m > l) /\ ~(v > l)
  BY <1>3, <1>8, <1>10, <1>13
<1>17. Until(s, u, {"quote"}) = u + m
  <2> DEFINE stops == {"quote"}
  <2>1. \A k \in 1 .. m : val[k] \notin stops
    BY <1>1 DEF m
  <2>2. s[u + m] \in stops
    BY <1>14
  <2> HIDE DEF stops, u
  <2>3. Until(s, u, stops) = u + m
    BY <1>1, <1>13, <1>15, <1>16, <2>1, <2>2, UntilBehind DEF l, m
  <2> QED BY <2>3 DEF stops
<1>18. SubSeq(s, u, u + m - 1) = val
  <2> HIDE DEF u
  <2> QED BY <1>1, <1>13, <1>15, AtPart DEF m
<1>19. ValueAt(s, p.key, v) = Quoted(s, p.key, v, u + m)
  <2>1. ~(v > l \/ s[v] \in {";", " "})
    BY <1>14, <1>16
  <2> QED BY <1>14, <1>17, <2>1 DEF ValueAt, l
<1>20. Quoted(s, p.key, v, u + m) = Item(p.key, val, u + m + 1)
  <2>1. u = v + 1
    OBVIOUS
  <2> HIDE DEF u
  <2> DEFINE w == u + m
  <2>2. ~(w > Len(s))
    BY <1>16 DEF l
  <2>3. w - 1 = u + m - 1
    BY <1>8, <1>13
  <2>4. SubSeq(s, v + 1, w - 1) = val
    <3> HIDE DEF w
    <3> QED BY <1>18, <2>1, <2>3
  <2> HIDE DEF w
  <2>5. Quoted(s, p.key, v, w) = Item(p.key, SubSeq(s, v + 1, w - 1), w + 1)
    BY <2>2 DEF Quoted
  <2>6. Quoted(s, p.key, v, w) = Item(p.key, val, w + 1)
    BY <2>5, <2>4
  <2> QED BY <2>6 DEF w
<1>21. ~Bad(p)
  BY DEF Bad
<1>22. u + m + 1 \in b + 1 .. e
  BY <1>8, <1>10, <1>13, <1>16
<1> HIDE DEF u
<1>23. Blanks(s, u + m + 1, e)
  BY <1>10, <1>13
<1> QED BY <1>10, <1>19, <1>20, <1>21, <1>22, <1>23 DEF Found, l, val

\* A parameter in a line
LEMMA ItemAt ==
  ASSUME NEW p \in Params, NEW s \in Seq(Chars), NEW b \in Nat \ {0}, NEW e \in Nat,
         Placed(s, b, e, Typed(p))
  PROVE  Found(s, b, e, p)
BY FoundKey, FoundPlain, FoundQuoted, ParamsAssumption

\* The functions that are defined from the end
Backwards(n, S, step) == {f \in [1 .. n -> S] : \A i \in 1 .. n : f[i] = step[<<i, f>>]}

\* A function may be defined from the end: where it does not look at itself but behind.
LEMMA BackwardsExists ==
  ASSUME NEW n \in Nat, NEW S, S # {}, NEW step \in [(1 .. n) \X [1 .. n -> S] -> S],
         \A i \in 1 .. n : \A f, g \in [1 .. n -> S] :
           (\A j \in i + 1 .. n : f[j] = g[j]) => step[<<i, f>>] = step[<<i, g>>]
  PROVE  Backwards(n, S, step) # {}
<1> DEFINE F == [1 .. n -> S]
           Good(f, d) == \A i \in 1 .. n : n - d < i => f[i] = step[<<i, f>>]
           D == {d \in 0 .. n : \E f \in F : Good(f, d)}
<1>1. 0 \in D
  <2>1. PICK x \in S : TRUE
    OBVIOUS
  <2> DEFINE f == [i \in 1 .. n |-> x]
  <2>2. f \in F
    BY <2>1
  <2>3. Good(f, 0)
    OBVIOUS
  <2> HIDE DEF f
  <2>4. 0 \in 0 .. n
    OBVIOUS
  <2> QED BY <2>2, <2>3, <2>4
<1>2. ASSUME NEW d \in 1 .. n, d - 1 \in D PROVE d \in D
  <2>1. PICK f \in F : Good(f, d - 1)
    BY <1>2
  <2> DEFINE m == n - d + 1
             x == step[<<m, f>>]
             g == [f EXCEPT ![m] = x]
  <2>2. m \in 1 .. n
    OBVIOUS
  <2>3. x \in S
    BY <2>2
  <2> HIDE DEF x
  <2>4. g \in F /\ g[m] = x /\ \A i \in 1 .. n : i # m => g[i] = f[i]
    BY <2>2, <2>3
  <2> HIDE DEF g
  <2>5. ASSUME NEW i \in 1 .. n, m <= i PROVE step[<<i, f>>] = step[<<i, g>>]
    <3>1. \A j \in i + 1 .. n : f[j] = g[j]
      <4> SUFFICES ASSUME NEW j \in i + 1 .. n PROVE f[j] = g[j]
        OBVIOUS
      <4>1. j \in 1 .. n /\ j # m
        BY <2>5
      <4> QED BY <2>4, <4>1
    <3> QED BY <2>4, <3>1
  <2>6. ASSUME NEW i \in 1 .. n, n - d < i PROVE g[i] = step[<<i, g>>]
    <3>1. m <= i
      BY <2>6
    <3>2. CASE i = m
      BY <2>4, <2>5, <3>1, <3>2 DEF x
    <3>3. CASE i # m
      <4>1. n - (d - 1) < i
        BY <2>6, <3>3
      <4>2. f[i] = step[<<i, f>>]
        BY <2>1, <4>1
      <4> QED BY <2>4, <2>5, <3>1, <3>3, <4>2
    <3> QED BY <3>2, <3>3
  <2> QED BY <2>4, <2>6
<1>3. n \in D
  <2> HIDE DEF D
  <2>1. 0 .. n \subseteq D
    BY <1>1, <1>2, LoopInduction
  <2> QED BY <2>1
<1>4. PICK f \in F : Good(f, n)
  BY <1>3
<1>5. \A i \in 1 .. n : f[i] = step[<<i, f>>]
  BY <1>4
<1> QED BY <1>4, <1>5 DEF Backwards

\* The end of a word is in the line or behind it.
LEMMA UntilRange ==
  ASSUME NEW s \in Seq(Chars), NEW i \in Nat \ {0}, i <= Len(s) + 1, NEW stops
  PROVE  /\ Until(s, i, stops) \in i .. Len(s) + 1
         /\ Until(s, i, stops) = Len(s) + 1 \/ s[Until(s, i, stops)] \in stops
<1> DEFINE l == Len(s)
           T == {j \in i .. l + 1 : j = l + 1 \/ s[j] \in stops}
           R == OpToRel(<, Nat)
<1>1. l \in Nat /\ i <= l + 1
  BY LenProperties
<1> HIDE DEF l
<1>2. T \subseteq Nat /\ l + 1 \in T
  BY <1>1
<1>3. PICK m \in T : \A j \in T : ~(<<j, m>> \in R)
  <2>1. IsWellFoundedOn(R, Nat)
    BY NatLessThanWellFounded
  <2>2. T # {}
    BY <1>2
  <2> HIDE DEF R, T
  <2> QED BY <1>2, <2>1, <2>2, WFMin
<1>4. \A j \in T : ~(j < m)
  BY <1>2, <1>3 DEF OpToRel
<1>5. m \in i .. l + 1 /\ (m = l + 1 \/ s[m] \in stops)
  OBVIOUS
<1>6. \A k \in i .. m - 1 : s[k] \notin stops
  <2> SUFFICES ASSUME NEW k \in i .. m - 1, s[k] \in stops PROVE FALSE
    OBVIOUS
  <2>1. k \in i .. l + 1 /\ k < m
    BY <1>1, <1>5
  <2>2. k \in T
    BY <2>1
  <2> QED BY <1>4, <2>1, <2>2
<1> HIDE DEF T, R
<1>7. Until(s, i, stops) = m
  BY <1>5, <1>6, UntilIs DEF l
<1> QED BY <1>5, <1>7 DEF l

\* What is taken for a parameter ends behind the place where it begins.
Advances(s, i, p) == p.bad \/ (~p.bad /\ p.next \in i + 1 .. Len(s) + 2)

\* Errors and items
LEMMA ErrorItem ==
  /\ Error.bad = TRUE
  /\ \A key, val, next : /\ Item(key, val, next).bad = FALSE
                         /\ Item(key, val, next).key = key
                         /\ Item(key, val, next).val = val
                         /\ Item(key, val, next).next = next
BY DEF Error, Item

\* Every item leads on.
LEMMA ItemsAdvance ==
  ASSUME NEW s \in Seq(Chars), NEW i \in Nat \ {0}, i <= Len(s), ~Blank(s, i)
  PROVE  Advances(s, i, Parameter(s, i))
<1> DEFINE l == Len(s)
           k == Until(s, i, {" ", "="})
           key == SubSeq(s, i, k - 1)
           v == k + 1
<1>1. l \in Nat /\ i <= l
  BY LenProperties
<1>2. k \in i .. l + 1
  <2> DEFINE stops == {" ", "="}
  <2> HIDE DEF stops
  <2>1. i <= Len(s) + 1
    BY <1>1
  <2>2. Until(s, i, stops) \in i .. l + 1
    BY <2>1, UntilRange
  <2> QED BY <2>2 DEF stops
<1>3. Parameter(s, i) = KeyAndValue(s, i, k)
  BY DEF Parameter
<1> HIDE DEF k
<1>4. CASE k > l \/ s[k] = " "
  <2>1. Parameter(s, i) = Item(key, NoVal, k)
    BY <1>3, <1>4 DEF KeyAndValue
  <2>2. k # i
    <3>1. s[i] # " "
      BY DEF Blank
    <3>2. k > l => k # i
      BY <1>1, <1>2
    <3> QED BY <1>4, <3>1, <3>2
  <2>3. k \in i + 1 .. l + 2
    BY <1>1, <1>2, <2>2
  <2> QED BY <2>1, <2>3, ErrorItem DEF Advances
<1>5. CASE ~(k > l \/ s[k] = " ")
  <2>1. Parameter(s, i) = ValueAt(s, key, v)
    BY <1>3, <1>5 DEF KeyAndValue
  <2> HIDE DEF key, l
  <2>2. k <= l
    <3>1. ~(k > l)
      BY <1>5
    <3> QED BY <1>1, <1>2, <3>1
  <2>3. v \in Nat \ {0} /\ i < v /\ v <= l + 1
    BY <1>1, <1>2, <2>2
  <2> HIDE DEF v
  <2>4. CASE v > l \/ s[v] \in {";", " "}
    <3>1. Parameter(s, i) = Error
      BY <2>1, <2>4 DEF ValueAt, l
    <3> QED BY <3>1, ErrorItem DEF Advances
  <2>5. CASE ~(v > l \/ s[v] \in {";", " "}) /\ s[v] = "quote"
    <3> DEFINE stops == {"quote"}
               u == v + 1
               end == Until(s, u, stops)
    <3>1. Parameter(s, i) = Quoted(s, key, v, end)
      BY <2>1, <2>5 DEF ValueAt, l
    <3>2. v <= l
      <4>1. ~(v > l)
        BY <2>5
      <4> QED BY <1>1, <2>3, <4>1
    <3>3. u \in Nat \ {0} /\ u <= l + 1 /\ i < u
      BY <1>1, <2>3, <3>2
    <3> HIDE DEF stops, u
    <3>4. end \in u .. l + 1
      BY <3>3, UntilRange DEF l
    <3> HIDE DEF end
    <3>5. CASE end > l
      <4>1. Parameter(s, i) = Error
        BY <3>1, <3>5 DEF Quoted, l
      <4> QED BY <4>1, ErrorItem DEF Advances
    <3>6. CASE ~(end > l)
      <4> DEFINE val == SubSeq(s, v + 1, end - 1)
                 next == end + 1
      <4>1. Parameter(s, i) = Item(key, val, next)
        BY <3>1, <3>6 DEF Quoted, l
      <4>2. next \in i + 1 .. l + 2
        BY <1>1, <3>3, <3>4, <3>6
      <4> HIDE DEF val, next
      <4> QED BY <4>1, <4>2, ErrorItem DEF Advances, l
    <3> QED BY <3>5, <3>6
  <2>6. CASE ~(v > l \/ s[v] \in {";", " "}) /\ s[v] # "quote"
    <3> DEFINE stops == {" ", "="}
               end == Until(s, v, stops)
               val == SubSeq(s, v, end - 1)
               next == end + 1
    <3>1. Parameter(s, i) = Item(key, val, next)
      BY <2>1, <2>6 DEF ValueAt, l
    <3> HIDE DEF stops
    <3>2. end \in v .. l + 1
      BY <2>3, UntilRange DEF l
    <3> HIDE DEF end
    <3>3. next \in i + 1 .. l + 2
      BY <1>1, <2>3, <3>2
    <3> HIDE DEF val, next
    <3> QED BY <3>1, <3>3, ErrorItem DEF Advances, l
  <2> QED BY <2>4, <2>5, <2>6
<1> QED BY <1>4, <1>5

\* The rest of the items, from a position on
From(s, f, i) ==
  IF i > Len(s) THEN <<>>
  ELSE IF Blank(s, i) THEN f[i + 1]
  ELSE Before(Parameter(s, i), f)

\* The recursive function of Items
LEMMA ItemsDef ==
  ASSUME NEW s \in Seq(Chars)
  PROVE  \E from : /\ Items(s) = from[1]
                   /\ \A i \in 1 .. Len(s) + 2 : from[i] = From(s, from, i)
<1> DEFINE l == Len(s)
           n == Len(s) + 2
           Things == {Parameter(s, i) : i \in 1 .. l}
           S == Seq(Things)
           Def(h) == [i \in 1 .. Len(s) + 2 |->
                        IF i > Len(s) THEN <<>>
                        ELSE IF Blank(s, i) THEN h[i + 1]
                        ELSE Before(Parameter(s, i), h)]
           from == CHOOSE h : h = Def(h)
           step == [x \in (1 .. n) \X [1 .. n -> S] |-> From(s, x[2], x[1])]
<1>1. l \in Nat /\ n \in Nat /\ n = l + 2
  BY LenProperties
<1>2. Items(s) = from[1]
  BY DEF Items
<1>3. from = Def(from) \/ \A h : h # Def(h)
  <2> HIDE DEF Def
  <2> QED OBVIOUS
<1>4. \A h : Def(h) = [i \in 1 .. n |-> From(s, h, i)]
  BY DEF From
<1>5. <<>> \in S
  OBVIOUS
<1>6. \A i \in 1 .. n, f \in [1 .. n -> S] : step[<<i, f>>] = From(s, f, i)
  OBVIOUS
<1>7. \A i \in 1 .. l : Parameter(s, i) \in Things
  OBVIOUS
<1>8. DOMAIN step = (1 .. n) \X [1 .. n -> S] /\ step = [x \in DOMAIN step |-> step[x]]
  OBVIOUS
<1> HIDE DEF n, Things, Def, from, step
<1>9. ASSUME NEW i \in 1 .. n, NEW f \in [1 .. n -> S] PROVE From(s, f, i) \in S
  <2>1. CASE i > l
    BY <1>5, <2>1 DEF From
  <2>2. CASE ~(i > l) /\ Blank(s, i)
    <3>1. i + 1 \in 1 .. n
      BY <1>1, <2>2
    <3>2. From(s, f, i) = f[i + 1]
      BY <2>2 DEF From
    <3> HIDE DEF S
    <3> QED BY <3>1, <3>2
  <2>3. CASE ~(i > l) /\ ~Blank(s, i)
    <3> DEFINE p == Parameter(s, i)
    <3>1. i \in Nat \ {0} /\ i <= l /\ i \in 1 .. l
      BY <1>1, <2>3
    <3>2. From(s, f, i) = Before(p, f)
      BY <2>3 DEF From
    <3>3. p \in Things
      BY <1>7, <3>1
    <3>4. Advances(s, i, p)
      BY <2>3, <3>1, ItemsAdvance
    <3> HIDE DEF p
    <3>5. <<p>> \in S
      BY <3>3, Few
    <3>6. CASE p.bad
      BY <3>2, <3>5, <3>6 DEF Before
    <3>7. CASE ~p.bad
      <4>1. p.next \in 1 .. n
        BY <1>1, <3>1, <3>4, <3>7 DEF Advances
      <4>2. f[p.next] \in S
        <5> HIDE DEF S
        <5> QED BY <4>1
      <4>3. <<p>> \o f[p.next] \in S
        BY <3>5, <4>2, ConcatProperties
      <4> QED BY <3>2, <3>7, <4>3 DEF Before
    <3> QED BY <3>6, <3>7
  <2> QED BY <2>1, <2>2, <2>3
<1>10. ASSUME NEW i \in 1 .. n, NEW f \in [1 .. n -> S], NEW g \in [1 .. n -> S],
              \A j \in i + 1 .. n : f[j] = g[j]
       PROVE  From(s, f, i) = From(s, g, i)
  <2>1. CASE i > l
    BY <2>1 DEF From
  <2>2. CASE ~(i > l) /\ Blank(s, i)
    <3>1. i + 1 \in i + 1 .. n
      BY <1>1, <2>2
    <3>2. From(s, f, i) = f[i + 1] /\ From(s, g, i) = g[i + 1]
      BY <2>2 DEF From
    <3> QED BY <1>10, <3>1, <3>2
  <2>3. CASE ~(i > l) /\ ~Blank(s, i)
    <3> DEFINE p == Parameter(s, i)
    <3>1. i \in Nat \ {0} /\ i <= l
      BY <1>1, <2>3
    <3>2. From(s, f, i) = Before(p, f) /\ From(s, g, i) = Before(p, g)
      BY <2>3 DEF From
    <3>3. Advances(s, i, p)
      BY <2>3, <3>1, ItemsAdvance
    <3> HIDE DEF p
    <3>4. CASE p.bad
      BY <3>2, <3>4 DEF Before
    <3>5. CASE ~p.bad
      <4>1. p.next \in i + 1 .. n
        BY <1>1, <3>3, <3>5 DEF Advances
      <4>2. f[p.next] = g[p.next]
        BY <1>10, <4>1
      <4> QED BY <3>2, <3>5, <4>2 DEF Before
    <3> QED BY <3>4, <3>5
  <2> QED BY <2>1, <2>2, <2>3
<1> HIDE DEF S, l
<1>11. step \in [(1 .. n) \X [1 .. n -> S] -> S]
  <2>1. \A x \in (1 .. n) \X [1 .. n -> S] : step[x] \in S
    <3> SUFFICES ASSUME NEW x \in (1 .. n) \X [1 .. n -> S] PROVE step[x] \in S
      OBVIOUS
    <3>1. PICK i \in 1 .. n, f \in [1 .. n -> S] : x = <<i, f>>
      OBVIOUS
    <3> QED BY <1>6, <1>9, <3>1
  <2> QED BY <1>8, <2>1
<1>12. \A i \in 1 .. n : \A f, g \in [1 .. n -> S] :
         (\A j \in i + 1 .. n : f[j] = g[j]) => step[<<i, f>>] = step[<<i, g>>]
  <2> SUFFICES ASSUME NEW i \in 1 .. n, NEW f \in [1 .. n -> S], NEW g \in [1 .. n -> S],
                      \A j \in i + 1 .. n : f[j] = g[j]
               PROVE  step[<<i, f>>] = step[<<i, g>>]
    OBVIOUS
  <2>1. From(s, f, i) = From(s, g, i)
    BY <1>10
  <2>2. step[<<i, f>>] = From(s, f, i)
    BY <1>6
  <2>3. step[<<i, g>>] = From(s, g, i)
    BY <1>6
  <2> QED BY <2>1, <2>2, <2>3
<1>13. S # {}
  BY <1>5
<1>14. PICK f \in Backwards(n, S, step) : TRUE
  BY <1>1, <1>11, <1>12, <1>13, BackwardsExists
<1>15. f \in [1 .. n -> S] /\ \A i \in 1 .. n : f[i] = From(s, f, i)
  BY <1>6, <1>14 DEF Backwards
<1>16. f = Def(f)
  BY <1>4, <1>15
<1>17. from = Def(from)
  BY <1>3, <1>16
<1>18. from = [i \in 1 .. n |-> From(s, from, i)]
  BY <1>4, <1>17
<1>19. \A i \in 1 .. n : from[i] = From(s, from, i)
  BY <1>18
<1> QED BY <1>2, <1>19 DEF n

\* A function that gives the items from each position of a line on
GivesItems(s, from) == \A i \in 1 .. Len(s) + 2 : from[i] = From(s, from, i)

\* Blanks in front of an item are passed.
LEMMA BlanksPassed ==
  ASSUME NEW s \in Seq(Chars), NEW from, GivesItems(s, from),
         NEW i \in Nat \ {0}, NEW j \in Nat, i <= j, j <= Len(s) + 1, Blanks(s, i, j)
  PROVE  from[i] = from[j]
<1> DEFINE l == Len(s)
           d == j - i
           D == {k \in 0 .. d : from[j - k] = from[j]}
<1>1. l \in Nat /\ d \in Nat /\ j <= l + 1
  BY LenProperties
<1>2. 0 \in D
  OBVIOUS
<1>3. ASSUME NEW k \in 1 .. d, k - 1 \in D PROVE k \in D
  <2> DEFINE m == j - k
  <2>1. m \in i .. j - 1 /\ m \in 1 .. l + 2 /\ m <= l /\ m + 1 = j - (k - 1)
    BY <1>1
  <2>2. s[m] = " "
    BY <2>1 DEF Blanks
  <2>3. from[m + 1] = from[j]
    BY <1>3, <2>1
  <2> HIDE DEF m
  <2>4. Blank(s, m)
    BY <2>1, <2>2 DEF Blank, l
  <2>5. from[m] = From(s, from, m)
    BY <2>1 DEF GivesItems, l
  <2>6. ~(m > Len(s))
    BY <1>1, <2>1 DEF l
  <2>7. from[m] = from[m + 1]
    BY <2>4, <2>5, <2>6 DEF From
  <2>8. from[m] = from[j]
    BY <2>3, <2>7
  <2> QED BY <2>8 DEF m
<1>4. d \in D
  <2> HIDE DEF D, d
  <2>1. 0 .. d \subseteq D
    BY <1>1, <1>2, <1>3, LoopInduction
  <2> QED BY <1>1, <2>1
<1>5. j - d = i
  OBVIOUS
<1> HIDE DEF d
<1> QED BY <1>4, <1>5

\* The items of a line of parameters: f[i] are those behind the ith parameter.
Follow(f, ps) ==
  /\ f[Len(ps)] = <<>>
  /\ \A i \in 1 .. Len(ps) :
       /\ Bad(ps[i]) => f[i - 1] = <<Error>>
       /\ ~Bad(ps[i]) =>
            \E next \in Nat : f[i - 1] = <<Item(ps[i].key, ps[i].val, next)>> \o f[i]

\* The items are those of the parameters, one behind the other.
LEMMA ItemsFollow ==
  ASSUME NEW ps \in Seq(Params), NEW n \in Nat \ {0}
  PROVE  \E f : Items(LineOf(ps, n)) = f[0] /\ Follow(f, ps)
<1> DEFINE s == LineOf(ps, n)
           l == Len(ps)
           m == Len(s)
<1>1. PICK at \in [0 .. l -> Nat \ {0}] :
           /\ s \in Seq(Chars)
           /\ at[0] = n /\ at[l] = m + 1
           /\ \A k \in 1 .. n - 1 : s[k] = " "
           /\ \A i \in 0 .. l : at[i] <= m + 1
           /\ \A i \in 1 .. l :
                /\ at[i] = at[i - 1] + Len(Typed(ps[i])) + n
                /\ \A k \in 1 .. Len(Typed(ps[i])) : s[at[i - 1] + k - 1] = Typed(ps[i])[k]
                /\ \A k \in at[i - 1] + Len(Typed(ps[i])) .. at[i] - 1 : s[k] = " "
  BY LineParts
<1> HIDE DEF s
<1>2. l \in Nat /\ m \in Nat
  BY <1>1, LenProperties
<1>3. PICK from : Items(s) = from[1] /\ GivesItems(s, from)
  BY <1>1, ItemsDef DEF GivesItems
<1>4. 0 \in 0 .. l /\ l \in 0 .. l
  BY <1>2
<1> DEFINE f == [i \in 0 .. l |-> from[at[i]]]
<1>5. \A i \in 0 .. l : f[i] = from[at[i]]
  OBVIOUS
<1> HIDE DEF f
<1>6. Items(s) = f[0]
  <2>1. f[0] = from[n]
    BY <1>1, <1>4, <1>5
  <2>2. Blanks(s, 1, n)
    BY <1>1 DEF Blanks
  <2>3. n <= Len(s) + 1
    BY <1>1, <1>4 DEF m
  <2>4. from[1] = from[n]
    <3>1. 1 \in Nat \ {0} /\ 1 <= n /\ n \in Nat
      OBVIOUS
    <3>2. s \in Seq(Chars) /\ GivesItems(s, from)
      BY <1>1, <1>3
    <3> QED BY <2>2, <2>3, <3>1, <3>2, BlanksPassed
  <2> QED BY <1>3, <2>1, <2>4
<1>7. f[l] = <<>>
  <2>1. f[l] = from[m + 1]
    BY <1>1, <1>4, <1>5
  <2>2. m + 1 \in 1 .. m + 2 /\ m + 1 > m
    BY <1>2
  <2>3. from[m + 1] = From(s, from, m + 1)
    BY <1>3, <2>2 DEF GivesItems
  <2> QED BY <2>1, <2>2, <2>3 DEF From
<1>8. ASSUME NEW i \in 1 .. l
      PROVE  /\ Bad(ps[i]) => f[i - 1] = <<Error>>
             /\ ~Bad(ps[i]) =>
                  \E next \in Nat : f[i - 1] = <<Item(ps[i].key, ps[i].val, next)>> \o f[i]
  <2> DEFINE p == ps[i]
             b == at[i - 1]
             e == at[i]
             t == Typed(p)
             c == Len(t)
  <2>1. i \in 0 .. l /\ i - 1 \in 0 .. l
    BY <1>2
  <2>2. b \in Nat \ {0} /\ e \in Nat \ {0} /\ p \in Params
    BY <2>1, ElementOfSeq
  <2>3. t \in Seq(Chars) /\ c \in Nat
    BY <2>2, TypedChars, LenProperties
  <2>4. f[i - 1] = from[b] /\ f[i] = from[e]
    BY <1>5, <2>1
  <2>5. e = b + c + n
    BY <1>1
  <2>6. e <= m + 1
    BY <1>1, <2>1
  <2>7. \A k \in 1 .. c : s[b + k - 1] = t[k]
    BY <1>1
  <2>8. \A k \in b + c .. e - 1 : s[k] = " "
    BY <1>1
  <2> HIDE DEF p, b, e, t, c, l
  <2>9. Placed(s, b, e, t)
    <3>1. b + c < e
      BY <2>2, <2>3, <2>5
    <3>2. At(s, b, t)
      BY <2>7 DEF At, c
    <3>3. Blanks(s, b + c, e)
      BY <2>8 DEF Blanks
    <3> QED BY <2>6, <3>1, <3>2, <3>3 DEF Placed, c, m
  <2>10. Found(s, b, e, p)
    BY <1>1, <2>2, <2>9, ItemAt DEF t
  <2>11. b <= m /\ ~Blank(s, b) /\ b \in 1 .. m + 2 /\ ~(b > m)
    <3>1. b <= m /\ ~Blank(s, b)
      BY <2>10 DEF Found, m
    <3> QED BY <1>2, <2>2, <3>1
  <2>12. from[b] = Before(Parameter(s, b), from)
    <3>1. from[b] = From(s, from, b)
      BY <1>3, <2>11 DEF GivesItems, m
    <3> QED BY <2>11, <3>1 DEF From, m
  <2>13. CASE Bad(p)
    <3>1. Parameter(s, b) = Error
      BY <2>10, <2>13 DEF Found
    <3>2. from[b] = <<Error>>
      BY <2>12, <3>1, ErrorItem DEF Before
    <3> QED BY <2>4, <2>13, <3>2 DEF p
  <2>14. CASE ~Bad(p)
    <3>1. PICK next \in b + 1 .. e : /\ Parameter(s, b) = Item(p.key, p.val, next)
                                     /\ Blanks(s, next, e)
      BY <2>10, <2>14 DEF Found
    <3>2. next \in Nat \ {0} /\ next <= e /\ e <= Len(s) + 1 /\ e \in Nat
      BY <2>2, <2>6 DEF m
    <3>3. from[next] = from[e]
      <4>1. s \in Seq(Chars) /\ GivesItems(s, from) /\ Blanks(s, next, e)
        BY <1>1, <1>3, <3>1
      <4> QED BY <3>2, <4>1, BlanksPassed
    <3> DEFINE x == Item(p.key, p.val, next)
    <3>4. ~x.bad /\ x.next = next
      BY ErrorItem
    <3>5. Parameter(s, b) = x
      BY <3>1
    <3> HIDE DEF x
    <3>6. from[b] = <<x>> \o from[next]
      BY <2>12, <3>4, <3>5 DEF Before
    <3>7. f[i - 1] = <<x>> \o f[i]
      BY <2>4, <3>3, <3>6
    <3> QED BY <2>14, <3>2, <3>7 DEF p, x
  <2> QED BY <2>13, <2>14
<1> HIDE DEF f, l
<1>9. Follow(f, ps)
  BY <1>7, <1>8 DEF Follow, l
<1> QED BY <1>6, <1>9 DEF s

\* What an item says of the parameter it is for
Means(x, p) == /\ x.bad <=> Bad(p)
               /\ ~Bad(p) => x.key = p.key /\ x.val = p.val

\* The items of a list of parameters from the ith on: up to the first one that is bad
Tell(items, ps, i) ==
  /\ Len(items) <= Len(ps) - i
  /\ \A j \in 1 .. Len(items) : Means(items[j], ps[i + j])
  /\ \A j \in 1 .. Len(items) - 1 : ~Bad(ps[i + j])
  /\ Len(items) < Len(ps) - i => Len(items) > 0 /\ Bad(ps[i + Len(items)])

\* What may be an item
Things == {Error} \cup {Item(key, val, next) : key \in Seq(Chars), val \in Seq(Chars) \cup {NoVal},
                                               next \in Nat}

\* One item more in front
LEMMA OneInFront ==
  ASSUME NEW S, NEW x \in S, NEW s \in Seq(S)
  PROVE  /\ <<x>> \o s \in Seq(S) /\ Len(<<x>> \o s) = Len(s) + 1
         /\ (<<x>> \o s)[1] = x
         /\ \A j \in 2 .. Len(s) + 1 : (<<x>> \o s)[j] = s[j - 1]
<1> DEFINE t == <<x>>
           n == Len(s)
<1>1. t \in Seq(S) /\ Len(t) = 1 /\ t[1] = x
  OBVIOUS
<1>2. n \in Nat
  BY LenProperties
<1> HIDE DEF t
<1>3. /\ t \o s \in Seq(S) /\ Len(t \o s) = Len(t) + Len(s)
      /\ \A j \in 1 .. Len(t) + Len(s) :
           (t \o s)[j] = IF j <= Len(t) THEN t[j] ELSE s[j - Len(t)]
  BY <1>1, ConcatProperties
<1> HIDE DEF n
<1>4. \A j \in 1 .. 1 + n : (t \o s)[j] = IF j <= 1 THEN t[j] ELSE s[j - 1]
  BY <1>1, <1>3 DEF n
<1>5. 1 \in 1 .. 1 + n /\ \A j \in 2 .. n + 1 : j \in 1 .. 1 + n /\ ~(j <= 1)
  BY <1>2
<1>6. (t \o s)[1] = x
  BY <1>1, <1>4, <1>5
<1>7. \A j \in 2 .. n + 1 : (t \o s)[j] = s[j - 1]
  BY <1>4, <1>5
<1>8. Len(t \o s) = n + 1
  BY <1>1, <1>2, <1>3 DEF n
<1> QED BY <1>3, <1>6, <1>7, <1>8 DEF t, n

\* The items tell of one parameter more.
LEMMA TellMore ==
  ASSUME NEW ps \in Seq(Params), NEW i \in 1 .. Len(ps), NEW items \in Seq(Things),
         Tell(items, ps, i), NEW x \in Things, Means(x, ps[i]), ~Bad(ps[i])
  PROVE  Tell(<<x>> \o items, ps, i - 1)
<1> DEFINE l == Len(ps)
           c == Len(items)
           more == <<x>> \o items
<1>1. l \in Nat /\ c \in Nat
  BY LenProperties
<1>2. Len(more) = c + 1 /\ more[1] = x /\ \A j \in 2 .. c + 1 : more[j] = items[j - 1]
  BY OneInFront
<1>3. /\ c <= l - i
      /\ \A j \in 1 .. c : Means(items[j], ps[i + j])
      /\ \A j \in 1 .. c - 1 : ~Bad(ps[i + j])
      /\ c < l - i => c > 0 /\ Bad(ps[i + c])
  BY DEF Tell
<1> HIDE DEF l, c, more
<1>4. Len(more) <= l - (i - 1)
  BY <1>1, <1>2, <1>3 DEF l
<1>5. ASSUME NEW j \in 1 .. Len(more) PROVE Means(more[j], ps[(i - 1) + j])
  <2>1. CASE j = 1
    <3>1. (i - 1) + j = i
      BY <2>1 DEF l
    <3> QED BY <1>2, <2>1, <3>1
  <2>2. CASE j # 1
    <3>1. j \in 2 .. c + 1 /\ j - 1 \in 1 .. c /\ i + (j - 1) = (i - 1) + j
      BY <1>1, <1>2, <2>2 DEF l
    <3>2. Means(items[j - 1], ps[i + (j - 1)])
      BY <1>3, <3>1
    <3> QED BY <1>2, <3>1, <3>2
  <2> QED BY <2>1, <2>2
<1>6. ASSUME NEW j \in 1 .. Len(more) - 1 PROVE ~Bad(ps[(i - 1) + j])
  <2>1. CASE j = 1
    <3>1. (i - 1) + j = i
      BY <2>1 DEF l
    <3> QED BY <3>1
  <2>2. CASE j # 1
    <3>1. j - 1 \in 1 .. c - 1 /\ i + (j - 1) = (i - 1) + j
      BY <1>1, <1>2, <2>2 DEF l
    <3>2. ~Bad(ps[i + (j - 1)])
      BY <1>3, <3>1
    <3> QED BY <3>1, <3>2
  <2> QED BY <2>1, <2>2
<1>7. ASSUME Len(more) < l - (i - 1) PROVE Len(more) > 0 /\ Bad(ps[(i - 1) + Len(more)])
  <2>1. c < l - i /\ (i - 1) + Len(more) = i + c
    BY <1>1, <1>2, <1>7 DEF l
  <2>2. Bad(ps[i + c])
    BY <1>3, <2>1
  <2> QED BY <1>1, <1>2, <2>1, <2>2
<1> QED BY <1>4, <1>5, <1>6, <1>7 DEF Tell, l, more

\* The items of a line tell of its parameters.
LEMMA ItemsTell ==
  ASSUME NEW ps \in Seq(Params), NEW f, Follow(f, ps)
  PROVE  f[0] \in Seq(Things) /\ Tell(f[0], ps, 0)
<1> DEFINE l == Len(ps)
           Good(i) == f[i] \in Seq(Things) /\ Tell(f[i], ps, i)
           D == {d \in 0 .. l : Good(l - d)}
<1>1. l \in Nat
  BY LenProperties
<1>2. 0 \in D
  <2>1. f[l] = <<>>
    BY DEF Follow
  <2>2. Len(<<>>) = 0 /\ <<>> \in Seq(Things)
    OBVIOUS
  <2>3. Tell(f[l], ps, l)
    BY <1>1, <2>1, <2>2 DEF Tell
  <2>4. l - 0 = l /\ 0 \in 0 .. l
    BY <1>1
  <2> HIDE DEF l
  <2> QED BY <2>1, <2>2, <2>3, <2>4
<1>3. ASSUME NEW d \in 1 .. l, d - 1 \in D PROVE d \in D
  <2> DEFINE i == l - d + 1
             p == ps[i]
  <2>1. i \in 1 .. l /\ i - 1 = l - d /\ i = l - (d - 1)
    BY <1>1
  <2>2. Good(i)
    BY <1>3, <2>1
  <2> HIDE DEF i
  <2>3. p \in Params
    BY <2>1, ElementOfSeq
  <2>4. /\ Bad(p) => f[i - 1] = <<Error>>
        /\ ~Bad(p) => \E next \in Nat : f[i - 1] = <<Item(p.key, p.val, next)>> \o f[i]
    BY <2>1 DEF Follow
  <2>5. CASE Bad(p)
    <3>1. Error \in Things /\ Len(<<Error>>) = 1 /\ <<Error>>[1] = Error
      BY DEF Things
    <3>2. f[i - 1] = <<Error>>
      BY <2>4, <2>5
    <3>3. f[i - 1] \in Seq(Things)
      BY <3>1, <3>2, Few
    <3>4. Means(Error, p)
      BY <2>5, ErrorItem DEF Means
    <3> DEFINE items == f[i - 1]
    <3>5. Len(items) = 1 /\ items[1] = Error
      BY <3>1, <3>2
    <3> HIDE DEF items
    <3>6. Len(items) <= l - (i - 1)
      BY <1>1, <2>1, <3>5
    <3>7. ASSUME NEW j \in 1 .. Len(items) PROVE Means(items[j], ps[(i - 1) + j])
      <4>1. j = 1 /\ (i - 1) + j = i
        BY <1>1, <2>1, <3>5
      <4> QED BY <3>4, <3>5, <4>1
    <3>8. ASSUME NEW j \in 1 .. Len(items) - 1 PROVE FALSE
      BY <3>5
    <3>9. Len(items) > 0 /\ Bad(ps[(i - 1) + Len(items)])
      <4>1. (i - 1) + Len(items) = i /\ Len(items) > 0
        BY <1>1, <2>1, <3>5
      <4> QED BY <2>5, <4>1
    <3>10. Tell(items, ps, i - 1)
      BY <3>6, <3>7, <3>8, <3>9 DEF Tell
    <3>11. Good(i - 1)
      BY <3>3, <3>10 DEF items
    <3> QED BY <2>1, <3>11
  <2>6. CASE ~Bad(p)
    <3>1. PICK next \in Nat : f[i - 1] = <<Item(p.key, p.val, next)>> \o f[i]
      BY <2>4, <2>6
    <3> DEFINE x == Item(p.key, p.val, next)
    <3>2. x \in Things
      <4>1. p.key \in Seq(Chars) /\ p.val \in Seq(Chars) \cup {NoVal}
        BY <2>3, KeyAndValueText
      <4> QED BY <4>1 DEF Things
    <3>3. Means(x, p)
      BY <2>6, ErrorItem DEF Means
    <3>4. f[i - 1] = <<x>> \o f[i]
      BY <3>1
    <3> HIDE DEF x
    <3>5. f[i - 1] \in Seq(Things)
      BY <2>2, <3>2, <3>4, OneInFront
    <3>6. Tell(f[i - 1], ps, i - 1)
      BY <2>1, <2>2, <2>6, <3>2, <3>3, <3>4, TellMore
    <3>7. Good(i - 1)
      BY <3>5, <3>6
    <3> QED BY <2>1, <3>7
  <2> QED BY <2>5, <2>6
<1>4. l \in D
  <2> HIDE DEF D
  <2>1. 0 .. l \subseteq D
    BY <1>1, <1>2, <1>3, LoopInduction
  <2> QED BY <1>1, <2>1
<1>5. l - l = 0
  BY <1>1
<1> HIDE DEF l
<1> QED BY <1>4, <1>5

--------------------------------------------------------------------------------
(* The loop over the places for parameters, and what is asked for *)

\* The states of the loop
Places == [pars : Seq(Seq(Chars) \X (Seq(Chars) \cup {NoVal})), mid : Seq(Chars) \cup {NoVal},
           wrong : BOOLEAN]

\* What an item that is not wrong holds
LEMMA ThingParts ==
  ASSUME NEW x \in Things, ~x.bad
  PROVE  x.key \in Seq(Chars) /\ x.val \in Seq(Chars) \cup {NoVal}
<1>1. x # Error
  BY ErrorItem
<1>2. PICK key \in Seq(Chars), val \in Seq(Chars) \cup {NoVal}, next \in Nat :
        x = Item(key, val, next)
  BY <1>1 DEF Things
<1> QED BY <1>2, ErrorItem

\* Each item leaves the loop in such a state.
LEMMA TakeIn ==
  ASSUME NEW st \in Places, NEW x \in Things
  PROVE  Take(st, x) \in Places
<1>1. CASE st.wrong \/ Len(st.pars) = MaxPar
  BY <1>1 DEF Take
<1>2. CASE ~(st.wrong \/ Len(st.pars) = MaxPar) /\ x.bad
  <2>1. Take(st, x) = [st EXCEPT !.wrong = TRUE]
    BY <1>2 DEF Take
  <2> QED BY <2>1 DEF Places
<1>3. CASE ~(st.wrong \/ Len(st.pars) = MaxPar) /\ ~x.bad /\ IsMid(x)
  <2>1. Take(st, x) = [st EXCEPT !.mid = x.val]
    BY <1>3 DEF Take
  <2>2. x.val \in Seq(Chars) \cup {NoVal}
    BY <1>3, ThingParts
  <2> DEFINE val == x.val
  <2> HIDE DEF val
  <2> QED BY <2>1, <2>2 DEF Places
<1>4. CASE ~(st.wrong \/ Len(st.pars) = MaxPar) /\ ~x.bad /\ ~IsMid(x)
  <2> DEFINE pair == <<x.key, x.val>>
             S == Seq(Chars) \X (Seq(Chars) \cup {NoVal})
  <2>1. Take(st, x) = [st EXCEPT !.pars = Append(@, pair)]
    BY <1>4 DEF Take
  <2>2. pair \in S
    BY <1>4, ThingParts
  <2>3. st.pars \in Seq(S)
    BY DEF Places
  <2> HIDE DEF pair, S
  <2>4. Append(st.pars, pair) \in Seq(S)
    BY <2>2, <2>3, OneMore
  <2> QED BY <2>1, <2>4 DEF Places, S
<1> QED BY <1>1, <1>2, <1>3, <1>4

\* The recursive function of Taken
LEMMA TakenDef ==
  ASSUME NEW items \in Seq(Things)
  PROVE  \E after \in [0 .. Len(items) -> Places] :
           /\ Taken(items) = after[Len(items)]
           /\ after[0] = NoneTaken
           /\ \A j \in 1 .. Len(items) : after[j] = Take(after[j - 1], items[j])
<1> DEFINE l == Len(items)
           step == [x \in Places \X (1 .. l) |-> Take(x[1], items[x[2]])]
           Def(h) == [j \in 0 .. Len(items) |->
                        IF j = 0 THEN NoneTaken ELSE Take(h[j - 1], items[j])]
           after == CHOOSE h : h = Def(h)
<1>1. l \in Nat
  BY LenProperties
<1>2. \A j \in 1 .. l : items[j] \in Things
  BY ElementOfSeq
<1>3. \A st \in Places, j \in 1 .. l : Take(st, items[j]) \in Places
  BY <1>2, TakeIn
<1>4. step \in [Places \X (1 .. l) -> Places]
  <2> SUFFICES ASSUME NEW st \in Places, NEW j \in 1 .. l PROVE Take(st, items[j]) \in Places
    OBVIOUS
  <2> QED BY <1>3
<1>5. NoneTaken \in Places
  <2>1. <<>> \in Seq(Seq(Chars) \X (Seq(Chars) \cup {NoVal}))
    OBVIOUS
  <2> QED BY <2>1 DEF NoneTaken, Places
<1>6. \A st \in Places, j \in 1 .. l : step[<<st, j>>] = Take(st, items[j])
  OBVIOUS
<1>7. Taken(items) = after[l]
  BY DEF Taken
<1>8. \A h : Def(h) = [j \in 0 .. l |-> IF j = 0 THEN NoneTaken ELSE Take(h[j - 1], items[j])]
  OBVIOUS
<1>9. after = Def(after) \/ \A h : h # Def(h)
  <2> HIDE DEF Def
  <2> QED OBVIOUS
<1> HIDE DEF l, step, after, Def
<1>10. PICK f \in Runs(l, Places, NoneTaken, step) : TRUE
  BY <1>1, <1>4, <1>5, Iterates
<1>11. f \in [0 .. l -> Places] /\ f[0] = NoneTaken
       /\ \A j \in 1 .. l : f[j] = step[<<f[j - 1], j>>]
  BY <1>10 DEF Runs
<1>12. \A j \in 1 .. l : f[j] = Take(f[j - 1], items[j])
  <2> SUFFICES ASSUME NEW j \in 1 .. l PROVE f[j] = Take(f[j - 1], items[j])
    OBVIOUS
  <2>1. j - 1 \in 0 .. l
    BY <1>1
  <2>2. f[j - 1] \in Places
    BY <1>11, <2>1
  <2> QED BY <1>6, <1>11, <2>2
<1>13. f = Def(f)
  <2>1. ASSUME NEW j \in 0 .. l PROVE f[j] = Def(f)[j]
    <3>1. CASE j = 0
      BY <1>8, <1>11, <3>1
    <3>2. CASE j # 0
      <4>1. j \in 1 .. l
        BY <1>1, <3>2
      <4>2. Def(f)[j] = Take(f[j - 1], items[j])
        BY <1>8, <3>2
      <4> QED BY <1>12, <4>1, <4>2
    <3> QED BY <3>1, <3>2
  <2> QED BY <1>8, <1>11, <2>1
<1>14. after = Def(after)
  BY <1>9, <1>13
<1>15. after[0] = NoneTaken
  <2>1. 0 \in 0 .. l
    BY <1>1
  <2>2. Def(after)[0] = NoneTaken
    BY <1>8, <2>1
  <2> QED BY <1>14, <2>2
<1>16. ASSUME NEW j \in 1 .. l PROVE after[j] = Take(after[j - 1], items[j])
  <2>1. j \in 0 .. l /\ j # 0
    BY <1>1
  <2> QED BY <1>8, <1>14, <2>1
<1>17. \A j \in 0 .. l : after[j] \in Places
  <2>1. \A j \in 1 .. l : after[j - 1] \in Places => after[j] \in Places
    <3> SUFFICES ASSUME NEW j \in 1 .. l, after[j - 1] \in Places PROVE after[j] \in Places
      OBVIOUS
    <3>1. Take(after[j - 1], items[j]) \in Places
      BY <1>3
    <3> QED BY <1>16, <3>1
  <2> QED BY <1>1, <1>5, <1>15, <2>1, Stays
<1>18. after \in [0 .. l -> Places]
  BY <1>8, <1>14, <1>17
<1> QED BY <1>7, <1>15, <1>16, <1>18 DEF l

\* One parameter more is asked for.
AskMore(asked, p) == IF Mid(p) THEN asked ELSE Append(asked, p)

\* The recursive function of Asked
LEMMA AskedDef ==
  ASSUME NEW ps \in Seq(Params)
  PROVE  \E asked \in [0 .. Len(ps) -> Seq(Params)] :
           /\ Asked(ps) = asked[Len(ps)]
           /\ asked[0] = <<>>
           /\ \A i \in 1 .. Len(ps) : asked[i] = AskMore(asked[i - 1], ps[i])
<1> DEFINE l == Len(ps)
           S == Seq(Params)
           step == [x \in S \X (1 .. l) |-> AskMore(x[1], ps[x[2]])]
           Def(h) == [i \in 0 .. Len(ps) |->
                        IF i = 0 THEN <<>>
                        ELSE IF Mid(ps[i]) THEN h[i - 1] ELSE Append(h[i - 1], ps[i])]
           asked == CHOOSE h : h = Def(h)
<1>1. l \in Nat
  BY LenProperties
<1>2. \A a \in S, i \in 1 .. l : AskMore(a, ps[i]) \in S
  <2> SUFFICES ASSUME NEW a \in S, NEW i \in 1 .. l PROVE AskMore(a, ps[i]) \in S
    OBVIOUS
  <2>1. ps[i] \in Params
    BY ElementOfSeq
  <2>2. Append(a, ps[i]) \in S
    BY <2>1, OneMore
  <2> QED BY <2>2 DEF AskMore
<1>3. step \in [S \X (1 .. l) -> S]
  <2> SUFFICES ASSUME NEW a \in S, NEW i \in 1 .. l PROVE AskMore(a, ps[i]) \in S
    OBVIOUS
  <2> QED BY <1>2
<1>4. <<>> \in S
  OBVIOUS
<1>5. \A a \in S, i \in 1 .. l : step[<<a, i>>] = AskMore(a, ps[i])
  OBVIOUS
<1>6. Asked(ps) = asked[l]
  BY DEF Asked
<1>7. \A h : Def(h) = [i \in 0 .. l |-> IF i = 0 THEN <<>> ELSE AskMore(h[i - 1], ps[i])]
  BY DEF AskMore
<1>8. asked = Def(asked) \/ \A h : h # Def(h)
  <2> HIDE DEF Def
  <2> QED OBVIOUS
<1> HIDE DEF l, S, step, asked, Def
<1>9. PICK f \in Runs(l, S, <<>>, step) : TRUE
  BY <1>1, <1>3, <1>4, Iterates
<1>10. f \in [0 .. l -> S] /\ f[0] = <<>> /\ \A i \in 1 .. l : f[i] = step[<<f[i - 1], i>>]
  BY <1>9 DEF Runs
<1>11. \A i \in 1 .. l : f[i] = AskMore(f[i - 1], ps[i])
  <2> SUFFICES ASSUME NEW i \in 1 .. l PROVE f[i] = AskMore(f[i - 1], ps[i])
    OBVIOUS
  <2>1. i - 1 \in 0 .. l
    BY <1>1
  <2>2. f[i - 1] \in S
    BY <1>10, <2>1
  <2> QED BY <1>5, <1>10, <2>2
<1>12. f = Def(f)
  <2>1. ASSUME NEW i \in 0 .. l PROVE f[i] = Def(f)[i]
    <3>1. CASE i = 0
      BY <1>7, <1>10, <3>1
    <3>2. CASE i # 0
      <4>1. i \in 1 .. l
        BY <1>1, <3>2
      <4>2. Def(f)[i] = AskMore(f[i - 1], ps[i])
        BY <1>7, <3>2
      <4> QED BY <1>11, <4>1, <4>2
    <3> QED BY <3>1, <3>2
  <2> QED BY <1>7, <1>10, <2>1
<1>13. asked = Def(asked)
  BY <1>8, <1>12
<1>14. asked[0] = <<>>
  <2>1. 0 \in 0 .. l
    BY <1>1
  <2>2. Def(asked)[0] = <<>>
    BY <1>7, <2>1
  <2> QED BY <1>13, <2>2
<1>15. ASSUME NEW i \in 1 .. l PROVE asked[i] = AskMore(asked[i - 1], ps[i])
  <2>1. i \in 0 .. l /\ i # 0
    BY <1>1
  <2> QED BY <1>7, <1>13, <2>1
<1>16. \A i \in 0 .. l : asked[i] \in S
  <2>1. \A i \in 1 .. l : asked[i - 1] \in S => asked[i] \in S
    <3> SUFFICES ASSUME NEW i \in 1 .. l, asked[i - 1] \in S PROVE asked[i] \in S
      OBVIOUS
    <3>1. AskMore(asked[i - 1], ps[i]) \in S
      BY <1>2
    <3> QED BY <1>15, <3>1
  <2> QED BY <1>1, <1>4, <1>14, <2>1, Stays
<1>17. asked \in [0 .. l -> S]
  BY <1>7, <1>13, <1>16
<1> QED BY <1>6, <1>14, <1>15, <1>17 DEF l, S

\* What is asked for gets longer only.
LEMMA AskedGrows ==
  ASSUME NEW l \in Nat, NEW ps \in Seq(Params), l = Len(ps), NEW asked \in [0 .. l -> Seq(Params)],
         \A i \in 1 .. l : asked[i] = AskMore(asked[i - 1], ps[i]),
         NEW c \in 0 .. l
  PROVE  Len(asked[c]) <= Len(asked[l])
<1> DEFINE d == l - c
           D == {k \in 0 .. d : Len(asked[c]) <= Len(asked[c + k])}
<1>1. d \in Nat /\ c \in Nat
  OBVIOUS
<1>2. \A i \in 0 .. l : Len(asked[i]) \in Nat
  BY LenProperties
<1>3. 0 \in D
  <2>1. c + 0 = c /\ 0 \in 0 .. d
    OBVIOUS
  <2> HIDE DEF d
  <2> QED BY <1>2, <2>1
<1>4. ASSUME NEW k \in 1 .. d, k - 1 \in D PROVE k \in D
  <2> DEFINE i == c + k
  <2>1. i \in 1 .. l /\ i - 1 = c + (k - 1) /\ i - 1 \in 0 .. l /\ i \in 0 .. l
    BY <1>1
  <2> HIDE DEF d
  <2>2. Len(asked[c]) <= Len(asked[i - 1])
    BY <1>4, <2>1
  <2>3. asked[i] = AskMore(asked[i - 1], ps[i])
    BY <2>1
  <2>4. asked[i - 1] \in Seq(Params) /\ ps[i] \in Params
    BY <2>1, ElementOfSeq
  <2> HIDE DEF i
  <2>5. Len(Append(asked[i - 1], ps[i])) = Len(asked[i - 1]) + 1
    BY <2>4, OneMore
  <2>6. Len(asked[i]) = Len(asked[i - 1]) \/ Len(asked[i]) = Len(asked[i - 1]) + 1
    BY <2>3, <2>5 DEF AskMore
  <2>7. Len(asked[c]) <= Len(asked[i])
    <3>1. Len(asked[c]) \in Nat /\ Len(asked[i - 1]) \in Nat
      BY <1>2, <2>1
    <3> QED BY <2>2, <2>6, <3>1
  <2> QED BY <2>7 DEF i
<1>5. d \in D
  <2> HIDE DEF D, d
  <2>1. 0 .. d \subseteq D
    BY <1>1, <1>3, <1>4, LoopInduction
  <2> QED BY <1>1, <2>1
<1>6. c + d = l
  OBVIOUS
<1> HIDE DEF d
<1> QED BY <1>5, <1>6

--------------------------------------------------------------------------------
(* The loop takes what is asked for *)

\* The message id among the first j parameters
MidOf(mid, ps, j) ==
  \/ mid = NoVal /\ \A k \in 1 .. j : ~Mid(ps[k])
  \/ \E k \in 1 .. j : Mid(ps[k]) /\ mid = ps[k].val /\ \A m \in k + 1 .. j : ~Mid(ps[m])

\* The parameters are those asked for.
SamePairs(pars, asked) ==
  /\ Len(pars) = Len(asked)
  /\ \A k \in 1 .. Len(pars) : pars[k] = <<asked[k].key, asked[k].val>>

\* Behind the first j items: wrong if one of them is bad; no place is left if more is asked
\* for than there is room; or what has been taken is what is asked for.
TakesAsked(st, asked, ps, j) ==
  /\ st.mid = NoVal \/ \E k \in 1 .. Len(ps) : Mid(ps[k]) /\ st.mid = ps[k].val
  /\ st.wrong => \E k \in 1 .. j : Bad(ps[k])
  /\ ~st.wrong /\ Len(st.pars) = MaxPar => Len(asked) >= MaxPar
  /\ ~st.wrong /\ Len(st.pars) # MaxPar => /\ \A k \in 1 .. j : ~Bad(ps[k])
                                           /\ SamePairs(st.pars, asked)
                                           /\ MidOf(st.mid, ps, j)
  /\ Len(st.pars) <= MaxPar

\* Each item is taken as its parameter is meant.
LEMMA TakeMeans ==
  ASSUME NEW ps \in Seq(Params), NEW j \in 1 .. Len(ps), NEW st \in Places, NEW x \in Things,
         NEW asked \in Seq(Params), TakesAsked(st, asked, ps, j - 1), Means(x, ps[j])
  PROVE  TakesAsked(Take(st, x), AskMore(asked, ps[j]), ps, j)
<1> DEFINE p == ps[j]
           l == Len(ps)
           more == AskMore(asked, p)
           new == Take(st, x)
<1>1. l \in Nat /\ j \in 1 .. l /\ j \in 1 .. j
  BY LenProperties
<1>2. p \in Params /\ \A k \in 1 .. j - 1 : k \in 1 .. j
  BY <1>1, ElementOfSeq
<1>3. more \in Seq(Params) /\ Len(more) \in Nat /\ Len(asked) \in Nat
      /\ (Mid(p) => more = asked)
      /\ (~Mid(p) => /\ Len(more) = Len(asked) + 1 /\ more[Len(asked) + 1] = p
                     /\ \A k \in 1 .. Len(asked) : more[k] = asked[k])
  <2>1. /\ Append(asked, p) \in Seq(Params) /\ Len(Append(asked, p)) = Len(asked) + 1
        /\ Append(asked, p)[Len(asked) + 1] = p
        /\ \A k \in 1 .. Len(asked) : Append(asked, p)[k] = asked[k]
    BY <1>2, OneMore
  <2>2. more = IF Mid(p) THEN asked ELSE Append(asked, p)
    BY DEF AskMore
  <2> HIDE DEF p, more
  <2>3. more \in Seq(Params)
    BY <2>1, <2>2
  <2>4. Len(more) \in Nat /\ Len(asked) \in Nat
    BY <2>3, LenProperties
  <2> QED BY <2>1, <2>2, <2>3, <2>4
<1>4. Len(st.pars) \in Nat /\ MaxPar \in Nat \ {0} /\ st.wrong \in BOOLEAN
  <2>1. st.pars \in Seq(Seq(Chars) \X (Seq(Chars) \cup {NoVal})) /\ st.wrong \in BOOLEAN
    BY DEF Places
  <2> QED BY <2>1, LenProperties, SizesAssumption
<1>5. /\ st.mid = NoVal \/ \E k \in 1 .. l : Mid(ps[k]) /\ st.mid = ps[k].val
      /\ st.wrong => \E k \in 1 .. j - 1 : Bad(ps[k])
      /\ ~st.wrong /\ Len(st.pars) = MaxPar => Len(asked) >= MaxPar
      /\ ~st.wrong /\ Len(st.pars) # MaxPar => /\ \A k \in 1 .. j - 1 : ~Bad(ps[k])
                                               /\ SamePairs(st.pars, asked)
                                               /\ MidOf(st.mid, ps, j - 1)
      /\ Len(st.pars) <= MaxPar
  BY DEF TakesAsked
<1>6. Mid(p) <=> p.key = <<"m">> /\ p.val # NoVal
  BY DEF Mid
<1>7. Means(x, p)
  OBVIOUS
<1> HIDE DEF p, l, more, new
<1>8. CASE st.wrong \/ Len(st.pars) = MaxPar
  <2>1. new = st
    BY <1>8 DEF Take, new
  <2>2. st.wrong => \E k \in 1 .. j : Bad(ps[k])
    BY <1>2, <1>5
  <2>3. ~st.wrong /\ Len(st.pars) = MaxPar => Len(more) >= MaxPar
    BY <1>3, <1>4, <1>5
  <2> QED BY <1>5, <1>8, <2>1, <2>2, <2>3 DEF TakesAsked, new, more, l, p
<1>9. CASE ~st.wrong /\ Len(st.pars) # MaxPar /\ x.bad
  <2>1. new = [st EXCEPT !.wrong = TRUE]
    BY <1>9 DEF Take, new
  <2>2. new.wrong /\ new.pars = st.pars /\ new.mid = st.mid
    BY <2>1 DEF Places
  <2>3. Bad(p)
    BY <1>7, <1>9 DEF Means
  <2>4. \E k \in 1 .. j : Bad(ps[k])
    BY <1>1, <2>3 DEF p
  <2> QED BY <1>5, <2>2, <2>4 DEF TakesAsked, new, more, l, p
<1>10. CASE ~st.wrong /\ Len(st.pars) # MaxPar /\ ~x.bad
  <2>1. ~Bad(p) /\ x.key = p.key /\ x.val = p.val
    BY <1>7, <1>10 DEF Means
  <2>2. \A k \in 1 .. j : ~Bad(ps[k])
    <3> SUFFICES ASSUME NEW k \in 1 .. j PROVE ~Bad(ps[k])
      OBVIOUS
    <3>1. k \in 1 .. j - 1 \/ k = j
      BY <1>1
    <3> QED BY <1>5, <1>10, <2>1, <3>1 DEF p
  <2>3. IsMid(x) <=> Mid(p)
    BY <1>6, <1>10, <2>1 DEF IsMid
  <2>4. SamePairs(st.pars, asked) /\ MidOf(st.mid, ps, j - 1)
    BY <1>5, <1>10
  <2>5. CASE Mid(p)
    <3>1. new = [st EXCEPT !.mid = x.val]
      BY <1>10, <2>3, <2>5 DEF Take, new
    <3>2. new.wrong = st.wrong /\ new.pars = st.pars /\ new.mid = p.val
      BY <2>1, <3>1 DEF Places
    <3>3. MidOf(new.mid, ps, j)
      <4>1. \A m \in j + 1 .. j : FALSE
        BY <1>1
      <4>2. Mid(ps[j]) /\ new.mid = ps[j].val
        BY <2>5, <3>2 DEF p
      <4> QED BY <1>1, <4>1, <4>2 DEF MidOf
    <3>4. \E k \in 1 .. l : Mid(ps[k]) /\ new.mid = ps[k].val
      BY <1>1, <2>5, <3>2 DEF p
    <3>5. SamePairs(new.pars, more)
      BY <1>3, <2>4, <2>5, <3>2
    <3> QED BY <1>5, <1>10, <2>2, <3>2, <3>3, <3>4, <3>5 DEF TakesAsked, new, more, l, p
  <2>6. CASE ~Mid(p)
    <3> DEFINE S == Seq(Chars) \X (Seq(Chars) \cup {NoVal})
               pair == <<x.key, x.val>>
    <3>1. new = [st EXCEPT !.pars = Append(@, pair)]
      BY <1>10, <2>3, <2>6 DEF Take, new
    <3>2. pair \in S /\ st.pars \in Seq(S)
      BY <1>10, ThingParts DEF Places
    <3>3. pair = <<p.key, p.val>>
      BY <2>1
    <3> HIDE DEF pair, S
    <3>4. new.wrong = st.wrong /\ new.pars = Append(st.pars, pair) /\ new.mid = st.mid
      BY <3>1 DEF Places
    <3>5. /\ Len(new.pars) = Len(st.pars) + 1 /\ new.pars[Len(st.pars) + 1] = pair
          /\ \A k \in 1 .. Len(st.pars) : new.pars[k] = st.pars[k]
      BY <3>2, <3>4, OneMore
    <3>6. Len(st.pars) = Len(asked)
      BY <2>4 DEF SamePairs
    <3>7. SamePairs(new.pars, more)
      <4>1. Len(new.pars) = Len(more)
        BY <1>3, <2>6, <3>5, <3>6
      <4>2. ASSUME NEW k \in 1 .. Len(new.pars) PROVE new.pars[k] = <<more[k].key, more[k].val>>
        <5>1. k \in 1 .. Len(st.pars) \/ k = Len(st.pars) + 1
          BY <1>4, <3>5
        <5>2. CASE k \in 1 .. Len(st.pars)
          <6>1. st.pars[k] = <<asked[k].key, asked[k].val>>
            BY <2>4, <5>2 DEF SamePairs
          <6>2. more[k] = asked[k]
            BY <1>3, <2>6, <3>6, <5>2
          <6> QED BY <3>5, <5>2, <6>1, <6>2
        <5>3. CASE k = Len(st.pars) + 1
          <6>1. more[k] = p
            BY <1>3, <2>6, <3>6, <5>3
          <6> QED BY <3>3, <3>5, <5>3, <6>1
        <5> QED BY <5>1, <5>2, <5>3
      <4> QED BY <4>1, <4>2 DEF SamePairs
    <3>8. MidOf(new.mid, ps, j)
      <4>1. CASE st.mid = NoVal /\ \A k \in 1 .. j - 1 : ~Mid(ps[k])
        <5>1. \A k \in 1 .. j : k \in 1 .. j - 1 \/ k = j
          BY <1>1
        <5>2. \A k \in 1 .. j : ~Mid(ps[k])
          BY <2>6, <4>1, <5>1 DEF p
        <5> QED BY <3>4, <4>1, <5>2 DEF MidOf
      <4>2. CASE \E k \in 1 .. j - 1 : /\ Mid(ps[k]) /\ st.mid = ps[k].val
                                       /\ \A m \in k + 1 .. j - 1 : ~Mid(ps[m])
        <5>1. PICK k \in 1 .. j - 1 : /\ Mid(ps[k]) /\ st.mid = ps[k].val
                                      /\ \A m \in k + 1 .. j - 1 : ~Mid(ps[m])
          BY <4>2
        <5>2. \A m \in k + 1 .. j : m \in k + 1 .. j - 1 \/ m = j
          BY <1>1
        <5>3. \A m \in k + 1 .. j : ~Mid(ps[m])
          BY <2>6, <5>1, <5>2 DEF p
        <5>4. k \in 1 .. j
          BY <1>2
        <5> QED BY <3>4, <5>1, <5>3, <5>4 DEF MidOf
      <4> QED BY <2>4, <4>1, <4>2 DEF MidOf
    <3>9. Len(new.pars) <= MaxPar
      BY <1>4, <1>5, <1>10, <3>5
    <3>10. Len(new.pars) = MaxPar => Len(more) >= MaxPar
      <4>1. Len(new.pars) = Len(more)
        BY <3>7 DEF SamePairs
      <4> QED BY <1>4, <4>1
    <3> QED BY <1>5, <1>10, <2>2, <3>4, <3>7, <3>8, <3>9, <3>10 DEF TakesAsked, new, more, l, p
  <2> QED BY <2>5, <2>6
<1> QED BY <1>4, <1>8, <1>9, <1>10

\* Keys with their values
Pairs == Seq(Chars) \X (Seq(Chars) \cup {NoVal})

\* What is made of a line with the parameters ps
ParsedAs(r, ps) ==
  /\ r.n \in Int /\ r.pars \in Seq(Pairs)
  /\ r.n < 0 <=> Wrong(ps)
  /\ r.n >= 0 => /\ r.n = Len(r.pars) /\ SamePairs(r.pars, Asked(ps))
                 /\ MidOf(r.mid, ps, Len(ps))
  /\ r.mid = NoVal \/ \E k \in 1 .. Len(ps) : Mid(ps[k]) /\ r.mid = ps[k].val

\* cli_parseCommandline refuses a line of parameters exactly if it is wrong, and otherwise takes
\* it apart into what is asked for.
THEOREM ParseAsked ==
  ASSUME NEW ps \in Seq(Params), NEW n \in Nat \ {0}
  PROVE  ParsedAs(ParseLine(LineOf(ps, n)), ps)
<1> DEFINE s == LineOf(ps, n)
           items == Items(s)
           l == Len(ps)
           c == Len(items)
           r == ParseLine(s)
<1>1. items \in Seq(Things) /\ Tell(items, ps, 0)
  <2>1. PICK f : items = f[0] /\ Follow(f, ps)
    BY ItemsFollow
  <2> HIDE DEF items
  <2>2. f[0] \in Seq(Things) /\ Tell(f[0], ps, 0)
    BY <2>1, ItemsTell
  <2> QED BY <2>1, <2>2
<1>2. r = [n |-> IF Taken(items).wrong \/ Len(Taken(items).pars) = MaxPar THEN -1
                 ELSE Len(Taken(items).pars),
           pars |-> Taken(items).pars, mid |-> Taken(items).mid]
  BY DEF ParseLine
<1> HIDE DEF s, items, r
<1>3. PICK after \in [0 .. c -> Places] :
        /\ Taken(items) = after[c]
        /\ after[0] = NoneTaken
        /\ \A j \in 1 .. c : after[j] = Take(after[j - 1], items[j])
  BY <1>1, TakenDef
<1>4. PICK asked \in [0 .. l -> Seq(Params)] :
        /\ Asked(ps) = asked[l]
        /\ asked[0] = <<>>
        /\ \A i \in 1 .. l : asked[i] = AskMore(asked[i - 1], ps[i])
  BY AskedDef
<1>5. l \in Nat /\ c \in Nat /\ c <= l
  <2>1. c <= l - 0
    BY <1>1 DEF Tell
  <2>2. l \in Nat /\ c \in Nat
    BY <1>1, LenProperties
  <2> QED BY <2>1, <2>2
<1>6. /\ \A j \in 1 .. c : Means(items[j], ps[j])
      /\ c < l => c > 0 /\ Bad(ps[c])
  <2>1. /\ \A j \in 1 .. c : Means(items[j], ps[0 + j])
        /\ c < l - 0 => c > 0 /\ Bad(ps[0 + c])
    BY <1>1 DEF Tell
  <2>2. \A j \in 1 .. c : 0 + j = j
    OBVIOUS
  <2>3. 0 + c = c /\ l - 0 = l
    BY <1>5
  <2> QED BY <2>1, <2>2, <2>3
<1> HIDE DEF l, c
<1>7. \A j \in 0 .. c : TakesAsked(after[j], asked[j], ps, j)
  <2> DEFINE D == {j \in 0 .. c : TakesAsked(after[j], asked[j], ps, j)}
  <2>1. 0 \in D
    <3>1. after[0].mid = NoVal /\ after[0].wrong = FALSE /\ after[0].pars = <<>>
      BY <1>3 DEF NoneTaken
    <3>2. asked[0] = <<>> /\ Len(<<>>) = 0 /\ MaxPar \in Nat \ {0}
      BY <1>4, SizesAssumption
    <3>3. \A k \in 1 .. 0 : FALSE
      OBVIOUS
    <3>4. SamePairs(after[0].pars, asked[0])
      BY <3>1, <3>2 DEF SamePairs
    <3>5. MidOf(after[0].mid, ps, 0)
      BY <3>1, <3>3 DEF MidOf
    <3>6. Len(after[0].pars) # MaxPar /\ Len(after[0].pars) <= MaxPar
      BY <3>1, <3>2
    <3>7. TakesAsked(after[0], asked[0], ps, 0)
      BY <3>1, <3>3, <3>4, <3>5, <3>6 DEF TakesAsked
    <3> QED BY <1>5, <3>7
  <2>2. ASSUME NEW j \in 1 .. c, j - 1 \in D PROVE j \in D
    <3>1. j - 1 \in 0 .. c /\ j \in 1 .. l /\ j \in 0 .. c /\ j - 1 \in 0 .. l
      BY <1>5
    <3>2. TakesAsked(after[j - 1], asked[j - 1], ps, j - 1)
      BY <2>2
    <3>3. after[j - 1] \in Places /\ asked[j - 1] \in Seq(Params) /\ items[j] \in Things
      BY <1>1, <3>1, ElementOfSeq DEF c
    <3>4. Means(items[j], ps[j])
      BY <1>6
    <3>5. TakesAsked(Take(after[j - 1], items[j]), AskMore(asked[j - 1], ps[j]), ps, j)
      BY <3>1, <3>2, <3>3, <3>4, TakeMeans DEF l
    <3>6. after[j] = Take(after[j - 1], items[j]) /\ asked[j] = AskMore(asked[j - 1], ps[j])
      BY <1>3, <1>4, <3>1
    <3> QED BY <3>1, <3>5, <3>6
  <2>3. 0 .. c \subseteq D
    <3> HIDE DEF D
    <3> QED BY <1>5, <2>1, <2>2, LoopInduction
  <2> QED BY <2>3
<1> DEFINE st == after[c]
<1>8. TakesAsked(st, asked[c], ps, c) /\ st \in Places /\ Taken(items) = st
  <2>1. c \in 0 .. c
    BY <1>5
  <2> QED BY <1>3, <1>7, <2>1
<1> HIDE DEF st
<1>9. /\ r.n = IF st.wrong \/ Len(st.pars) = MaxPar THEN -1 ELSE Len(st.pars)
      /\ r.pars = st.pars /\ r.mid = st.mid
  BY <1>2, <1>8
<1>10. /\ st.mid = NoVal \/ \E k \in 1 .. l : Mid(ps[k]) /\ st.mid = ps[k].val
       /\ st.wrong => \E k \in 1 .. c : Bad(ps[k])
       /\ ~st.wrong /\ Len(st.pars) = MaxPar => Len(asked[c]) >= MaxPar
       /\ ~st.wrong /\ Len(st.pars) # MaxPar => /\ \A k \in 1 .. c : ~Bad(ps[k])
                                                /\ SamePairs(st.pars, asked[c])
                                                /\ MidOf(st.mid, ps, c)
       /\ Len(st.pars) <= MaxPar
  BY <1>8 DEF TakesAsked, l
<1>11. Len(st.pars) \in Nat /\ MaxPar \in Nat \ {0} /\ st.pars \in Seq(Pairs)
  <2>1. st.pars \in Seq(Pairs)
    BY <1>8 DEF Places, Pairs
  <2> QED BY <2>1, LenProperties, SizesAssumption
<1>12. \A k \in 1 .. c : k \in 1 .. l
  BY <1>5
<1>13. Wrong(ps) <=> (\E k \in 1 .. l : Bad(ps[k])) \/ Len(asked[l]) >= MaxPar
  <2>1. DOMAIN ps = 1 .. l
    BY DEF l
  <2> QED BY <1>4, <2>1 DEF Wrong
<1>14. c \in 0 .. l /\ l \in 0 .. l
  BY <1>5
<1>15. Len(asked[c]) <= Len(asked[l])
  BY <1>4, <1>5, <1>14, AskedGrows DEF l
<1>16. Len(asked[c]) \in Nat /\ Len(asked[l]) \in Nat
  BY <1>14, LenProperties
<1>17. CASE st.wrong \/ Len(st.pars) = MaxPar
  <2>1. Wrong(ps)
    <3>1. CASE st.wrong
      BY <1>10, <1>12, <1>13, <3>1
    <3>2. CASE ~st.wrong
      <4>1. Len(asked[l]) >= MaxPar
        BY <1>10, <1>11, <1>15, <1>16, <1>17, <3>2
      <4> QED BY <1>13, <4>1
    <3> QED BY <3>1, <3>2
  <2>2. r.n = -1
    BY <1>9, <1>17
  <2>3. r.n \in Int /\ r.n < 0 /\ ~(r.n >= 0)
    BY <2>2
  <2> QED BY <1>9, <1>10, <1>11, <2>1, <2>3 DEF ParsedAs, l, r, s
<1>18. CASE ~(st.wrong \/ Len(st.pars) = MaxPar)
  <2>1. /\ \A k \in 1 .. c : ~Bad(ps[k])
        /\ SamePairs(st.pars, asked[c]) /\ MidOf(st.mid, ps, c)
    BY <1>10, <1>18
  <2>2. c = l
    <3> SUFFICES ASSUME c # l PROVE FALSE
      OBVIOUS
    <3>1. c < l
      BY <1>5
    <3>2. c > 0 /\ Bad(ps[c])
      BY <1>6, <3>1
    <3>3. c \in 1 .. c
      BY <1>5, <3>2
    <3> QED BY <2>1, <3>2, <3>3
  <2>3. SamePairs(st.pars, Asked(ps)) /\ MidOf(st.mid, ps, l)
    BY <1>4, <2>1, <2>2
  <2>4. Len(asked[l]) = Len(st.pars)
    BY <2>1, <2>2 DEF SamePairs
  <2>5. ~(Len(asked[l]) >= MaxPar)
    BY <1>10, <1>11, <1>18, <2>4
  <2>6. ~Wrong(ps)
    BY <1>13, <2>1, <2>2, <2>5
  <2>7. r.n = Len(st.pars)
    BY <1>9, <1>18
  <2>8. r.n \in Int /\ ~(r.n < 0)
    BY <1>11, <2>7
  <2> QED BY <1>9, <1>10, <1>11, <2>3, <2>6, <2>7, <2>8 DEF ParsedAs, l, r, s
<1> QED BY <1>17, <1>18

\* The message id is the one of the command.
LEMMA IdIsAsked ==
  ASSUME NEW ps \in Seq(Params), NEW s, MidOf(ParseLine(s).mid, ps, Len(ps))
  PROVE  IsAskedId(ps, MessageId(s))
<1> DEFINE mid == ParseLine(s).mid
           l == Len(ps)
<1>1. DOMAIN ps = 1 .. l
  OBVIOUS
<1>2. MessageId(s) = IF mid = NoVal THEN NoId ELSE mid
  BY DEF MessageId
<1>3. MidOf(mid, ps, l)
  OBVIOUS
<1> HIDE DEF mid, l
<1>4. CASE mid = NoVal /\ \A k \in 1 .. l : ~Mid(ps[k])
  <2>1. MessageId(s) = NoId
    BY <1>2, <1>4
  <2> QED BY <1>1, <1>4, <2>1 DEF IsAskedId
<1>5. CASE \E k \in 1 .. l : Mid(ps[k]) /\ mid = ps[k].val /\ \A m \in k + 1 .. l : ~Mid(ps[m])
  <2>1. PICK k \in 1 .. l : Mid(ps[k]) /\ mid = ps[k].val /\ \A m \in k + 1 .. l : ~Mid(ps[m])
    BY <1>5
  <2>2. mid # NoVal
    BY <2>1 DEF Mid
  <2>3. MessageId(s) = ps[k].val
    BY <1>2, <2>1, <2>2
  <2> QED BY <1>1, <2>1, <2>3 DEF IsAskedId, l
<1> QED BY <1>3, <1>4, <1>5 DEF MidOf

\* The head of a sequence
LEMMA HeadIsFirst ==
  ASSUME NEW S, NEW s \in Seq(S), s # <<>>
  PROVE  Head(s) = s[1]
OBVIOUS

\* A line of parameters does not begin as an object does.
LEMMA LineHead ==
  ASSUME NEW ps \in Seq(Params), NEW n \in Nat \ {0}
  PROVE  LineOf(ps, n) # <<>> => Head(LineOf(ps, n)) # "{"
<1> DEFINE s == LineOf(ps, n)
           l == Len(ps)
           m == Len(s)
<1>1. PICK at \in [0 .. l -> Nat \ {0}] :
           /\ s \in Seq(Chars)
           /\ at[0] = n /\ at[l] = m + 1
           /\ \A k \in 1 .. n - 1 : s[k] = " "
           /\ \A i \in 0 .. l : at[i] <= m + 1
           /\ \A i \in 1 .. l :
                /\ at[i] = at[i - 1] + Len(Typed(ps[i])) + n
                /\ \A k \in 1 .. Len(Typed(ps[i])) : s[at[i - 1] + k - 1] = Typed(ps[i])[k]
                /\ \A k \in at[i - 1] + Len(Typed(ps[i])) .. at[i] - 1 : s[k] = " "
  BY LineParts
<1> HIDE DEF s
<1>2. s \in Seq(Chars) /\ at[0] = n
  BY <1>1
<1>3. l \in Nat /\ m \in Nat
  BY <1>1, LenProperties
<1> SUFFICES ASSUME s # <<>> PROVE s[1] # "{"
  <2>1. s # <<>> => Head(s) = s[1]
    BY <1>2, HeadIsFirst
  <2> QED BY <2>1 DEF s
<1>4. CASE n # 1
  <2>1. 1 \in 1 .. n - 1
    BY <1>4
  <2>2. s[1] = " "
    BY <1>1, <2>1
  <2> QED BY <2>2
<1>5. CASE n = 1 /\ l = 0
  <2>1. m = 0
    BY <1>1, <1>3, <1>5
  <2>2. s = <<>>
    BY <1>1, <2>1, EmptySeq DEF m
  <2> QED BY <2>2
<1>6. CASE n = 1 /\ l # 0
  <2> DEFINE p == ps[1]
             t == Typed(p)
             c == Len(t)
  <2>1. 1 \in 1 .. l /\ at[1 - 1] = 1
    <3>1. at[0] = 1 /\ 1 - 1 = 0
      BY <1>2, <1>6
    <3> QED BY <1>3, <1>6, <3>1
  <2>2. p \in Params
    BY <2>1, ElementOfSeq
  <2>3. \A k \in 1 .. c : s[at[1 - 1] + k - 1] = t[k]
    BY <1>1, <2>1
  <2> HIDE DEF p
  <2>4. PICK rest \in Seq(Chars) : t = p.key \o rest
    <3>1. /\ <<>> \in Seq(Chars)
          /\ <<"=">> \o (IF p.quoted THEN <<"quote">> \o p.val \o <<"quote">> ELSE p.val)
               \in Seq(Chars) \/ p.val = NoVal
      <4>1. <<>> \in Seq(Chars) /\ <<"=">> \in Seq(Chars) /\ <<"quote">> \in Seq(Chars)
        BY Few DEF Chars
      <4>2. p.val # NoVal => p.val \in Seq(Chars)
        BY <2>2, KeyAndValueText
      <4> QED BY <4>1, <4>2, ConcatProperties
    <3> QED BY <3>1 DEF Typed
  <2>5. /\ p.key \in Seq(Chars) /\ Len(p.key) \in Nat \ {0}
        /\ \A k \in 1 .. Len(p.key) : p.key[k] \in Letters
    BY <2>2, KeyAndValueText
  <2> DEFINE key == p.key
             b == Len(key)
  <2>6. /\ Len(key \o rest) = b + Len(rest)
        /\ \A i \in 1 .. b + Len(rest) :
             (key \o rest)[i] = IF i <= b THEN key[i] ELSE rest[i - b]
    BY <2>4, <2>5, ConcatProperties
  <2>7. Len(rest) \in Nat
    BY <2>4, LenProperties
  <2>8. b \in Nat \ {0} /\ \A k \in 1 .. b : key[k] \in Letters
    BY <2>5
  <2>9. t = key \o rest
    BY <2>4
  <2> HIDE DEF t, key, b
  <2>10. 1 \in 1 .. b + Len(rest) /\ 1 <= b /\ 1 \in 1 .. b
    BY <2>7, <2>8
  <2>11. t[1] = key[1] /\ 1 \in 1 .. c
    BY <2>6, <2>9, <2>10
  <2>12. s[at[1 - 1] + 1 - 1] = t[1]
    BY <2>3, <2>11
  <2>13. at[1 - 1] + 1 - 1 = 1
    BY <2>1
  <2>14. s[1] \in Letters
    BY <2>8, <2>10, <2>11, <2>12, <2>13
  <2> QED BY <2>14, CharsAssumption
<1> QED BY <1>4, <1>5, <1>6

--------------------------------------------------------------------------------
(* What is written *)

\* The words that are written, and what they belong to
Kinds == {"\r", "\n", "cli_reply", "status", ";", ": ", "error", "@", "ready:", ""}
Ids == Seq(Chars) \cup {NoId}
Pieces == [c : Kinds, id : Ids] \cup [c : {"entry"}, id : Ids, n : Nat]

\* Words are pieces.
LEMMA PieceIn ==
  ASSUME NEW c \in Kinds
  PROVE  Piece(c) \in Pieces /\ Piece(c).c = c
BY DEF Piece, Pieces, Ids

\* Each word is one of its own.
LEMMA PiecesIn ==
  /\ Piece("\r") \in Pieces /\ Piece("\r").c = "\r"
  /\ Piece("\n") \in Pieces /\ Piece("\n").c = "\n"
  /\ Piece("cli_reply") \in Pieces /\ Piece("cli_reply").c = "cli_reply"
  /\ Piece("status") \in Pieces /\ Piece("status").c = "status"
  /\ Piece(";") \in Pieces /\ Piece(";").c = ";"
  /\ Piece(": ") \in Pieces /\ Piece(": ").c = ": "
  /\ Piece("error") \in Pieces /\ Piece("error").c = "error"
  /\ Piece("ready:") \in Pieces /\ Piece("ready:").c = "ready:"
  /\ Piece("") \in Pieces /\ Piece("").c = ""
<1>1. {"\r", "\n", "cli_reply", "status", ";", ": ", "error", "ready:", ""} \subseteq Kinds
  BY DEF Kinds
<1> HIDE DEF Kinds
<1>2. \A c \in {"\r", "\n", "cli_reply", "status", ";", ": ", "error", "ready:", ""} :
        Piece(c) \in Pieces /\ Piece(c).c = c
  BY <1>1, PieceIn
<1> QED BY <1>2

\* The states of the loop of priv_write
Writing == [chunk : Seq(Pieces), out : Seq(Pieces)]
NothingPut == [chunk |-> <<>>, out |-> <<>>]

\* Each piece leaves the loop in such a state.
LEMMA PutIn ==
  ASSUME NEW w \in Writing, NEW p \in Pieces, NEW last
  PROVE  Put(w, p, last) \in Writing
<1> DEFINE cr == Piece("\r")
           lf == Piece("\n")
<1>1. cr \in Pieces /\ lf \in Pieces
  BY PiecesIn
<1>2. w.chunk \in Seq(Pieces) /\ w.out \in Seq(Pieces)
  BY DEF Writing
<1>3. Put(w, p, last) =
        IF p.c = "\n" THEN [chunk |-> <<>>, out |-> w.out \o w.chunk \o <<cr, lf>>]
        ELSE IF last /\ p.c # "\r" THEN [chunk |-> <<>>, out |-> w.out \o w.chunk \o <<p>>]
        ELSE [w EXCEPT !.chunk = Append(@, p)]
  BY DEF Put
<1> HIDE DEF cr, lf
<1>4. <<cr, lf>> \in Seq(Pieces) /\ <<p>> \in Seq(Pieces) /\ <<>> \in Seq(Pieces)
  BY <1>1
<1>5. Append(w.chunk, p) \in Seq(Pieces)
  BY <1>2, OneMore
<1> DEFINE a == w.out
           b == w.chunk
           c == <<cr, lf>>
           d == <<p>>
<1>6. a \o b \o c \in Seq(Pieces) /\ a \o b \o d \in Seq(Pieces)
  <2>1. a \in Seq(Pieces) /\ b \in Seq(Pieces) /\ c \in Seq(Pieces) /\ d \in Seq(Pieces)
    BY <1>2, <1>4
  <2> HIDE DEF a, b, c, d
  <2> QED BY <2>1, ConcatProperties
<1> DEFINE S == Seq(Pieces)
<1> HIDE DEF S
<1>7. [chunk |-> <<>>, out |-> a \o b \o c] \in Writing
  BY <1>4, <1>6 DEF Writing
<1>8. [chunk |-> <<>>, out |-> a \o b \o d] \in Writing
  BY <1>4, <1>6 DEF Writing
<1>9. [w EXCEPT !.chunk = Append(@, p)] \in Writing
  BY <1>5 DEF Writing
<1> QED BY <1>3, <1>7, <1>8, <1>9

\* The recursive function of Crlf
LEMMA CrlfDef ==
  ASSUME NEW s \in Seq(Pieces)
  PROVE  \E put \in [0 .. Len(s) -> Writing] :
           /\ Crlf(s) = put[Len(s)].out
           /\ put[0] = NothingPut
           /\ \A i \in 1 .. Len(s) : put[i] = Put(put[i - 1], s[i], i = Len(s))
<1> DEFINE l == Len(s)
           step == [x \in Writing \X (1 .. l) |-> Put(x[1], s[x[2]], x[2] = l)]
           Def(h) == [i \in 0 .. Len(s) |->
                        IF i = 0 THEN [chunk |-> <<>>, out |-> <<>>]
                        ELSE Put(h[i - 1], s[i], i = Len(s))]
           put == CHOOSE h : h = Def(h)
<1>1. l \in Nat
  BY LenProperties
<1>2. \A i \in 1 .. l : s[i] \in Pieces
  BY ElementOfSeq
<1>3. \A w \in Writing, i \in 1 .. l : Put(w, s[i], i = l) \in Writing
  <2> SUFFICES ASSUME NEW w \in Writing, NEW i \in 1 .. l PROVE Put(w, s[i], i = l) \in Writing
    OBVIOUS
  <2>1. s[i] \in Pieces
    BY <1>2
  <2> DEFINE last == i = l
             p == s[i]
  <2> HIDE DEF last, p
  <2> QED BY <2>1, PutIn DEF p
<1>4. step \in [Writing \X (1 .. l) -> Writing]
  <2> SUFFICES ASSUME NEW w \in Writing, NEW i \in 1 .. l PROVE Put(w, s[i], i = l) \in Writing
    OBVIOUS
  <2> QED BY <1>3
<1>5. NothingPut \in Writing
  <2>1. <<>> \in Seq(Pieces)
    OBVIOUS
  <2> QED BY <2>1 DEF NothingPut, Writing
<1>6. \A w \in Writing, i \in 1 .. l : step[<<w, i>>] = Put(w, s[i], i = l)
  OBVIOUS
<1>7. Crlf(s) = put[l].out
  BY DEF Crlf
<1>8. \A h : Def(h) = [i \in 0 .. l |-> IF i = 0 THEN NothingPut ELSE Put(h[i - 1], s[i], i = l)]
  BY DEF NothingPut
<1>9. put = Def(put) \/ \A h : h # Def(h)
  <2> HIDE DEF Def
  <2> QED OBVIOUS
<1> HIDE DEF l, step, put, Def
<1>10. PICK f \in Runs(l, Writing, NothingPut, step) : TRUE
  BY <1>1, <1>4, <1>5, Iterates
<1>11. f \in [0 .. l -> Writing] /\ f[0] = NothingPut
       /\ \A i \in 1 .. l : f[i] = step[<<f[i - 1], i>>]
  BY <1>10 DEF Runs
<1>12. \A i \in 1 .. l : f[i] = Put(f[i - 1], s[i], i = l)
  <2> SUFFICES ASSUME NEW i \in 1 .. l PROVE f[i] = Put(f[i - 1], s[i], i = l)
    OBVIOUS
  <2>1. i - 1 \in 0 .. l
    BY <1>1
  <2>2. f[i - 1] \in Writing
    BY <1>11, <2>1
  <2> QED BY <1>6, <1>11, <2>2
<1>13. f = Def(f)
  <2>1. ASSUME NEW i \in 0 .. l PROVE f[i] = Def(f)[i]
    <3>1. CASE i = 0
      BY <1>8, <1>11, <3>1
    <3>2. CASE i # 0
      <4>1. i \in 1 .. l
        BY <1>1, <3>2
      <4>2. Def(f)[i] = Put(f[i - 1], s[i], i = l)
        BY <1>8, <3>2
      <4> QED BY <1>12, <4>1, <4>2
    <3> QED BY <3>1, <3>2
  <2> QED BY <1>8, <1>11, <2>1
<1>14. put = Def(put)
  BY <1>9, <1>13
<1>15. put[0] = NothingPut
  <2>1. 0 \in 0 .. l
    BY <1>1
  <2>2. Def(put)[0] = NothingPut
    BY <1>8, <2>1
  <2> QED BY <1>14, <2>2
<1>16. ASSUME NEW i \in 1 .. l PROVE put[i] = Put(put[i - 1], s[i], i = l)
  <2>1. i \in 0 .. l /\ i # 0
    BY <1>1
  <2> QED BY <1>8, <1>14, <2>1
<1>17. \A i \in 0 .. l : put[i] \in Writing
  <2>1. \A i \in 1 .. l : put[i - 1] \in Writing => put[i] \in Writing
    <3> SUFFICES ASSUME NEW i \in 1 .. l, put[i - 1] \in Writing PROVE put[i] \in Writing
      OBVIOUS
    <3>1. Put(put[i - 1], s[i], i = l) \in Writing
      BY <1>3
    <3> QED BY <1>16, <3>1
  <2> QED BY <1>1, <1>5, <1>15, <2>1, Stays
<1>18. put \in [0 .. l -> Writing]
  BY <1>8, <1>14, <1>17
<1> QED BY <1>7, <1>15, <1>16, <1>18 DEF l

--------------------------------------------------------------------------------
(* What each of the texts comes to *)

\* Sequences, one element behind the other
LEMMA Behind ==
  ASSUME NEW S, NEW s \in Seq(S), NEW t \in Seq(S), NEW a \in S, NEW b \in S, NEW c \in S
  PROVE  /\ <<>> \o s = s /\ s \o <<>> = s
         /\ s \o <<a>> = Append(s, a)
         /\ s \o <<a, b>> = Append(Append(s, a), b)
         /\ <<a>> = Append(<<>>, a) /\ <<a, b>> = Append(<<a>>, b)
         /\ <<a, b, c>> = Append(<<a, b>>, c)
         /\ s \o Append(t, a) = Append(s \o t, a)
         /\ s \o t \in Seq(S) /\ Append(s, a) \in Seq(S)
         /\ <<>> \in Seq(S) /\ <<a>> \in Seq(S) /\ <<a, b>> \in Seq(S) /\ <<a, b, c>> \in Seq(S)
<1>1. <<>> \o s = s /\ s \o <<>> = s
  OBVIOUS
<1>2. s \o <<a>> = Append(s, a) /\ s \o <<a, b>> = Append(Append(s, a), b)
  OBVIOUS
<1>3. /\ <<a>> = Append(<<>>, a) /\ <<a, b>> = Append(<<a>>, b)
      /\ <<a, b, c>> = Append(<<a, b>>, c)
  OBVIOUS
<1>4. s \o Append(t, a) = Append(s \o t, a)
  OBVIOUS
<1>5. s \o t \in Seq(S) /\ Append(s, a) \in Seq(S)
  OBVIOUS
<1>6. <<>> \in Seq(S) /\ <<a>> \in Seq(S) /\ <<a, b>> \in Seq(S) /\ <<a, b, c>> \in Seq(S)
  OBVIOUS
<1> QED BY <1>1, <1>2, <1>3, <1>4, <1>5, <1>6

\* What has been written so far
LEMMA OutOf ==
  ASSUME NEW a, NEW b
  PROVE  [chunk |-> a, out |-> b].out = b
OBVIOUS

\* A single word that is no end of a line is written as it is, one "\r" not at all.
LEMMA CrlfOne ==
  ASSUME NEW p \in Pieces
  PROVE  /\ p.c \notin {"\r", "\n"} => Crlf(<<p>>) = <<p>>
         /\ p.c = "\r" => Crlf(<<p>>) = <<>>
         /\ p.c = "\n" => Crlf(<<p>>) = <<Piece("\r"), Piece("\n")>>
<1> DEFINE s == <<p>>
           cr == Piece("\r")
           lf == Piece("\n")
<1>1. s \in Seq(Pieces) /\ Len(s) = 1 /\ s[1] = p
  OBVIOUS
<1>2. cr \in Pieces /\ lf \in Pieces
  BY PiecesIn
<1> HIDE DEF s
<1>3. PICK put \in [0 .. 1 -> Writing] :
        /\ Crlf(s) = put[1].out /\ put[0] = NothingPut
        /\ \A i \in 1 .. 1 : put[i] = Put(put[i - 1], s[i], i = 1)
  BY <1>1, CrlfDef
<1>4. put[1] = Put(NothingPut, p, TRUE)
  <2>1. put[1] = Put(put[1 - 1], s[1], 1 = 1)
    BY <1>3
  <2>2. 1 - 1 = 0 /\ (1 = 1) = TRUE
    OBVIOUS
  <2>3. put[1] = Put(put[0], s[1], TRUE)
    BY <2>1, <2>2
  <2> QED BY <1>1, <1>3, <2>3
<1> DEFINE done == [NothingPut EXCEPT !.chunk = Append(@, p)]
<1>5. Put(NothingPut, p, TRUE) =
        IF p.c = "\n" THEN [chunk |-> <<>>, out |-> <<>> \o <<>> \o <<cr, lf>>]
        ELSE IF p.c # "\r" THEN [chunk |-> <<>>, out |-> <<>> \o <<>> \o <<p>>]
        ELSE done
  BY DEF Put, NothingPut
<1>6. done.out = <<>>
  BY DEF NothingPut
<1> HIDE DEF cr, lf, done
<1>7. <<>> \o <<>> \o <<p>> = <<p>> /\ <<>> \o <<>> \o <<cr, lf>> = <<cr, lf>>
  <2>1. <<cr, lf>> \in Seq(Pieces) /\ <<p>> \in Seq(Pieces) /\ <<>> \in Seq(Pieces)
    BY <1>2
  <2> DEFINE e == <<cr, lf>>
             f == <<p>>
             n == <<>>
  <2> HIDE DEF e, f
  <2>2. n \o n = n /\ n \o e = e /\ n \o f = f
    BY <1>2, <2>1, Behind DEF e, f
  <2> HIDE DEF n
  <2>3. (n \o n) \o f = f /\ (n \o n) \o e = e
    BY <2>2
  <2> QED BY <2>3 DEF e, f, n
<1>8. CASE p.c = "\n"
  <2> DEFINE e == <<>> \o <<>> \o <<cr, lf>>
             g == <<cr, lf>>
  <2>1. put[1].out = g
    <3>1. e = g
      BY <1>7
    <3>2. put[1] = [chunk |-> <<>>, out |-> e]
      <4> HIDE DEF e, g
      <4>1. Put(NothingPut, p, TRUE) = [chunk |-> <<>>, out |-> e]
        BY <1>5, <1>8 DEF e
      <4> QED BY <1>4, <4>1
    <3> HIDE DEF e, g
    <3> QED BY <3>1, <3>2, OutOf
  <2> QED BY <1>3, <1>8, <2>1 DEF s, cr, lf
<1>9. CASE p.c = "\r"
  <2>1. p.c # "\n"
    BY <1>9
  <2>2. put[1].out = <<>>
    BY <1>4, <1>5, <1>6, <1>9, <2>1
  <2> QED BY <1>3, <1>9, <2>1, <2>2 DEF s
<1>10. CASE p.c # "\n" /\ p.c # "\r"
  <2> DEFINE e == <<>> \o <<>> \o <<p>>
             g == <<p>>
  <2>1. put[1].out = g
    <3>1. e = g
      BY <1>7
    <3>2. put[1] = [chunk |-> <<>>, out |-> e]
      <4> HIDE DEF e, g
      <4>1. Put(NothingPut, p, TRUE) = [chunk |-> <<>>, out |-> e]
        BY <1>5, <1>10 DEF e
      <4> QED BY <1>4, <4>1
    <3> HIDE DEF e, g
    <3> QED BY <3>1, <3>2, OutOf
  <2> QED BY <1>3, <1>10, <2>1 DEF s
<1> QED BY <1>8, <1>9, <1>10

\* A word and the end of the line
LEMMA CrlfTwo ==
  ASSUME NEW p \in Pieces, p.c \notin {"\r", "\n"}
  PROVE  Crlf(<<p, Piece("\n")>>) = <<p, Piece("\r"), Piece("\n")>>
<1> DEFINE cr == Piece("\r")
           lf == Piece("\n")
           s == <<p, lf>>
<1>1. cr \in Pieces /\ lf \in Pieces /\ lf.c = "\n"
  BY PiecesIn
<1>2. Put(NothingPut, p, FALSE) = [NothingPut EXCEPT !.chunk = Append(@, p)]
  BY DEF Put
<1>3. [NothingPut EXCEPT !.chunk = Append(@, p)] = [chunk |-> <<p>>, out |-> <<>>]
  BY DEF NothingPut
<1> DEFINE one == [chunk |-> <<p>>, out |-> <<>>]
<1>4. Put(one, lf, TRUE) = [chunk |-> <<>>, out |-> <<>> \o <<p>> \o <<cr, lf>>]
  BY <1>1 DEF Put
<1> HIDE DEF cr, lf
<1>5. s \in Seq(Pieces) /\ Len(s) = 2 /\ s[1] = p /\ s[2] = lf
  BY <1>1
<1>6. <<>> \o <<p>> \o <<cr, lf>> = <<p, cr, lf>>
  <2> DEFINE f == <<p>>
             n == <<>>
             e == <<cr, lf>>
  <2>1. f \in Seq(Pieces) /\ <<p, cr>> = Append(f, cr) /\ <<p, cr, lf>> = Append(<<p, cr>>, lf)
    BY <1>1, Behind
  <2> HIDE DEF f
  <2>2. n \o f = f /\ f \o e = Append(Append(f, cr), lf)
    BY <1>1, <2>1, Behind
  <2> HIDE DEF n, e
  <2>3. (n \o f) \o e = <<p, cr, lf>>
    BY <2>1, <2>2
  <2> QED BY <2>3 DEF f, n, e
<1> HIDE DEF s, one
<1>7. PICK put \in [0 .. 2 -> Writing] :
        /\ Crlf(s) = put[2].out /\ put[0] = NothingPut
        /\ \A i \in 1 .. 2 : put[i] = Put(put[i - 1], s[i], i = 2)
  BY <1>5, CrlfDef
<1>8. put[1] = one
  <2>1. put[1] = Put(put[1 - 1], s[1], 1 = 2)
    BY <1>7
  <2>2. 1 - 1 = 0 /\ (1 = 2) = FALSE
    OBVIOUS
  <2>3. put[1] = Put(put[0], s[1], FALSE)
    BY <2>1, <2>2
  <2> QED BY <1>2, <1>3, <1>5, <1>7, <2>3 DEF one
<1>9. put[2] = Put(one, lf, TRUE)
  <2>1. put[2] = Put(put[2 - 1], s[2], 2 = 2)
    BY <1>7
  <2>2. 2 - 1 = 1 /\ (2 = 2) = TRUE
    OBVIOUS
  <2>3. put[2] = Put(put[1], s[2], TRUE)
    BY <2>1, <2>2
  <2> QED BY <1>5, <1>8, <2>3
<1> DEFINE v == <<>> \o <<p>> \o <<cr, lf>>
           z == <<p, cr, lf>>
<1>10. v = z
  BY <1>6
<1>11. put[2].out = v
  <2> HIDE DEF v
  <2>1. Put(one, lf, TRUE) = [chunk |-> <<>>, out |-> v]
    BY <1>4 DEF v
  <2>2. put[2] = [chunk |-> <<>>, out |-> v]
    BY <1>9, <2>1
  <2> QED BY <2>2, OutOf
<1>12. Crlf(s) = z
  <2> HIDE DEF v, z
  <2> QED BY <1>7, <1>10, <1>11
<1> QED BY <1>12 DEF s, cr, lf

\* The message that it is ready is on a line of its own.
LEMMA CrlfReady ==
  LET cr == Piece("\r")
      lf == Piece("\n")
  IN  Ready = Append(Append(Append(<<cr, lf>>, Piece("ready:")), cr), lf)
<1> DEFINE cr == Piece("\r")
           lf == Piece("\n")
           p == Piece("ready:")
           s == <<lf, p, lf>>
           e == <<cr, lf>>
           f == <<p>>
           n == <<>>
<1>1. cr \in Pieces /\ lf \in Pieces /\ lf.c = "\n" /\ p \in Pieces /\ p.c \notin {"\r", "\n"}
  BY PiecesIn
<1>2. Ready = Crlf(s)
  BY DEF Ready
<1> DEFINE one == [chunk |-> n, out |-> e]
           two == [chunk |-> f, out |-> e]
<1>3. Put(NothingPut, lf, FALSE) = [chunk |-> n, out |-> n \o n \o e]
  BY <1>1 DEF Put, NothingPut
<1>4. Put(one, p, FALSE) = [one EXCEPT !.chunk = Append(@, p)]
  BY <1>1 DEF Put
<1>5. Put(two, lf, TRUE) = [chunk |-> n, out |-> e \o f \o e]
  BY <1>1 DEF Put
<1> HIDE DEF cr, lf, p
<1>6. e \in Seq(Pieces) /\ f \in Seq(Pieces) /\ n \in Seq(Pieces)
  BY <1>1
<1>7. s \in Seq(Pieces) /\ Len(s) = 3 /\ s[1] = lf /\ s[2] = p /\ s[3] = lf
  BY <1>1
<1>8. Append(n, p) = f
  BY <1>1, <1>6, Behind
<1> HIDE DEF s
<1>9. n \o n = n /\ n \o e = e /\ e \o f = Append(e, p)
  <2> HIDE DEF e
  <2> QED BY <1>1, <1>6, Behind
<1>10. (e \o f) \o e = Append(Append(Append(e, p), cr), lf)
  <2> DEFINE g == e \o f
  <2>1. g \in Seq(Pieces)
    <3> HIDE DEF e, f
    <3> QED BY <1>1, <1>6, Behind
  <2>2. g = Append(e, p)
    BY <1>9
  <2> HIDE DEF g
  <2>3. g \o <<cr, lf>> = Append(Append(g, cr), lf)
    BY <1>1, <2>1, Behind
  <2>4. g \o e = Append(Append(Append(e, p), cr), lf)
    BY <2>2, <2>3
  <2> QED BY <2>4 DEF g
<1>11. [one EXCEPT !.chunk = Append(@, p)] = two
  <2> HIDE DEF e, f
  <2>1. one.chunk = n /\ [one EXCEPT !.chunk = Append(n, p)] = [chunk |-> Append(n, p), out |-> e]
    OBVIOUS
  <2> QED BY <1>8, <2>1
<1>12. Put(NothingPut, lf, FALSE) = one
  <2> DEFINE g == n \o n \o e
  <2>1. g = e
    BY <1>9
  <2> HIDE DEF g
  <2>2. Put(NothingPut, lf, FALSE) = [chunk |-> n, out |-> g]
    BY <1>3 DEF g
  <2> QED BY <2>1, <2>2
<1> HIDE DEF one, two
<1>13. PICK put \in [0 .. 3 -> Writing] :
        /\ Crlf(s) = put[3].out /\ put[0] = NothingPut
        /\ \A i \in 1 .. 3 : put[i] = Put(put[i - 1], s[i], i = 3)
  BY <1>7, CrlfDef
<1>14. /\ put[1] = Put(put[1 - 1], s[1], 1 = 3)
       /\ put[2] = Put(put[2 - 1], s[2], 2 = 3)
       /\ put[3] = Put(put[3 - 1], s[3], 3 = 3)
  BY <1>13
<1>15. /\ 1 - 1 = 0 /\ 2 - 1 = 1 /\ 3 - 1 = 2
       /\ (1 = 3) = FALSE /\ (2 = 3) = FALSE /\ (3 = 3) = TRUE
  OBVIOUS
<1>16. put[1] = one
  <2>1. put[1] = Put(put[0], s[1], FALSE)
    BY <1>14, <1>15
  <2> QED BY <1>7, <1>12, <1>13, <2>1
<1>17. put[2] = two
  <2>1. put[2] = Put(put[1], s[2], FALSE)
    BY <1>14, <1>15
  <2> QED BY <1>4, <1>7, <1>11, <1>16, <2>1
<1>18. put[3] = Put(two, lf, TRUE)
  <2>1. put[3] = Put(put[2], s[3], TRUE)
    BY <1>14, <1>15
  <2> QED BY <1>7, <1>17, <2>1
<1> DEFINE g == (e \o f) \o e
<1>19. put[3].out = g
  <2> HIDE DEF g
  <2>1. Put(two, lf, TRUE) = [chunk |-> n, out |-> g]
    BY <1>5 DEF g
  <2>2. put[3] = [chunk |-> n, out |-> g]
    BY <1>18, <2>1
  <2> QED BY <2>2, OutOf
<1>20. Crlf(s) = Append(Append(Append(e, p), cr), lf)
  <2>1. g = Append(Append(Append(e, p), cr), lf)
    BY <1>10
  <2> HIDE DEF g
  <2> QED BY <1>13, <1>19, <2>1
<1> QED BY <1>2, <1>20 DEF s, e, cr, lf, p

\* What is written is made of pieces.
LEMMA CrlfIn ==
  ASSUME NEW s \in Seq(Pieces)
  PROVE  Crlf(s) \in Seq(Pieces)
<1>1. PICK put \in [0 .. Len(s) -> Writing] : Crlf(s) = put[Len(s)].out
  BY CrlfDef
<1>2. Len(s) \in 0 .. Len(s)
  BY LenProperties
<1>3. put[Len(s)] \in Writing
  BY <1>2
<1> QED BY <1>1, <1>3 DEF Writing

\* The recursive function of Written
LEMMA WrittenDef ==
  ASSUME NEW calls \in Seq(Seq(Pieces))
  PROVE  \E out \in [0 .. Len(calls) -> Seq(Pieces)] :
           /\ Written(calls) = out[Len(calls)]
           /\ out[0] = <<>>
           /\ \A i \in 1 .. Len(calls) : out[i] = out[i - 1] \o Crlf(calls[i])
<1> DEFINE l == Len(calls)
           S == Seq(Pieces)
           step == [x \in S \X (1 .. l) |-> x[1] \o Crlf(calls[x[2]])]
           Def(h) == [i \in 0 .. Len(calls) |->
                        IF i = 0 THEN <<>> ELSE h[i - 1] \o Crlf(calls[i])]
           out == CHOOSE h : h = Def(h)
<1>1. l \in Nat
  BY LenProperties
<1>2. \A a \in S, i \in 1 .. l : a \o Crlf(calls[i]) \in S
  <2> SUFFICES ASSUME NEW a \in S, NEW i \in 1 .. l PROVE a \o Crlf(calls[i]) \in S
    OBVIOUS
  <2>1. calls[i] \in Seq(Pieces)
    BY ElementOfSeq
  <2>2. Crlf(calls[i]) \in S
    BY <2>1, CrlfIn
  <2> QED BY <2>2, ConcatProperties
<1>3. step \in [S \X (1 .. l) -> S]
  <2> SUFFICES ASSUME NEW a \in S, NEW i \in 1 .. l PROVE a \o Crlf(calls[i]) \in S
    OBVIOUS
  <2> QED BY <1>2
<1>4. <<>> \in S
  OBVIOUS
<1>5. \A a \in S, i \in 1 .. l : step[<<a, i>>] = a \o Crlf(calls[i])
  OBVIOUS
<1>6. Written(calls) = out[l]
  BY DEF Written
<1>7. \A h : Def(h) = [i \in 0 .. l |-> IF i = 0 THEN <<>> ELSE h[i - 1] \o Crlf(calls[i])]
  OBVIOUS
<1>8. out = Def(out) \/ \A h : h # Def(h)
  <2> HIDE DEF Def
  <2> QED OBVIOUS
<1> HIDE DEF l, S, step, out, Def
<1>9. PICK f \in Runs(l, S, <<>>, step) : TRUE
  BY <1>1, <1>3, <1>4, Iterates
<1>10. f \in [0 .. l -> S] /\ f[0] = <<>> /\ \A i \in 1 .. l : f[i] = step[<<f[i - 1], i>>]
  BY <1>9 DEF Runs
<1>11. \A i \in 1 .. l : f[i] = f[i - 1] \o Crlf(calls[i])
  <2> SUFFICES ASSUME NEW i \in 1 .. l PROVE f[i] = f[i - 1] \o Crlf(calls[i])
    OBVIOUS
  <2>1. i - 1 \in 0 .. l
    BY <1>1
  <2>2. f[i - 1] \in S
    BY <1>10, <2>1
  <2> QED BY <1>5, <1>10, <2>2
<1>12. f = Def(f)
  <2>1. ASSUME NEW i \in 0 .. l PROVE f[i] = Def(f)[i]
    <3>1. CASE i = 0
      BY <1>7, <1>10, <3>1
    <3>2. CASE i # 0
      <4>1. i \in 1 .. l
        BY <1>1, <3>2
      <4>2. Def(f)[i] = f[i - 1] \o Crlf(calls[i])
        BY <1>7, <3>2
      <4> QED BY <1>11, <4>1, <4>2
    <3> QED BY <3>1, <3>2
  <2> QED BY <1>7, <1>10, <2>1
<1>13. out = Def(out)
  BY <1>8, <1>12
<1>14. out[0] = <<>>
  <2>1. 0 \in 0 .. l
    BY <1>1
  <2>2. Def(out)[0] = <<>>
    BY <1>7, <2>1
  <2> QED BY <1>13, <2>2
<1>15. ASSUME NEW i \in 1 .. l PROVE out[i] = out[i - 1] \o Crlf(calls[i])
  <2>1. i \in 0 .. l /\ i # 0
    BY <1>1
  <2> QED BY <1>7, <1>13, <2>1
<1>16. \A i \in 0 .. l : out[i] \in S
  <2>1. \A i \in 1 .. l : out[i - 1] \in S => out[i] \in S
    <3> SUFFICES ASSUME NEW i \in 1 .. l, out[i - 1] \in S PROVE out[i] \in S
      OBVIOUS
    <3>1. out[i - 1] \o Crlf(calls[i]) \in S
      BY <1>2
    <3> QED BY <1>15, <3>1
  <2> QED BY <1>1, <1>4, <1>14, <2>1, Stays
<1>17. out \in [0 .. l -> S]
  BY <1>7, <1>13, <1>16
<1> QED BY <1>6, <1>14, <1>15, <1>17 DEF l, S

\* What is written by a call more is added.
LEMMA WrittenMore ==
  ASSUME NEW calls \in Seq(Seq(Pieces)), NEW s \in Seq(Pieces)
  PROVE  /\ Written(<<>>) = <<>>
         /\ Written(calls) \in Seq(Pieces)
         /\ Written(Append(calls, s)) = Written(calls) \o Crlf(s)
<1> DEFINE l == Len(calls)
           more == Append(calls, s)
<1>1. l \in Nat
  BY LenProperties
<1>2. /\ more \in Seq(Seq(Pieces)) /\ Len(more) = l + 1 /\ more[l + 1] = s
      /\ \A i \in 1 .. l : more[i] = calls[i]
  <2> DEFINE S == Seq(Pieces)
  <2> HIDE DEF S
  <2>1. calls \in Seq(S) /\ s \in S
    BY DEF S
  <2>2. /\ Append(calls, s) \in Seq(S) /\ Len(Append(calls, s)) = Len(calls) + 1
        /\ Append(calls, s)[Len(calls) + 1] = s
        /\ \A i \in 1 .. Len(calls) : Append(calls, s)[i] = calls[i]
    BY <2>1, OneMore
  <2> QED BY <2>2 DEF S
<1>3. PICK a \in [0 .. l -> Seq(Pieces)] :
        /\ Written(calls) = a[l] /\ a[0] = <<>>
        /\ \A i \in 1 .. l : a[i] = a[i - 1] \o Crlf(calls[i])
  BY WrittenDef
<1> HIDE DEF more, l
<1>4. PICK b \in [0 .. l + 1 -> Seq(Pieces)] :
        /\ Written(more) = b[l + 1] /\ b[0] = <<>>
        /\ \A i \in 1 .. l + 1 : b[i] = b[i - 1] \o Crlf(more[i])
  BY <1>2, WrittenDef
<1>5. \A i \in 0 .. l : a[i] = b[i]
  <2> DEFINE D == {i \in 0 .. l : a[i] = b[i]}
  <2>1. 0 \in D
    BY <1>1, <1>3, <1>4
  <2>2. ASSUME NEW i \in 1 .. l, i - 1 \in D PROVE i \in D
    <3>1. i \in 0 .. l /\ i \in 1 .. l + 1 /\ a[i - 1] = b[i - 1]
      BY <1>1, <2>2
    <3>2. a[i] = a[i - 1] \o Crlf(calls[i]) /\ b[i] = b[i - 1] \o Crlf(more[i])
      BY <1>3, <1>4, <3>1
    <3>3. more[i] = calls[i]
      BY <1>2
    <3>4. a[i] = b[i]
      BY <3>1, <3>2, <3>3
    <3> QED BY <3>1, <3>4
  <2>3. 0 .. l \subseteq D
    <3> HIDE DEF D
    <3> QED BY <1>1, <2>1, <2>2, LoopInduction
  <2> QED BY <2>3
<1>6. l \in 0 .. l /\ l + 1 \in 1 .. l + 1 /\ (l + 1) - 1 = l
  BY <1>1
<1>7. b[l + 1] = b[l] \o Crlf(s)
  <2>1. b[l + 1] = b[(l + 1) - 1] \o Crlf(more[l + 1])
    BY <1>4, <1>6
  <2> QED BY <1>2, <1>6, <2>1
<1>8. Written(more) = Written(calls) \o Crlf(s)
  BY <1>3, <1>4, <1>5, <1>6, <1>7
<1>9. Written(calls) \in Seq(Pieces)
  BY <1>3, <1>6
<1>10. Written(<<>>) = <<>>
  <2> DEFINE e == <<>>
  <2>1. e \in Seq(Seq(Pieces)) /\ Len(e) = 0
    OBVIOUS
  <2> HIDE DEF e
  <2>2. PICK c \in [0 .. 0 -> Seq(Pieces)] : Written(e) = c[0] /\ c[0] = <<>>
    BY <2>1, WrittenDef
  <2> QED BY <2>2 DEF e
<1> QED BY <1>8, <1>9, <1>10 DEF more

\* What follows on the terminal
LEMMA TerminalMore ==
  ASSUME NEW t \in Seq(Pieces), NEW calls \in Seq(Seq(Pieces)), NEW s \in Seq(Pieces)
  PROVE  /\ t \o Written(<<>>) = t
         /\ t \o Written(calls) \in Seq(Pieces)
         /\ t \o Written(Append(calls, s)) = (t \o Written(calls)) \o Crlf(s)
         /\ t \o Written(<<s>>) = t \o Crlf(s)
<1> DEFINE w == Written(calls)
           c == Crlf(s)
           e == <<>>
           one == <<s>>
<1>1. Written(e) = <<>> /\ w \in Seq(Pieces) /\ Written(Append(calls, s)) = w \o c
  BY WrittenMore
<1>2. c \in Seq(Pieces)
  BY CrlfIn
<1>3. Append(e, s) = one /\ e \in Seq(Seq(Pieces))
  <2> DEFINE S == Seq(Pieces)
  <2> HIDE DEF S
  <2>1. s \in S
    BY DEF S
  <2> QED BY <2>1 DEF S
<1>4. t \o <<>> = t /\ <<>> \o c = c
  BY <1>2
<1> HIDE DEF w, c, one
<1>5. t \o w \in Seq(Pieces) /\ t \o (w \o c) = (t \o w) \o c
  <2> DEFINE S == Seq(Pieces)
  <2>1. t \in S /\ w \in S /\ c \in S
    BY <1>1, <1>2
  <2>2. t \o w \in S
    BY <2>1, ConcatProperties
  <2>3. (t \o w) \o c = t \o (w \o c)
    BY <2>1, ConcatAssociative
  <2> HIDE DEF S
  <2> QED BY <2>2, <2>3 DEF S
<1>6. Written(one) = Written(e) \o c
  <2> HIDE DEF e
  <2>1. Written(Append(e, s)) = Written(e) \o Crlf(s)
    BY <1>3, WrittenMore
  <2> QED BY <1>3, <2>1 DEF c
<1>7. t \o Written(one) = t \o c
  BY <1>1, <1>4, <1>6
<1>8. t \o Written(e) = t
  BY <1>1, <1>4
<1>9. t \o Written(Append(calls, s)) = (t \o w) \o c
  BY <1>1, <1>5
<1> QED BY <1>5, <1>7, <1>8, <1>9 DEF w, c, e, one

--------------------------------------------------------------------------------
(* The lines of the terminal *)

\* What is known of a line
OnStates == [first : Pieces, pieces : Nat, length : Nat]

\* The jth piece comes to what is on the line.
OnNext(before, t, j) ==
  IF OfStatus(t, j) THEN before
  ELSE IF t[j].c = "\n" THEN NoPieces
  ELSE [first  |-> IF before.pieces = 0 THEN t[j] ELSE before.first,
        pieces |-> before.pieces + 1,
        length |-> before.length + IF t[j].c = "entry" THEN t[j].n ELSE 0]

\* An entry has a length.
LEMMA EntryLength ==
  ASSUME NEW p \in Pieces
  PROVE  /\ (IF p.c = "entry" THEN p.n ELSE 0) \in Nat
         /\ p.c # "entry" => p.c \in Kinds
<1>1. CASE p \in [c : Kinds, id : Ids]
  <2>1. p.c \in Kinds
    BY <1>1
  <2>2. "entry" \notin Kinds
    BY DEF Kinds
  <2> HIDE DEF Kinds
  <2> QED BY <2>1, <2>2
<1>2. CASE p \in [c : {"entry"}, id : Ids, n : Nat]
  BY <1>2
<1> QED BY <1>1, <1>2 DEF Pieces

\* The line before anything is on it
LEMMA NoPiecesIn == NoPieces \in OnStates /\ NoPieces.pieces = 0 /\ NoPieces.length = 0
<1>1. Piece("") \in Pieces
  BY PiecesIn
<1> QED BY <1>1 DEF NoPieces, OnStates

\* Each piece leaves such a line.
LEMMA OnNextIn ==
  ASSUME NEW t \in Seq(Pieces), NEW j \in 1 .. Len(t), NEW before \in OnStates
  PROVE  OnNext(before, t, j) \in OnStates
<1> DEFINE p == t[j]
           n == IF p.c = "entry" THEN p.n ELSE 0
           first == IF before.pieces = 0 THEN p ELSE before.first
<1>1. p \in Pieces
  BY ElementOfSeq
<1>2. n \in Nat
  BY <1>1, EntryLength
<1>3. before.first \in Pieces /\ before.pieces \in Nat /\ before.length \in Nat
  BY DEF OnStates
<1>4. OnNext(before, t, j) =
        IF OfStatus(t, j) THEN before
        ELSE IF p.c = "\n" THEN NoPieces
        ELSE [first |-> first, pieces |-> before.pieces + 1, length |-> before.length + n]
  BY DEF OnNext
<1>5. first \in Pieces
  BY <1>1, <1>3
<1> HIDE DEF p, n, first
<1>6. [first |-> first, pieces |-> before.pieces + 1, length |-> before.length + n] \in OnStates
  BY <1>2, <1>3, <1>5 DEF OnStates
<1> QED BY <1>4, <1>6, NoPiecesIn

\* The recursive function of OnLine
LEMMA OnLineDef ==
  ASSUME NEW t \in Seq(Pieces)
  PROVE  /\ OnLine(t) \in [0 .. Len(t) -> OnStates]
         /\ OnLine(t)[0] = NoPieces
         /\ \A j \in 1 .. Len(t) : OnLine(t)[j] = OnNext(OnLine(t)[j - 1], t, j)
<1> DEFINE l == Len(t)
           S == OnStates
           step == [x \in S \X (1 .. l) |-> OnNext(x[1], t, x[2])]
           Def(h) == [j \in 0 .. Len(t) |->
                        IF j = 0 THEN NoPieces
                        ELSE IF OfStatus(t, j) THEN h[j - 1]
                        ELSE IF t[j].c = "\n" THEN NoPieces
                        ELSE [first  |-> IF h[j - 1].pieces = 0 THEN t[j] ELSE h[j - 1].first,
                              pieces |-> h[j - 1].pieces + 1,
                              length |-> h[j - 1].length
                                           + IF t[j].c = "entry" THEN t[j].n ELSE 0]]
           on == CHOOSE h : h = Def(h)
<1>1. l \in Nat
  BY LenProperties
<1>2. \A a \in S, j \in 1 .. l : OnNext(a, t, j) \in S
  BY OnNextIn
<1>3. step \in [S \X (1 .. l) -> S]
  <2> SUFFICES ASSUME NEW a \in S, NEW j \in 1 .. l PROVE OnNext(a, t, j) \in S
    OBVIOUS
  <2> QED BY <1>2
<1>4. NoPieces \in S
  BY NoPiecesIn
<1>5. \A a \in S, j \in 1 .. l : step[<<a, j>>] = OnNext(a, t, j)
  OBVIOUS
<1>6. OnLine(t) = on
  BY DEF OnLine
<1>7. \A h : Def(h) = [j \in 0 .. l |-> IF j = 0 THEN NoPieces ELSE OnNext(h[j - 1], t, j)]
  BY DEF OnNext
<1>8. on = Def(on) \/ \A h : h # Def(h)
  <2> HIDE DEF Def
  <2> QED OBVIOUS
<1> HIDE DEF l, S, step, on, Def
<1>9. PICK f \in Runs(l, S, NoPieces, step) : TRUE
  BY <1>1, <1>3, <1>4, Iterates
<1>10. f \in [0 .. l -> S] /\ f[0] = NoPieces /\ \A j \in 1 .. l : f[j] = step[<<f[j - 1], j>>]
  BY <1>9 DEF Runs
<1>11. \A j \in 1 .. l : f[j] = OnNext(f[j - 1], t, j)
  <2> SUFFICES ASSUME NEW j \in 1 .. l PROVE f[j] = OnNext(f[j - 1], t, j)
    OBVIOUS
  <2>1. j - 1 \in 0 .. l
    BY <1>1
  <2>2. f[j - 1] \in S
    BY <1>10, <2>1
  <2> QED BY <1>5, <1>10, <2>2
<1>12. f = Def(f)
  <2>1. ASSUME NEW j \in 0 .. l PROVE f[j] = Def(f)[j]
    <3>1. CASE j = 0
      BY <1>7, <1>10, <3>1
    <3>2. CASE j # 0
      <4>1. j \in 1 .. l
        BY <1>1, <3>2
      <4>2. Def(f)[j] = OnNext(f[j - 1], t, j)
        BY <1>7, <3>2
      <4> QED BY <1>11, <4>1, <4>2
    <3> QED BY <3>1, <3>2
  <2> QED BY <1>7, <1>10, <2>1
<1>13. on = Def(on)
  BY <1>8, <1>12
<1>14. on[0] = NoPieces
  <2>1. 0 \in 0 .. l
    BY <1>1
  <2>2. Def(on)[0] = NoPieces
    BY <1>7, <2>1
  <2> QED BY <1>13, <2>2
<1>15. ASSUME NEW j \in 1 .. l PROVE on[j] = OnNext(on[j - 1], t, j)
  <2>1. j \in 0 .. l /\ j # 0
    BY <1>1
  <2> QED BY <1>7, <1>13, <2>1
<1>16. \A j \in 0 .. l : on[j] \in S
  <2>1. \A j \in 1 .. l : on[j - 1] \in S => on[j] \in S
    <3> SUFFICES ASSUME NEW j \in 1 .. l, on[j - 1] \in S PROVE on[j] \in S
      OBVIOUS
    <3>1. OnNext(on[j - 1], t, j) \in S
      BY <1>2
    <3> QED BY <1>15, <3>1
  <2> QED BY <1>1, <1>4, <1>14, <2>1, Stays
<1>17. on \in [0 .. l -> S]
  BY <1>7, <1>13, <1>16
<1> QED BY <1>6, <1>14, <1>15, <1>17 DEF l, S

\* What has been written before stays on its lines.
LEMMA OnAppend ==
  ASSUME NEW t \in Seq(Pieces), NEW p \in Pieces
  PROVE  /\ \A j \in 0 .. Len(t) : OnLine(Append(t, p))[j] = OnLine(t)[j]
         /\ OnLine(Append(t, p))[Len(t) + 1]
              = OnNext(OnLine(t)[Len(t)], Append(t, p), Len(t) + 1)
<1> DEFINE u == Append(t, p)
           l == Len(t)
           a == OnLine(t)
           b == OnLine(u)
<1>1. /\ u \in Seq(Pieces) /\ Len(u) = l + 1 /\ u[l + 1] = p
      /\ \A i \in 1 .. l : u[i] = t[i]
  BY OneMore
<1>2. l \in Nat
  BY LenProperties
<1> HIDE DEF u, l
<1>3. a[0] = NoPieces /\ \A j \in 1 .. l : a[j] = OnNext(a[j - 1], t, j)
  BY OnLineDef DEF l
<1>4. b[0] = NoPieces /\ \A j \in 1 .. l + 1 : b[j] = OnNext(b[j - 1], u, j)
  BY <1>1, OnLineDef
<1>5. \A j \in 1 .. l : OfStatus(u, j) <=> OfStatus(t, j)
  <2> SUFFICES ASSUME NEW j \in 1 .. l PROVE OfStatus(u, j) <=> OfStatus(t, j)
    OBVIOUS
  <2>1. \A k \in 0 .. 2 : k < j => u[j - k] = t[j - k]
    <3> SUFFICES ASSUME NEW k \in 0 .. 2, k < j PROVE u[j - k] = t[j - k]
      OBVIOUS
    <3>1. j - k \in 1 .. l
      BY <1>2
    <3> QED BY <1>1, <3>1
  <2> QED BY <2>1 DEF OfStatus
<1> HIDE DEF a, b
<1>6. \A j \in 0 .. l : b[j] = a[j]
  <2> DEFINE D == {j \in 0 .. l : b[j] = a[j]}
  <2>1. 0 \in D
    BY <1>2, <1>3, <1>4
  <2>2. ASSUME NEW j \in 1 .. l, j - 1 \in D PROVE j \in D
    <3>1. j \in 0 .. l /\ j \in 1 .. l + 1 /\ b[j - 1] = a[j - 1]
      BY <1>2, <2>2
    <3>2. b[j] = OnNext(b[j - 1], u, j) /\ a[j] = OnNext(a[j - 1], t, j)
      BY <1>3, <1>4, <3>1
    <3>3. u[j] = t[j] /\ (OfStatus(u, j) <=> OfStatus(t, j))
      BY <1>1, <1>5
    <3>4. OnNext(b[j - 1], u, j) = OnNext(a[j - 1], t, j)
      BY <3>1, <3>3 DEF OnNext
    <3> QED BY <3>1, <3>2, <3>4
  <2>3. 0 .. l \subseteq D
    <3> HIDE DEF D
    <3> QED BY <1>2, <2>1, <2>2, LoopInduction
  <2> QED BY <2>3
<1>7. b[l + 1] = OnNext(b[l], u, l + 1)
  <2>1. l + 1 \in 1 .. l + 1 /\ (l + 1) - 1 = l
    BY <1>2
  <2>2. b[l + 1] = OnNext(b[(l + 1) - 1], u, l + 1)
    BY <1>4, <2>1
  <2> QED BY <2>1, <2>2
<1>8. l \in 0 .. l
  BY <1>2
<1> QED BY <1>6, <1>7, <1>8 DEF a, b, l, u

\* What the line that is open has
Opened(t) == OnLine(t)[Len(t)]

\* The end of each line is a "\r" and a "\n".
Ends(t) == \A j \in 1 .. Len(t) : t[j].c = "\n" => j > 1 /\ t[j - 1].c = "\r"

\* The next piece is none of a status message.
Settled(t) == \A k \in 0 .. 1 : k < Len(t) => t[Len(t) - k].c # "status"

\* The line of an entry
EntryFits(on, ps) == /\ on.first.c = "cli_reply" /\ IsAskedId(ps, on.first.id)
                     /\ on.length <= OutMax \/ on.pieces = 2

\* The line of each entry
Fits(t, ps) == \A j \in 1 .. Len(t) : t[j].c = "entry" => EntryFits(OnLine(t)[j], ps)

\* A message id is told only if it has been given.
IdGiven(p, ps) == \E k \in 1 .. Len(ps) : Mid(ps[k]) /\ ps[k].val = p.id
IdsGiven(t, ps) == \A j \in 1 .. Len(t) : t[j].c = "@" => IdGiven(t[j], ps)

\* It is told that there is an error.
Told(t) == \E j \in 1 .. Len(t) : t[j].c = "error"

\* What is on the terminal is as it should be.
Proper(t, ps) ==
  t \in Seq(Pieces) /\ Ends(t) /\ Settled(t) /\ Fits(t, ps) /\ IdsGiven(t, ps)

\* The line that is open when a piece more is on it
OpenedBy(on, p) ==
  IF p.c = "\n" THEN NoPieces
  ELSE [first  |-> IF on.pieces = 0 THEN p ELSE on.first,
        pieces |-> on.pieces + 1,
        length |-> on.length + IF p.c = "entry" THEN p.n ELSE 0]

\* Nothing is on the terminal.
LEMMA ProperEmpty ==
  /\ \A ps : Proper(<<>>, ps)
  /\ Opened(<<>>) = NoPieces /\ ~Told(<<>>)
<1>1. <<>> \in Seq(Pieces) /\ Len(<<>>) = 0 /\ \A j \in 1 .. 0 : FALSE
  OBVIOUS
<1>2. Opened(<<>>) = NoPieces
  BY <1>1, OnLineDef DEF Opened
<1>3. \A k \in 0 .. 1 : ~(k < 0)
  OBVIOUS
<1> DEFINE e == <<>>
<1> HIDE DEF e
<1>4. e \in Seq(Pieces) /\ Len(e) = 0
  BY <1>1 DEF e
<1>5. \A ps : Proper(e, ps)
  BY <1>1, <1>3, <1>4 DEF Proper, Ends, Settled, Fits, IdsGiven
<1>6. ~Told(e)
  BY <1>1, <1>4 DEF Told
<1> QED BY <1>2, <1>5, <1>6 DEF e

\* A piece may be written next.
MayFollow(t, p, ps) ==
  /\ p \in Pieces /\ p.c # "status"
  /\ p.c = "\n" => Len(t) > 0 /\ t[Len(t)].c = "\r"
  /\ p.c = "entry" => EntryFits(OpenedBy(Opened(t), p), ps)
  /\ p.c = "@" => IdGiven(p, ps)

\* What the earlier pieces say is kept by a piece more that is no status message.
LEMMA PieceAdds ==
  ASSUME NEW t, NEW ps, Proper(t, ps), NEW p, MayFollow(t, p, ps)
  PROVE  /\ Proper(Append(t, p), ps)
         /\ Opened(Append(t, p)) = OpenedBy(Opened(t), p)
         /\ Told(Append(t, p)) <=> Told(t) \/ p.c = "error"
         /\ Len(Append(t, p)) > 0 /\ Append(t, p)[Len(Append(t, p))] = p
<1> DEFINE u == Append(t, p)
           l == Len(t)
<1>1. /\ t \in Seq(Pieces) /\ p \in Pieces /\ p.c # "status"
      /\ p.c = "\n" => l > 0 /\ t[l].c = "\r"
      /\ p.c = "entry" => EntryFits(OpenedBy(Opened(t), p), ps)
      /\ p.c = "@" => IdGiven(p, ps)
  BY DEF MayFollow, Proper
<1>2. /\ u \in Seq(Pieces) /\ Len(u) = l + 1 /\ u[l + 1] = p
      /\ \A i \in 1 .. l : u[i] = t[i]
  BY <1>1, OneMore
<1>3. l \in Nat
  BY <1>1, LenProperties
<1>4. /\ \A j \in 0 .. l : OnLine(u)[j] = OnLine(t)[j]
      /\ OnLine(u)[l + 1] = OnNext(OnLine(t)[l], u, l + 1)
  BY <1>1, OnAppend
<1>5. Settled(t) /\ Ends(t) /\ Fits(t, ps) /\ IdsGiven(t, ps)
  BY DEF Proper
<1> HIDE DEF u
<1>6. ~OfStatus(u, l + 1)
  <2> SUFFICES ASSUME NEW k \in 0 .. 2, k < l + 1, u[(l + 1) - k].c = "status" PROVE FALSE
    BY DEF OfStatus
  <2>1. k # 0
    BY <1>1, <1>2, <1>3
  <2>2. k - 1 \in 0 .. 1 /\ k - 1 < l /\ (l + 1) - k = l - (k - 1) /\ l - (k - 1) \in 1 .. l
    BY <1>3, <2>1
  <2>3. t[l - (k - 1)].c # "status"
    BY <1>5, <2>2 DEF Settled
  <2>4. u[(l + 1) - k] = t[l - (k - 1)]
    BY <1>2, <2>2
  <2> QED BY <2>3, <2>4
<1>7. Opened(u) = OpenedBy(Opened(t), p)
  <2>1. Opened(u) = OnNext(Opened(t), u, l + 1)
    BY <1>2, <1>4 DEF Opened
  <2> QED BY <1>2, <1>6, <2>1 DEF OnNext, OpenedBy
<1> HIDE DEF l
<1>8. \A j \in 1 .. l + 1 : j \in 1 .. l \/ j = l + 1
  BY <1>3
<1>9. Ends(u)
  <2> SUFFICES ASSUME NEW j \in 1 .. l + 1, u[j].c = "\n" PROVE j > 1 /\ u[j - 1].c = "\r"
    BY <1>2 DEF Ends
  <2>1. CASE j \in 1 .. l
    <3>1. j > 1 /\ t[j - 1].c = "\r"
      BY <1>2, <1>5, <2>1 DEF Ends, l
    <3>2. j - 1 \in 1 .. l
      BY <1>3, <2>1, <3>1
    <3> QED BY <1>2, <3>1, <3>2
  <2>2. CASE j = l + 1
    <3>1. l > 0 /\ t[l].c = "\r"
      BY <1>1, <1>2, <2>2
    <3>2. j > 1 /\ j - 1 = l /\ l \in 1 .. l
      BY <1>3, <2>2, <3>1
    <3> QED BY <1>2, <3>1, <3>2
  <2> QED BY <1>8, <2>1, <2>2
<1>10. Settled(u)
  <2> SUFFICES ASSUME NEW k \in 0 .. 1, k < l + 1 PROVE u[(l + 1) - k].c # "status"
    BY <1>2 DEF Settled
  <2>1. CASE k = 0
    BY <1>1, <1>2, <1>3, <2>1
  <2>2. CASE k = 1
    <3>1. 0 < l /\ (l + 1) - k = l /\ l \in 1 .. l /\ 0 \in 0 .. 1 /\ l - 0 = l
      BY <1>3, <2>2
    <3>2. t[l - 0].c # "status"
      BY <1>5, <3>1 DEF Settled, l
    <3> QED BY <1>2, <3>1, <3>2
  <2> QED BY <2>1, <2>2
<1>11. Fits(u, ps)
  <2> SUFFICES ASSUME NEW j \in 1 .. l + 1, u[j].c = "entry" PROVE EntryFits(OnLine(u)[j], ps)
    BY <1>2 DEF Fits
  <2>1. CASE j \in 1 .. l
    <3>1. j \in 0 .. l /\ u[j] = t[j]
      BY <1>2, <1>3, <2>1
    <3>2. EntryFits(OnLine(t)[j], ps)
      BY <1>5, <2>1, <3>1 DEF Fits, l
    <3> QED BY <1>4, <3>1, <3>2
  <2>2. CASE j = l + 1
    <3>1. OnLine(u)[j] = OpenedBy(Opened(t), p)
      BY <1>2, <1>7, <2>2 DEF Opened
    <3> QED BY <1>1, <1>2, <2>2, <3>1
  <2> QED BY <1>8, <2>1, <2>2
<1>12. IdsGiven(u, ps)
  <2> SUFFICES ASSUME NEW j \in 1 .. l + 1, u[j].c = "@" PROVE IdGiven(u[j], ps)
    BY <1>2 DEF IdsGiven
  <2>1. CASE j \in 1 .. l
    BY <1>2, <1>5, <2>1 DEF IdsGiven, l
  <2>2. CASE j = l + 1
    BY <1>1, <1>2, <2>2
  <2> QED BY <1>8, <2>1, <2>2
<1>13. Told(u) <=> Told(t) \/ p.c = "error"
  <2>1. \A j \in 1 .. l : j \in 1 .. l + 1 /\ u[j] = t[j]
    BY <1>2, <1>3
  <2>2. l + 1 \in 1 .. l + 1
    BY <1>3
  <2> QED BY <1>2, <1>8, <2>1, <2>2 DEF Told, l
<1>14. Len(u) > 0 /\ u[Len(u)] = p
  BY <1>2, <1>3
<1> QED BY <1>2, <1>7, <1>9, <1>10, <1>11, <1>12, <1>13, <1>14 DEF Proper, u

\* A word that is on the line that is open
IsWord(p) == p \in Pieces /\ p.c \notin {"status", "\n", "entry", "@"}

\* Such a word may always follow.
LEMMA WordAdds ==
  ASSUME NEW t, NEW ps, Proper(t, ps), NEW p, IsWord(p)
  PROVE  /\ Proper(Append(t, p), ps)
         /\ Opened(Append(t, p)) = [first  |-> IF Opened(t).pieces = 0 THEN p ELSE Opened(t).first,
                                    pieces |-> Opened(t).pieces + 1,
                                    length |-> Opened(t).length]
         /\ Told(Append(t, p)) <=> Told(t) \/ p.c = "error"
         /\ Len(Append(t, p)) > 0 /\ Append(t, p)[Len(Append(t, p))] = p
<1>1. MayFollow(t, p, ps)
  BY DEF MayFollow, IsWord
<1>2. Opened(t) \in OnStates
  <2>1. t \in Seq(Pieces)
    BY DEF Proper
  <2>2. Len(t) \in 0 .. Len(t)
    BY <2>1, LenProperties
  <2> QED BY <2>1, <2>2, OnLineDef DEF Opened
<1>3. OpenedBy(Opened(t), p) =
        [first  |-> IF Opened(t).pieces = 0 THEN p ELSE Opened(t).first,
         pieces |-> Opened(t).pieces + 1,
         length |-> Opened(t).length]
  <2>1. Opened(t).length + 0 = Opened(t).length
    BY <1>2 DEF OnStates
  <2>2. p.c # "\n" /\ p.c # "entry"
    BY DEF IsWord
  <2> QED BY <2>1, <2>2 DEF OpenedBy
<1> QED BY <1>1, <1>3, PieceAdds

\* The end of a line
LEMMA LineEnds ==
  ASSUME NEW t, NEW ps, Proper(t, ps)
  PROVE  LET u == Append(Append(t, Piece("\r")), Piece("\n")) IN
         /\ Proper(u, ps) /\ Opened(u) = NoPieces
         /\ Told(u) <=> Told(t)
         /\ Len(u) > 0 /\ u[Len(u)].c = "\n"
<1> DEFINE cr == Piece("\r")
           lf == Piece("\n")
           v == Append(t, cr)
           u == Append(v, lf)
<1>1. cr \in Pieces /\ lf \in Pieces /\ cr.c = "\r" /\ lf.c = "\n"
  BY PiecesIn
<1> HIDE DEF cr, lf
<1>2. IsWord(cr)
  BY <1>1 DEF IsWord
<1>3. Proper(v, ps) /\ (Told(v) <=> Told(t)) /\ Len(v) > 0 /\ v[Len(v)] = cr
  BY <1>1, <1>2, WordAdds
<1> HIDE DEF v
<1>4. MayFollow(v, lf, ps)
  BY <1>1, <1>3 DEF MayFollow
<1>5. /\ Proper(u, ps) /\ Opened(u) = OpenedBy(Opened(v), lf)
      /\ Told(u) <=> Told(v) \/ lf.c = "error"
      /\ Len(u) > 0 /\ u[Len(u)] = lf
  BY <1>3, <1>4, PieceAdds
<1>6. OpenedBy(Opened(v), lf) = NoPieces
  BY <1>1 DEF OpenedBy
<1> HIDE DEF u
<1> QED BY <1>1, <1>3, <1>5, <1>6 DEF u, v, cr, lf

\* A status message does not count, and leaves the line open that was.
LEMMA StatusAdds ==
  ASSUME NEW t, NEW ps, Proper(t, ps)
  PROVE  /\ Proper(t \o Status, ps) /\ Opened(t \o Status) = Opened(t)
         /\ Told(t \o Status) <=> Told(t)
<1> DEFINE st == Piece("status")
           cr == Piece("\r")
           lf == Piece("\n")
           a == Append(t, st)
           b == Append(a, cr)
           u == Append(b, lf)
           l == Len(t)
<1>1. /\ st \in Pieces /\ cr \in Pieces /\ lf \in Pieces
      /\ st.c = "status" /\ cr.c = "\r" /\ lf.c = "\n"
  BY PiecesIn
<1>2. Status = <<st, cr, lf>>
  BY DEF Status
<1> HIDE DEF st, cr, lf
<1>3. t \in Seq(Pieces) /\ Ends(t) /\ Settled(t) /\ Fits(t, ps) /\ IdsGiven(t, ps)
  BY DEF Proper
<1>4. t \o Status = u
  <2> DEFINE two == <<st, cr>>
  <2>1. Status = Append(two, lf) /\ two \in Seq(Pieces) /\ t \o two = b
    BY <1>1, <1>2, <1>3, Behind
  <2> HIDE DEF two
  <2>2. t \o Append(two, lf) = Append(t \o two, lf)
    BY <1>1, <1>3, <2>1, Behind
  <2> QED BY <2>1, <2>2
<1>5. l \in Nat
  BY <1>3, LenProperties
<1>6. /\ a \in Seq(Pieces) /\ Len(a) = l + 1 /\ a[l + 1] = st
      /\ \A i \in 1 .. l : a[i] = t[i]
      /\ \A j \in 0 .. l : OnLine(a)[j] = OnLine(t)[j]
      /\ OnLine(a)[l + 1] = OnNext(OnLine(t)[l], a, l + 1)
  BY <1>1, <1>3, OneMore, OnAppend
<1> HIDE DEF a, l
<1>7. /\ b \in Seq(Pieces) /\ Len(b) = l + 2 /\ b[l + 2] = cr
      /\ \A i \in 1 .. l + 1 : b[i] = a[i]
      /\ \A j \in 0 .. l + 1 : OnLine(b)[j] = OnLine(a)[j]
      /\ OnLine(b)[l + 2] = OnNext(OnLine(a)[l + 1], b, l + 2)
  <2> DEFINE m == Len(a)
  <2>1. /\ b \in Seq(Pieces) /\ Len(b) = m + 1 /\ b[m + 1] = cr
        /\ \A i \in 1 .. m : b[i] = a[i]
        /\ \A j \in 0 .. m : OnLine(b)[j] = OnLine(a)[j]
        /\ OnLine(b)[m + 1] = OnNext(OnLine(a)[m], b, m + 1)
    BY <1>1, <1>6, OneMore, OnAppend
  <2>2. m = l + 1 /\ m + 1 = l + 2
    BY <1>5, <1>6
  <2> HIDE DEF m, b
  <2> QED BY <2>1, <2>2
<1> HIDE DEF b
<1>8. /\ u \in Seq(Pieces) /\ Len(u) = l + 3 /\ u[l + 3] = lf
      /\ \A i \in 1 .. l + 2 : u[i] = b[i]
      /\ \A j \in 0 .. l + 2 : OnLine(u)[j] = OnLine(b)[j]
      /\ OnLine(u)[l + 3] = OnNext(OnLine(b)[l + 2], u, l + 3)
  <2> DEFINE m == Len(b)
  <2>1. /\ u \in Seq(Pieces) /\ Len(u) = m + 1 /\ u[m + 1] = lf
        /\ \A i \in 1 .. m : u[i] = b[i]
        /\ \A j \in 0 .. m : OnLine(u)[j] = OnLine(b)[j]
        /\ OnLine(u)[m + 1] = OnNext(OnLine(b)[m], u, m + 1)
    BY <1>1, <1>7, OneMore, OnAppend
  <2>2. m = l + 2 /\ m + 1 = l + 3
    BY <1>5, <1>7
  <2> HIDE DEF m, u
  <2> QED BY <2>1, <2>2
<1> HIDE DEF u
<1>9. /\ \A i \in 1 .. l : u[i] = t[i]
      /\ u[l + 1] = st /\ u[l + 2] = cr /\ u[l + 3] = lf
  <2>1. \A i \in 1 .. l : i \in 1 .. l + 1 /\ i \in 1 .. l + 2
    BY <1>5
  <2>2. l + 1 \in 1 .. l + 1 /\ l + 1 \in 1 .. l + 2 /\ l + 2 \in 1 .. l + 2
    BY <1>5
  <2> QED BY <1>6, <1>7, <1>8, <2>1, <2>2
<1>10. \A j \in 0 .. l : OnLine(u)[j] = OnLine(t)[j]
  <2>1. \A j \in 0 .. l : j \in 0 .. l + 1 /\ j \in 0 .. l + 2
    BY <1>5
  <2> QED BY <1>6, <1>7, <1>8, <2>1
<1>11. OnLine(u)[l + 3] = OnLine(t)[l]
  <2>1. OfStatus(a, l + 1)
    <3>1. 0 \in 0 .. 2 /\ 0 < l + 1 /\ (l + 1) - 0 = l + 1
      BY <1>5
    <3> QED BY <1>1, <1>6, <3>1 DEF OfStatus
  <2>2. OfStatus(b, l + 2)
    <3>1. 1 \in 0 .. 2 /\ 1 < l + 2 /\ (l + 2) - 1 = l + 1 /\ l + 1 \in 1 .. l + 1
      BY <1>5
    <3>2. b[l + 1] = st
      BY <1>6, <1>7, <3>1
    <3> QED BY <1>1, <3>1, <3>2 DEF OfStatus
  <2>3. OfStatus(u, l + 3)
    <3>1. 2 \in 0 .. 2 /\ 2 < l + 3 /\ (l + 3) - 2 = l + 1
      BY <1>5
    <3> QED BY <1>1, <1>9, <3>1 DEF OfStatus
  <2>4. OnLine(a)[l + 1] = OnLine(t)[l]
    BY <1>6, <2>1 DEF OnNext
  <2>5. OnLine(b)[l + 2] = OnLine(a)[l + 1]
    BY <1>7, <2>2 DEF OnNext
  <2>6. OnLine(u)[l + 3] = OnLine(b)[l + 2]
    BY <1>8, <2>3 DEF OnNext
  <2> QED BY <2>4, <2>5, <2>6
<1>12. Opened(u) = Opened(t)
  BY <1>8, <1>11 DEF Opened, l
<1>13. \A j \in 1 .. l + 3 : j \in 1 .. l \/ j = l + 1 \/ j = l + 2 \/ j = l + 3
  BY <1>5
<1>14. Ends(u)
  <2> SUFFICES ASSUME NEW j \in 1 .. l + 3, u[j].c = "\n" PROVE j > 1 /\ u[j - 1].c = "\r"
    BY <1>8 DEF Ends
  <2>1. CASE j \in 1 .. l
    <3>1. j > 1 /\ t[j - 1].c = "\r"
      BY <1>3, <1>9, <2>1 DEF Ends, l
    <3>2. j - 1 \in 1 .. l
      BY <1>5, <2>1, <3>1
    <3> QED BY <1>9, <3>1, <3>2
  <2>2. CASE j = l + 1 \/ j = l + 2
    BY <1>1, <1>9, <2>2
  <2>3. CASE j = l + 3
    <3>1. j > 1 /\ j - 1 = l + 2
      BY <1>5, <2>3
    <3> QED BY <1>1, <1>9, <3>1
  <2> QED BY <1>13, <2>1, <2>2, <2>3
<1>15. Settled(u)
  <2> SUFFICES ASSUME NEW k \in 0 .. 1 PROVE u[(l + 3) - k].c # "status"
    BY <1>8 DEF Settled
  <2>1. (l + 3) - k = l + 3 \/ (l + 3) - k = l + 2
    BY <1>5
  <2> QED BY <1>1, <1>9, <2>1
<1>16. Fits(u, ps)
  <2> SUFFICES ASSUME NEW j \in 1 .. l + 3, u[j].c = "entry" PROVE EntryFits(OnLine(u)[j], ps)
    BY <1>8 DEF Fits
  <2>1. j \in 1 .. l
    BY <1>1, <1>9, <1>13
  <2>2. j \in 0 .. l
    BY <2>1
  <2> QED BY <1>3, <1>9, <1>10, <2>1, <2>2 DEF Fits, l
<1>17. IdsGiven(u, ps)
  <2> SUFFICES ASSUME NEW j \in 1 .. l + 3, u[j].c = "@" PROVE IdGiven(u[j], ps)
    BY <1>8 DEF IdsGiven
  <2>1. j \in 1 .. l
    BY <1>1, <1>9, <1>13
  <2> QED BY <1>3, <1>9, <2>1 DEF IdsGiven, l
<1>18. Told(u) <=> Told(t)
  <2>1. \A j \in 1 .. l : j \in 1 .. l + 3
    BY <1>5
  <2> QED BY <1>1, <1>8, <1>9, <1>13, <2>1 DEF Told, l
<1> QED BY <1>4, <1>8, <1>12, <1>14, <1>15, <1>16, <1>17, <1>18 DEF Proper

--------------------------------------------------------------------------------
(* The texts that are printed *)

\* A line break
LEMMA PutLfAdds ==
  ASSUME NEW t, NEW ps, Proper(t, ps)
  PROVE  /\ Proper(t \o PutLf, ps) /\ Opened(t \o PutLf) = NoPieces
         /\ Told(t \o PutLf) <=> Told(t)
         /\ Len(t \o PutLf) > 0 /\ (t \o PutLf)[Len(t \o PutLf)].c = "\n"
<1> DEFINE cr == Piece("\r")
           lf == Piece("\n")
           one == <<cr>>
           nl == <<lf>>
           e == <<cr, lf>>
<1>1. cr \in Pieces /\ lf \in Pieces /\ cr.c = "\r" /\ lf.c = "\n"
  BY PiecesIn
<1>2. PutLf = Crlf(one) \o Crlf(nl)
  BY DEF PutLf, NewLine
<1>3. Crlf(one) = <<>> /\ Crlf(nl) = e
  BY <1>1, CrlfOne
<1>4. t \in Seq(Pieces)
  BY DEF Proper
<1> HIDE DEF cr, lf, one, nl
<1>5. e \in Seq(Pieces) /\ t \o e = Append(Append(t, cr), lf)
  BY <1>1, <1>4, Behind
<1>6. PutLf = e
  <2> HIDE DEF e
  <2>1. <<>> \o e = e
    BY <1>5
  <2> QED BY <1>2, <1>3, <2>1
<1>7. t \o PutLf = Append(Append(t, cr), lf)
  BY <1>5, <1>6
<1> QED BY <1>7, LineEnds DEF cr, lf

\* The message that it is ready
LEMMA ReadyAdds ==
  ASSUME NEW t, NEW ps, Proper(t, ps)
  PROVE  /\ Ready \in Seq(Pieces)
         /\ Proper(t \o Ready, ps) /\ Opened(t \o Ready) = NoPieces
         /\ Told(t \o Ready) <=> Told(t)
         /\ Len(t \o Ready) > 0 /\ (t \o Ready)[Len(t \o Ready)].c = "\n"
<1> DEFINE cr == Piece("\r")
           lf == Piece("\n")
           p == Piece("ready:")
           e == <<cr, lf>>
           a == Append(Append(t, cr), lf)
           b == Append(a, p)
           u == Append(Append(b, cr), lf)
<1>1. cr \in Pieces /\ lf \in Pieces /\ p \in Pieces /\ p.c = "ready:"
  BY PiecesIn
<1>2. Ready = Append(Append(Append(e, p), cr), lf)
  BY CrlfReady
<1>3. t \in Seq(Pieces)
  BY DEF Proper
<1>4. /\ Proper(a, ps) /\ (Told(a) <=> Told(t))
  BY LineEnds
<1> HIDE DEF cr, lf, p, a
<1>5. IsWord(p)
  BY <1>1 DEF IsWord
<1>6. Proper(b, ps) /\ (Told(b) <=> Told(a))
  BY <1>1, <1>4, <1>5, WordAdds
<1> HIDE DEF b
<1>7. /\ Proper(u, ps) /\ Opened(u) = NoPieces
      /\ Told(u) <=> Told(b)
      /\ Len(u) > 0 /\ u[Len(u)].c = "\n"
  BY <1>6, LineEnds DEF cr, lf
<1>8. e \in Seq(Pieces) /\ t \o e = a
  BY <1>1, <1>3, Behind DEF a
<1> HIDE DEF e
<1> DEFINE f == Append(e, p)
           g == Append(f, cr)
<1>9. f \in Seq(Pieces) /\ t \o f = b
  BY <1>1, <1>3, <1>8, Behind DEF b
<1> HIDE DEF f
<1>10. g \in Seq(Pieces) /\ t \o g = Append(b, cr)
  BY <1>1, <1>3, <1>9, Behind
<1>11. Ready = Append(g, lf)
  BY <1>2 DEF f
<1> HIDE DEF g
<1>12. Ready \in Seq(Pieces) /\ t \o Ready = u
  BY <1>1, <1>3, <1>10, <1>11, Behind
<1> QED BY <1>4, <1>6, <1>7, <1>12

\* The end of a line of entries
LEMMA EndLineAdds ==
  ASSUME NEW t, NEW ps, Proper(t, ps)
  PROVE  /\ EndLine \in Seq(Seq(Pieces))
         /\ Proper(t \o Written(EndLine), ps) /\ Opened(t \o Written(EndLine)) = NoPieces
         /\ Told(t \o Written(EndLine)) <=> Told(t)
<1> DEFINE cr == Piece("\r")
           lf == Piece("\n")
           p == Piece(";")
           s == <<p, lf>>
           b == Append(t, p)
           u == Append(Append(b, cr), lf)
<1>1. cr \in Pieces /\ lf \in Pieces /\ p \in Pieces
  BY PiecesIn
<1>2. EndLine = <<s>>
  BY DEF EndLine
<1>3. Crlf(s) = <<p, cr, lf>>
  <2>1. p.c \notin {"\r", "\n"}
    BY PiecesIn
  <2> QED BY <1>1, <2>1, CrlfTwo
<1>4. t \in Seq(Pieces)
  BY DEF Proper
<1>5. IsWord(p) /\ p.c # "error"
  BY PiecesIn DEF IsWord
<1> HIDE DEF cr, lf, p
<1>6. Proper(b, ps) /\ (Told(b) <=> Told(t))
  BY <1>5, WordAdds
<1>7. /\ Proper(u, ps) /\ Opened(u) = NoPieces /\ (Told(u) <=> Told(b))
  <2> HIDE DEF b
  <2> QED BY <1>6, LineEnds DEF cr, lf
<1>8. t \o Crlf(s) = u
  <2> DEFINE two == <<p, cr>>
  <2>1. two \in Seq(Pieces) /\ t \o two = Append(b, cr)
    BY <1>1, <1>4, Behind
  <2>2. Crlf(s) = Append(two, lf)
    <3>1. <<p, cr, lf>> = Append(two, lf)
      BY <1>1
    <3> HIDE DEF two, s
    <3> QED BY <1>3, <3>1
  <2> HIDE DEF two
  <2>3. t \o Append(two, lf) = Append(t \o two, lf)
    BY <1>1, <1>4, <2>1, Behind
  <2> QED BY <2>1, <2>3, <2>2
<1>9. s \in Seq(Pieces)
  BY <1>1
<1> HIDE DEF s, u
<1>10. t \o Written(EndLine) = t \o Crlf(s)
  <2> DEFINE none == <<>>
  <2>1. none \in Seq(Seq(Pieces))
    OBVIOUS
  <2> HIDE DEF none
  <2>2. t \o Written(<<s>>) = t \o Crlf(s)
    BY <1>4, <1>9, <2>1, TerminalMore
  <2> QED BY <1>2, <2>2
<1>11. EndLine \in Seq(Seq(Pieces))
  <2> DEFINE S == Seq(Pieces)
  <2> HIDE DEF S
  <2>1. s \in S
    BY <1>9 DEF S
  <2>2. <<s>> \in Seq(S)
    BY <2>1
  <2> QED BY <1>2, <2>2 DEF S
<1> QED BY <1>6, <1>7, <1>8, <1>10, <1>11

\* The line that is open, when a line of entries of the length n is
OpenLine(t, n, id) ==
  IF n = 0 THEN Opened(t) = NoPieces
  ELSE /\ Opened(t).first.c = "cli_reply" /\ Opened(t).first.id = id
       /\ Opened(t).pieces >= 2 /\ Opened(t).length = n
       /\ n <= OutMax \/ Opened(t).pieces = 2

\* The pieces of an entry
ReplyPiece == [c |-> "cli_reply", id |-> cli_msgid]
EntryPiece(n) == [c |-> "entry", id |-> NoId, n |-> n]

\* They are pieces.
LEMMA EntryPieces ==
  ASSUME cli_msgid \in Ids, NEW n \in Nat
  PROVE  /\ ReplyPiece \in Pieces /\ ReplyPiece.c = "cli_reply" /\ ReplyPiece.id = cli_msgid
         /\ EntryPiece(n) \in Pieces /\ EntryPiece(n).c = "entry" /\ EntryPiece(n).n = n
         /\ IsWord(ReplyPiece)
<1>1. "cli_reply" \in Kinds
  BY DEF Kinds
<1>2. ReplyPiece \in Pieces /\ ReplyPiece.c = "cli_reply" /\ ReplyPiece.id = cli_msgid
  BY <1>1 DEF ReplyPiece, Pieces
<1>3. EntryPiece(n) \in Pieces /\ EntryPiece(n).c = "entry" /\ EntryPiece(n).n = n
  BY DEF EntryPiece, Pieces, Ids
<1>4. IsWord(ReplyPiece)
  <2> DEFINE p == ReplyPiece
  <2> HIDE DEF p
  <2> QED BY <1>2 DEF IsWord, p
<1> QED BY <1>2, <1>3, <1>4

\* An entry on the line that is open
LEMMA EntryOnLine ==
  ASSUME NEW t, NEW ps, Proper(t, ps), cli_msgid \in Ids, IsAskedId(ps, cli_msgid),
         NEW m \in Nat \ {0}, NEW n \in Nat \ {0}, OpenLine(t, m, cli_msgid), m + n <= OutMax
  PROVE  LET u == Append(t, EntryPiece(n)) IN
         /\ Proper(u, ps) /\ OpenLine(u, m + n, cli_msgid) /\ (Told(u) <=> Told(t))
<1> DEFINE p == EntryPiece(n)
           on == Opened(t)
           u == Append(t, p)
<1>1. p \in Pieces /\ p.c = "entry" /\ p.n = n
  BY EntryPieces
<1> HIDE DEF p
<1>2. /\ on.first.c = "cli_reply" /\ on.first.id = cli_msgid
      /\ on.pieces >= 2 /\ on.length = m
  BY DEF OpenLine
<1>3. on \in OnStates
  <2>1. t \in Seq(Pieces)
    BY DEF Proper
  <2>2. Len(t) \in 0 .. Len(t)
    BY <2>1, LenProperties
  <2> QED BY <2>1, <2>2, OnLineDef DEF Opened
<1>4. OutMax \in Nat
  BY OutMaxAssumption
<1> HIDE DEF on
<1> DEFINE new == OpenedBy(on, p)
<1>5. new = [first |-> on.first, pieces |-> on.pieces + 1, length |-> m + n]
  <2>1. on.pieces \in Nat /\ on.pieces # 0
    BY <1>2, <1>3 DEF OnStates
  <2> QED BY <1>1, <1>2, <2>1 DEF OpenedBy
<1>6. /\ new.first = on.first /\ new.pieces = on.pieces + 1 /\ new.length = m + n
  BY <1>5
<1> HIDE DEF new
<1>7. EntryFits(new, ps)
  BY <1>2, <1>6 DEF EntryFits
<1>8. MayFollow(t, p, ps)
  BY <1>1, <1>7 DEF MayFollow, on, new
<1>9. Proper(u, ps) /\ Opened(u) = new /\ (Told(u) <=> Told(t))
  BY <1>1, <1>8, PieceAdds DEF on, new
<1> HIDE DEF u
<1>10. OpenLine(u, m + n, cli_msgid)
  <2>1. m + n # 0 /\ on.pieces + 1 >= 2
    BY <1>2, <1>3 DEF OnStates
  <2> QED BY <1>2, <1>6, <1>9, <2>1 DEF OpenLine
<1> QED BY <1>9, <1>10 DEF u, p

\* An entry on a line of its own
LEMMA EntryStarts ==
  ASSUME NEW t, NEW ps, Proper(t, ps), cli_msgid \in Ids, IsAskedId(ps, cli_msgid),
         NEW n \in Nat \ {0}, Opened(t) = NoPieces
  PROVE  LET u == Append(Append(t, ReplyPiece), EntryPiece(n)) IN
         /\ Proper(u, ps) /\ OpenLine(u, n, cli_msgid) /\ (Told(u) <=> Told(t))
<1> DEFINE p == EntryPiece(n)
           r == ReplyPiece
           v == Append(t, r)
           u == Append(v, p)
           on == Opened(v)
           new == OpenedBy(on, p)
<1>1. p \in Pieces /\ p.c = "entry" /\ p.n = n
  BY EntryPieces
<1>2. r \in Pieces /\ r.c = "cli_reply" /\ r.id = cli_msgid /\ IsWord(r)
  BY EntryPieces
<1> HIDE DEF p, r
<1>3. /\ Proper(v, ps) /\ (Told(v) <=> Told(t))
      /\ on = [first |-> IF Opened(t).pieces = 0 THEN r ELSE Opened(t).first,
               pieces |-> Opened(t).pieces + 1, length |-> Opened(t).length]
  BY <1>2, WordAdds
<1>4. on = [first |-> r, pieces |-> 1, length |-> 0]
  <2>1. Opened(t).pieces = 0 /\ Opened(t).length = 0 /\ 0 + 1 = 1
    BY NoPiecesIn
  <2> QED BY <1>3, <2>1
<1> HIDE DEF v, on
<1>5. new = [first |-> r, pieces |-> 2, length |-> n]
  <2>1. on.first = r /\ on.pieces = 1 /\ on.length = 0
    BY <1>4
  <2>2. 1 + 1 = 2 /\ 0 + n = n /\ 1 # 0
    OBVIOUS
  <2> QED BY <1>1, <2>1, <2>2 DEF OpenedBy
<1>6. new.first = r /\ new.pieces = 2 /\ new.length = n
  BY <1>5
<1> HIDE DEF new
<1>7. EntryFits(new, ps)
  BY <1>2, <1>6 DEF EntryFits
<1>8. MayFollow(v, p, ps)
  BY <1>1, <1>7 DEF MayFollow, on, new
<1>9. Proper(u, ps) /\ Opened(u) = new /\ (Told(u) <=> Told(v))
  BY <1>1, <1>3, <1>8, PieceAdds DEF on, new
<1> HIDE DEF u
<1>10. OpenLine(u, n, cli_msgid)
  <2>1. n # 0 /\ 2 >= 2
    OBVIOUS
  <2> QED BY <1>2, <1>6, <1>9, <2>1 DEF OpenLine
<1> QED BY <1>3, <1>9, <1>10 DEF u, v, p, r

\* A call more on the terminal that is a single piece
LEMMA OnePieceMore ==
  ASSUME NEW t \in Seq(Pieces), NEW calls \in Seq(Seq(Pieces)), NEW p \in Pieces,
         p.c \notin {"\r", "\n"}
  PROVE  /\ t \o Written(Append(calls, <<p>>)) = Append(t \o Written(calls), p)
         /\ t \o Written(<<<<p>>>>) = Append(t, p)
         /\ Append(calls, <<p>>) \in Seq(Seq(Pieces)) /\ calls \o <<<<p>>>> = Append(calls, <<p>>)
         /\ <<<<p>>>> \in Seq(Seq(Pieces))
<1> DEFINE s == <<p>>
           w == t \o Written(calls)
           S == Seq(Pieces)
<1>1. s \in S /\ Crlf(s) = s
  BY CrlfOne
<1>2. /\ w \in S
      /\ t \o Written(Append(calls, s)) = w \o Crlf(s)
      /\ t \o Written(<<s>>) = t \o Crlf(s)
  BY <1>1, TerminalMore
<1> HIDE DEF w
<1>3. w \o s = Append(w, p) /\ t \o s = Append(t, p)
  <2>1. w \in Seq(Pieces) /\ t \in Seq(Pieces) /\ p \in Pieces
    BY <1>2
  <2>2. w \o <<p>> = Append(w, p)
    BY <2>1, Behind
  <2>3. t \o <<p>> = Append(t, p)
    BY <2>1, Behind
  <2> QED BY <2>2, <2>3
<1> HIDE DEF s, S
<1>4. calls \in Seq(S)
  BY DEF S
<1>5. Append(calls, s) \in Seq(S) /\ calls \o <<s>> = Append(calls, s) /\ <<s>> \in Seq(S)
  BY <1>1, <1>4
<1> QED BY <1>1, <1>2, <1>3, <1>5 DEF s, w, S

\* An entry is on a line that begins with the message id, and it is too long only alone.
LEMMA EntryAdds ==
  ASSUME NEW ps, Proper(terminal, ps), cli_msgid \in Ids, IsAskedId(ps, cli_msgid),
         NEW n \in Nat \ {0}, myLength \in Nat, OpenLine(terminal, myLength, cli_msgid), Entry(n)
  PROVE  /\ Proper(terminal', ps) /\ OpenLine(terminal', myLength', cli_msgid)
         /\ myLength' \in Nat /\ cli_msgid' = cli_msgid /\ (Told(terminal') <=> Told(terminal))
<1> DEFINE t == terminal
           m == myLength
           e == <<EntryPiece(n)>>
           r == <<ReplyPiece>>
           p == EntryPiece(n)
           q == ReplyPiece
           first == IF Breaks(n) THEN EndLine ELSE <<>>
           second == IF Breaks(n) \/ m = 0 THEN StartReply ELSE <<>>
<1>1. /\ p \in Pieces /\ p.c \notin {"\r", "\n"}
      /\ q \in Pieces /\ q.c \notin {"\r", "\n"}
  BY EntryPieces
<1>2. StartReply = <<r>>
  BY DEF StartReply, ReplyPiece
<1>3. /\ myLength' = IF Breaks(n) THEN n ELSE m + n
      /\ terminal' = t \o Written(first \o second \o <<e>>)
      /\ cli_msgid' = cli_msgid
  BY DEF Entry, EntryPiece
<1>4. Breaks(n) <=> m + n > OutMax /\ m > 0
  BY DEF Breaks
<1>5. OutMax \in Nat /\ m \in Nat
  BY OutMaxAssumption
<1>6. t \in Seq(Pieces)
  BY DEF Proper
<1> HIDE DEF p, q, t, m
<1> DEFINE none == <<>>
<1>7. none \in Seq(Seq(Pieces)) /\ none \o none = none
  OBVIOUS
<1>8. e = <<p>> /\ r = <<q>>
  BY DEF p, q
<1> HIDE DEF e, r
<1>9. CASE Breaks(n)
  <2> DEFINE w == t \o Written(EndLine)
             calls == Append(EndLine, r)
  <2>1. /\ EndLine \in Seq(Seq(Pieces)) /\ Proper(w, ps) /\ Opened(w) = NoPieces
        /\ Told(w) <=> Told(t)
    BY EndLineAdds DEF t
  <2>2. first = EndLine /\ second = <<r>>
    BY <1>2, <1>9
  <2>3. /\ t \o Written(calls) = Append(w, q)
        /\ calls \in Seq(Seq(Pieces)) /\ EndLine \o <<r>> = calls
    BY <1>1, <1>6, <1>8, <2>1, OnePieceMore
  <2> HIDE DEF calls, w
  <2>4. /\ t \o Written(Append(calls, e)) = Append(t \o Written(calls), p)
        /\ calls \o <<e>> = Append(calls, e)
    BY <1>1, <1>6, <1>8, <2>3, OnePieceMore
  <2>5. terminal' = Append(Append(w, q), p)
    <3>1. first \o second \o <<e>> = Append(calls, e)
      BY <2>2, <2>3, <2>4
    <3> HIDE DEF first, second
    <3> QED BY <1>3, <2>3, <2>4, <3>1
  <2>6. /\ Proper(terminal', ps) /\ OpenLine(terminal', n, cli_msgid)
        /\ Told(terminal') <=> Told(w)
    BY <2>1, <2>5, EntryStarts DEF p, q
  <2>7. myLength' = n
    BY <1>3, <1>9
  <2> QED BY <1>3, <2>1, <2>6, <2>7 DEF t
<1>10. CASE ~Breaks(n) /\ m = 0
  <2> DEFINE calls == <<r>>
  <2>1. first = none /\ second = calls
    BY <1>2, <1>10
  <2>2. Opened(t) = NoPieces
    BY <1>10 DEF OpenLine, m, t
  <2>3. /\ t \o Written(calls) = Append(t, q) /\ calls \in Seq(Seq(Pieces))
    BY <1>1, <1>6, <1>7, <1>8, OnePieceMore
  <2>4. none \o calls = calls
    <3> DEFINE S == Seq(Pieces)
    <3>1. calls \in Seq(S)
      BY <2>3
    <3> HIDE DEF calls, S
    <3> QED BY <3>1
  <2> HIDE DEF calls
  <2>5. /\ t \o Written(Append(calls, e)) = Append(t \o Written(calls), p)
        /\ calls \o <<e>> = Append(calls, e)
    BY <1>1, <1>6, <1>8, <2>3, OnePieceMore
  <2>6. terminal' = Append(Append(t, q), p)
    <3>1. first \o second \o <<e>> = Append(calls, e)
      BY <2>1, <2>4, <2>5
    <3> HIDE DEF first, second
    <3> QED BY <1>3, <2>3, <2>5, <3>1
  <2>7. /\ Proper(terminal', ps) /\ OpenLine(terminal', n, cli_msgid)
        /\ Told(terminal') <=> Told(t)
    BY <2>2, <2>6, EntryStarts DEF p, q, t
  <2>8. myLength' = n
    BY <1>3, <1>10
  <2> QED BY <1>3, <2>7, <2>8 DEF t
<1>11. CASE ~Breaks(n) /\ m # 0
  <2> DEFINE calls == <<e>>
  <2>1. first = none /\ second = none
    BY <1>11
  <2>2. m + n <= OutMax /\ m \in Nat \ {0}
    BY <1>4, <1>5, <1>11
  <2>3. /\ t \o Written(calls) = Append(t, p) /\ calls \in Seq(Seq(Pieces))
    BY <1>1, <1>6, <1>7, <1>8, OnePieceMore
  <2>4. none \o calls = calls
    <3> DEFINE S == Seq(Pieces)
    <3>1. calls \in Seq(S)
      BY <2>3
    <3> HIDE DEF calls, S
    <3> QED BY <3>1
  <2>5. terminal' = Append(t, p)
    <3> HIDE DEF none, calls
    <3>1. first \o second \o calls = calls
      BY <1>7, <2>1, <2>4
    <3> HIDE DEF first, second
    <3> QED BY <1>3, <2>3, <3>1 DEF calls
  <2>6. OpenLine(t, m, cli_msgid)
    BY DEF t, m
  <2>7. /\ Proper(terminal', ps) /\ OpenLine(terminal', m + n, cli_msgid)
        /\ Told(terminal') <=> Told(t)
    BY <2>2, <2>5, <2>6, EntryOnLine DEF p, t
  <2>8. myLength' = m + n
    BY <1>3, <1>11
  <2> QED BY <1>3, <1>5, <2>7, <2>8 DEF t
<1> QED BY <1>9, <1>10, <1>11

\* A call more on the terminal that ends the line
LEMMA LineMore ==
  ASSUME NEW t \in Seq(Pieces), NEW calls \in Seq(Seq(Pieces)), NEW p \in Pieces,
         p.c \notin {"\r", "\n"}
  PROVE  LET cr == Piece("\r")
             lf == Piece("\n")
             w  == t \o Written(calls)
         IN  /\ t \o Written(Append(calls, <<p, lf>>)) = Append(Append(Append(w, p), cr), lf)
             /\ t \o Written(Append(calls, <<lf>>)) = Append(Append(w, cr), lf)
             /\ w \in Seq(Pieces) /\ <<p, lf>> \in Seq(Pieces) /\ <<lf>> \in Seq(Pieces)
<1> DEFINE cr == Piece("\r")
           lf == Piece("\n")
           w == t \o Written(calls)
           s == <<p, lf>>
           nl == <<lf>>
           two == <<p, cr>>
<1>1. cr \in Pieces /\ lf \in Pieces /\ lf.c = "\n"
  BY PiecesIn
<1>2. Crlf(s) = <<p, cr, lf>>
  BY CrlfTwo
<1>3. Crlf(nl) = <<cr, lf>>
  BY <1>1, CrlfOne
<1> HIDE DEF cr, lf
<1>4. s \in Seq(Pieces) /\ nl \in Seq(Pieces)
  BY <1>1
<1>5. two \in Seq(Pieces)
  BY <1>1
<1>6. <<p, cr, lf>> = Append(two, lf)
  BY <1>1
<1> HIDE DEF s, nl
<1>7. /\ w \in Seq(Pieces)
      /\ t \o Written(Append(calls, s)) = w \o Crlf(s)
      /\ t \o Written(Append(calls, nl)) = w \o Crlf(nl)
  BY <1>4, TerminalMore
<1> HIDE DEF w
<1>8. w \o <<cr, lf>> = Append(Append(w, cr), lf)
  BY <1>1, <1>7, Behind
<1>9. w \o two = Append(Append(w, p), cr)
  BY <1>1, <1>7, Behind
<1> HIDE DEF two
<1>10. w \o Append(two, lf) = Append(w \o two, lf)
  BY <1>1, <1>5, <1>7, Behind
<1>11. w \o Crlf(s) = Append(Append(Append(w, p), cr), lf)
  BY <1>2, <1>6, <1>9, <1>10
<1>12. w \o Crlf(nl) = Append(Append(w, cr), lf)
  BY <1>3, <1>8
<1> QED BY <1>4, <1>7, <1>11, <1>12 DEF cr, lf, w, s, nl

\* The message id
IdPiece == [c |-> "@", id |-> cli_msgid]

\* It is one of the pieces.
LEMMA IdPieceIn ==
  ASSUME cli_msgid \in Ids
  PROVE  IdPiece \in Pieces /\ IdPiece.c = "@" /\ IdPiece.id = cli_msgid
<1>1. "@" \in Kinds
  BY DEF Kinds
<1> QED BY <1>1 DEF IdPiece, Pieces

\* A refused command is told with no other message id than its own.
LEMMA FailureAdds ==
  ASSUME NEW t, NEW ps, Proper(t, ps), cli_msgid \in Ids,
         cli_msgid # NoId => \E k \in 1 .. Len(ps) : Mid(ps[k]) /\ ps[k].val = cli_msgid
  PROVE  LET u == t \o Written(ReplyMessage("", "error")) IN Proper(u, ps) /\ Told(u)
<1> DEFINE cr == Piece("\r")
           lf == Piece("\n")
           p == Piece("cli_reply")
           q == IdPiece
           colon == Piece(": ")
           err == Piece("error")
           A == <<p>>
           I == <<q, lf>>
           C == <<colon>>
           E == <<err>>
           N == <<lf>>
           none == <<>>
           one == <<A>>
           head == IF cli_msgid # NoId THEN Append(one, I) ELSE one
           calls == Append(Append(Append(head, C), E), N)
           v == t \o Written(head)
           x == Append(v, colon)
           y == Append(x, err)
           u == Append(Append(y, cr), lf)
<1>1. /\ p \in Pieces /\ p.c = "cli_reply" /\ colon \in Pieces /\ colon.c = ": "
      /\ err \in Pieces /\ err.c = "error" /\ lf \in Pieces /\ cr \in Pieces
  BY PiecesIn
<1>2. q \in Pieces /\ q.c = "@" /\ q.id = cli_msgid
  BY IdPieceIn
<1>3. t \in Seq(Pieces)
  BY DEF Proper
<1>4. ReplyMessage("", "error") =
        (((one \o (IF cli_msgid # NoId THEN <<I>> ELSE none)) \o none) \o <<C>>) \o <<E, N>>
  BY DEF ReplyMessage, Message, Words, NewLine, IdPiece
<1> HIDE DEF cr, lf, p, q, colon, err
<1>5. /\ A \in Seq(Pieces) /\ I \in Seq(Pieces) /\ C \in Seq(Pieces)
      /\ E \in Seq(Pieces) /\ N \in Seq(Pieces)
  <2>1. p \in Pieces /\ q \in Pieces /\ lf \in Pieces /\ colon \in Pieces /\ err \in Pieces
    BY <1>1, <1>2
  <2>2. A \in Seq(Pieces)
    BY <2>1
  <2>3. I \in Seq(Pieces)
    BY <2>1
  <2>4. C \in Seq(Pieces)
    BY <2>1
  <2>5. E \in Seq(Pieces)
    BY <2>1
  <2>6. N \in Seq(Pieces)
    BY <2>1
  <2> QED BY <2>2, <2>3, <2>4, <2>5, <2>6
<1> DEFINE S == Seq(Pieces)
<1>6. A \in S /\ I \in S /\ C \in S /\ E \in S /\ N \in S
  BY <1>5
<1> HIDE DEF A, I, C, E, N, S
<1>7. one \in Seq(S) /\ none \in Seq(S) /\ one \o <<I>> = Append(one, I) /\ one \o none = one
  BY <1>6
<1> HIDE DEF one
<1>8. head \in Seq(S)
  <2>1. Append(one, I) \in Seq(S)
    BY <1>6, <1>7
  <2> QED BY <1>7, <2>1
<1>9. one \o (IF cli_msgid # NoId THEN <<I>> ELSE none) = head
  BY <1>7
<1> HIDE DEF head, none
<1>10. head \o none = head /\ head \o <<C>> = Append(head, C)
       /\ Append(head, C) \in Seq(S) /\ Append(Append(head, C), E) \in Seq(S)
  BY <1>6, <1>8 DEF none
<1>11. Append(head, C) \o <<E, N>> = calls
  <2> DEFINE h == Append(head, C)
  <2>1. h \in Seq(S)
    BY <1>10
  <2> HIDE DEF h
  <2>2. h \o <<E, N>> = Append(Append(h, E), N)
    BY <1>6, <2>1
  <2> QED BY <2>2 DEF h
<1>12. ReplyMessage("", "error") = calls
  BY <1>4, <1>9, <1>10, <1>11
<1>13. IsWord(p) /\ IsWord(colon) /\ IsWord(err)
  BY <1>1 DEF IsWord
<1>14. t \o Written(one) = Append(t, p)
  <2>1. none \in Seq(Seq(Pieces))
    BY <1>7 DEF S
  <2>2. p.c \notin {"\r", "\n"}
    BY <1>1
  <2> QED BY <1>1, <1>3, <2>1, <2>2, OnePieceMore DEF one, A
<1>15. Proper(Append(t, p), ps)
  BY <1>13, WordAdds
<1>16. Proper(v, ps) /\ v \in Seq(Pieces)
  <2>1. CASE cli_msgid = NoId
    <3>1. v = Append(t, p)
      BY <1>14, <2>1 DEF head
    <3> QED BY <1>15, <3>1 DEF Proper
  <2>2. CASE cli_msgid # NoId
    <3> DEFINE a == Append(t, p)
               b == Append(a, q)
               c == Append(Append(b, cr), lf)
    <3>1. one \in Seq(Seq(Pieces)) /\ q.c \notin {"\r", "\n"}
      BY <1>2, <1>7 DEF S
    <3>2. t \o Written(Append(one, I)) = Append(Append(Append(t \o Written(one), q), cr), lf)
      BY <1>2, <1>3, <3>1, LineMore DEF I, cr, lf
    <3>3. v = c
      BY <1>14, <2>2, <3>2 DEF head
    <3>4. Proper(a, ps)
      BY <1>15
    <3> HIDE DEF a
    <3>5. MayFollow(a, q, ps)
      <4>1. IdGiven(q, ps)
        BY <1>2, <2>2 DEF IdGiven
      <4> QED BY <1>2, <4>1 DEF MayFollow
    <3>6. Proper(b, ps)
      BY <3>4, <3>5, PieceAdds
    <3> HIDE DEF b
    <3>7. Proper(c, ps)
      BY <3>6, LineEnds DEF cr, lf
    <3> QED BY <3>3, <3>7 DEF Proper
  <2> QED BY <2>1, <2>2
<1>17. t \o Written(Append(head, C)) = x
  <2>1. head \in Seq(Seq(Pieces))
    BY <1>8 DEF S
  <2>2. colon.c \notin {"\r", "\n"}
    BY <1>1
  <2> QED BY <1>1, <1>3, <2>1, <2>2, OnePieceMore DEF C
<1>18. Proper(x, ps)
  BY <1>13, <1>16, WordAdds
<1> HIDE DEF v, x
<1>19. t \o Written(Append(Append(head, C), E)) = y
  <2> DEFINE h == Append(head, C)
  <2>1. h \in Seq(Seq(Pieces)) /\ t \o Written(h) = x
    BY <1>10, <1>17 DEF S
  <2> HIDE DEF h
  <2>2. err.c \notin {"\r", "\n"}
    BY <1>1
  <2>3. t \o Written(Append(h, E)) = y
    BY <1>1, <1>3, <2>1, <2>2, OnePieceMore DEF E
  <2> QED BY <2>3 DEF h
<1>20. Proper(y, ps) /\ Told(y)
  BY <1>1, <1>13, <1>18, WordAdds
<1> HIDE DEF y
<1>21. t \o Written(calls) = u
  <2> DEFINE h == Append(Append(head, C), E)
  <2>1. h \in Seq(Seq(Pieces)) /\ t \o Written(h) = y
    BY <1>10, <1>19 DEF S
  <2>2. err.c \notin {"\r", "\n"}
    BY <1>1
  <2> HIDE DEF h
  <2>3. t \o Written(Append(h, N)) = Append(Append(t \o Written(h), cr), lf)
    BY <1>1, <1>3, <2>1, <2>2, LineMore DEF N, lf, cr
  <2>4. calls = Append(h, N)
    BY DEF h
  <2> HIDE DEF calls
  <2> QED BY <2>1, <2>3, <2>4
<1>22. Proper(u, ps) /\ Told(u)
  BY <1>20, LineEnds DEF cr, lf
<1> QED BY <1>12, <1>21, <1>22

--------------------------------------------------------------------------------
(* What is on the terminal *)

\* A line on which nothing is asks for nothing.
LEMMA EmptyIsRight ==
  ASSUME NEW ps \in Seq(Params), NEW n \in Nat \ {0}, LineOf(ps, n) = <<>>
  PROVE  ~Wrong(ps) /\ Asked(ps) = <<>>
<1> DEFINE s == LineOf(ps, n)
           l == Len(ps)
           m == Len(s)
<1>1. PICK at \in [0 .. l -> Nat \ {0}] :
           /\ s \in Seq(Chars)
           /\ at[0] = n /\ at[l] = m + 1
           /\ \A k \in 1 .. n - 1 : s[k] = " "
           /\ \A i \in 0 .. l : at[i] <= m + 1
           /\ \A i \in 1 .. l :
                /\ at[i] = at[i - 1] + Len(Typed(ps[i])) + n
                /\ \A k \in 1 .. Len(Typed(ps[i])) : s[at[i - 1] + k - 1] = Typed(ps[i])[k]
                /\ \A k \in at[i - 1] + Len(Typed(ps[i])) .. at[i] - 1 : s[k] = " "
  BY LineParts
<1>2. m = 0 /\ l \in Nat
  BY LenProperties
<1>3. PICK asked \in [0 .. l -> Seq(Params)] : Asked(ps) = asked[l] /\ asked[0] = <<>>
  BY AskedDef
<1>4. DOMAIN ps = 1 .. l
  BY LenProperties
<1> HIDE DEF m, s
<1>5. l = 0
  <2> SUFFICES ASSUME l # 0 PROVE FALSE
    OBVIOUS
  <2> DEFINE c == Len(Typed(ps[1]))
  <2>1. 1 \in 1 .. l /\ 1 \in 0 .. l /\ 0 \in 0 .. l /\ 1 - 1 = 0
    BY <1>2
  <2>2. ps[1] \in Params
    BY <2>1, ElementOfSeq
  <2>3. Typed(ps[1]) \in Seq(Chars)
    BY <2>2, TypedChars
  <2>4. c \in Nat
    BY <2>3, LenProperties
  <2> HIDE DEF c
  <2>5. at[1] = at[0] + c + n
    BY <1>1, <2>1 DEF c
  <2>6. at[1] <= m + 1 /\ at[0] = n
    BY <1>1, <2>1
  <2> QED BY <1>2, <2>4, <2>5, <2>6
<1> HIDE DEF l
<1>6. Asked(ps) = <<>> /\ ~(Len(<<>>) >= MaxPar)
  BY <1>3, <1>5, SizesAssumption
<1>7. \A i \in DOMAIN ps : FALSE
  BY <1>4, <1>5
<1> QED BY <1>6, <1>7 DEF Wrong

\* What is known of a text line while it is worked on
LineFacts(s, ps) ==
  /\ ps \in Seq(Params)
  /\ ParsedAs(ParseLine(s), ps)
  /\ MessageId(s) \in Ids
  /\ MessageId(s) # NoId => \E k \in 1 .. Len(ps) : Mid(ps[k]) /\ ps[k].val = MessageId(s)
  /\ ~Wrong(ps) => IsAskedId(ps, MessageId(s))
  /\ s = <<>> => ~Wrong(ps) /\ Asked(ps) = <<>>
  /\ s # <<>> => Head(s) # "{"

\* It is known of each line of parameters.
LEMMA FactsOfLine ==
  ASSUME NEW ps \in Seq(Params), NEW n \in Nat \ {0}
  PROVE  LineFacts(LineOf(ps, n), ps)
<1> DEFINE s == LineOf(ps, n)
           mid == ParseLine(s).mid
           r == ParseLine(s)
<1>1. ParsedAs(r, ps)
  BY ParseAsked
<1>2. s = <<>> => ~Wrong(ps) /\ Asked(ps) = <<>>
  BY EmptyIsRight
<1>3. s # <<>> => Head(s) # "{"
  BY LineHead
<1>4. MessageId(s) = IF mid = NoVal THEN NoId ELSE mid
  BY DEF MessageId
<1>5. mid = NoVal \/ \E k \in 1 .. Len(ps) : Mid(ps[k]) /\ mid = ps[k].val
  BY <1>1 DEF ParsedAs
<1>6. \A k \in 1 .. Len(ps) : Mid(ps[k]) => ps[k].val \in Seq(Chars) /\ ps[k].val # NoVal
  <2> SUFFICES ASSUME NEW k \in 1 .. Len(ps), Mid(ps[k])
               PROVE  ps[k].val \in Seq(Chars) /\ ps[k].val # NoVal
    OBVIOUS
  <2>1. ps[k] \in Params
    BY ElementOfSeq
  <2>2. ps[k].val # NoVal
    BY DEF Mid
  <2> QED BY <2>1, <2>2, KeyAndValueText
<1>7. ~Wrong(ps) => MidOf(mid, ps, Len(ps))
  <2>1. r.n \in Int /\ (r.n < 0 <=> Wrong(ps)) /\ (r.n >= 0 => MidOf(r.mid, ps, Len(ps)))
    BY <1>1 DEF ParsedAs
  <2> DEFINE z == r.n
  <2> HIDE DEF z
  <2>2. ~(z < 0) /\ z \in Int => z >= 0
    OBVIOUS
  <2> QED BY <2>1, <2>2 DEF z
<1>8. ~Wrong(ps) => IsAskedId(ps, MessageId(s))
  BY <1>7, IdIsAsked
<1> HIDE DEF s, mid, r
<1>9. MessageId(s) \in Ids
  BY <1>4, <1>5, <1>6 DEF Ids
<1>10. MessageId(s) # NoId => \E k \in 1 .. Len(ps) : Mid(ps[k]) /\ ps[k].val = MessageId(s)
  BY <1>4, <1>5
<1> QED BY <1>1, <1>2, <1>3, <1>8, <1>9, <1>10 DEF LineFacts, s, r

\* A line that is worked on is the text line or the JSON text that is asked for.
LEMMA LineInWork ==
  ASSUME EditInv, ReadInv, line # NoLine
  PROVE  /\ want # NoVal /\ todo = <<>>
         /\ want.json => line # <<>> /\ Head(line) = "{" /\ \E d \in Docs : want.doc = d
         /\ ~want.json => LineFacts(line, want.pars)
<1>1. want # NoVal /\ todo = <<>> /\ line = want.text /\ want \in Lines
  BY DEF ReadInv, EditInv
<1>2. CASE \E ps \in Seq(Params), n \in {1, 2} : want = TextLine(ps, n)
  <2>1. PICK ps \in Seq(Params), n \in {1, 2} : want = TextLine(ps, n)
    BY <1>2
  <2>2. ~want.json /\ want.pars = ps /\ line = LineOf(ps, n)
    BY <1>1, <2>1 DEF TextLine
  <2>3. n \in Nat \ {0}
    OBVIOUS
  <2>4. LineFacts(LineOf(ps, n), ps)
    BY <2>3, FactsOfLine
  <2> QED BY <1>1, <2>2, <2>4
<1>3. CASE \E d \in Docs : want = JsonLine(d)
  <2>1. PICK d \in Docs : want = JsonLine(d)
    BY <1>3
  <2> DEFINE t == <<"{", "quote", ";", "quote", "}">>
  <2>2. want.json /\ want.doc = d /\ line = t
    BY <1>1, <2>1 DEF JsonLine
  <2>3. t # <<>> /\ Head(t) = "{"
    OBVIOUS
  <2> HIDE DEF t
  <2> QED BY <1>1, <2>2, <2>3
<1> QED BY <1>1, <1>2, <1>3, LineKinds

\* A line is put together to be typed with a ";" behind it.
LEMMA TypedIsSome ==
  ASSUME NEW u \in Lines
  PROVE  (u.text \o <<";">>) # <<>>
<1> DEFINE e == <<";">>
           t == u.text
<1>1. t \in Seq(Chars)
  BY LineChars
<1>2. ";" \in Chars
  BY DEF Chars
<1>3. e \in Seq(Chars) /\ Len(e) = 1
  BY <1>2, Few
<1> HIDE DEF e, t
<1>4. t \o e \in Seq(Chars) /\ Len(t \o e) = Len(t) + Len(e) /\ Len(t) \in Nat
  BY <1>1, <1>3, ConcatProperties, LenProperties
<1>5. t \o e # <<>>
  BY <1>3, <1>4, EmptySeq
<1> QED BY <1>5 DEF e, t

\* Nothing is printed before a text line is worked on, or for a JSON text.
Quiet == want = NoVal \/ todo # <<>> \/ want.json \/ (line # NoLine /\ phase = "idle")

\* What is printed for a text line
Printed ==
  /\ Proper(terminal, want.pars)
  /\ phase = "failed" =>
       /\ Wrong(want.pars) /\ ~Told(terminal) /\ myLength = 0
       /\ cli_msgid # NoId => \E k \in 1 .. Len(want.pars) :
                                Mid(want.pars[k]) /\ want.pars[k].val = cli_msgid
  /\ phase = "reply" =>
       /\ ~Wrong(want.pars) /\ ~Told(terminal)
       /\ IsAskedId(want.pars, cli_msgid) /\ OpenLine(terminal, myLength, cli_msgid)
  /\ phase = "idle" =>
       /\ Told(terminal) <=> Wrong(want.pars)
       /\ myLength = 0
       /\ terminal = <<>> \/ terminal[Len(terminal)].c = "\n"

\* What has been printed is as far as the command is, and the line that is open is the one
\* whose length is counted.
OutInv ==
  /\ myLength \in Nat /\ cli_msgid \in Ids
  /\ phase \in {"idle", "failed", "reply", "json", "overrun"}
  /\ phase \in {"json", "overrun"} => want.json
  /\ phase \in {"failed", "reply"} => ~want.json
  /\ Quiet => terminal = <<>> /\ myLength = 0
  /\ ~Quiet => Printed

\* Initially nothing is printed.
LEMMA OutInvInit == Init => OutInv
<1> SUFFICES ASSUME Init PROVE OutInv
  OBVIOUS
<1>1. NoId \in Ids /\ 0 \in Nat
  BY DEF Ids
<1>2. want = NoVal /\ phase = "idle" /\ terminal = <<>> /\ myLength = 0 /\ cli_msgid = NoId
  BY DEF Init, OutInit
<1> QED BY <1>1, <1>2 DEF OutInv, Quiet

\* While the user types there is more to type, until the line is complete.
LEMMA KeysGoOn ==
  ASSUME EditInv, EditInv', ReadInv, ReadInv', TypeNext \/ Slip \/ Correct \/ Restart
  PROVE  /\ UNCHANGED <<outvars, want, phase, handled>> /\ phase = "idle" /\ want # NoVal
         /\ todo # <<>> /\ (todo' # <<>> \/ line' # NoLine)
<1>1. UNCHANGED <<outvars, want, phase, handled>>
  BY DEF TypeNext, Slip, Correct, Restart, Typing
<1>2. todo # <<>>
  <2>1. CASE TypeNext \/ Slip \/ Restart
    BY <2>1 DEF TypeNext, Slip, Restart
  <2>2. CASE Correct
    <3>1. wrong # 0
      BY <2>2 DEF Correct
    <3> QED BY <3>1 DEF ReadInv
  <2> QED BY <2>1, <2>2
<1>3. phase = "idle" /\ want # NoVal /\ want \in Lines
  BY <1>2 DEF ReadInv, EditInv
<1>4. todo' # <<>> \/ line' # NoLine
  <2>1. CASE TypeNext
    <3> DEFINE c == Head(todo)
    <3>1. ReadChar(c)
      BY <2>1 DEF TypeNext
    <3>2. c \in Chars
      BY <1>2, HeadTailProperties DEF EditInv
    <3> HIDE DEF c
    <3>3. CASE c = ";" /\ quote_count % 2 = 0
      <4>1. EndOfLine
        BY <3>1, <3>2, <3>3, NoEditKey DEF ReadChar
      <4>2. line' = chars /\ chars \in Seq(Chars)
        BY <4>1 DEF EndOfLine, EditInv
      <4>3. line' # NoLine
        BY <4>2, CharsAssumption
      <4> QED BY <4>3
    <3>4. CASE ~(c = ";" /\ quote_count % 2 = 0)
      <4>1. chars' = Append(chars, c)
        BY <3>1, <3>2, <3>4, ReadAdds
      <4>2. chars \in Seq(Chars)
        BY DEF EditInv
      <4>3. chars' # <<>>
        BY <3>2, <4>1, <4>2
      <4>4. todo' # <<>>
        BY <4>3 DEF ReadInv
      <4> QED BY <4>4
    <3> QED BY <3>3, <3>4
  <2>2. CASE Slip \/ Correct
    <3>1. todo' = todo
      BY <2>2 DEF Slip, Correct
    <3> QED BY <1>2, <3>1
  <2>3. CASE Restart
    <3>1. todo' = want.text \o <<";">>
      BY <2>3 DEF Restart
    <3>2. todo' # <<>>
      BY <1>3, <3>1, TypedIsSome
    <3> QED BY <3>2
  <2> QED BY <2>1, <2>2, <2>3
<1> QED BY <1>1, <1>2, <1>3, <1>4

\* The user's keys print nothing.
LEMMA KeysPrintNothing ==
  ASSUME EditInv, EditInv', ReadInv, ReadInv', OutInv,
         TypeNext \/ Slip \/ Correct \/ Restart
  PROVE  OutInv'
<1>1. /\ UNCHANGED outvars /\ want' = want /\ phase' = phase /\ phase = "idle" /\ todo # <<>>
      /\ todo' # <<>> \/ line' # NoLine
  BY KeysGoOn
<1>2. Quiet /\ Quiet'
  BY <1>1 DEF Quiet
<1> QED BY <1>1, <1>2 DEF OutInv, outvars

\* What is known of a line of parameters when it is begun with
LEMMA Begun ==
  ASSUME EditInv, ReadInv, OutInv, IsText
  PROVE  /\ want # NoVal /\ todo = <<>> /\ ~want.json /\ phase = "idle" /\ line # NoLine
         /\ terminal = <<>> /\ myLength = 0 /\ LineFacts(line, want.pars)
<1>1. phase = "idle" /\ line # NoLine /\ (line # <<>> => Head(line) # "{")
  BY DEF IsText
<1>2. /\ want # NoVal /\ todo = <<>>
      /\ want.json => line # <<>> /\ Head(line) = "{"
      /\ ~want.json => LineFacts(line, want.pars)
  BY <1>1, LineInWork
<1>3. Quiet
  BY <1>1 DEF Quiet
<1> QED BY <1>1, <1>2, <1>3 DEF OutInv

\* An empty line is not answered.
LEMMA IgnoreEmptyKeeps ==
  ASSUME EditInv, ReadInv, OutInv, IgnoreEmpty
  PROVE  OutInv'
<1>1. IsText /\ line = <<>> /\ line' = NoLine /\ phase' = phase /\ want' = want
      /\ todo' = todo /\ terminal' = terminal /\ myLength' = myLength /\ cli_msgid' = cli_msgid
  BY DEF IgnoreEmpty, Done, outvars, uservars
<1>2. /\ want # NoVal /\ todo = <<>> /\ ~want.json /\ phase = "idle"
      /\ terminal = <<>> /\ myLength = 0 /\ LineFacts(line, want.pars)
  BY <1>1, Begun
<1>3. ~Wrong(want.pars)
  BY <1>1, <1>2 DEF LineFacts
<1>4. Proper(terminal, want.pars) /\ ~Told(terminal)
  BY <1>2, ProperEmpty
<1>5. ~Quiet'
  BY <1>1, <1>2 DEF Quiet
<1>6. Printed'
  BY <1>1, <1>2, <1>3, <1>4 DEF Printed
<1> QED BY <1>1, <1>2, <1>5, <1>6 DEF OutInv

\* A line without a command is not wrong.
LEMMA NoCommandKeeps ==
  ASSUME EditInv, ReadInv, OutInv, NoCommand
  PROVE  OutInv'
<1>1. IsText /\ ParseLine(line).n = 0 /\ line' = NoLine /\ phase' = phase /\ want' = want
      /\ todo' = todo /\ terminal' = terminal \o PutLf \o Ready /\ myLength' = myLength
      /\ cli_msgid' = MessageId(line)
  BY DEF NoCommand, Done, uservars, IsText
<1>2. /\ want # NoVal /\ todo = <<>> /\ ~want.json /\ phase = "idle"
      /\ terminal = <<>> /\ myLength = 0 /\ LineFacts(line, want.pars)
  BY <1>1, Begun
<1> DEFINE ps == want.pars
           a == terminal \o PutLf
           b == a \o Ready
<1>3. ~Wrong(ps) /\ cli_msgid' \in Ids
  <2> DEFINE z == ParseLine(line).n
  <2>1. (z < 0 <=> Wrong(ps)) /\ z = 0 /\ MessageId(line) \in Ids
    BY <1>1, <1>2 DEF LineFacts, ParsedAs
  <2> HIDE DEF z
  <2>2. ~(z < 0)
    BY <2>1
  <2> QED BY <1>1, <2>1, <2>2
<1>4. Proper(terminal, ps) /\ ~Told(terminal)
  BY <1>2, ProperEmpty
<1>5. Proper(a, ps) /\ ~Told(a)
  BY <1>4, PutLfAdds
<1> HIDE DEF a
<1>6. Proper(b, ps) /\ ~Told(b) /\ b[Len(b)].c = "\n"
  BY <1>5, ReadyAdds
<1>7. terminal' = b
  BY <1>1 DEF a
<1> HIDE DEF b
<1>8. ~Quiet'
  BY <1>1, <1>2 DEF Quiet
<1>9. Printed'
  BY <1>1, <1>2, <1>3, <1>6, <1>7 DEF Printed
<1> QED BY <1>1, <1>2, <1>3, <1>8, <1>9 DEF OutInv

\* What is refused is wrong.
LEMMA RefuseKeeps ==
  ASSUME EditInv, ReadInv, OutInv, Refuse
  PROVE  OutInv'
<1>1. IsText /\ ParseLine(line).n < 0 /\ line' = line /\ phase' = "failed" /\ want' = want
      /\ todo' = todo /\ terminal' = terminal \o PutLf /\ myLength' = myLength
      /\ cli_msgid' = MessageId(line)
  BY DEF Refuse, bufvars, uservars
<1>2. /\ want # NoVal /\ todo = <<>> /\ ~want.json
      /\ terminal = <<>> /\ myLength = 0 /\ LineFacts(line, want.pars)
  BY <1>1, Begun
<1> DEFINE ps == want.pars
           a == terminal \o PutLf
<1>3. /\ Wrong(ps) /\ cli_msgid' \in Ids
      /\ cli_msgid' # NoId => \E k \in 1 .. Len(ps) : Mid(ps[k]) /\ ps[k].val = cli_msgid'
  BY <1>1, <1>2 DEF LineFacts, ParsedAs
<1>4. Proper(terminal, ps) /\ ~Told(terminal)
  BY <1>2, ProperEmpty
<1>5. Proper(a, ps) /\ ~Told(a)
  BY <1>4, PutLfAdds
<1> HIDE DEF a
<1>6. ~Quiet'
  BY <1>1, <1>2 DEF Quiet
<1>7. Printed'
  BY <1>1, <1>2, <1>3, <1>5 DEF Printed, a
<1> QED BY <1>1, <1>2, <1>3, <1>6, <1>7 DEF OutInv

\* The user is told.
LEMMA ReplyFailureKeeps ==
  ASSUME EditInv, ReadInv, OutInv, ReplyFailure
  PROVE  OutInv'
<1> DEFINE ps == want.pars
           a == terminal \o Written(ReplyMessage("", "error"))
           b == a \o Ready
<1>1. phase = "failed" /\ line' = NoLine /\ phase' = "idle" /\ want' = want /\ todo' = todo
      /\ terminal' = b /\ myLength' = myLength /\ cli_msgid' = cli_msgid
  BY DEF ReplyFailure, Done, uservars
<1>2. line # NoLine
  BY <1>1 DEF EditInv
<1>3. want # NoVal /\ todo = <<>> /\ ~want.json
  BY <1>1, <1>2, LineInWork DEF OutInv
<1>4. ~Quiet
  BY <1>1, <1>3 DEF Quiet
<1>5. /\ Proper(terminal, ps) /\ Wrong(ps) /\ myLength = 0 /\ cli_msgid \in Ids
      /\ cli_msgid # NoId => \E k \in 1 .. Len(ps) : Mid(ps[k]) /\ ps[k].val = cli_msgid
  BY <1>1, <1>4 DEF OutInv, Printed
<1>6. Proper(a, ps) /\ Told(a)
  <2> DEFINE t == terminal
  <2> HIDE DEF ps
  <2>1. Proper(t, ps)
    BY <1>5
  <2> HIDE DEF t
  <2>2. /\ Proper(t \o Written(ReplyMessage("", "error")), ps)
        /\ Told(t \o Written(ReplyMessage("", "error")))
    BY <1>5, <2>1, FailureAdds
  <2> QED BY <2>2 DEF t
<1> HIDE DEF a
<1>7. Proper(b, ps) /\ Told(b) /\ b[Len(b)].c = "\n"
  BY <1>6, ReadyAdds
<1> HIDE DEF b
<1>8. ~Quiet'
  BY <1>1, <1>3 DEF Quiet
<1>9. Printed'
  BY <1>1, <1>5, <1>7 DEF Printed
<1> QED BY <1>1, <1>5, <1>8, <1>9 DEF OutInv

\* What is processed is right.
LEMMA ProcessKeeps ==
  ASSUME EditInv, ReadInv, OutInv, Process
  PROVE  OutInv'
<1>1. IsText /\ ParseLine(line).n > 0 /\ line' = line /\ phase' = "reply" /\ want' = want
      /\ todo' = todo /\ terminal' = terminal \o PutLf /\ myLength' = myLength
      /\ cli_msgid' = MessageId(line)
  BY DEF Process, bufvars, uservars
<1>2. /\ want # NoVal /\ todo = <<>> /\ ~want.json
      /\ terminal = <<>> /\ myLength = 0 /\ LineFacts(line, want.pars)
  BY <1>1, Begun
<1> DEFINE ps == want.pars
           a == terminal \o PutLf
<1>3. ~Wrong(ps)
  <2> DEFINE z == ParseLine(line).n
  <2>1. z \in Int /\ (z < 0 <=> Wrong(ps)) /\ z > 0
    BY <1>1, <1>2 DEF LineFacts, ParsedAs
  <2> HIDE DEF z
  <2> QED BY <2>1
<1>4. cli_msgid' \in Ids /\ IsAskedId(ps, cli_msgid')
  BY <1>1, <1>2, <1>3 DEF LineFacts
<1>5. Proper(terminal, ps) /\ ~Told(terminal)
  BY <1>2, ProperEmpty
<1>6. Proper(a, ps) /\ ~Told(a) /\ Opened(a) = NoPieces
  BY <1>5, PutLfAdds
<1> HIDE DEF a
<1>7. ~Quiet'
  BY <1>1, <1>2 DEF Quiet
<1>8. OpenLine(terminal', myLength', cli_msgid')
  BY <1>1, <1>2, <1>6 DEF OpenLine, a
<1>9. Printed'
  BY <1>1, <1>2, <1>3, <1>4, <1>6, <1>8 DEF Printed, a
<1> QED BY <1>1, <1>2, <1>4, <1>7, <1>9 DEF OutInv

\* What is known while the handler runs
LEMMA Replying ==
  ASSUME EditInv, ReadInv, OutInv, phase = "reply"
  PROVE  /\ line # NoLine /\ want # NoVal /\ todo = <<>> /\ ~want.json /\ ~Quiet
         /\ Proper(terminal, want.pars) /\ ~Wrong(want.pars) /\ ~Told(terminal)
         /\ IsAskedId(want.pars, cli_msgid) /\ OpenLine(terminal, myLength, cli_msgid)
         /\ cli_msgid \in Ids /\ myLength \in Nat
<1>1. line # NoLine
  BY DEF EditInv
<1>2. want # NoVal /\ todo = <<>> /\ ~want.json
  BY <1>1, LineInWork DEF OutInv
<1>3. ~Quiet
  BY <1>2 DEF Quiet
<1> QED BY <1>1, <1>2, <1>3 DEF OutInv, Printed

\* An entry is on its line.
LEMMA PrintEntryKeeps ==
  ASSUME EditInv, ReadInv, OutInv, PrintEntry
  PROVE  OutInv'
<1>1. phase = "reply" /\ phase' = phase /\ line' = line /\ want' = want /\ todo' = todo
  BY DEF PrintEntry, bufvars, uservars
<1>2. PICK n \in EntrySizes : Entry(n)
  BY DEF PrintEntry
<1>3. n \in Nat \ {0}
  BY NamesAssumption
<1> DEFINE ps == want.pars
<1>4. /\ line # NoLine /\ want # NoVal /\ todo = <<>> /\ ~want.json
      /\ Proper(terminal, ps) /\ ~Wrong(ps) /\ ~Told(terminal)
      /\ IsAskedId(ps, cli_msgid) /\ OpenLine(terminal, myLength, cli_msgid)
      /\ cli_msgid \in Ids /\ myLength \in Nat
  BY <1>1, Replying
<1>5. /\ Proper(terminal', ps) /\ OpenLine(terminal', myLength', cli_msgid)
      /\ myLength' \in Nat /\ cli_msgid' = cli_msgid /\ (Told(terminal') <=> Told(terminal))
  BY <1>2, <1>3, <1>4, EntryAdds
<1>6. ~Quiet'
  BY <1>1, <1>4 DEF Quiet
<1>7. Printed'
  BY <1>1, <1>4, <1>5 DEF Printed
<1> QED BY <1>1, <1>4, <1>5, <1>6, <1>7 DEF OutInv

\* A status message leaves the line open.
LEMMA StatusMessageKeeps ==
  ASSUME EditInv, ReadInv, OutInv, StatusMessage
  PROVE  OutInv'
<1> DEFINE ps == want.pars
           a == terminal \o Status
<1>1. phase = "reply" /\ phase' = phase /\ line' = line /\ want' = want /\ todo' = todo
      /\ terminal' = a /\ myLength' = myLength /\ cli_msgid' = cli_msgid
  BY DEF StatusMessage, bufvars, uservars
<1>2. /\ line # NoLine /\ want # NoVal /\ todo = <<>> /\ ~want.json
      /\ Proper(terminal, ps) /\ ~Wrong(ps) /\ ~Told(terminal)
      /\ IsAskedId(ps, cli_msgid) /\ OpenLine(terminal, myLength, cli_msgid)
      /\ cli_msgid \in Ids /\ myLength \in Nat
  BY <1>1, Replying
<1>3. Proper(a, ps) /\ Opened(a) = Opened(terminal) /\ ~Told(a)
  BY <1>2, StatusAdds
<1> HIDE DEF a
<1>4. OpenLine(terminal', myLength', cli_msgid')
  BY <1>1, <1>2, <1>3 DEF OpenLine
<1>5. ~Quiet'
  BY <1>1, <1>2 DEF Quiet
<1>6. Printed'
  BY <1>1, <1>2, <1>3, <1>4 DEF Printed
<1> QED BY <1>1, <1>2, <1>5, <1>6 DEF OutInv

\* The line that is open is ended.
LEMMA RootCloseKeeps ==
  ASSUME EditInv, ReadInv, OutInv, RootClose
  PROVE  OutInv'
<1> DEFINE ps == want.pars
           a == terminal \o (IF myLength > 0 THEN Written(EndLine) ELSE <<>>)
           b == a \o Ready
<1>1. phase = "reply" /\ phase' = "idle" /\ line' = NoLine /\ want' = want /\ todo' = todo
      /\ terminal' = b /\ myLength' = 0 /\ cli_msgid' = cli_msgid
  BY DEF RootClose, CloseLine, Done, uservars
<1>2. /\ want # NoVal /\ todo = <<>> /\ ~want.json
      /\ Proper(terminal, ps) /\ ~Wrong(ps) /\ ~Told(terminal) /\ cli_msgid \in Ids
  BY <1>1, Replying
<1>3. Proper(a, ps) /\ ~Told(a)
  <2>1. CASE myLength > 0
    BY <1>2, <2>1, EndLineAdds
  <2>2. CASE ~(myLength > 0)
    <3>1. terminal \in Seq(Pieces)
      BY <1>2 DEF Proper
    <3>2. terminal \o <<>> = terminal
      BY <3>1
    <3>3. a = terminal
      BY <2>2, <3>2
    <3> HIDE DEF a
    <3> QED BY <1>2, <3>3
  <2> QED BY <2>1, <2>2
<1> HIDE DEF a
<1>4. Proper(b, ps) /\ ~Told(b) /\ b[Len(b)].c = "\n"
  BY <1>3, ReadyAdds
<1> HIDE DEF b
<1>5. ~Quiet'
  BY <1>1, <1>2 DEF Quiet
<1>6. Printed'
  BY <1>1, <1>2, <1>4 DEF Printed
<1> QED BY <1>1, <1>2, <1>5, <1>6 DEF OutInv

\* Each action keeps OutInv.
LEMMA OutInvNext ==
  ASSUME EditInv, EditInv', ReadInv, ReadInv', OutInv, [Next]_vars
  PROVE  OutInv'
<1>1. CASE UNCHANGED vars \/ EnlargeBuffer
  <2>1. UNCHANGED <<outvars, want, todo, line, phase>>
    BY <1>1 DEF vars, bufvars, EnlargeBuffer, Enlarge, uservars
  <2> QED BY <2>1 DEF OutInv, Quiet, Printed, outvars
<1>2. CASE Choose
  <2>1. /\ want = NoVal /\ want' \in Lines /\ todo' = want'.text \o <<";">>
        /\ UNCHANGED outvars /\ phase' = phase
    BY <1>2 DEF Choose
  <2>2. todo' # <<>>
    BY <2>1, TypedIsSome
  <2>3. Quiet /\ Quiet'
    BY <2>1, <2>2 DEF Quiet
  <2>4. phase = "idle"
    BY <2>1 DEF EditInv, ReadInv
  <2> QED BY <2>1, <2>3, <2>4 DEF OutInv, outvars
<1>3. CASE Answered
  <2>1. /\ want' = NoVal /\ terminal' = <<>> /\ myLength' = myLength /\ cli_msgid' = cli_msgid
        /\ phase = "idle" /\ phase' = phase
    BY <1>3 DEF Answered, AtRest
  <2>2. Quiet'
    BY <2>1 DEF Quiet
  <2>3. myLength = 0
    BY <2>1 DEF OutInv, Printed
  <2> QED BY <2>1, <2>2, <2>3 DEF OutInv
<1>4. CASE TypeNext \/ Slip \/ Correct \/ Restart
  BY <1>4, KeysPrintNothing
<1>5. CASE IgnoreEmpty
  BY <1>5, IgnoreEmptyKeeps
<1>6. CASE NoCommand
  BY <1>6, NoCommandKeeps
<1>7. CASE Refuse
  BY <1>7, RefuseKeeps
<1>8. CASE ReplyFailure
  BY <1>8, ReplyFailureKeeps
<1>9. CASE Process
  BY <1>9, ProcessKeeps
<1>10. CASE PrintEntry
  BY <1>10, PrintEntryKeeps
<1>11. CASE StatusMessage
  BY <1>11, StatusMessageKeeps
<1>12. CASE RootClose
  BY <1>12, RootCloseKeeps
<1>13. CASE BeginJson
  <2>1. /\ phase = "idle" /\ line # NoLine /\ ~IsText
        /\ UNCHANGED outvars /\ want' = want /\ phase' = "json"
    BY <1>13 DEF BeginJson, uservars
  <2>2. want.json
    <3> SUFFICES ASSUME ~want.json PROVE FALSE
      OBVIOUS
    <3>1. LineFacts(line, want.pars)
      BY <2>1, LineInWork
    <3>2. line # <<>> => Head(line) # "{"
      BY <3>1 DEF LineFacts
    <3> QED BY <2>1, <3>2 DEF IsText
  <2>3. Quiet /\ Quiet'
    BY <2>1, <2>2 DEF Quiet
  <2> QED BY <2>1, <2>2, <2>3 DEF OutInv, outvars
<1>14. CASE JsonMember \/ CommandMember \/ OtherMember
  <2>1. phase = "json" /\ phase' = phase /\ UNCHANGED outvars /\ want' = want
    BY <1>14 DEF JsonMember, CommandMember, OtherMember, AtCommand, NextMember, Walking,
                 uservars
  <2>2. want.json
    BY <2>1 DEF OutInv
  <2>3. Quiet /\ Quiet'
    BY <2>1, <2>2 DEF Quiet
  <2> QED BY <2>1, <2>2, <2>3 DEF OutInv, outvars
<1>15. CASE EndJson
  <2>1. phase = "json" /\ phase' = "idle" /\ UNCHANGED outvars /\ want' = want
    BY <1>15 DEF EndJson, uservars
  <2>2. want.json
    BY <2>1 DEF OutInv
  <2>3. Quiet /\ Quiet'
    BY <2>1, <2>2 DEF Quiet
  <2> QED BY <2>1, <2>2, <2>3 DEF OutInv, outvars
<1>16. CASE Overrun
  <2>1. phase = "json" /\ phase' = "overrun" /\ UNCHANGED outvars /\ want' = want
    BY <1>16 DEF Overrun, AtCommand, Walking, uservars
  <2>2. want.json
    BY <2>1 DEF OutInv
  <2>3. Quiet /\ Quiet'
    BY <2>1, <2>2 DEF Quiet
  <2> QED BY <2>1, <2>2, <2>3 DEF OutInv, outvars
<1> QED BY <1>1, <1>2, <1>3, <1>4, <1>5, <1>6, <1>7, <1>8, <1>9, <1>10, <1>11, <1>12, <1>13,
           <1>14, <1>15, <1>16 DEF Next, Undefined

\* What is printed is as OutputLines says.
LEMMA OutSays ==
  ASSUME EditInv, OutInv
  PROVE  OutputLines
<1> DEFINE t == terminal
           at == DOMAIN t
           l == Len(t)
           ps == want.pars
           InOrder == \A j \in at : t[j].c = "\n" => j > 1 /\ t[j - 1].c = "\r"
           Entries == \A j \in at : t[j].c = "entry" =>
                        /\ OnLine(t)[j].first.c = "cli_reply"
                        /\ IsAskedId(ps, OnLine(t)[j].first.id)
                        /\ OnLine(t)[j].length <= OutMax \/ OnLine(t)[j].pieces = 2
           Whole1 == AtRest /\ t # <<>> => Last(t).c = "\n" /\ myLength = 0
           ToldSo == (\E j \in at : t[j].c = "error") <=> ~want.json /\ Wrong(ps)
           Given == \A j \in at : t[j].c = "@" => \E p \in Range(ps) : Mid(p) /\ p.val = t[j].id
           Answer == AtRest /\ todo = <<>> /\ want # NoVal => ToldSo /\ Given
<1>1. InOrder /\ Entries /\ Whole1 /\ Answer => OutputLines
  BY DEF OutputLines
<1>2. CASE Quiet
  <2>1. t = <<>>
    BY <1>2 DEF OutInv
  <2>2. \A j \in at : FALSE
    BY <2>1
  <2>3. AtRest /\ todo = <<>> /\ want # NoVal => want.json
    BY <1>2 DEF Quiet, AtRest
  <2> HIDE DEF t, at
  <2>4. InOrder /\ Entries /\ Whole1 /\ Answer
    BY <2>1, <2>2, <2>3
  <2> QED BY <1>1, <2>4
<1>3. CASE ~Quiet
  <2>1. Printed
    BY <1>3 DEF OutInv
  <2>2. Proper(t, ps)
    BY <2>1 DEF Printed
  <2>3. t \in Seq(Pieces) /\ Ends(t) /\ Fits(t, ps) /\ IdsGiven(t, ps)
    BY <2>2 DEF Proper
  <2>4. at = 1 .. l
    BY <2>3, LenProperties
  <2>5. InOrder
    BY <2>3, <2>4 DEF Ends
  <2>6. Entries
    BY <2>3, <2>4 DEF Fits, EntryFits
  <2>7. Whole1
    <3>1. AtRest => myLength = 0 /\ (t = <<>> \/ t[Len(t)].c = "\n")
      BY <2>1 DEF AtRest, Printed
    <3>2. Last(t) = t[Len(t)]
      BY DEF Last
    <3> QED BY <3>1, <3>2
  <2>8. AtRest /\ todo = <<>> /\ want # NoVal => ToldSo
    <3>1. AtRest => (Told(t) <=> Wrong(ps))
      BY <2>1 DEF AtRest, Printed
    <3>2. ~want.json
      BY <1>3 DEF Quiet
    <3> QED BY <2>4, <3>1, <3>2 DEF Told
  <2>9. Given
    <3> SUFFICES ASSUME NEW j \in 1 .. l, t[j].c = "@"
                 PROVE  \E p \in Range(ps) : Mid(p) /\ p.val = t[j].id
      BY <2>4
    <3>1. PICK k \in 1 .. Len(ps) : Mid(ps[k]) /\ ps[k].val = t[j].id
      BY <2>3 DEF IdsGiven, IdGiven
    <3>2. ps[k] \in Range(ps)
      <4>1. ps \in Seq(Params)
        <5>1. want \in Lines /\ ~want.json
          BY <1>3 DEF Quiet, EditInv
        <5>2. \A qs, n : TextLine(qs, n).pars = qs
          BY DEF TextLine
        <5>3. \A d : JsonLine(d).json
          BY DEF JsonLine
        <5>4. PICK qs \in Seq(Params), n \in {1, 2} : want = TextLine(qs, n)
          BY <5>1, <5>3, LineKinds
        <5> QED BY <5>2, <5>4
      <4> QED BY <4>1, LenProperties DEF Range
    <3> QED BY <3>1, <3>2
  <2> QED BY <1>1, <2>5, <2>6, <2>7, <2>8, <2>9
<1> QED BY <1>2, <1>3

\* What has been printed when a command is through are complete lines.  Each entry is on one
\* that begins with the message id of this command, and a line is too long only if it has a
\* single entry.  A command is answered as an error exactly if it is wrong, and then with no
\* id that it has not given.
THEOREM OutputIsLines == Spec => []OutputLines
<1>1. EditInv /\ EditInv' /\ ReadInv /\ ReadInv' /\ OutInv /\ [Next]_vars => OutInv'
  BY OutInvNext
<1>2. EditInv /\ EditInv' /\ ReadInv /\ [Next]_vars => ReadInv'
  BY ReadInvNext
<1>3. EditInv /\ ReadInv /\ OutInv => OutputLines
  BY OutSays
<1> QED BY <1>1, <1>2, <1>3, ReadInvInit, OutInvInit, Edited, PTL DEF Spec

--------------------------------------------------------------------------------
(* The tokens of a JSON text *)

\* Tokens
Types == {"object", "array", "string", "primitive"}
OneToken == [type : Types, size : Nat, text : Strings \cup {NoText}]
Toks == Seq(OneToken)

\* The value of a member, and how many tokens are in front of it
MemberValue(v, k) == IF v.type = "object" THEN v.members[k][2] ELSE v.members[k]
KeySize(v) == IF v.type = "object" THEN 1 ELSE 0

\* The tokens of a value are tokens.
LEMMA TokensIn ==
  ASSUME NEW v \in Values
  PROVE  /\ Tokens[v] \in Toks /\ Len(Tokens[v]) \in Nat /\ Tokens[v] = Layout(v)
         /\ v.type \in Types
<1>1. Tokens[v] \in Toks
  BY TokensAssumption DEF Toks, OneToken, Types
<1>2. v.type \in Types /\ Tokens[v] = Layout(v)
  BY TokensAssumption, ValuesAssumption DEF Types
<1> QED BY <1>1, <1>2, LenProperties DEF Toks

\* The members of a value
LEMMA MembersIn ==
  ASSUME NEW v \in Values
  PROVE  /\ v.type = "object" => v.members \in Seq(Strings \X Values)
         /\ v.type = "array" => v.members \in Seq(Values)
         /\ v.type \notin {"object", "array"} => v.members = <<>>
         /\ Len(v.members) \in Nat /\ DOMAIN v.members = 1 .. Len(v.members)
<1>1. v.members \in IF v.type = "object" THEN Seq(Strings \X Values)
                    ELSE IF v.type = "array" THEN Seq(Values) ELSE {<<>>}
  BY ValuesAssumption
<1>2. CASE v.type = "object"
  BY <1>1, <1>2, LenProperties
<1>3. CASE v.type = "array"
  BY <1>1, <1>3, LenProperties
<1>4. CASE v.type \notin {"object", "array"}
  BY <1>1, <1>4
<1> QED BY <1>2, <1>3, <1>4

\* The tokens of a member are those of its value, behind its key.
LEMMA MemberParts ==
  ASSUME NEW v \in Values, NEW k \in 1 .. Len(v.members)
  PROVE  LET ts == MemberTokens(v, v.members[k])
             m    == MemberValue(v, k)
         IN  /\ v.type \in {"object", "array"} /\ m \in Values /\ ts \in Toks
             /\ Len(ts) = KeySize(v) + Len(Tokens[m])
             /\ \A j \in 1 .. Len(Tokens[m]) : ts[KeySize(v) + j] = Tokens[m][j]
             /\ v.type = "object" => /\ v.members[k] \in Strings \X Values
                                     /\ ts[1] = Token("string", 1, v.members[k][1])
<1> DEFINE m == MemberValue(v, k)
           x == v.members[k]
           t == Tokens[m]
<1>1. v.type \in {"object", "array"}
  <2> SUFFICES ASSUME v.type \notin {"object", "array"} PROVE FALSE
    OBVIOUS
  <2>1. v.members = <<>>
    BY MembersIn
  <2> QED BY <2>1
<1>2. CASE v.type = "object"
  <2> DEFINE key == Token("string", 1, x[1])
             one == <<key>>
  <2>1. x \in Strings \X Values
    BY <1>2, MembersIn, ElementOfSeq
  <2>2. m = x[2] /\ MemberTokens(v, x) = one \o t /\ KeySize(v) = 1
    BY <1>2 DEF MemberValue, MemberTokens, KeySize
  <2>3. m \in Values /\ x[1] \in Strings
    BY <2>1, <2>2
  <2>4. t \in Toks /\ Len(t) \in Nat
    BY <2>3, TokensIn
  <2>5. key \in OneToken
    BY <2>3 DEF OneToken, Types, Token
  <2> HIDE DEF key, t, m
  <2>6. one \in Toks /\ Len(one) = 1 /\ one[1] = key
    BY <2>5 DEF Toks
  <2> HIDE DEF one
  <2>7. /\ one \o t \in Toks /\ Len(one \o t) = 1 + Len(t)
        /\ \A i \in 1 .. 1 + Len(t) : (one \o t)[i] = IF i <= 1 THEN one[i] ELSE t[i - 1]
    <3>1. one \in Seq(OneToken) /\ t \in Seq(OneToken)
      BY <2>4, <2>6 DEF Toks
    <3>2. /\ one \o t \in Seq(OneToken) /\ Len(one \o t) = Len(one) + Len(t)
          /\ \A i \in 1 .. Len(one) + Len(t) :
               (one \o t)[i] = IF i <= Len(one) THEN one[i] ELSE t[i - Len(one)]
      BY <3>1, ConcatProperties
    <3> QED BY <2>6, <3>2 DEF Toks
  <2> DEFINE n == Len(t)
             w == one \o t
  <2>8. n \in Nat
    BY <2>4
  <2> HIDE DEF n, w
  <2>9. w[1] = key
    <3>1. 1 \in 1 .. 1 + n /\ 1 <= 1
      BY <2>8
    <3> QED BY <2>6, <2>7, <3>1 DEF n, w
  <2>10. ASSUME NEW j \in 1 .. n PROVE w[1 + j] = t[j]
    <3>1. 1 + j \in 1 .. 1 + n /\ ~(1 + j <= 1) /\ (1 + j) - 1 = j
      BY <2>8
    <3> QED BY <2>7, <3>1 DEF n, w
  <2> QED BY <1>1, <1>2, <2>1, <2>2, <2>3, <2>7, <2>9, <2>10 DEF n, w, key, t, m
<1>3. CASE v.type = "array"
  <2>1. x \in Values
    BY <1>3, MembersIn, ElementOfSeq
  <2>2. m = x /\ MemberTokens(v, x) = t /\ KeySize(v) = 0 /\ v.type # "object"
    BY <1>3 DEF MemberValue, MemberTokens, KeySize
  <2>3. t \in Toks /\ Len(t) \in Nat
    BY <2>1, <2>2, TokensIn
  <2> DEFINE n == Len(t)
  <2> HIDE DEF n
  <2>4. 0 + n = n /\ \A j \in 1 .. n : 0 + j = j
    BY <2>3 DEF n
  <2> QED BY <1>1, <2>1, <2>2, <2>3, <2>4 DEF n
<1> QED BY <1>1, <1>2, <1>3

\* The tokens of the value v, and what its own token is taken for
TokenOf(v) == Token(v.type, Len(v.members), v.text)
LaidToks(v) == Seq(OneToken \cup {TokenOf(v)})

\* The recursive function of Layout
LEMMA LayoutDef ==
  ASSUME NEW v \in Values
  PROVE  \E laid \in [0 .. Len(v.members) -> LaidToks(v)] :
           /\ Layout(v) = laid[Len(v.members)]
           /\ laid[0] = <<TokenOf(v)>>
           /\ \A k \in 1 .. Len(v.members) :
                laid[k] = laid[k - 1] \o MemberTokens(v, v.members[k])
<1> DEFINE l == Len(v.members)
           S == LaidToks(v)
           step == [x \in S \X (1 .. l) |-> x[1] \o MemberTokens(v, v.members[x[2]])]
           Def(h) == [i \in 0 .. Len(v.members) |->
                        IF i = 0 THEN <<TokenOf(v)>>
                        ELSE h[i - 1] \o MemberTokens(v, v.members[i])]
           run == CHOOSE h : h = Def(h)
<1>1. l \in Nat
  BY MembersIn
<1>2. \A a \in S, i \in 1 .. l : a \o MemberTokens(v, v.members[i]) \in S
  <2> SUFFICES ASSUME NEW a \in S, NEW i \in 1 .. l
               PROVE  a \o MemberTokens(v, v.members[i]) \in S
    OBVIOUS
  <2> DEFINE m == MemberTokens(v, v.members[i])
             U == OneToken \cup {TokenOf(v)}
  <2>1. m \in Toks
    BY MemberParts
  <2>2. m \in Seq(U)
    <3>1. OneToken \subseteq U
      OBVIOUS
    <3> HIDE DEF m, U
    <3> QED BY <2>1, <3>1 DEF Toks
  <2>3. a \in Seq(U)
    BY DEF LaidToks
  <2> HIDE DEF m, U
  <2>4. a \o m \in Seq(U)
    BY <2>2, <2>3, ConcatProperties
  <2> QED BY <2>4 DEF m, U, LaidToks
<1>3. step \in [S \X (1 .. l) -> S]
  <2> SUFFICES ASSUME NEW a \in S, NEW i \in 1 .. l PROVE a \o MemberTokens(v, v.members[i]) \in S
    OBVIOUS
  <2> QED BY <1>2
<1>4. <<TokenOf(v)>> \in S
  <2> DEFINE x == TokenOf(v)
             U == OneToken \cup {x}
  <2>1. x \in U
    OBVIOUS
  <2> HIDE DEF x, U
  <2>2. <<x>> \in Seq(U)
    BY <2>1, Few
  <2> QED BY <2>2 DEF x, U, LaidToks
<1>5. \A a \in S, i \in 1 .. l : step[<<a, i>>] = a \o MemberTokens(v, v.members[i])
  OBVIOUS
<1>6. Layout(v) = run[l]
  BY DEF Layout, TokenOf
<1>7. \A h : Def(h) = [i \in 0 .. l |-> IF i = 0 THEN <<TokenOf(v)>>
                                      ELSE h[i - 1] \o MemberTokens(v, v.members[i])]
  OBVIOUS
<1>8. run = Def(run) \/ \A h : h # Def(h)
  <2> HIDE DEF Def
  <2> QED OBVIOUS
<1> HIDE DEF l, S, step, run, Def
<1>9. PICK f \in Runs(l, S, <<TokenOf(v)>>, step) : TRUE
  BY <1>1, <1>3, <1>4, Iterates
<1>10. /\ f \in [0 .. l -> S] /\ f[0] = <<TokenOf(v)>>
       /\ \A i \in 1 .. l : f[i] = step[<<f[i - 1], i>>]
  BY <1>9 DEF Runs
<1>11. \A i \in 1 .. l : f[i] = f[i - 1] \o MemberTokens(v, v.members[i])
  <2> SUFFICES ASSUME NEW i \in 1 .. l PROVE f[i] = f[i - 1] \o MemberTokens(v, v.members[i])
    OBVIOUS
  <2>1. i - 1 \in 0 .. l
    BY <1>1
  <2>2. f[i - 1] \in S
    BY <1>10, <2>1
  <2> QED BY <1>5, <1>10, <2>2
<1>12. f = Def(f)
  <2>1. ASSUME NEW i \in 0 .. l PROVE f[i] = Def(f)[i]
    <3>1. CASE i = 0
      BY <1>7, <1>10, <3>1
    <3>2. CASE i # 0
      <4>1. i \in 1 .. l
        BY <1>1, <3>2
      <4>2. Def(f)[i] = f[i - 1] \o MemberTokens(v, v.members[i])
        BY <1>7, <3>2
      <4> QED BY <1>11, <4>1, <4>2
    <3> QED BY <3>1, <3>2
  <2> QED BY <1>7, <1>10, <2>1
<1>13. run = Def(run)
  BY <1>8, <1>12
<1>14. run[0] = <<TokenOf(v)>>
  <2>1. 0 \in 0 .. l
    BY <1>1
  <2>2. Def(run)[0] = <<TokenOf(v)>>
    BY <1>7, <2>1
  <2> QED BY <1>13, <2>2
<1>15. ASSUME NEW i \in 1 .. l PROVE run[i] = run[i - 1] \o MemberTokens(v, v.members[i])
  <2>1. i \in 0 .. l /\ i # 0
    BY <1>1
  <2> QED BY <1>7, <1>13, <2>1
<1>16. \A i \in 0 .. l : run[i] \in S
  <2>1. \A i \in 1 .. l : run[i - 1] \in S => run[i] \in S
    <3> SUFFICES ASSUME NEW i \in 1 .. l, run[i - 1] \in S PROVE run[i] \in S
      OBVIOUS
    <3>1. run[i - 1] \o MemberTokens(v, v.members[i]) \in S
      BY <1>2
    <3> QED BY <1>15, <3>1
  <2> QED BY <1>1, <1>4, <1>14, <2>1, Stays
<1>17. run \in [0 .. l -> S]
  BY <1>7, <1>13, <1>16
<1> QED BY <1>6, <1>14, <1>15, <1>17 DEF l, S

\* Where the members of the value v end
Spots(v, at) ==
  /\ at \in [0 .. Len(v.members) -> Nat \ {0}]
  /\ at[0] = 1 /\ at[Len(v.members)] = Len(Tokens[v])
  /\ Tokens[v][1] = TokenOf(v)
  /\ \A k \in 0 .. Len(v.members) : at[k] <= Len(Tokens[v])
  /\ \A k \in 1 .. Len(v.members) :
       /\ at[k] = at[k - 1] + KeySize(v) + Len(Tokens[MemberValue(v, k)])
       /\ v.type = "object" => Tokens[v][at[k - 1] + 1] = Token("string", 1, v.members[k][1])
       /\ \A j \in 1 .. Len(Tokens[MemberValue(v, k)]) :
            Tokens[v][at[k - 1] + KeySize(v) + j] = Tokens[MemberValue(v, k)][j]

\* Each member has its place.
LEMMA SpotsExist ==
  ASSUME NEW v \in Values
  PROVE  \E at : Spots(v, at)
<1> DEFINE l == Len(v.members)
           U == OneToken \cup {TokenOf(v)}
           ts == Tokens[v]
           own == <<TokenOf(v)>>
           add == [k \in 1 .. l |-> MemberTokens(v, v.members[k])]
<1>1. l \in Nat
  BY MembersIn
<1>2. PICK laid \in [0 .. l -> Seq(U)] :
        /\ Layout(v) = laid[l] /\ laid[0] = own
        /\ \A k \in 1 .. l : laid[k] = laid[k - 1] \o MemberTokens(v, v.members[k])
  BY LayoutDef DEF LaidToks
<1>3. ts = laid[l]
  BY <1>2, TokensIn
<1>4. \A k \in 1 .. l : MemberTokens(v, v.members[k]) \in Seq(U)
  <2> SUFFICES ASSUME NEW k \in 1 .. l PROVE MemberTokens(v, v.members[k]) \in Seq(U)
    OBVIOUS
  <2> DEFINE m == MemberTokens(v, v.members[k])
  <2>1. m \in Toks /\ OneToken \subseteq U
    BY MemberParts
  <2> HIDE DEF m, U
  <2>2. m \in Seq(U)
    BY <2>1 DEF Toks
  <2> QED BY <2>2 DEF m
<1>5. Len(own) = 1 /\ own[1] = TokenOf(v)
  OBVIOUS
<1>6. add \in [1 .. l -> Seq(U)] /\ \A k \in 1 .. l : add[k] = MemberTokens(v, v.members[k])
  BY <1>4
<1> HIDE DEF l, U, ts, own, add
<1>7. Grows(l, laid, add)
  BY <1>2, <1>6 DEF Grows
<1>8. AllPrefixes(l, laid)
  BY <1>1, <1>2, <1>6, <1>7, PartsPrefix
<1>9. \A k \in 0 .. l : /\ Len(laid[k]) <= Len(ts)
                        /\ \A j \in 1 .. Len(laid[k]) : ts[j] = laid[k][j]
  BY <1>3, <1>8 DEF AllPrefixes
<1>10. \A k \in 0 .. l : Len(laid[k]) \in Nat
  BY <1>2, LenProperties
<1>11. 0 \in 0 .. l /\ l \in 0 .. l
  BY <1>1
<1>12. ASSUME NEW k \in 1 .. l
       PROVE  LET m == MemberValue(v, k)
                  c == KeySize(v)
                  b == Len(laid[k - 1])
              IN  /\ Len(laid[k]) = b + c + Len(Tokens[m])
                  /\ v.type = "object" => ts[b + 1] = Token("string", 1, v.members[k][1])
                  /\ \A j \in 1 .. Len(Tokens[m]) : ts[b + c + j] = Tokens[m][j]
  <2> DEFINE m == MemberValue(v, k)
             t == MemberTokens(v, v.members[k])
             u == laid[k - 1]
             key == Token("string", 1, v.members[k][1])
             b == Len(u)
             c == KeySize(v)
             n == Len(Tokens[m])
  <2>1. k - 1 \in 0 .. l /\ k \in 0 .. l
    BY <1>1
  <2>2. u \in Seq(U) /\ t \in Seq(U) /\ laid[k] = u \o t
    BY <1>2, <1>4, <2>1
  <2>3. /\ m \in Values /\ Len(t) = c + n
        /\ \A j \in 1 .. n : t[c + j] = Tokens[m][j]
        /\ v.type = "object" => t[1] = key
    BY MemberParts DEF l
  <2>4. c \in {0, 1} /\ (v.type = "object" => c = 1)
    BY DEF KeySize
  <2>5. n \in Nat
    BY <2>3, TokensIn
  <2>6. b \in Nat
    BY <1>10, <2>1
  <2>7. \A j \in 1 .. Len(laid[k]) : ts[j] = laid[k][j]
    BY <1>9, <2>1
  <2> HIDE DEF m, t, u, c, key
  <2>8. /\ Len(laid[k]) = b + (c + n)
        /\ \A j \in 1 .. b + (c + n) : laid[k][j] = IF j <= b THEN u[j] ELSE t[j - b]
    BY <2>2, <2>3, ConcatProperties
  <2> HIDE DEF b, n
  <2>9. \A j \in 1 .. c + n : ts[b + j] = t[j]
    <3> SUFFICES ASSUME NEW j \in 1 .. c + n PROVE ts[b + j] = t[j]
      OBVIOUS
    <3>1. b + j \in 1 .. b + (c + n) /\ ~(b + j <= b) /\ (b + j) - b = j
      BY <2>4, <2>5, <2>6
    <3>2. ts[b + j] = laid[k][b + j]
      BY <2>7, <2>8, <3>1
    <3> QED BY <2>8, <3>1, <3>2
  <2>10. Len(laid[k]) = b + c + n
    BY <2>4, <2>5, <2>6, <2>8
  <2>11. v.type = "object" => ts[b + 1] = key
    <3>1. v.type = "object" => 1 \in 1 .. c + n
      BY <2>4, <2>5
    <3> QED BY <2>3, <2>9, <3>1
  <2>12. ASSUME NEW j \in 1 .. n PROVE ts[b + c + j] = Tokens[m][j]
    <3>1. c + j \in 1 .. c + n /\ b + (c + j) = b + c + j
      BY <2>4, <2>5, <2>6
    <3>2. ts[b + (c + j)] = t[c + j]
      BY <2>9, <3>1
    <3> QED BY <2>3, <3>1, <3>2
  <2> QED BY <2>10, <2>11, <2>12 DEF m, t, u, b, c, n, key
<1> DEFINE at == [k \in 0 .. l |-> Len(laid[k])]
<1>13. \A k \in 0 .. l : at[k] = Len(laid[k])
  OBVIOUS
<1>14. at[0] = 1 /\ ts[1] = TokenOf(v)
  <2>1. Len(laid[0]) = 1 /\ laid[0][1] = TokenOf(v)
    BY <1>2, <1>5
  <2>2. 1 \in 1 .. Len(laid[0])
    BY <2>1
  <2> QED BY <1>9, <1>11, <1>13, <2>1, <2>2
<1>15. DOMAIN at = 0 .. l /\ at = [k \in 0 .. l |-> at[k]]
  OBVIOUS
<1> HIDE DEF at
<1>16. ASSUME NEW k \in 1 .. l
       PROVE  LET m == MemberValue(v, k)
                  c == KeySize(v)
              IN  /\ at[k] = at[k - 1] + c + Len(Tokens[m])
                  /\ v.type = "object" => ts[at[k - 1] + 1] = Token("string", 1, v.members[k][1])
                  /\ \A j \in 1 .. Len(Tokens[m]) : ts[at[k - 1] + c + j] = Tokens[m][j]
  <2>1. k - 1 \in 0 .. l /\ k \in 0 .. l
    BY <1>1
  <2>2. at[k] = Len(laid[k]) /\ at[k - 1] = Len(laid[k - 1])
    BY <1>13, <2>1
  <2> QED BY <1>12, <2>2
<1>17. at \in [0 .. l -> Nat \ {0}]
  <2>1. \A k \in 0 .. l : at[k] \in Nat
    BY <1>10, <1>13
  <2>2. \A k \in 1 .. l : at[k - 1] # 0 => at[k] # 0
    <3> SUFFICES ASSUME NEW k \in 1 .. l, at[k - 1] # 0 PROVE at[k] # 0
      OBVIOUS
    <3> DEFINE n == Len(Tokens[MemberValue(v, k)])
               c == KeySize(v)
    <3>1. MemberValue(v, k) \in Values
      BY MemberParts DEF l
    <3>2. n \in Nat /\ c \in Nat
      BY <3>1, TokensIn DEF KeySize
    <3>3. at[k] = at[k - 1] + c + n
      BY <1>16
    <3>4. at[k - 1] \in Nat
      <4>1. k - 1 \in 0 .. l
        BY <1>1
      <4> QED BY <2>1, <4>1
    <3> HIDE DEF n, c
    <3> QED BY <3>2, <3>3, <3>4
  <2> DEFINE S == Nat \ {0}
  <2>3. at[0] \in S
    BY <1>14
  <2>4. \A k \in 1 .. l : at[k - 1] \in S => at[k] \in S
    BY <1>1, <2>1, <2>2
  <2>5. \A k \in 0 .. l : at[k] \in S
    <3> HIDE DEF S
    <3> QED BY <1>1, <2>3, <2>4, Stays
  <2> QED BY <1>15, <2>5
<1>18. at[l] = Len(ts) /\ \A k \in 0 .. l : at[k] <= Len(ts)
  BY <1>3, <1>9, <1>11, <1>13
<1>19. Spots(v, at)
  BY <1>14, <1>16, <1>17, <1>18 DEF Spots, l, ts
<1> QED BY <1>19

--------------------------------------------------------------------------------
(* Skipping a value *)

\* Places that are not in front of the tokens after the ith
Leads(ts, i, behind) ==
  \A j \in i + 1 .. Len(ts) + 1 : behind[j] \in Nat /\ behind[j] >= j

\* How the loop of skip_value goes on
Onward(ts, i, behind, p) ==
  IF ~On(ts, p) THEN p
  ELSE behind[p + IF ts[i].type = "object" THEN 1 ELSE 0]

\* The places behind the ith
Beyond(i) == {p \in Nat : p > i}

\* The loop goes on behind.
LEMMA OnwardIn ==
  ASSUME NEW ts \in Toks, NEW i \in Nat, NEW behind, Leads(ts, i, behind),
         NEW p \in Beyond(i)
  PROVE  Onward(ts, i, behind, p) \in Beyond(i)
<1> DEFINE key == IF ts[i].type = "object" THEN 1 ELSE 0
<1>1. Len(ts) \in Nat /\ DOMAIN ts = 1 .. Len(ts)
  BY LenProperties DEF Toks
<1>2. key \in {0, 1}
  OBVIOUS
<1>3. Onward(ts, i, behind, p) = IF ~On(ts, p) THEN p ELSE behind[p + key]
  BY DEF Onward
<1> DEFINE l == Len(ts)
<1> HIDE DEF key, l
<1>4. p \in Nat /\ p > i
  BY DEF Beyond
<1>5. CASE On(ts, p)
  <2>1. p \in 1 .. l
    BY <1>1, <1>5 DEF On, l
  <2>2. p + key \in i + 1 .. l + 1 /\ p + key >= p
    BY <1>1, <1>2, <1>4, <2>1 DEF l
  <2>3. behind[p + key] \in Nat /\ behind[p + key] >= p + key
    BY <2>2 DEF Leads, l
  <2>4. behind[p + key] > i
    BY <1>2, <1>4, <2>3
  <2> QED BY <1>3, <1>5, <2>3, <2>4 DEF Beyond
<1>6. CASE ~On(ts, p)
  BY <1>3, <1>6
<1> QED BY <1>5, <1>6

\* The recursive function of Members
LEMMA MembersDef ==
  ASSUME NEW ts \in Toks, NEW i \in 1 .. Len(ts), NEW behind, Leads(ts, i, behind)
  PROVE  \E member \in [0 .. ts[i].size -> Beyond(i)] :
           /\ Members(ts, i, behind) = member[ts[i].size]
           /\ member[0] = i + 1
           /\ \A k \in 1 .. ts[i].size : member[k] = Onward(ts, i, behind, member[k - 1])
<1> DEFINE key == IF ts[i].type = "object" THEN 1 ELSE 0
           l == ts[i].size
           S == Beyond(i)
           step == [x \in S \X (1 .. l) |-> Onward(ts, i, behind, x[1])]
           Def(h) == [k \in 0 .. ts[i].size |->
                        IF k = 0 THEN i + 1
                        ELSE IF ~On(ts, h[k - 1]) THEN h[k - 1]
                        ELSE behind[h[k - 1] + key]]
           run == CHOOSE h : h = Def(h)
<1>1. l \in Nat
  <2>1. ts[i] \in OneToken
    BY ElementOfSeq DEF Toks
  <2> QED BY <2>1 DEF OneToken
<1>2. \A a \in S, k \in 1 .. l : Onward(ts, i, behind, a) \in S
  <2>1. i \in Nat
    BY LenProperties DEF Toks
  <2> QED BY <2>1, OnwardIn
<1>3. step \in [S \X (1 .. l) -> S]
  <2> SUFFICES ASSUME NEW a \in S, NEW k \in 1 .. l PROVE Onward(ts, i, behind, a) \in S
    OBVIOUS
  <2> QED BY <1>2
<1>4. i + 1 \in S
  <2>1. i \in Nat
    BY LenProperties DEF Toks
  <2> QED BY <2>1 DEF Beyond
<1>5. \A a \in S, k \in 1 .. l : step[<<a, k>>] = Onward(ts, i, behind, a)
  OBVIOUS
<1>6. Members(ts, i, behind) = run[l]
  BY DEF Members
<1>7. \A h : Def(h) = [k \in 0 .. l |-> IF k = 0 THEN i + 1 ELSE Onward(ts, i, behind, h[k - 1])]
  BY DEF Onward
<1>8. run = Def(run) \/ \A h : h # Def(h)
  <2> HIDE DEF Def
  <2> QED OBVIOUS
<1> HIDE DEF l, S, step, run, Def
<1>9. PICK f \in Runs(l, S, i + 1, step) : TRUE
  BY <1>1, <1>3, <1>4, Iterates
<1>10. f \in [0 .. l -> S] /\ f[0] = i + 1 /\ \A k \in 1 .. l : f[k] = step[<<f[k - 1], k>>]
  BY <1>9 DEF Runs
<1>11. \A k \in 1 .. l : f[k] = Onward(ts, i, behind, f[k - 1])
  <2> SUFFICES ASSUME NEW k \in 1 .. l PROVE f[k] = Onward(ts, i, behind, f[k - 1])
    OBVIOUS
  <2>1. k - 1 \in 0 .. l
    BY <1>1
  <2>2. f[k - 1] \in S
    BY <1>10, <2>1
  <2> QED BY <1>5, <1>10, <2>2
<1>12. f = Def(f)
  <2>1. ASSUME NEW k \in 0 .. l PROVE f[k] = Def(f)[k]
    <3>1. CASE k = 0
      BY <1>7, <1>10, <3>1
    <3>2. CASE k # 0
      <4>1. k \in 1 .. l
        BY <1>1, <3>2
      <4>2. Def(f)[k] = Onward(ts, i, behind, f[k - 1])
        BY <1>7, <3>2
      <4> QED BY <1>11, <4>1, <4>2
    <3> QED BY <3>1, <3>2
  <2> QED BY <1>7, <1>10, <2>1
<1>13. run = Def(run)
  BY <1>8, <1>12
<1>14. run[0] = i + 1
  <2>1. 0 \in 0 .. l
    BY <1>1
  <2>2. Def(run)[0] = i + 1
    BY <1>7, <2>1
  <2> QED BY <1>13, <2>2
<1>15. ASSUME NEW k \in 1 .. l PROVE run[k] = Onward(ts, i, behind, run[k - 1])
  <2>1. k \in 0 .. l /\ k # 0
    BY <1>1
  <2> QED BY <1>7, <1>13, <2>1
<1>16. \A k \in 0 .. l : run[k] \in S
  <2>1. \A k \in 1 .. l : run[k - 1] \in S => run[k] \in S
    <3> SUFFICES ASSUME NEW k \in 1 .. l, run[k - 1] \in S PROVE run[k] \in S
      OBVIOUS
    <3>1. Onward(ts, i, behind, run[k - 1]) \in S
      BY <1>2
    <3> QED BY <1>15, <3>1
  <2> QED BY <1>1, <1>4, <1>14, <2>1, Stays
<1>17. run \in [0 .. l -> S]
  BY <1>7, <1>13, <1>16
<1> QED BY <1>6, <1>14, <1>15, <1>17 DEF l, S

\* Only what is known of the places behind is looked at.
LEMMA MembersAgree ==
  ASSUME NEW ts \in Toks, NEW i \in 1 .. Len(ts), NEW behind, Leads(ts, i, behind),
         NEW other, Leads(ts, i, other), \A j \in i + 1 .. Len(ts) + 1 : behind[j] = other[j]
  PROVE  Members(ts, i, behind) = Members(ts, i, other)
<1> DEFINE c == ts[i].size
<1>1. PICK a \in [0 .. c -> Beyond(i)] :
        /\ Members(ts, i, behind) = a[c] /\ a[0] = i + 1
        /\ \A k \in 1 .. c : a[k] = Onward(ts, i, behind, a[k - 1])
  BY MembersDef
<1>2. PICK b \in [0 .. c -> Beyond(i)] :
        /\ Members(ts, i, other) = b[c] /\ b[0] = i + 1
        /\ \A k \in 1 .. c : b[k] = Onward(ts, i, other, b[k - 1])
  BY MembersDef
<1>3. c \in Nat
  <2>1. ts[i] \in OneToken
    BY ElementOfSeq DEF Toks
  <2> QED BY <2>1 DEF OneToken
<1>4. Len(ts) \in Nat /\ DOMAIN ts = 1 .. Len(ts)
  BY LenProperties DEF Toks
<1> HIDE DEF c
<1>5. \A p \in Beyond(i) : Onward(ts, i, behind, p) = Onward(ts, i, other, p)
  <2> SUFFICES ASSUME NEW p \in Beyond(i)
               PROVE  Onward(ts, i, behind, p) = Onward(ts, i, other, p)
    OBVIOUS
  <2> DEFINE key == IF ts[i].type = "object" THEN 1 ELSE 0
  <2>1. key \in {0, 1}
    OBVIOUS
  <2>2. /\ Onward(ts, i, behind, p) = IF ~On(ts, p) THEN p ELSE behind[p + key]
        /\ Onward(ts, i, other, p) = IF ~On(ts, p) THEN p ELSE other[p + key]
    BY DEF Onward
  <2> HIDE DEF key
  <2>3. On(ts, p) => p + key \in i + 1 .. Len(ts) + 1
    <3> SUFFICES ASSUME p \in 1 .. Len(ts) PROVE p + key \in i + 1 .. Len(ts) + 1
      BY <1>4 DEF On
    <3>1. p > i
      BY DEF Beyond
    <3> QED BY <1>4, <2>1, <3>1
  <2> QED BY <2>2, <2>3
<1>6. \A k \in 0 .. c : a[k] = b[k]
  <2> DEFINE D == {k \in 0 .. c : a[k] = b[k]}
  <2>1. 0 \in D
    BY <1>1, <1>2, <1>3
  <2>2. ASSUME NEW k \in 1 .. c, k - 1 \in D PROVE k \in D
    <3>1. k \in 0 .. c /\ k - 1 \in 0 .. c /\ a[k - 1] = b[k - 1]
      BY <1>3, <2>2
    <3>2. a[k - 1] \in Beyond(i)
      BY <3>1
    <3>3. a[k] = b[k]
      BY <1>1, <1>2, <1>5, <3>1, <3>2
    <3> QED BY <3>1, <3>3
  <2>3. 0 .. c \subseteq D
    <3> HIDE DEF D
    <3> QED BY <1>3, <2>1, <2>2, LoopInduction
  <2> QED BY <2>3
<1>7. c \in 0 .. c
  BY <1>3
<1> QED BY <1>1, <1>2, <1>6, <1>7

\* What is behind the value at j
Skipped(ts, behind, j) ==
  IF ~On(ts, j) THEN j
  ELSE IF ts[j].type \in {"object", "array"} THEN Members(ts, j, behind)
  ELSE j + 1

\* It is behind it.
LEMMA SkippedLeads ==
  ASSUME NEW ts \in Toks, NEW j \in 1 .. Len(ts) + 1, NEW behind, Leads(ts, j, behind)
  PROVE  /\ Skipped(ts, behind, j) \in Nat /\ Skipped(ts, behind, j) >= j
         /\ j \in 1 .. Len(ts) => Skipped(ts, behind, j) > j
<1> DEFINE l == Len(ts)
<1>1. l \in Nat /\ DOMAIN ts = 1 .. l
  BY LenProperties DEF Toks
<1> HIDE DEF l
<1>2. CASE j \notin 1 .. l
  BY <1>1, <1>2 DEF Skipped, On, l
<1>3. CASE j \in 1 .. l /\ ts[j].type \in {"object", "array"}
  <2> DEFINE c == ts[j].size
  <2>1. j \in 1 .. Len(ts)
    BY <1>3 DEF l
  <2>2. PICK a \in [0 .. c -> Beyond(j)] : Members(ts, j, behind) = a[c]
    BY <2>1, MembersDef
  <2>3. ts[j] \in OneToken
    BY <2>1, ElementOfSeq DEF Toks
  <2>4. c \in 0 .. c
    <3>1. c \in Nat
      BY <2>3 DEF OneToken
    <3> QED BY <3>1
  <2> HIDE DEF c
  <2>5. Members(ts, j, behind) \in Beyond(j)
    BY <2>2, <2>4
  <2>6. Members(ts, j, behind) \in Nat /\ Members(ts, j, behind) > j
    BY <2>5 DEF Beyond
  <2>7. Skipped(ts, behind, j) = Members(ts, j, behind)
    BY <1>1, <1>3 DEF Skipped, On
  <2> DEFINE z == Members(ts, j, behind)
  <2> HIDE DEF z
  <2>8. z \in Nat /\ z > j /\ j \in Int
    BY <1>1, <1>3, <2>6 DEF z
  <2> QED BY <2>7, <2>8 DEF z
<1>4. CASE j \in 1 .. l /\ ts[j].type \notin {"object", "array"}
  BY <1>1, <1>4 DEF Skipped, On
<1> QED BY <1>2, <1>3, <1>4

\* The recursive function of SkipValue
LEMMA SkipDef ==
  ASSUME NEW ts \in Toks
  PROVE  \E behind : /\ Leads(ts, 0, behind)
                     /\ \A j \in 1 .. Len(ts) + 1 : behind[j] = Skipped(ts, behind, j)
                     /\ \A i : SkipValue(ts, i) = behind[i]
<1> DEFINE n == Len(ts) + 1
           S == Nat
           Def(h) == [j \in 1 .. Len(ts) + 1 |->
                        IF ~On(ts, j) THEN j
                        ELSE IF ts[j].type \in {"object", "array"} THEN Members(ts, j, h)
                        ELSE j + 1]
           run == CHOOSE h : h = Def(h)
           H(d) == [j \in 1 .. n |-> j + d[j]]
           step == [x \in (1 .. n) \X [1 .. n -> S] |-> Skipped(ts, H(x[2]), x[1]) - x[1]]
<1>1. n \in Nat /\ Len(ts) \in Nat /\ n = Len(ts) + 1
  BY LenProperties DEF Toks
<1>2. \A i : SkipValue(ts, i) = run[i]
  BY DEF SkipValue
<1>3. run = Def(run) \/ \A h : h # Def(h)
  <2> HIDE DEF Def
  <2> QED OBVIOUS
<1>4. \A h : Def(h) = [j \in 1 .. n |-> Skipped(ts, h, j)]
  BY DEF Skipped
<1>5. \A i \in 1 .. n, d \in [1 .. n -> S] : step[<<i, d>>] = Skipped(ts, H(d), i) - i
  OBVIOUS
<1>6. \A d \in [1 .. n -> S] : \A j \in 1 .. n : H(d)[j] = j + d[j]
  OBVIOUS
<1>7. DOMAIN step = (1 .. n) \X [1 .. n -> S] /\ step = [x \in DOMAIN step |-> step[x]]
  OBVIOUS
<1>8. \A d : DOMAIN H(d) = 1 .. n /\ H(d) = [j \in 1 .. n |-> H(d)[j]]
  OBVIOUS
<1>9. S = Nat /\ S # {}
  OBVIOUS
<1> HIDE DEF n, S, H, step, Def, run
<1>10. ASSUME NEW d \in [1 .. n -> S], NEW i \in 1 .. n
       PROVE  Leads(ts, i, H(d))
  <2> SUFFICES ASSUME NEW j \in i + 1 .. Len(ts) + 1 PROVE H(d)[j] \in Nat /\ H(d)[j] >= j
    BY DEF Leads
  <2>1. j \in 1 .. n /\ j \in Nat
    BY <1>1
  <2>2. d[j] \in Nat
    BY <1>9, <2>1
  <2>3. H(d)[j] = j + d[j]
    BY <1>6, <2>1
  <2> DEFINE a == H(d)[j]
             b == d[j]
  <2> HIDE DEF a, b
  <2>4. a = j + b /\ b \in Nat
    BY <2>2, <2>3 DEF a, b
  <2>5. a \in Nat /\ a >= j
    BY <2>1, <2>4
  <2> QED BY <2>5 DEF a
<1>11. ASSUME NEW i \in 1 .. n, NEW d \in [1 .. n -> S] PROVE step[<<i, d>>] \in S
  <2> DEFINE z == Skipped(ts, H(d), i)
  <2>1. i \in 1 .. Len(ts) + 1
    BY <1>1
  <2>2. z \in Nat /\ z >= i
    BY <1>10, <2>1, SkippedLeads
  <2>3. step[<<i, d>>] = z - i
    BY <1>5
  <2> HIDE DEF z
  <2> QED BY <1>1, <1>9, <2>2, <2>3
<1>12. step \in [(1 .. n) \X [1 .. n -> S] -> S]
  <2>1. \A x \in (1 .. n) \X [1 .. n -> S] : step[x] \in S
    <3> SUFFICES ASSUME NEW x \in (1 .. n) \X [1 .. n -> S] PROVE step[x] \in S
      OBVIOUS
    <3>1. PICK i \in 1 .. n, d \in [1 .. n -> S] : x = <<i, d>>
      OBVIOUS
    <3> QED BY <1>11, <3>1
  <2> QED BY <1>7, <2>1
<1>13. \A i \in 1 .. n : \A d, e \in [1 .. n -> S] :
         (\A j \in i + 1 .. n : d[j] = e[j]) => step[<<i, d>>] = step[<<i, e>>]
  <2> SUFFICES ASSUME NEW i \in 1 .. n, NEW d \in [1 .. n -> S], NEW e \in [1 .. n -> S],
                      \A j \in i + 1 .. n : d[j] = e[j]
               PROVE  step[<<i, d>>] = step[<<i, e>>]
    OBVIOUS
  <2>1. Leads(ts, i, H(d)) /\ Leads(ts, i, H(e))
    BY <1>10
  <2>2. \A j \in i + 1 .. n : H(d)[j] = H(e)[j]
    <3> SUFFICES ASSUME NEW j \in i + 1 .. n PROVE H(d)[j] = H(e)[j]
      OBVIOUS
    <3>1. j \in 1 .. n
      BY <1>1
    <3>2. H(d)[j] = j + d[j] /\ H(e)[j] = j + e[j]
      BY <1>6, <3>1
    <3> QED BY <3>2
  <2>3. Skipped(ts, H(d), i) = Skipped(ts, H(e), i)
    <3>1. CASE On(ts, i)
      <4>1. i \in 1 .. Len(ts)
        BY <3>1, LenProperties DEF On, Toks
      <4>2. Members(ts, i, H(d)) = Members(ts, i, H(e))
        BY <1>1, <2>1, <2>2, <4>1, MembersAgree
      <4> QED BY <4>2 DEF Skipped
    <3>2. CASE ~On(ts, i)
      BY <3>2 DEF Skipped
    <3> QED BY <3>1, <3>2
  <2>4. step[<<i, d>>] = Skipped(ts, H(d), i) - i /\ step[<<i, e>>] = Skipped(ts, H(e), i) - i
    BY <1>5
  <2> QED BY <2>3, <2>4
<1>14. PICK d \in Backwards(n, S, step) : TRUE
  <2>1. S # {} /\ n \in Nat
    BY <1>1, <1>9
  <2>2. Backwards(n, S, step) # {}
    BY <2>1, <1>12, <1>13, BackwardsExists
  <2> QED BY <2>2
<1>15. d \in [1 .. n -> S] /\ \A i \in 1 .. n : d[i] = Skipped(ts, H(d), i) - i
  BY <1>5, <1>14 DEF Backwards
<1> DEFINE f == H(d)
<1>16. \A j \in 1 .. n : f[j] = j + d[j]
  BY <1>6, <1>15
<1>17. \A j \in 1 .. n : f[j] = Skipped(ts, f, j)
  <2> SUFFICES ASSUME NEW j \in 1 .. n PROVE f[j] = Skipped(ts, f, j)
    OBVIOUS
  <2> DEFINE z == Skipped(ts, f, j)
  <2>1. z \in Nat
    <3>1. j \in 1 .. Len(ts) + 1
      BY <1>1
    <3>2. Leads(ts, j, f)
      BY <1>10, <1>15
    <3> QED BY <3>1, <3>2, SkippedLeads
  <2>2. d[j] = z - j /\ f[j] = j + d[j] /\ j \in Int
    BY <1>1, <1>15, <1>16
  <2> HIDE DEF z, f
  <2>3. f[j] = z
    BY <2>1, <2>2
  <2> QED BY <2>3 DEF z
<1>18. f = Def(f)
  <2>1. f = [j \in 1 .. n |-> f[j]]
    BY <1>8
  <2> HIDE DEF f
  <2> QED BY <1>4, <1>17, <2>1
<1>19. run = Def(run)
  BY <1>3, <1>18
<1>20. \A j \in 1 .. n : run[j] = Skipped(ts, run, j)
  <2>1. run = [j \in 1 .. n |-> Skipped(ts, run, j)]
    BY <1>4, <1>19
  <2> QED BY <2>1
<1>21. Leads(ts, 0, run)
  <2> DEFINE D == {k \in 0 .. n : Leads(ts, n - k, run)}
  <2>1. 0 \in D
    <3>1. Leads(ts, n, run)
      BY <1>1 DEF Leads
    <3> QED BY <1>1, <3>1
  <2>2. ASSUME NEW k \in 1 .. n, k - 1 \in D PROVE k \in D
    <3> DEFINE i == n - (k - 1)
               z == Skipped(ts, run, i)
    <3>1. i \in 1 .. n /\ n - k = i - 1 /\ k \in 0 .. n /\ i \in 1 .. Len(ts) + 1
      BY <1>1
    <3>2. Leads(ts, i, run)
      BY <2>2
    <3> HIDE DEF i
    <3>3. z \in Nat /\ z >= i
      BY <3>1, <3>2, SkippedLeads
    <3>4. run[i] = z
      BY <1>20, <3>1
    <3> HIDE DEF z
    <3>5. \A j \in (i - 1) + 1 .. Len(ts) + 1 : j = i \/ j \in i + 1 .. Len(ts) + 1
      BY <1>1, <3>1
    <3>6. Leads(ts, i - 1, run)
      BY <3>2, <3>3, <3>4, <3>5 DEF Leads
    <3> QED BY <3>1, <3>6
  <2>3. 0 .. n \subseteq D
    <3> HIDE DEF D
    <3> QED BY <1>1, <2>1, <2>2, LoopInduction
  <2>4. n \in 0 .. n /\ n - n = 0
    BY <1>1
  <2> QED BY <2>3, <2>4
<1>22. \A j \in 1 .. Len(ts) + 1 : run[j] = Skipped(ts, run, j)
  BY <1>1, <1>20
<1> QED BY <1>2, <1>21, <1>22

--------------------------------------------------------------------------------
(* The tokens of a value among others *)

\* The tokens of v lie behind the first o.
Holds(ts, o, v) ==
  /\ o \in Nat /\ o + Len(Tokens[v]) <= Len(ts)
  /\ \A j \in 1 .. Len(Tokens[v]) : ts[o + j] = Tokens[v][j]

\* The first of them is the value's own.
LEMMA OwnToken ==
  ASSUME NEW ts \in Toks, NEW v \in Values, NEW o, Holds(ts, o, v)
  PROVE  /\ Len(Tokens[v]) \in Nat \ {0} /\ Len(ts) \in Nat /\ o \in Nat
         /\ o + 1 \in 1 .. Len(ts) /\ On(ts, o + 1)
         /\ ts[o + 1] = TokenOf(v)
         /\ ts[o + 1].type = v.type /\ ts[o + 1].size = Len(v.members)
         /\ ts[o + 1].text = v.text
<1> DEFINE l == Len(Tokens[v])
           n == Len(ts)
<1>1. PICK at : Spots(v, at)
  BY SpotsExist
<1>2. l \in Nat \ {0}
  <2>1. Len(v.members) \in 0 .. Len(v.members)
    BY MembersIn
  <2> QED BY <1>1, <2>1 DEF Spots
<1>3. n \in Nat /\ DOMAIN ts = 1 .. n
  BY LenProperties DEF Toks
<1>4. o \in Nat /\ o + l <= n /\ \A j \in 1 .. l : ts[o + j] = Tokens[v][j]
  BY DEF Holds
<1>5. Tokens[v][1] = TokenOf(v)
  BY <1>1 DEF Spots
<1> HIDE DEF l, n
<1>6. 1 \in 1 .. l /\ o + 1 \in 1 .. n
  BY <1>2, <1>3, <1>4
<1>7. ts[o + 1] = TokenOf(v)
  BY <1>4, <1>5, <1>6
<1>8. On(ts, o + 1)
  BY <1>3, <1>6 DEF On
<1>9. TokenOf(v).type = v.type /\ TokenOf(v).size = Len(v.members) /\ TokenOf(v).text = v.text
  BY DEF TokenOf, Token
<1> QED BY <1>2, <1>3, <1>4, <1>6, <1>7, <1>8, <1>9 DEF l, n

\* The members of a value lie among its tokens.
LEMMA MemberHeld ==
  ASSUME NEW ts \in Toks, NEW v \in Values, NEW o, Holds(ts, o, v),
         NEW at, Spots(v, at), NEW k \in 1 .. Len(v.members)
  PROVE  LET m == MemberValue(v, k)
             p == o + at[k - 1]
         IN  /\ m \in Values /\ p \in Nat /\ Holds(ts, p + KeySize(v), m)
             /\ o + at[k] = (p + KeySize(v)) + Len(Tokens[m])
             /\ p + 1 \in 1 .. Len(ts) /\ On(ts, p + 1)
             /\ at[k - 1] \in Nat \ {0} /\ at[k] \in Nat
             /\ at[k] <= Len(Tokens[v]) /\ Len(Tokens[m]) < Len(Tokens[v])
             /\ v.type = "object" => /\ v.members[k] \in Strings \X Values
                                     /\ m = v.members[k][2]
                                     /\ ts[p + 1] = Token("string", 1, v.members[k][1])
<1> DEFINE m == MemberValue(v, k)
           a == at[k - 1]
           b == at[k]
           e == KeySize(v)
           c == Len(v.members)
           l == Len(Tokens[v])
           q == Len(Tokens[m])
           n == Len(ts)
<1>1. c \in Nat /\ l \in Nat /\ n \in Nat /\ DOMAIN ts = 1 .. n
  BY MembersIn, TokensIn, LenProperties DEF Toks
<1>2. m \in Values
  BY MemberParts
<1>3. q \in Nat \ {0}
  <2>1. PICK spots : Spots(m, spots)
    BY <1>2, SpotsExist
  <2>2. Len(m.members) \in 0 .. Len(m.members)
    BY <1>2, MembersIn
  <2> QED BY <2>1, <2>2 DEF Spots
<1>4. k - 1 \in 0 .. c /\ k \in 0 .. c
  BY <1>1
<1>5. a \in Nat \ {0} /\ b \in Nat /\ b <= l
  BY <1>4 DEF Spots
<1>6. b = a + e + q
  BY DEF Spots
<1>7. v.type = "object" => Tokens[v][a + 1] = Token("string", 1, v.members[k][1])
  BY DEF Spots
<1>8. \A j \in 1 .. q : Tokens[v][a + e + j] = Tokens[m][j]
  BY DEF Spots
<1>9. o \in Nat /\ o + l <= n /\ \A j \in 1 .. l : ts[o + j] = Tokens[v][j]
  BY DEF Holds
<1>10. e \in {0, 1}
  BY DEF KeySize
<1>11. v.type = "object" => v.members[k] \in Strings \X Values /\ m = v.members[k][2]
  BY MemberParts DEF MemberValue
<1> HIDE DEF m, a, b, e, c, l, q, n
<1>12. (o + a) + 1 \in 1 .. n /\ a + 1 \in 1 .. l /\ (o + a) + 1 = o + (a + 1)
  BY <1>1, <1>3, <1>5, <1>6, <1>9, <1>10
<1>13. On(ts, (o + a) + 1)
  BY <1>1, <1>12 DEF On
<1>14. v.type = "object" => ts[(o + a) + 1] = Token("string", 1, v.members[k][1])
  BY <1>7, <1>9, <1>12
<1>15. \A j \in 1 .. q : ts[((o + a) + e) + j] = Tokens[m][j]
  <2> SUFFICES ASSUME NEW j \in 1 .. q PROVE ts[((o + a) + e) + j] = Tokens[m][j]
    OBVIOUS
  <2>1. (a + e + j) \in 1 .. l /\ ((o + a) + e) + j = o + (a + e + j)
    BY <1>1, <1>3, <1>5, <1>6, <1>9, <1>10
  <2> QED BY <1>8, <1>9, <2>1
<1>16. /\ ((o + a) + e) \in Nat /\ ((o + a) + e) + q <= n /\ o + b = ((o + a) + e) + q /\ q < l
       /\ o + a \in Nat
  BY <1>1, <1>3, <1>5, <1>6, <1>9, <1>10
<1>17. Holds(ts, (o + a) + e, m)
  BY <1>15, <1>16 DEF Holds, q, n
<1> QED BY <1>2, <1>5, <1>11, <1>12, <1>13, <1>14, <1>16, <1>17 DEF m, a, b, e, l, q, n

\* skip_value skips a value with all that is in it, however deeply it is nested.
THEOREM SkipsValue ==
  ASSUME NEW ts \in Toks, NEW v \in Values, NEW o, Holds(ts, o, v)
  PROVE  SkipValue(ts, o + 1) = o + Len(Tokens[v]) + 1
<1>1. PICK behind : /\ Leads(ts, 0, behind)
                    /\ \A j \in 1 .. Len(ts) + 1 : behind[j] = Skipped(ts, behind, j)
                    /\ \A i : SkipValue(ts, i) = behind[i]
  BY SkipDef
<1> DEFINE D == {n \in Nat : \A w \in Values, q \in Nat :
                   Len(Tokens[w]) <= n /\ Holds(ts, q, w)
                   => behind[q + 1] = q + Len(Tokens[w]) + 1}
<1>2. 0 \in D
  <2> SUFFICES ASSUME NEW w \in Values, NEW q \in Nat, Len(Tokens[w]) <= 0, Holds(ts, q, w)
               PROVE  FALSE
    OBVIOUS
  <2>1. Len(Tokens[w]) \in Nat \ {0}
    BY OwnToken
  <2> QED BY <2>1
<1>3. ASSUME NEW n \in Nat, n \in D PROVE n + 1 \in D
  <2> SUFFICES ASSUME NEW w \in Values, NEW q \in Nat, Len(Tokens[w]) <= n + 1,
                      Holds(ts, q, w)
               PROVE  behind[q + 1] = q + Len(Tokens[w]) + 1
    OBVIOUS
  <2> DEFINE l == Len(Tokens[w])
             c == Len(w.members)
             e == KeySize(w)
             i == q + 1
  <2>1. /\ l \in Nat \ {0} /\ i \in 1 .. Len(ts) /\ On(ts, i)
        /\ ts[i].type = w.type /\ ts[i].size = c /\ Len(ts) \in Nat
    BY OwnToken
  <2>2. behind[i] = Skipped(ts, behind, i)
    BY <1>1, <2>1
  <2>3. PICK at : Spots(w, at)
    BY SpotsExist
  <2>4. at[0] = 1 /\ at[c] = l /\ c \in Nat
    BY <2>3, MembersIn DEF Spots
  <2>5. CASE w.type \in {"object", "array"}
    <3>1. Leads(ts, i, behind)
      <4>1. \A j \in i + 1 .. Len(ts) + 1 : j \in 0 + 1 .. Len(ts) + 1
        BY <2>1
      <4> QED BY <1>1, <4>1 DEF Leads
    <3>2. behind[i] = Members(ts, i, behind)
      BY <2>1, <2>2, <2>5 DEF Skipped
    <3>3. PICK member \in [0 .. c -> Beyond(i)] :
            /\ Members(ts, i, behind) = member[c] /\ member[0] = i + 1
            /\ \A k \in 1 .. c : member[k] = Onward(ts, i, behind, member[k - 1])
      <4>1. ts[i].size = c
        BY <2>1
      <4> HIDE DEF c, i
      <4> QED BY <2>1, <3>1, <4>1, MembersDef
    <3> DEFINE E == {k \in 0 .. c : member[k] = (q + at[k]) + 1}
    <3>4. 0 \in E
      BY <2>4, <3>3
    <3>5. ASSUME NEW k \in 1 .. c, k - 1 \in E PROVE k \in E
      <4> DEFINE m == MemberValue(w, k)
                 p == q + at[k - 1]
                 u == Len(Tokens[m])
                 z == q + at[k]
      <4>1. /\ m \in Values /\ p \in Nat /\ Holds(ts, p + e, m) /\ z = (p + e) + u
            /\ On(ts, p + 1) /\ u < l
        BY <2>3, MemberHeld
      <4>2. e \in {0, 1} /\ e = IF ts[i].type = "object" THEN 1 ELSE 0
        BY <2>1 DEF KeySize
      <4>3. u \in Nat
        BY <4>1, TokensIn
      <4>4. u <= n
        <5> HIDE DEF u, l
        <5> QED BY <2>1, <4>1, <4>3 DEF l
      <4>5. behind[(p + e) + 1] = (p + e) + u + 1
        <5>1. p + e \in Nat
          BY <4>1, <4>2
        <5> DEFINE x == p + e
        <5> HIDE DEF x, m, p, e
        <5> QED BY <1>3, <4>1, <4>4, <5>1 DEF x, u
      <4>6. member[k - 1] = p + 1
        BY <3>5
      <4>7. member[k] = Onward(ts, i, behind, p + 1)
        BY <3>3, <4>6
      <4>8. Onward(ts, i, behind, p + 1) = behind[(p + 1) + e]
        BY <4>1, <4>2 DEF Onward
      <4>9. k \in 0 .. c
        BY <2>4
      <4> HIDE DEF p, u, e, z, i
      <4>10. (p + 1) + e = (p + e) + 1 /\ (p + e) + u + 1 = z + 1
        BY <4>1, <4>2, <4>3
      <4>11. member[k] = z + 1
        BY <4>5, <4>7, <4>8, <4>10
      <4> QED BY <4>9, <4>11 DEF z
    <3>6. 0 .. c \subseteq E
      <4> HIDE DEF E, c
      <4> QED BY <2>4, <3>4, <3>5, LoopInduction
    <3>7. member[c] = (q + l) + 1
      <4>1. c \in 0 .. c
        BY <2>4
      <4> QED BY <2>4, <3>6, <4>1
    <3> QED BY <3>2, <3>3, <3>7
  <2>6. CASE w.type \notin {"object", "array"}
    <3>1. behind[i] = i + 1
      BY <2>1, <2>2, <2>6 DEF Skipped
    <3>2. c = 0
      <4>1. w.members = <<>>
        BY <2>6, MembersIn
      <4> QED BY <4>1
    <3>3. l = 1
      BY <2>4, <3>2
    <3> QED BY <2>1, <3>1, <3>3
  <2> QED BY <2>5, <2>6
<1>4. Nat \subseteq D
  <2> HIDE DEF D
  <2> QED BY <1>2, <1>3, NatSetInduction
<1>5. Len(Tokens[v]) \in Nat /\ o \in Nat
  BY OwnToken
<1>6. behind[o + 1] = o + Len(Tokens[v]) + 1
  BY <1>4, <1>5
<1> QED BY <1>1, <1>6

--------------------------------------------------------------------------------
(* The members of an object *)

\* The key of a member and the first token of its value, when the tokens of the object lie
\* behind the first o and it is at p.
AtMember(ts, p, v, k) ==
  /\ On(ts, p) /\ On(ts, p + 1) /\ p \in Nat
  /\ ts[p] = Token("string", 1, v.members[k][1])
  /\ ts[p + 1].type = v.members[k][2].type
  /\ ts[p + 1].text = v.members[k][2].text
  /\ ts[p + 1].size = Len(v.members[k][2].members)
  /\ Holds(ts, p, v.members[k][2])

\* Each member of an object is found, and skipping it leads to the next.
LEMMA MemberFound ==
  ASSUME NEW ts \in Toks, NEW v \in Values, v.type = "object", NEW o, Holds(ts, o, v),
         NEW at, Spots(v, at), NEW k \in 1 .. Len(v.members)
  PROVE  LET p == (o + at[k - 1]) + 1
             m == v.members[k][2]
         IN  /\ AtMember(ts, p, v, k) /\ m \in Values /\ v.members[k] \in Strings \X Values
             /\ SkipKeyAndValue(ts, p) = (o + at[k]) + 1
             /\ o + at[k] = p + Len(Tokens[m])
<1> DEFINE q == o + at[k - 1]
           p == q + 1
           m == v.members[k][2]
           l == Len(Tokens[m])
           z == o + at[k]
<1>1. KeySize(v) = 1 /\ MemberValue(v, k) = m
  BY DEF KeySize, MemberValue
<1>2. /\ m \in Values /\ q \in Nat /\ Holds(ts, q + KeySize(v), m)
      /\ z = (q + KeySize(v)) + l /\ On(ts, q + 1)
      /\ v.members[k] \in Strings \X Values
      /\ ts[q + 1] = Token("string", 1, v.members[k][1])
  <2> DEFINE w == MemberValue(v, k)
             e == KeySize(v)
  <2>1. /\ w \in Values /\ q \in Nat /\ Holds(ts, q + e, w)
        /\ z = (q + e) + Len(Tokens[w]) /\ On(ts, q + 1)
    BY MemberHeld
  <2>2. v.members[k] \in Strings \X Values /\ ts[q + 1] = Token("string", 1, v.members[k][1])
    BY MemberHeld
  <2>3. w = m
    BY <1>1
  <2> HIDE DEF w, m, q, z, e
  <2> QED BY <2>1, <2>2, <2>3 DEF e, l
<1>3. p \in Nat /\ Holds(ts, p, m) /\ z = p + l
  BY <1>1, <1>2
<1> HIDE DEF p, m, z, l
<1>4. /\ On(ts, p + 1) /\ ts[p + 1].type = m.type /\ ts[p + 1].size = Len(m.members)
      /\ ts[p + 1].text = m.text
  BY <1>2, <1>3, OwnToken
<1>5. SkipValue(ts, p + 1) = p + l + 1
  BY <1>2, <1>3, SkipsValue DEF l
<1>6. l \in Nat
  BY <1>2, TokensIn DEF l
<1>7. SkipKeyAndValue(ts, p) = z + 1
  BY <1>3, <1>5, <1>6 DEF SkipKeyAndValue
<1>8. AtMember(ts, p, v, k)
  BY <1>2, <1>3, <1>4 DEF AtMember, p, m
<1> QED BY <1>2, <1>3, <1>7, <1>8 DEF p, m, z, l

\* A string or a number is one token.
LEMMA OneTokenOnly ==
  ASSUME NEW v \in Values, v.type \notin {"object", "array"}
  PROVE  Len(Tokens[v]) = 1
<1>1. PICK at : Spots(v, at)
  BY SpotsExist
<1>2. Len(v.members) = 0
  <2>1. v.members = <<>>
    BY MembersIn
  <2> QED BY <2>1
<1> QED BY <1>1, <1>2 DEF Spots

\* The numbers among the first k members that are wanted
NumbersOf(v, k, wanted) ==
  {<<v.members[j][1], v.members[j][2].text>> :
     j \in {j \in 1 .. k : v.members[j][1] \in wanted /\ v.members[j][2].type = "primitive"}}

\* One member more
LEMMA FoundMore ==
  ASSUME NEW v, NEW wanted, NEW k \in Nat \ {0}
  PROVE  NumbersOf(v, k, wanted) =
           IF v.members[k][1] \in wanted /\ v.members[k][2].type = "primitive"
           THEN NumbersOf(v, k - 1, wanted) \cup {<<v.members[k][1], v.members[k][2].text>>}
           ELSE NumbersOf(v, k - 1, wanted)
<1> DEFINE W(j) == v.members[j][1] \in wanted /\ v.members[j][2].type = "primitive"
           F(j) == <<v.members[j][1], v.members[j][2].text>>
<1>1. NumbersOf(v, k, wanted) = {F(j) : j \in {j \in 1 .. k : W(j)}}
      /\ NumbersOf(v, k - 1, wanted) = {F(j) : j \in {j \in 1 .. k - 1 : W(j)}}
  BY DEF NumbersOf
<1> HIDE DEF W, F
<1>2. {j \in 1 .. k : W(j)} = {j \in 1 .. k - 1 : W(j)} \cup {j \in {k} : W(j)}
  OBVIOUS
<1>3. {F(j) : j \in {j \in 1 .. k : W(j)}} = {F(j) : j \in {j \in 1 .. k - 1 : W(j)}} \cup
        {F(j) : j \in {j \in {k} : W(j)}}
  BY <1>2
<1>4. {F(j) : j \in {j \in {k} : W(j)}} = IF W(k) THEN {F(k)} ELSE {}
  OBVIOUS
<1>5. NumbersOf(v, k, wanted) = IF W(k) THEN NumbersOf(v, k - 1, wanted) \cup {F(k)}
                            ELSE NumbersOf(v, k - 1, wanted)
  BY <1>1, <1>3, <1>4
<1> QED BY <1>5 DEF W, F

\* The next member is taken or skipped.
LEMMA TakesMember ==
  ASSUME NEW ts \in Toks, NEW v \in Values, v.type = "object", NEW o, Holds(ts, o, v),
         NEW at, Spots(v, at), NEW k \in 1 .. Len(v.members), NEW wanted
  PROVE  TakeMember(ts, [pos |-> (o + at[k - 1]) + 1,
                         taken |-> NumbersOf(v, k - 1, wanted)], wanted)
           = [pos |-> (o + at[k]) + 1, taken |-> NumbersOf(v, k, wanted)]
<1> DEFINE p == (o + at[k - 1]) + 1
           z == o + at[k]
           m == v.members[k][2]
           key == v.members[k][1]
           F == NumbersOf(v, k - 1, wanted)
           G == NumbersOf(v, k, wanted)
           st == [pos |-> p, taken |-> F]
           W == key \in wanted /\ m.type = "primitive"
<1>1. /\ AtMember(ts, p, v, k) /\ m \in Values /\ SkipKeyAndValue(ts, p) = z + 1
      /\ z = p + Len(Tokens[m])
  BY MemberFound
<1>2. /\ On(ts, p) /\ On(ts, p + 1) /\ p \in Nat /\ ts[p] = Token("string", 1, key)
      /\ ts[p + 1].type = m.type /\ ts[p + 1].text = m.text
  BY <1>1 DEF AtMember
<1>3. G = IF W THEN F \cup {<<key, m.text>>} ELSE F
  <2>1. k \in Nat \ {0}
    BY MembersIn
  <2> QED BY <2>1, FoundMore
<1>4. m.type = "primitive" => Len(Tokens[m]) = 1
  BY <1>1, OneTokenOnly
<1> HIDE DEF p, z, m, key, F, G
<1>5. ts[p].type = "string" /\ ts[p].text = key
  BY <1>2 DEF Token
<1>6. (\E x \in wanted : Takes(ts, p, x)) <=> W
  BY <1>2, <1>5 DEF Takes, KeyIs
<1>7. st.pos = p /\ st.taken = F
  OBVIOUS
<1>8. CASE W
  <2>1. z = p + 1
    BY <1>1, <1>4, <1>8
  <2>2. TakeMember(ts, st, wanted) = [pos |-> p + 2, taken |-> F \cup {<<key, m.text>>}]
    BY <1>2, <1>5, <1>6, <1>7, <1>8 DEF TakeMember
  <2>3. p + 2 = z + 1
    BY <1>2, <2>1
  <2> QED BY <1>3, <1>8, <2>2, <2>3 DEF p, z, F, G
<1>9. CASE ~W
  <2>1. TakeMember(ts, st, wanted) = [st EXCEPT !.pos = SkipKeyAndValue(ts, @)]
    BY <1>2, <1>6, <1>7, <1>9 DEF TakeMember
  <2>2. TakeMember(ts, st, wanted) = [pos |-> z + 1, taken |-> F]
    BY <1>1, <2>1
  <2> QED BY <1>3, <1>9, <2>2 DEF p, z, F, G
<1> QED BY <1>8, <1>9

\* Of an object those numbers are taken that are wanted.
LEMMA ObjectTaken ==
  ASSUME NEW ts \in Toks, NEW v \in Values, v.type = "object", NEW o, Holds(ts, o, v),
         NEW wanted
  PROVE  TakeObject(ts, o, wanted).taken = NumbersOf(v, Len(v.members), wanted)
<1> DEFINE c == Len(v.members)
           Def(h) == [k \in 0 .. ts[o + 1].size |->
                        IF k = 0 THEN [pos |-> o + 2, taken |-> {}]
                        ELSE TakeMember(ts, h[k - 1], wanted)]
           run == CHOOSE h : h = Def(h)
<1>1. PICK at : Spots(v, at)
  BY SpotsExist
<1> DEFINE f == [k \in 0 .. c |-> [pos |-> (o + at[k]) + 1, taken |-> NumbersOf(v, k, wanted)]]
<1>2. ts[o + 1].size = c /\ o \in Nat
  BY OwnToken
<1>3. c \in Nat
  BY MembersIn
<1>4. TakeObject(ts, o, wanted) = run[ts[o + 1].size]
  BY DEF TakeObject
<1>5. run = Def(run) \/ \A h : h # Def(h)
  <2> HIDE DEF Def
  <2> QED OBVIOUS
<1>6. \A h : Def(h) = [k \in 0 .. c |-> IF k = 0 THEN [pos |-> o + 2, taken |-> {}]
                                       ELSE TakeMember(ts, h[k - 1], wanted)]
  BY <1>2
<1>7. \A k \in 0 .. c : f[k] = [pos |-> (o + at[k]) + 1, taken |-> NumbersOf(v, k, wanted)]
  OBVIOUS
<1>8. f = [k \in 0 .. c |-> f[k]]
  OBVIOUS
<1>9. [pos |-> (o + at[0]) + 1, taken |-> NumbersOf(v, 0, wanted)] = [pos |-> o + 2, taken |-> {}]
  <2>1. at[0] = 1
    BY <1>1 DEF Spots
  <2>2. (o + 1) + 1 = o + 2
    BY <1>2
  <2>3. NumbersOf(v, 0, wanted) = {}
    BY DEF NumbersOf
  <2> QED BY <2>1, <2>2, <2>3
<1>10. \A k \in 1 .. c :
         TakeMember(ts, [pos |-> (o + at[k - 1]) + 1,
                         taken |-> NumbersOf(v, k - 1, wanted)], wanted)
           = [pos |-> (o + at[k]) + 1, taken |-> NumbersOf(v, k, wanted)]
  BY <1>1, TakesMember
<1> HIDE DEF c, Def, run, f
<1>11. f[0] = [pos |-> o + 2, taken |-> {}]
  <2>1. 0 \in 0 .. c
    BY <1>3
  <2> QED BY <1>7, <1>9, <2>1
<1>12. \A k \in 1 .. c : f[k] = TakeMember(ts, f[k - 1], wanted)
  <2> SUFFICES ASSUME NEW k \in 1 .. c PROVE f[k] = TakeMember(ts, f[k - 1], wanted)
    OBVIOUS
  <2>1. k \in 0 .. c /\ k - 1 \in 0 .. c
    BY <1>3
  <2> QED BY <1>7, <1>10, <2>1
<1>13. f = Def(f)
  <2>1. ASSUME NEW k \in 0 .. c PROVE f[k] = Def(f)[k]
    <3>1. CASE k = 0
      BY <1>6, <1>11, <3>1
    <3>2. CASE k # 0
      <4>1. k \in 1 .. c
        BY <1>3, <3>2
      <4>2. Def(f)[k] = TakeMember(ts, f[k - 1], wanted)
        BY <1>6, <3>2
      <4> QED BY <1>12, <4>1, <4>2
    <3> QED BY <3>1, <3>2
  <2> QED BY <1>6, <1>8, <2>1
<1>14. run = Def(run)
  BY <1>5, <1>13
<1> DEFINE D == {k \in 0 .. c : run[k] = f[k]}
<1>15. 0 \in D
  <2>1. 0 \in 0 .. c
    BY <1>3
  <2>2. Def(run)[0] = [pos |-> o + 2, taken |-> {}]
    BY <1>6, <2>1
  <2> QED BY <1>11, <1>14, <2>1, <2>2
<1>16. ASSUME NEW k \in 1 .. c, k - 1 \in D PROVE k \in D
  <2>1. k \in 0 .. c /\ k # 0
    BY <1>3
  <2>2. Def(run)[k] = TakeMember(ts, run[k - 1], wanted)
    BY <1>6, <2>1
  <2>3. run[k - 1] = f[k - 1]
    BY <1>16
  <2>4. run[k] = f[k]
    BY <1>12, <1>14, <2>2, <2>3
  <2> QED BY <2>1, <2>4
<1>17. 0 .. c \subseteq D
  <2> HIDE DEF D
  <2> QED BY <1>3, <1>15, <1>16, LoopInduction
<1>18. c \in 0 .. c
  BY <1>3
<1>19. run[c] = [pos |-> (o + at[c]) + 1, taken |-> NumbersOf(v, c, wanted)]
  BY <1>7, <1>17, <1>18
<1> QED BY <1>2, <1>4, <1>19 DEF c

--------------------------------------------------------------------------------
(* What a JSON text asks for *)

\* The calls that the members of a text ask for
AskedAll(d) == {AskedOf(d.members[i])[1] : i \in 1 .. Len(d.members)}

\* They come one behind the other.
CallsRun(d, calls) ==
  /\ calls \in [0 .. Len(d.members) -> Seq(AskedAll(d))]
  /\ calls[0] = <<>>
  /\ \A i \in 1 .. Len(d.members) : calls[i] = calls[i - 1] \o AskedOf(d.members[i])

\* A member asks for one call or for none.
LEMMA AskedIn ==
  ASSUME NEW d \in Values, NEW i \in 1 .. Len(d.members)
  PROVE  AskedOf(d.members[i]) \in Seq(AskedAll(d))
<1> DEFINE u == AskedOf(d.members[i])
           S == AskedAll(d)
<1>1. u = <<>> \/ u = <<u[1]>>
  <2> DEFINE m == d.members[i]
             a == [json |-> {<<x[1], x[2].text>> : x \in {x \in Range(m[2].members) :
                                                x[1] \in Wanted /\ x[2].type = "primitive"}}]
             b == <<<<m[1], <<>>>>>> \o
                    [k \in DOMAIN m[2].members |->
                       <<m[2].members[k][1], m[2].members[k][2].text>>]
  <2>1. u = <<>> \/ u = <<a>> \/ u = <<b>>
    BY DEF AskedOf
  <2> HIDE DEF u, a, b
  <2> QED BY <2>1
<1>2. u[1] \in S
  BY DEF AskedAll
<1> HIDE DEF u, S
<1>3. <<u[1]>> \in Seq(S) /\ <<>> \in Seq(S)
  BY <1>2
<1> QED BY <1>1, <1>3 DEF u, S

\* The recursive function of Calls
LEMMA CallsDef ==
  ASSUME NEW d \in Values
  PROVE  \E calls : /\ CallsRun(d, calls)
                    /\ Calls(JsonLine(d)) = IF Len(Tokens[d]) > MaxTokens THEN <<>>
                                            ELSE calls[Len(d.members)]
<1> DEFINE w == JsonLine(d)
           l == Len(d.members)
           S == Seq(AskedAll(d))
           step == [x \in S \X (1 .. l) |-> x[1] \o AskedOf(d.members[x[2]])]
           Def(h) == [i \in 0 .. Len(d.members) |->
                        IF i = 0 THEN <<>>
                        ELSE h[i - 1] \o AskedOf(d.members[i])]
           run == CHOOSE h : h = Def(h)
<1>1. l \in Nat
  BY MembersIn
<1>2. \A a \in S, i \in 1 .. l : a \o AskedOf(d.members[i]) \in S
  <2> SUFFICES ASSUME NEW a \in S, NEW i \in 1 .. l PROVE a \o AskedOf(d.members[i]) \in S
    OBVIOUS
  <2> DEFINE u == AskedOf(d.members[i])
  <2>1. u \in S
    BY AskedIn
  <2> DEFINE X == AskedAll(d)
  <2>2. a \in Seq(X) /\ u \in Seq(X)
    BY <2>1
  <2> HIDE DEF u, X
  <2>3. a \o u \in Seq(X)
    BY <2>2, ConcatProperties
  <2> QED BY <2>3 DEF u, X
<1>3. step \in [S \X (1 .. l) -> S]
  <2> SUFFICES ASSUME NEW a \in S, NEW i \in 1 .. l PROVE a \o AskedOf(d.members[i]) \in S
    OBVIOUS
  <2> QED BY <1>2
<1>4. <<>> \in S
  OBVIOUS
<1>5. \A a \in S, i \in 1 .. l : step[<<a, i>>] = a \o AskedOf(d.members[i])
  OBVIOUS
<1>6. Calls(w) = IF Len(Tokens[d]) > MaxTokens THEN <<>> ELSE run[l]
  BY DEF Calls, JsonLine
<1>7. \A h : Def(h) = [i \in 0 .. l |-> IF i = 0 THEN <<>> ELSE h[i - 1] \o AskedOf(d.members[i])]
  OBVIOUS
<1>8. run = Def(run) \/ \A h : h # Def(h)
  <2> HIDE DEF Def
  <2> QED OBVIOUS
<1> HIDE DEF w, l, S, step, run, Def
<1>9. PICK f \in Runs(l, S, <<>>, step) : TRUE
  BY <1>1, <1>3, <1>4, Iterates
<1>10. f \in [0 .. l -> S] /\ f[0] = <<>> /\ \A i \in 1 .. l : f[i] = step[<<f[i - 1], i>>]
  BY <1>9 DEF Runs
<1>11. \A i \in 1 .. l : f[i] = f[i - 1] \o AskedOf(d.members[i])
  <2> SUFFICES ASSUME NEW i \in 1 .. l PROVE f[i] = f[i - 1] \o AskedOf(d.members[i])
    OBVIOUS
  <2>1. i - 1 \in 0 .. l
    BY <1>1
  <2>2. f[i - 1] \in S
    BY <1>10, <2>1
  <2> QED BY <1>5, <1>10, <2>2
<1>12. f = Def(f)
  <2>1. ASSUME NEW i \in 0 .. l PROVE f[i] = Def(f)[i]
    <3>1. CASE i = 0
      BY <1>7, <1>10, <3>1
    <3>2. CASE i # 0
      <4>1. i \in 1 .. l
        BY <1>1, <3>2
      <4>2. Def(f)[i] = f[i - 1] \o AskedOf(d.members[i])
        BY <1>7, <3>2
      <4> QED BY <1>11, <4>1, <4>2
    <3> QED BY <3>1, <3>2
  <2> QED BY <1>7, <1>10, <2>1
<1>13. run = Def(run)
  BY <1>8, <1>12
<1>14. run[0] = <<>>
  <2>1. 0 \in 0 .. l
    BY <1>1
  <2>2. Def(run)[0] = <<>>
    BY <1>7, <2>1
  <2> QED BY <1>13, <2>2
<1>15. ASSUME NEW i \in 1 .. l PROVE run[i] = run[i - 1] \o AskedOf(d.members[i])
  <2>1. i \in 0 .. l /\ i # 0
    BY <1>1
  <2> QED BY <1>7, <1>13, <2>1
<1>16. \A i \in 0 .. l : run[i] \in S
  <2>1. \A i \in 1 .. l : run[i - 1] \in S => run[i] \in S
    <3> SUFFICES ASSUME NEW i \in 1 .. l, run[i - 1] \in S PROVE run[i] \in S
      OBVIOUS
    <3>1. run[i - 1] \o AskedOf(d.members[i]) \in S
      BY <1>2
    <3> QED BY <1>15, <3>1
  <2> QED BY <1>1, <1>4, <1>14, <2>1, Stays
<1>17. run \in [0 .. l -> S]
  BY <1>7, <1>13, <1>16
<1>18. CallsRun(d, run)
  BY <1>14, <1>15, <1>17 DEF CallsRun, l, S
<1> QED BY <1>6, <1>18 DEF l, w

\* What begins like a sequence is a prefix of it.
LEMMA PrefixOf ==
  ASSUME NEW S, NEW s \in Seq(S), NEW t \in Seq(S), Len(s) <= Len(t),
         \A k \in 1 .. Len(s) : t[k] = s[k]
  PROVE  IsPrefix(s, t)
<1> DEFINE n == Len(s)
<1>1. n \in Nat /\ Len(t) \in Nat /\ n <= Len(t)
  BY LenProperties
<1>2. 1 \in 1 .. n + 1 /\ n \in 1 - 1 .. n /\ n \in 1 - 1 .. Len(t)
  BY <1>1
<1> DEFINE u == SubSeq(s, 1, n)
           v == SubSeq(t, 1, n)
<1>3. u = s
  <2>1. u \in Seq(S) /\ Len(u) = n /\ \A i \in 1 .. n : u[i] = s[i]
    BY <1>1, <1>2, SubSeqProperties
  <2> HIDE DEF u
  <2> QED BY <2>1, SeqEqual
<1>4. v = s
  <2>1. v \in Seq(S) /\ Len(v) = n /\ \A i \in 1 .. n : v[i] = t[i]
    BY <1>1, <1>2, SubSeqProperties
  <2> HIDE DEF v
  <2> QED BY <2>1, SeqEqual
<1> QED BY <1>1, <1>3, <1>4 DEF IsPrefix

\* What has been called for is the beginning of what is asked for.
LEMMA CallsPrefix ==
  ASSUME NEW d \in Values, NEW calls, CallsRun(d, calls), NEW i \in 0 .. Len(d.members)
  PROVE  IsPrefix(calls[i], calls[Len(d.members)])
<1> DEFINE l == Len(d.members)
           S == AskedAll(d)
           add == [k \in 1 .. l |-> AskedOf(d.members[k])]
<1>1. l \in Nat
  BY MembersIn
<1>2. add \in [1 .. l -> Seq(S)]
  BY AskedIn
<1>3. calls \in [0 .. l -> Seq(S)]
  BY DEF CallsRun
<1>4. Grows(l, calls, add)
  BY DEF CallsRun, Grows
<1> HIDE DEF l, S, add
<1>5. AllPrefixes(l, calls)
  BY <1>1, <1>2, <1>3, <1>4, PartsPrefix
<1>6. i \in 0 .. l /\ l \in 0 .. l
  BY <1>1 DEF l
<1> DEFINE s == calls[i]
           t == calls[l]
<1>7. s \in Seq(S) /\ t \in Seq(S)
  BY <1>3, <1>6
<1>8. Len(s) <= Len(t) /\ \A k \in 1 .. Len(s) : t[k] = s[k]
  BY <1>5, <1>6 DEF AllPrefixes
<1> HIDE DEF s, t
<1>9. IsPrefix(s, t)
  BY <1>7, <1>8, PrefixOf
<1> QED BY <1>9 DEF s, t, l

\* All numbers that are wanted of an object
LEMMA FoundAll ==
  ASSUME NEW v \in Values, NEW wanted
  PROVE  NumbersOf(v, Len(v.members), wanted) =
           {<<x[1], x[2].text>> :
              x \in {x \in Range(v.members) : x[1] \in wanted /\ x[2].type = "primitive"}}
<1> DEFINE s == v.members
           c == Len(s)
           W(x) == x[1] \in wanted /\ x[2].type = "primitive"
           F(x) == <<x[1], x[2].text>>
<1>1. DOMAIN s = 1 .. c
  BY MembersIn
<1>2. Range(s) = {s[j] : j \in 1 .. c}
  BY <1>1 DEF Range
<1>3. NumbersOf(v, c, wanted) = {F(s[j]) : j \in {j \in 1 .. c : W(s[j])}}
  BY DEF NumbersOf
<1> HIDE DEF s, c, W, F
<1>4. {F(s[j]) : j \in {j \in 1 .. c : W(s[j])}} = {F(x) : x \in {x \in Range(s) : W(x)}}
  BY <1>2
<1> QED BY <1>3, <1>4 DEF s, c, W, F

\* The hook is called with the numbers it wants of the member "json".
LEMMA JsonCall ==
  ASSUME NEW ts \in Toks, NEW p, NEW v \in Values, v.type = "object", Holds(ts, p, v), NEW m,
         m[1] = <<"json">>, m[2] = v
  PROVE  <<[json |-> TakeObject(ts, p, Wanted).taken]>> = AskedOf(m)
<1> DEFINE G == {<<x[1], x[2].text>> : x \in {x \in Range(v.members) :
                                          x[1] \in Wanted /\ x[2].type = "primitive"}}
           H == TakeObject(ts, p, Wanted).taken
<1>1. H = NumbersOf(v, Len(v.members), Wanted)
  BY ObjectTaken
<1>2. NumbersOf(v, Len(v.members), Wanted) = G
  BY FoundAll
<1>3. AskedOf(m) = <<[json |-> G]>>
  BY DEF AskedOf
<1> HIDE DEF G, H
<1> QED BY <1>1, <1>2, <1>3 DEF H

\* The members of a command are pairs of tokens.
LEMMA PairSpots ==
  ASSUME NEW v \in Values, v.type = "object",
         \A x \in Range(v.members) : x[2].type \in {"string", "primitive"}, NEW at, Spots(v, at)
  PROVE  \A j \in 0 .. Len(v.members) : at[j] = 2 * j + 1
<1> DEFINE c == Len(v.members)
           D == {j \in 0 .. c : at[j] = 2 * j + 1}
<1>1. c \in Nat /\ DOMAIN v.members = 1 .. c
  BY MembersIn
<1>2. 0 \in D
  BY <1>1 DEF Spots
<1>3. ASSUME NEW j \in 1 .. c, j - 1 \in D PROVE j \in D
  <2> DEFINE m == v.members[j][2]
  <2>1. v.members[j] \in Range(v.members)
    BY <1>1 DEF Range
  <2>2. m \in Values
    BY MembersIn
  <2>3. m.type \notin {"object", "array"}
    <3>1. m.type \in {"string", "primitive"}
      BY <2>1
    <3> QED BY <3>1
  <2>4. Len(Tokens[m]) = 1
    BY <2>2, <2>3, OneTokenOnly
  <2>5. at[j] = at[j - 1] + KeySize(v) + Len(Tokens[MemberValue(v, j)])
    BY DEF Spots
  <2>6. KeySize(v) = 1 /\ MemberValue(v, j) = m
    BY DEF KeySize, MemberValue
  <2>7. at[j - 1] = 2 * (j - 1) + 1
    BY <1>3
  <2> HIDE DEF m
  <2>8. at[j] = (2 * (j - 1) + 1) + 1 + 1
    BY <2>4, <2>5, <2>6, <2>7
  <2>9. j \in Nat /\ (2 * (j - 1) + 1) + 1 + 1 = 2 * j + 1
    BY <1>1
  <2>10. j \in 0 .. c
    BY <1>1
  <2> QED BY <2>8, <2>9, <2>10
<1>4. 0 .. c \subseteq D
  <2> HIDE DEF D, c
  <2> QED BY <1>1, <1>2, <1>3, LoopInduction
<1> QED BY <1>4

\* A command is called with its parameters, and what is behind it is next.
LEMMA CommandCall ==
  ASSUME NEW ts \in Toks, NEW p, NEW v \in Values, v.type = "object", Holds(ts, p, v),
         \A x \in Range(v.members) : x[2].type \in {"string", "primitive"},
         NEW m, m[1] # <<"json">>, m[2] = v, ValueAsString(ts, p) = m[1]
  PROVE  LET pairs == ts[p + 1].size
             text(i) == ValueAsString(ts, i)
             par == <<<<text(p), <<>>>>>>
                      \o [k \in 1 .. pairs |-> <<text(p + 2 * k), text(p + 2 * k + 1)>>]
         IN  /\ AskedOf(m) = IF text(p) \in Handlers THEN <<par>> ELSE <<>>
             /\ p + 2 + 2 * pairs = p + Len(Tokens[v]) + 1
<1> DEFINE c == Len(v.members)
           text(i) == ValueAsString(ts, i)
           got == [k \in 1 .. ts[p + 1].size |-> <<text(p + 2 * k), text(p + 2 * k + 1)>>]
           due == [i \in DOMAIN v.members |-> <<v.members[i][1], v.members[i][2].text>>]
<1>1. ts[p + 1].size = c /\ p \in Nat /\ Len(Tokens[v]) \in Nat
  BY OwnToken
<1>2. c \in Nat /\ DOMAIN v.members = 1 .. c
  BY MembersIn
<1>3. PICK at : Spots(v, at)
  BY SpotsExist
<1>4. \A j \in 0 .. c : at[j] = 2 * j + 1
  BY <1>3, PairSpots
<1>5. at[c] = Len(Tokens[v])
  BY <1>3 DEF Spots
<1>6. p + 2 + 2 * c = p + Len(Tokens[v]) + 1
  <2>1. at[c] = 2 * c + 1
    BY <1>2, <1>4
  <2> DEFINE l == Len(Tokens[v])
  <2> HIDE DEF c, l
  <2>2. l = 2 * c + 1
    BY <1>5, <2>1 DEF l
  <2> QED BY <1>1, <1>2, <2>2 DEF l
<1>7. ASSUME NEW j \in 1 .. c
      PROVE  /\ text(p + 2 * j) = v.members[j][1]
             /\ text(p + 2 * j + 1) = v.members[j][2].text
  <2> DEFINE q == (p + at[j - 1]) + 1
             x == v.members[j]
  <2>1. AtMember(ts, q, v, j)
    BY <1>3, MemberFound
  <2>2. q = p + 2 * j
    <3>1. at[j - 1] = 2 * (j - 1) + 1
      BY <1>2, <1>4
    <3>2. j \in Nat /\ (p + (2 * (j - 1) + 1)) + 1 = p + 2 * j
      BY <1>1, <1>2
    <3> QED BY <3>1, <3>2
  <2>3. x[2].type \in {"string", "primitive"}
    <3>1. x \in Range(v.members)
      BY <1>2 DEF Range
    <3> QED BY <3>1
  <2> HIDE DEF q, x
  <2>4. /\ ts[q] = Token("string", 1, x[1])
        /\ ts[q + 1].type = x[2].type /\ ts[q + 1].text = x[2].text
    BY <2>1 DEF AtMember, x
  <2>5. text(q) = x[1]
    BY <2>4 DEF ValueAsString, Token
  <2>6. text(q + 1) = x[2].text
    BY <2>3, <2>4 DEF ValueAsString
  <2> HIDE DEF text
  <2> QED BY <2>2, <2>5, <2>6 DEF x
<1>8. got = due
  <2>1. got = [k \in 1 .. c |-> <<text(p + 2 * k), text(p + 2 * k + 1)>>]
    BY <1>1
  <2>2. due = [k \in 1 .. c |-> <<v.members[k][1], v.members[k][2].text>>]
    BY <1>2
  <2> HIDE DEF got, due, text, c
  <2> QED BY <1>7, <2>1, <2>2
<1>9. AskedOf(m) = IF m[1] \notin Handlers THEN <<>> ELSE <<<<<<m[1], <<>>>>>> \o due>>
  BY DEF AskedOf
<1>10. text(p) = m[1]
  OBVIOUS
<1> DEFINE par == <<<<text(p), <<>>>>>> \o got
<1>11. par = <<<<m[1], <<>>>>>> \o due
  <2> HIDE DEF got, due, text
  <2> QED BY <1>8, <1>10
<1>12. AskedOf(m) = IF text(p) \in Handlers THEN <<par>> ELSE <<>>
  <2> HIDE DEF par, due, text
  <2> QED BY <1>9, <1>10, <1>11
<1> QED BY <1>1, <1>6, <1>12

--------------------------------------------------------------------------------
(* What the handlers are called with *)

\* How far the tokens of the text d have been walked through, with n members left, the next
\* one at p, and h called for
WalkedTo(d, ts, n, p, h) ==
  \/ ts = <<>> /\ n = 0 /\ h = <<>> /\ Calls(JsonLine(d)) = <<>>
  \/ /\ ts = Tokens[d]
     /\ \E at, calls : \E i \in 0 .. Len(d.members) :
          /\ Spots(d, at) /\ CallsRun(d, calls)
          /\ Calls(JsonLine(d)) = calls[Len(d.members)]
          /\ n = Len(d.members) - i /\ p = at[i] + 1 /\ h = calls[i]

\* A text is begun with in front of its first member.
LEMMA WalkBegins ==
  ASSUME NEW d \in Docs
  PROVE  WalkedTo(d, Parsed(d), IF Parsed(d) = <<>> THEN 0 ELSE Parsed(d)[1].size, 2, <<>>)
<1> DEFINE l == Len(d.members)
           ts == Tokens[d]
           n == IF Parsed(d) = <<>> THEN 0 ELSE Parsed(d)[1].size
<1>1. d \in Values /\ d.type = "object"
  BY DocsAssumption
<1>2. PICK calls : /\ CallsRun(d, calls)
                   /\ Calls(JsonLine(d)) = IF Len(ts) > MaxTokens THEN <<>> ELSE calls[l]
  BY <1>1, CallsDef
<1>3. PICK at : Spots(d, at)
  BY <1>1, SpotsExist
<1>4. l \in Nat
  BY <1>1, MembersIn
<1>5. Parsed(d) = IF Len(ts) > MaxTokens THEN <<>> ELSE ts
  BY <1>1 DEF Parsed
<1>6. ts \in Toks /\ Len(ts) # 0 /\ ts[1].size = l
  <2>1. ts \in Toks /\ Len(ts) \in Nat
    BY <1>1, TokensIn
  <2>2. Len(ts) \in Nat \ {0}
    <3>1. l \in 0 .. l
      BY <1>4
    <3> QED BY <1>3, <3>1 DEF Spots
  <2>3. ts[1] = TokenOf(d)
    BY <1>3 DEF Spots
  <2>4. TokenOf(d).size = l
    BY DEF TokenOf, Token
  <2> QED BY <2>1, <2>2, <2>3, <2>4
<1>7. ts # <<>>
  <2>1. Len(<<>>) = 0
    OBVIOUS
  <2> HIDE DEF ts
  <2> QED BY <1>6, <2>1
<1> HIDE DEF l, ts
<1>8. CASE Len(ts) > MaxTokens
  <2>1. Parsed(d) = <<>> /\ n = 0 /\ Calls(JsonLine(d)) = <<>>
    BY <1>2, <1>5, <1>8
  <2> QED BY <2>1 DEF WalkedTo
<1>9. CASE ~(Len(ts) > MaxTokens)
  <2>1. Parsed(d) = ts /\ n = l /\ Calls(JsonLine(d)) = calls[l]
    BY <1>2, <1>5, <1>6, <1>7, <1>9
  <2>2. 0 \in 0 .. l /\ l = l - 0
    BY <1>4
  <2>3. 2 = at[0] + 1 /\ <<>> = calls[0]
    BY <1>2, <1>3 DEF Spots, CallsRun
  <2> QED BY <1>2, <1>3, <2>1, <2>2, <2>3 DEF WalkedTo, ts, l
<1> QED BY <1>8, <1>9

\* The next member is called for as it asks.
LEMMA MemberCalled ==
  ASSUME NEW d \in Docs, NEW at, Spots(d, at), NEW k \in 1 .. Len(d.members)
  PROVE  LET ts == Tokens[d]
             p == at[k - 1] + 1
             m == d.members[k]
             pairs == ts[p + 1].size
             text(i) == ValueAsString(ts, i)
             par == <<<<text(p), <<>>>>>>
                      \o [j \in 1 .. pairs |-> <<text(p + 2 * j), text(p + 2 * j + 1)>>]
         IN  /\ On(ts, p)
             /\ SkipKeyAndValue(ts, p) = at[k] + 1
             /\ KeyIsEqual(ts, p, <<"json">>, "object") =>
                  <<[json |-> TakeObject(ts, p, Wanted).taken]>> = AskedOf(m)
             /\ KeyIsEqual(ts, p, AnyKey, "object") /\ ~KeyIsEqual(ts, p, <<"json">>, "object") =>
                  /\ AskedOf(m) = IF text(p) \in Handlers THEN <<par>> ELSE <<>>
                  /\ p + 2 + 2 * pairs = at[k] + 1
             /\ KeyIsEqual(ts, p, AnyKey, "object") /\ ~KeyIsEqual(ts, p, <<"json">>, "object")
                  /\ pairs >= ParLen => TooLong(m)
             /\ ~KeyIsEqual(ts, p, AnyKey, "object") => AskedOf(m) = <<>>
<1> DEFINE ts == Tokens[d]
           p == at[k - 1] + 1
           m == d.members[k]
           v == m[2]
           pairs == ts[p + 1].size
           text(i) == ValueAsString(ts, i)
           par == <<<<text(p), <<>>>>>>
                    \o [j \in 1 .. pairs |-> <<text(p + 2 * j), text(p + 2 * j + 1)>>]
           isJson == KeyIsEqual(ts, p, <<"json">>, "object")
           isObject == KeyIsEqual(ts, p, AnyKey, "object")
<1>1. d \in Values /\ d.type = "object" /\ (m[1] # <<"json">> /\ v.type = "object" =>
        \A x \in Range(v.members) : x[2].type \in {"string", "primitive"})
  <2>1. m \in Range(d.members)
    <3>1. d \in Values
      BY DocsAssumption
    <3>2. DOMAIN d.members = 1 .. Len(d.members)
      BY <3>1, MembersIn
    <3> QED BY <3>2 DEF Range
  <2> QED BY <2>1, DocsAssumption
<1>2. ts \in Toks /\ Holds(ts, 0, d)
  <2>1. ts \in Toks /\ Len(ts) \in Nat
    BY <1>1, TokensIn
  <2>2. \A j \in 1 .. Len(ts) : 0 + j = j
    OBVIOUS
  <2>3. 0 + Len(ts) <= Len(ts)
    <3> HIDE DEF ts
    <3> QED BY <2>1
  <2> QED BY <2>1, <2>2, <2>3 DEF Holds
<1>3. /\ AtMember(ts, p, d, k) /\ v \in Values
      /\ SkipKeyAndValue(ts, p) = at[k] + 1 /\ at[k] = p + Len(Tokens[v])
  <2> DEFINE q == (0 + at[k - 1]) + 1
  <2>1. /\ AtMember(ts, q, d, k) /\ v \in Values
        /\ SkipKeyAndValue(ts, q) = (0 + at[k]) + 1 /\ 0 + at[k] = q + Len(Tokens[v])
    <3> HIDE DEF ts
    <3> QED BY <1>1, <1>2, MemberFound
  <2>2. 0 + at[k - 1] = at[k - 1] /\ 0 + at[k] = at[k]
    <3>1. k - 1 \in 0 .. Len(d.members) /\ k \in 0 .. Len(d.members)
      BY <1>1, MembersIn
    <3>2. at[k - 1] \in Nat /\ at[k] \in Nat
      BY <3>1 DEF Spots
    <3> QED BY <3>2
  <2> QED BY <2>1, <2>2
<1>4. /\ On(ts, p) /\ On(ts, p + 1) /\ ts[p] = Token("string", 1, m[1])
      /\ ts[p + 1].type = v.type /\ Holds(ts, p, v)
  BY <1>3 DEF AtMember
<1> HIDE DEF ts, p, m, v
<1>5. ts[p].type = "string" /\ ts[p].text = m[1]
  BY <1>4 DEF Token
<1>6. text(p) = m[1]
  BY <1>5 DEF ValueAsString
<1>7. isJson <=> v.type = "object" /\ m[1] = <<"json">>
  BY <1>4, <1>5, NamesAssumption DEF KeyIsEqual, KeyIs
<1>8. isObject <=> v.type = "object"
  BY <1>4, <1>5 DEF KeyIsEqual, KeyIs
<1>9. m[2] = v
  BY DEF v
<1>10. isJson => <<[json |-> TakeObject(ts, p, Wanted).taken]>> = AskedOf(m)
  <2> HIDE DEF isJson
  <2> QED BY <1>2, <1>3, <1>4, <1>7, <1>9, JsonCall
<1>11. isObject /\ ~isJson =>
         /\ AskedOf(m) = IF text(p) \in Handlers THEN <<par>> ELSE <<>>
         /\ p + 2 + 2 * pairs = at[k] + 1
  <2> SUFFICES ASSUME isObject, ~isJson
               PROVE  /\ AskedOf(m) = IF text(p) \in Handlers THEN <<par>> ELSE <<>>
                      /\ p + 2 + 2 * pairs = at[k] + 1
    OBVIOUS
  <2>1. v.type = "object" /\ m[1] # <<"json">>
    BY <1>7, <1>8
  <2>2. \A x \in Range(v.members) : x[2].type \in {"string", "primitive"}
    BY <1>1, <2>1
  <2>3. ValueAsString(ts, p) = m[1]
    BY <1>6
  <2>4. /\ AskedOf(m) = IF text(p) \in Handlers THEN <<par>> ELSE <<>>
        /\ p + 2 + 2 * pairs = p + Len(Tokens[v]) + 1
    BY <1>2, <1>3, <1>4, <1>9, <2>1, <2>2, <2>3, CommandCall
  <2> HIDE DEF par, text, pairs
  <2> QED BY <1>3, <2>4
<1>12. ~isObject => AskedOf(m) = <<>>
  BY <1>8, <1>9 DEF AskedOf
<1>13. isObject /\ ~isJson /\ pairs >= ParLen => TooLong(m)
  <2> SUFFICES ASSUME isObject, ~isJson, pairs >= ParLen PROVE TooLong(m)
    OBVIOUS
  <2>1. v.type = "object" /\ m[1] # <<"json">>
    BY <1>7, <1>8
  <2>2. pairs = Len(v.members)
    BY <1>2, <1>3, <1>4, OwnToken
  <2> QED BY <1>9, <2>1, <2>2 DEF TooLong
<1> HIDE DEF isJson, isObject, text, par, pairs
<1> QED BY <1>3, <1>4, <1>10, <1>11, <1>12, <1>13 DEF ts, p, m, isJson, isObject, text, par, pairs

\* A step of the walk goes on to the next member.
LEMMA WalkGoesOn ==
  ASSUME NEW d \in Docs, WalkedTo(d, toks, count, pos, handled),
         JsonMember \/ CommandMember \/ OtherMember
  PROVE  WalkedTo(d, toks', count', pos', handled')
<1> DEFINE l == Len(d.members)
           ts == Tokens[d]
<1>1. Walking /\ toks' = toks /\ count' = count - 1
  BY DEF JsonMember, CommandMember, OtherMember, AtCommand, NextMember
<1>2. count > 0 /\ count # 0
  BY <1>1 DEF Walking
<1>3. PICK at, calls, i :
        /\ i \in 0 .. l
        /\ toks = ts /\ Spots(d, at) /\ CallsRun(d, calls)
        /\ Calls(JsonLine(d)) = calls[l]
        /\ count = l - i /\ pos = at[i] + 1 /\ handled = calls[i]
  BY <1>2 DEF WalkedTo
<1>4. l \in Nat /\ d \in Values
  BY DocsAssumption, MembersIn
<1> DEFINE k == i + 1
           m == d.members[k]
           text(j) == ValueAsString(ts, j)
           pairs == ts[pos + 1].size
           par == <<<<text(pos), <<>>>>>>
                    \o [j \in 1 .. pairs |-> <<text(pos + 2 * j), text(pos + 2 * j + 1)>>]
           taken == TakeObject(ts, pos, Wanted).taken
           isJson == KeyIsEqual(ts, pos, <<"json">>, "object")
           isObject == KeyIsEqual(ts, pos, AnyKey, "object")
<1>5. k \in 1 .. l /\ k \in 0 .. l /\ k - 1 = i /\ count - 1 = l - k
  <2> HIDE DEF l
  <2> QED BY <1>2, <1>3, <1>4
<1>6. /\ SkipKeyAndValue(ts, pos) = at[k] + 1
      /\ isJson => <<[json |-> taken]>> = AskedOf(m)
      /\ isObject /\ ~isJson => /\ AskedOf(m) = IF text(pos) \in Handlers THEN <<par>> ELSE <<>>
                                /\ pos + 2 + 2 * pairs = at[k] + 1
      /\ ~isObject => AskedOf(m) = <<>>
  <2>1. at[k - 1] + 1 = pos
    BY <1>3, <1>5
  <2>2. k \in 1 .. Len(d.members) /\ Spots(d, at)
    BY <1>3, <1>5
  <2> DEFINE q == at[k - 1] + 1
             word(j) == ValueAsString(ts, j)
             many == ts[q + 1].size
             given == <<<<word(q), <<>>>>>>
                        \o [j \in 1 .. many |-> <<word(q + 2 * j), word(q + 2 * j + 1)>>]
             hook == TakeObject(ts, q, Wanted).taken
             j1 == KeyIsEqual(ts, q, <<"json">>, "object")
             j2 == KeyIsEqual(ts, q, AnyKey, "object")
  <2> HIDE DEF k
  <2>3. SkipKeyAndValue(ts, q) = at[k] + 1
    BY <2>2, MemberCalled
  <2>4. j1 => <<[json |-> hook]>> = AskedOf(m)
    BY <2>2, MemberCalled
  <2>5. j2 /\ ~j1 => /\ AskedOf(m) = IF word(q) \in Handlers THEN <<given>> ELSE <<>>
                    /\ q + 2 + 2 * many = at[k] + 1
    BY <2>2, MemberCalled
  <2>6. ~j2 => AskedOf(m) = <<>>
    BY <2>2, MemberCalled
  <2>7. q = pos
    BY <2>1
  <2> HIDE DEF q, ts, m
  <2> QED BY <2>3, <2>4, <2>5, <2>6, <2>7
<1>7. calls[k] = calls[i] \o AskedOf(m)
  BY <1>3, <1>5 DEF CallsRun
<1>8. pos' = at[k] + 1 /\ handled' = handled \o AskedOf(m)
  <2>1. CASE JsonMember
    <3>1. isJson /\ pos' = SkipKeyAndValue(ts, pos) /\ handled' = handled \o <<[json |-> taken]>>
      BY <1>3, <2>1 DEF JsonMember, NextMember
    <3> HIDE DEF isJson, taken, k, ts, m
    <3> QED BY <1>6, <3>1
  <2>2. CASE CommandMember
    <3>1. /\ isObject /\ ~isJson /\ pos' = pos + 2 + 2 * pairs
          /\ handled' = handled \o IF text(pos) \in Handlers THEN <<par>> ELSE <<>>
      BY <1>3, <2>2 DEF CommandMember, AtCommand, NextMember
    <3> HIDE DEF isJson, isObject, pairs, text, par, k, ts, m
    <3> QED BY <1>6, <3>1
  <2>3. CASE OtherMember
    <3>1. ~isObject /\ pos' = SkipKeyAndValue(ts, pos) /\ handled' = handled \o <<>>
      BY <1>3, <2>3 DEF OtherMember, NextMember
    <3> HIDE DEF isObject, k, ts, m
    <3> QED BY <1>6, <3>1
  <2> QED BY <2>1, <2>2, <2>3
<1> HIDE DEF k, m, ts
<1>9. handled' = calls[k]
  BY <1>3, <1>7, <1>8
<1> QED BY <1>1, <1>3, <1>5, <1>8, <1>9 DEF WalkedTo, ts

\* par is overrun only by a member that has more parameters than it has room for.
LEMMA OverrunByMember ==
  ASSUME NEW d \in Docs, WalkedTo(d, toks, count, pos, handled), Overrun
  PROVE  \E m \in Range(d.members) : TooLong(m)
<1> DEFINE l == Len(d.members)
           ts == Tokens[d]
<1>1. /\ count > 0 /\ count # 0 /\ KeyIsEqual(toks, pos, AnyKey, "object")
      /\ ~KeyIsEqual(toks, pos, <<"json">>, "object") /\ toks[pos + 1].size >= ParLen
  BY DEF Overrun, AtCommand, Walking
<1>2. PICK at, i :
        i \in 0 .. l /\ toks = ts /\ Spots(d, at) /\ count = l - i /\ pos = at[i] + 1
  BY <1>1 DEF WalkedTo
<1>3. l \in Nat /\ DOMAIN d.members = 1 .. l
  BY DocsAssumption, MembersIn
<1> DEFINE k == i + 1
           m == d.members[k]
           q == at[k - 1] + 1
<1>4. k \in 1 .. l /\ k - 1 = i
  <2> HIDE DEF l
  <2> QED BY <1>1, <1>2, <1>3
<1>5. q = pos
  BY <1>2, <1>4
<1> HIDE DEF k
<1>6. KeyIsEqual(ts, q, AnyKey, "object") /\ ~KeyIsEqual(ts, q, <<"json">>, "object")
        /\ ts[q + 1].size >= ParLen => TooLong(m)
  BY <1>2, <1>4, MemberCalled
<1>7. TooLong(m)
  <2> HIDE DEF q, ts, m
  <2> QED BY <1>1, <1>2, <1>5, <1>6
<1>8. m \in Range(d.members)
  BY <1>3, <1>4 DEF Range
<1> QED BY <1>7, <1>8

\* At the end of the walk all members have been called for.
LEMMA WalkEnds ==
  ASSUME NEW d \in Docs, WalkedTo(d, toks, count, pos, handled), ~(count > 0 /\ On(toks, pos))
  PROVE  handled = Calls(JsonLine(d))
<1> DEFINE l == Len(d.members)
<1>1. CASE toks = <<>> /\ count = 0 /\ handled = <<>> /\ Calls(JsonLine(d)) = <<>>
  BY <1>1
<1>2. CASE ~(toks = <<>> /\ count = 0 /\ handled = <<>> /\ Calls(JsonLine(d)) = <<>>)
  <2>1. PICK at, calls, i :
          /\ i \in 0 .. l
          /\ toks = Tokens[d] /\ Spots(d, at) /\ CallsRun(d, calls)
          /\ Calls(JsonLine(d)) = calls[l]
          /\ count = l - i /\ pos = at[i] + 1 /\ handled = calls[i]
    BY <1>2 DEF WalkedTo
  <2>2. l \in Nat
    BY DocsAssumption, MembersIn
  <2>3. i = l
    <3> SUFFICES ASSUME i # l PROVE FALSE
      OBVIOUS
    <3> DEFINE k == i + 1
    <3>1. k \in 1 .. l /\ k - 1 = i /\ count > 0
      <4> HIDE DEF l
      <4> QED BY <2>1, <2>2
    <3> HIDE DEF k
    <3>2. On(Tokens[d], at[k - 1] + 1)
      BY <2>1, <3>1, MemberCalled
    <3> QED BY <2>1, <3>1, <3>2
  <2> QED BY <2>1, <2>3
<1> QED BY <1>1, <1>2

\* Nothing is a prefix, and so is all.
LEMMA NothingPrefix ==
  ASSUME NEW S, NEW t \in Seq(S)
  PROVE  IsPrefix(<<>>, t) /\ IsPrefix(t, t)
<1> DEFINE e == <<>>
<1>1. e \in Seq(S) /\ Len(e) = 0 /\ Len(t) \in Nat
  BY LenProperties
<1> HIDE DEF e
<1>2. Len(e) <= Len(t) /\ \A k \in 1 .. Len(e) : t[k] = e[k]
  BY <1>1
<1>3. IsPrefix(e, t)
  BY <1>1, <1>2, PrefixOf
<1>4. IsPrefix(t, t)
  BY <1>1, PrefixOf
<1> QED BY <1>3, <1>4 DEF e

\* What has been called for is the beginning of what is asked for.
LEMMA WalkPrefix ==
  ASSUME NEW d \in Docs, WalkedTo(d, toks, count, pos, handled)
  PROVE  IsPrefix(handled, Calls(JsonLine(d)))
<1> DEFINE l == Len(d.members)
<1>1. CASE handled = <<>> /\ Calls(JsonLine(d)) = <<>>
  <2>1. <<>> \in Seq({})
    OBVIOUS
  <2>2. IsPrefix(<<>>, <<>>)
    BY <2>1, NothingPrefix
  <2> QED BY <1>1, <2>2
<1>2. CASE ~(handled = <<>> /\ Calls(JsonLine(d)) = <<>>)
  <2>1. PICK at, calls, i :
          /\ i \in 0 .. l
          /\ CallsRun(d, calls) /\ Calls(JsonLine(d)) = calls[l] /\ handled = calls[i]
    BY <1>2 DEF WalkedTo
  <2>2. d \in Values
    BY DocsAssumption
  <2> QED BY <2>1, <2>2, CallsPrefix
<1> QED BY <1>1, <1>2

\* What a line asks for is a sequence.
LEMMA CallsPrefixes ==
  ASSUME NEW w \in Lines
  PROVE  IsPrefix(<<>>, Calls(w)) /\ IsPrefix(Calls(w), Calls(w))
<1>1. CASE \E ps \in Seq(Params), n \in {1, 2} : w = TextLine(ps, n)
  <2>1. ~w.json
    BY <1>1 DEF TextLine
  <2> DEFINE x == [i \in DOMAIN Asked(w.pars) |-> <<Asked(w.pars)[i].key, Asked(w.pars)[i].val>>]
  <2>2. Calls(w) = <<>> \/ Calls(w) = <<x>>
    BY <2>1 DEF Calls
  <2> HIDE DEF x
  <2>3. <<>> \in Seq({x}) /\ <<x>> \in Seq({x})
    OBVIOUS
  <2> QED BY <2>2, <2>3, NothingPrefix
<1>2. CASE \E d \in Docs : w = JsonLine(d)
  <2>1. PICK d \in Docs : w = JsonLine(d)
    BY <1>2
  <2>2. d \in Values
    BY DocsAssumption
  <2>3. PICK calls : /\ CallsRun(d, calls)
                     /\ Calls(JsonLine(d)) = IF Len(Tokens[d]) > MaxTokens THEN <<>>
                                             ELSE calls[Len(d.members)]
    BY <2>2, CallsDef
  <2>4. Len(d.members) \in 0 .. Len(d.members)
    BY <2>2, MembersIn
  <2>5. calls[Len(d.members)] \in Seq(AskedAll(d))
    BY <2>3, <2>4 DEF CallsRun
  <2>6. Calls(w) \in Seq(AskedAll(d))
    BY <2>1, <2>3, <2>5
  <2> QED BY <2>6, NothingPrefix
<1> QED BY <1>1, <1>2, LineKinds

\* The line that is asked for has not been begun with.
Unbegun == todo # <<>> \/ (phase = "idle" /\ line # NoLine)

\* What has been called for is as far as the command is.
HandInv ==
  /\ want = NoVal => handled = <<>> /\ phase = "idle"
  /\ want # NoVal /\ Unbegun => handled = <<>>
  /\ want # NoVal /\ ~Unbegun /\ phase \notin {"json", "overrun"} => handled = Calls(want)
  /\ phase \in {"json", "overrun"} =>
       \E d \in Docs :
         /\ want = JsonLine(d) /\ WalkedTo(d, toks, count, pos, handled)
         /\ phase = "overrun" => \E m \in Range(d.members) : TooLong(m)

\* Initially nothing is called for.
LEMMA HandInvInit == Init => HandInv
  BY DEF Init, HandInv

\* A line of parameters asks for one call or for none.
LEMMA TextCalls ==
  ASSUME EditInv, want # NoVal, ~want.json, NEW ps, ps = want.pars
  PROVE  Calls(want) = IF ~Wrong(ps) /\ Asked(ps) # <<>> /\ Asked(ps)[1].key \in Handlers
                       THEN <<[i \in DOMAIN Asked(ps) |-> <<Asked(ps)[i].key, Asked(ps)[i].val>>]>>
                       ELSE <<>>
  BY DEF Calls, IsCommand

\* A command is handled as asked.
LEMMA ParsedCalls ==
  ASSUME EditInv, ReadInv, OutInv, HandInv, IsText
  PROVE  /\ ParseLine(line).n <= 0 => Calls(want) = <<>>
         /\ ParseLine(line).n > 0 => Handle(ParseLine(line).pars) = Calls(want)
<1> DEFINE r == ParseLine(line)
           ps == want.pars
           a == Asked(ps)
           due == [i \in DOMAIN a |-> <<a[i].key, a[i].val>>]
<1>1. /\ want # NoVal /\ todo = <<>> /\ ~want.json /\ phase = "idle" /\ line # NoLine
      /\ LineFacts(line, ps)
  BY Begun
<1>2. handled = <<>>
  BY <1>1 DEF HandInv, Unbegun
<1>3. Calls(want) = IF ~Wrong(ps) /\ a # <<>> /\ a[1].key \in Handlers THEN <<due>> ELSE <<>>
  BY <1>1, TextCalls
<1>4. /\ r.n \in Int /\ (r.n < 0 <=> Wrong(ps))
      /\ r.n >= 0 => r.n = Len(r.pars) /\ SamePairs(r.pars, a)
  BY <1>1 DEF LineFacts, ParsedAs
<1>5. a \in Seq(Params)
  <2>1. ps \in Seq(Params)
    BY <1>1 DEF LineFacts
  <2>2. PICK asked \in [0 .. Len(ps) -> Seq(Params)] : a = asked[Len(ps)]
    BY <2>1, AskedDef
  <2>3. Len(ps) \in 0 .. Len(ps)
    BY <2>1, LenProperties
  <2> QED BY <2>2, <2>3
<1>6. r.pars \in Seq(Pairs)
  BY <1>1 DEF LineFacts, ParsedAs
<1> DEFINE n == r.n
           pars == r.pars
           l == Len(a)
<1>7. n \in Int /\ (n < 0 <=> Wrong(ps)) /\ (n >= 0 => n = Len(pars) /\ SamePairs(pars, a))
  BY <1>4
<1>8. l \in Nat /\ DOMAIN a = 1 .. l /\ (a = <<>> <=> l = 0)
  BY <1>5, LenProperties, EmptySeq
<1>9. Handle(pars) = IF pars[1][1] \in Handlers THEN Append(handled, pars) ELSE handled
  BY DEF Handle
<1>10. due = [i \in DOMAIN a |-> <<a[i].key, a[i].val>>]
  OBVIOUS
<1> HIDE DEF r, n, pars, l, a, due
<1>11. CASE n <= 0
  <2>1. CASE n < 0
    BY <1>3, <1>7, <2>1 DEF n, r
  <2>2. CASE n = 0
    <3>1. l = 0
      BY <1>7, <2>2 DEF SamePairs, l
    <3> QED BY <1>3, <1>8, <2>2, <3>1 DEF n, r
  <2> QED BY <1>7, <1>11, <2>1, <2>2
<1>12. CASE n > 0
  <2>1. /\ ~Wrong(ps) /\ n = Len(pars) /\ l = n
        /\ \A k \in 1 .. n : pars[k] = <<a[k].key, a[k].val>>
    <3>1. n >= 0 /\ ~(n < 0)
      BY <1>7, <1>12
    <3> QED BY <1>7, <3>1 DEF SamePairs, l
  <2>2. 1 \in 1 .. n /\ a # <<>>
    BY <1>7, <1>8, <1>12, <2>1
  <2>3. pars[1][1] = a[1].key
    BY <2>1, <2>2
  <2>4. pars = due
    <3>1. pars = [k \in 1 .. n |-> pars[k]]
      BY <1>6, <2>1 DEF pars
    <3>2. due = [k \in 1 .. n |-> <<a[k].key, a[k].val>>]
      BY <1>8, <1>10, <2>1
    <3> QED BY <2>1, <3>1, <3>2
  <2>5. Append(handled, pars) = <<pars>>
    <3>1. <<pars>> = Append(<<>>, pars)
      OBVIOUS
    <3> QED BY <1>2, <3>1
  <2>6. Handle(pars) = Calls(want)
    BY <1>2, <1>3, <1>9, <2>1, <2>2, <2>3, <2>4, <2>5
  <2> QED BY <1>7, <1>12, <2>6 DEF n, pars, r
<1> QED BY <1>7, <1>11, <1>12

\* Each action keeps HandInv.
LEMMA HandInvNext ==
  ASSUME EditInv, EditInv', ReadInv, ReadInv', OutInv, HandInv, [Next]_vars
  PROVE  HandInv'
<1>1. CASE UNCHANGED vars \/ EnlargeBuffer
  <2>1. UNCHANGED <<want, todo, line, phase, jsonvars, handled>>
    <3>1. CASE UNCHANGED vars
      BY <3>1 DEF vars, bufvars, jsonvars
    <3>2. CASE EnlargeBuffer
      BY <3>2 DEF EnlargeBuffer, Enlarge, uservars
    <3> QED BY <1>1, <3>1, <3>2
  <2> QED BY <2>1 DEF HandInv, Unbegun, jsonvars
<1>2. CASE Choose
  <2>1. /\ want = NoVal /\ want' \in Lines /\ todo' = want'.text \o <<";">>
        /\ phase' = phase /\ handled' = handled
    BY <1>2 DEF Choose
  <2>2. todo' # <<>>
    BY <2>1, TypedIsSome
  <2>3. want' # NoVal /\ phase \notin {"json", "overrun"}
    BY <2>1, WantAssumption DEF HandInv
  <2> QED BY <2>1, <2>2, <2>3 DEF HandInv, Unbegun
<1>3. CASE Answered
  <2>1. /\ want' = NoVal /\ handled' = <<>> /\ phase' = phase /\ phase = "idle"
    BY <1>3 DEF Answered, AtRest
  <2> QED BY <2>1 DEF HandInv
<1>4. CASE TypeNext \/ Slip \/ Correct \/ Restart
  <2>1. /\ UNCHANGED <<want, phase, handled>> /\ phase = "idle" /\ want # NoVal
        /\ todo # <<>> /\ (todo' # <<>> \/ line' # NoLine)
    BY <1>4, KeysGoOn
  <2> QED BY <2>1 DEF HandInv, Unbegun
<1>5. CASE IgnoreEmpty \/ NoCommand
  <2>1. /\ IsText /\ line' = NoLine /\ UNCHANGED <<want, todo, phase, handled>>
        /\ line = <<>> \/ ParseLine(line).n = 0
    BY <1>5 DEF IgnoreEmpty, NoCommand, Done, uservars
  <2>2. /\ want # NoVal /\ todo = <<>> /\ phase = "idle" /\ line # NoLine /\ ~want.json
        /\ LineFacts(line, want.pars)
    BY <2>1, Begun
  <2>3. handled = <<>>
    BY <2>2 DEF HandInv, Unbegun
  <2>4. Calls(want) = <<>>
    <3>1. CASE line = <<>>
      <4>1. Asked(want.pars) = <<>>
        BY <2>2, <3>1 DEF LineFacts
      <4> QED BY <2>2, <4>1, TextCalls
    <3>2. CASE ParseLine(line).n = 0
      <4>1. ParseLine(line).n <= 0
        BY <3>2
      <4> QED BY <2>1, <4>1, ParsedCalls
    <3> QED BY <2>1, <3>1, <3>2
  <2> QED BY <2>1, <2>2, <2>3, <2>4 DEF HandInv, Unbegun
<1>6. CASE Refuse
  <2>1. IsText /\ ParseLine(line).n < 0 /\ UNCHANGED <<want, todo, handled>> /\ phase' = "failed"
    BY <1>6 DEF Refuse, uservars
  <2>2. want # NoVal /\ todo = <<>> /\ phase = "idle" /\ line # NoLine
        /\ LineFacts(line, want.pars)
    BY <2>1, Begun
  <2>3. handled = <<>>
    BY <2>2 DEF HandInv, Unbegun
  <2>4. Calls(want) = <<>>
    <3> DEFINE z == ParseLine(line).n
    <3>1. z \in Int /\ z < 0
      BY <2>1, <2>2 DEF LineFacts, ParsedAs
    <3>2. z <= 0
      <4> HIDE DEF z
      <4> QED BY <3>1
    <3> QED BY <2>1, <3>2, ParsedCalls
  <2> QED BY <2>1, <2>2, <2>3, <2>4 DEF HandInv, Unbegun
<1>7. CASE ReplyFailure \/ RootClose
  <2>1. /\ phase \in {"failed", "reply"} /\ phase' = "idle" /\ line' = NoLine
        /\ UNCHANGED <<want, todo, handled>>
    BY <1>7 DEF ReplyFailure, RootClose, Done, uservars
  <2>2. line # NoLine
    BY <2>1 DEF EditInv
  <2>3. want # NoVal /\ todo = <<>>
    BY <2>2, LineInWork
  <2>4. handled = Calls(want)
    BY <2>1, <2>3 DEF HandInv, Unbegun
  <2> QED BY <2>1, <2>3, <2>4 DEF HandInv, Unbegun
<1>8. CASE Process
  <2>1. /\ IsText /\ ParseLine(line).n > 0 /\ handled' = Handle(ParseLine(line).pars)
        /\ phase' = "reply" /\ UNCHANGED <<want, todo>>
    BY <1>8 DEF Process, uservars
  <2>2. want # NoVal /\ todo = <<>>
    BY <2>1, Begun
  <2>3. handled' = Calls(want)
    BY <2>1, ParsedCalls
  <2> QED BY <2>1, <2>2, <2>3 DEF HandInv, Unbegun
<1>9. CASE PrintEntry \/ StatusMessage
  <2>1. UNCHANGED <<want, todo, line, phase, jsonvars, handled>>
    BY <1>9 DEF PrintEntry, StatusMessage, bufvars, uservars
  <2> QED BY <2>1 DEF HandInv, Unbegun, jsonvars
<1>10. CASE BeginJson
  <2>1. /\ phase = "idle" /\ line # NoLine /\ ~IsText /\ UNCHANGED <<want, todo, handled>>
        /\ toks' = Parsed(want.doc) /\ pos' = 2 /\ phase' = "json"
        /\ count' = IF toks' = <<>> THEN 0 ELSE toks'[1].size
    BY <1>10 DEF BeginJson, uservars
  <2>2. want # NoVal /\ todo = <<>> /\ want \in Lines
    BY <2>1, LineInWork DEF EditInv
  <2>3. handled = <<>>
    BY <2>1, <2>2 DEF HandInv, Unbegun
  <2>4. PICK d \in Docs : want = JsonLine(d)
    <3>1. want.json
      <4> SUFFICES ASSUME ~want.json PROVE FALSE
        OBVIOUS
      <4>1. LineFacts(line, want.pars)
        BY <2>1, LineInWork
      <4>2. line # <<>> => Head(line) # "{"
        BY <4>1 DEF LineFacts
      <4> QED BY <2>1, <4>2 DEF IsText
    <3>2. \A ps, n : ~TextLine(ps, n).json
      BY DEF TextLine
    <3> QED BY <2>2, <3>1, <3>2, LineKinds
  <2>5. want.doc = d
    BY <2>4 DEF JsonLine
  <2>6. WalkedTo(d, toks', count', pos', handled')
    BY <2>1, <2>3, <2>5, WalkBegins
  <2> QED BY <2>1, <2>2, <2>4, <2>6 DEF HandInv, Unbegun
<1>11. CASE JsonMember \/ CommandMember \/ OtherMember
  <2>1. phase = "json" /\ phase' = phase /\ want' = want /\ todo' = todo
    BY <1>11 DEF JsonMember, CommandMember, OtherMember, AtCommand, NextMember, Walking,
                 uservars
  <2>2. PICK d \in Docs : want = JsonLine(d) /\ WalkedTo(d, toks, count, pos, handled)
    BY <2>1 DEF HandInv
  <2>3. WalkedTo(d, toks', count', pos', handled')
    BY <1>11, <2>2, WalkGoesOn
  <2>4. want # NoVal /\ todo = <<>>
    <3>1. line # NoLine
      BY <2>1 DEF EditInv
    <3> QED BY <3>1, LineInWork
  <2> QED BY <2>1, <2>2, <2>3, <2>4 DEF HandInv, Unbegun
<1>12. CASE EndJson
  <2>1. /\ phase = "json" /\ ~Walking /\ phase' = "idle" /\ line' = NoLine
        /\ UNCHANGED <<want, todo, handled>>
    BY <1>12 DEF EndJson, Done, uservars
  <2>2. PICK d \in Docs : want = JsonLine(d) /\ WalkedTo(d, toks, count, pos, handled)
    BY <2>1 DEF HandInv
  <2>3. handled = Calls(want)
    BY <2>1, <2>2, WalkEnds DEF Walking
  <2>4. want # NoVal /\ todo = <<>>
    <3>1. line # NoLine
      BY <2>1 DEF EditInv
    <3> QED BY <3>1, LineInWork
  <2> QED BY <2>1, <2>3, <2>4 DEF HandInv, Unbegun
<1>13. CASE Overrun
  <2>1. phase = "json" /\ phase' = "overrun" /\ UNCHANGED <<want, todo, line, jsonvars, handled>>
    BY <1>13 DEF Overrun, AtCommand, Walking, uservars, bufvars
  <2>2. PICK d \in Docs : want = JsonLine(d) /\ WalkedTo(d, toks, count, pos, handled)
    BY <2>1 DEF HandInv
  <2>3. \E m \in Range(d.members) : TooLong(m)
    BY <1>13, <2>2, OverrunByMember
  <2>4. WalkedTo(d, toks', count', pos', handled')
    BY <2>1, <2>2 DEF jsonvars
  <2>5. want # NoVal /\ todo = <<>>
    <3>1. line # NoLine
      BY <2>1 DEF EditInv
    <3> QED BY <3>1, LineInWork
  <2> QED BY <2>1, <2>2, <2>3, <2>4, <2>5 DEF HandInv, Unbegun
<1> QED BY <1>1, <1>2, <1>3, <1>4, <1>5, <1>6, <1>7, <1>8, <1>9, <1>10, <1>11, <1>12, <1>13
        DEF Next, Undefined

\* What has been called for is as HandledAsAsked says.
LEMMA HandSays ==
  ASSUME EditInv, HandInv
  PROVE  HandledAsAsked
<1> SUFFICES ASSUME want # NoVal
             PROVE  /\ IsPrefix(handled, Calls(want))
                    /\ AtRest /\ todo = <<>> => handled = Calls(want)
                    /\ phase = "overrun" =>
                         want.json /\ \E m \in Range(want.doc.members) : TooLong(m)
  BY DEF HandledAsAsked
<1>1. IsPrefix(<<>>, Calls(want)) /\ IsPrefix(Calls(want), Calls(want))
  BY CallsPrefixes DEF EditInv
<1>5. phase = "overrun" => want.json /\ \E m \in Range(want.doc.members) : TooLong(m)
  <2> SUFFICES ASSUME phase = "overrun"
               PROVE  want.json /\ \E m \in Range(want.doc.members) : TooLong(m)
    OBVIOUS
  <2>1. PICK d \in Docs : want = JsonLine(d) /\ \E m \in Range(d.members) : TooLong(m)
    BY DEF HandInv
  <2>2. want.json /\ want.doc = d
    BY <2>1 DEF JsonLine
  <2> QED BY <2>1, <2>2
<1>2. CASE Unbegun
  <2>1. handled = <<>>
    BY <1>2 DEF HandInv
  <2>2. ~(AtRest /\ todo = <<>>)
    BY <1>2 DEF Unbegun, AtRest
  <2> QED BY <1>1, <1>5, <2>1, <2>2
<1>3. CASE ~Unbegun /\ phase \notin {"json", "overrun"}
  <2>1. handled = Calls(want)
    BY <1>3 DEF HandInv
  <2> QED BY <1>1, <1>3, <2>1
<1>4. CASE phase \in {"json", "overrun"}
  <2>1. PICK d \in Docs : want = JsonLine(d) /\ WalkedTo(d, toks, count, pos, handled)
    BY <1>4 DEF HandInv
  <2>2. IsPrefix(handled, Calls(want))
    BY <2>1, WalkPrefix
  <2>3. ~AtRest
    BY <1>4 DEF AtRest
  <2> QED BY <1>5, <2>2, <2>3
<1> QED BY <1>2, <1>3, <1>4

\* Each command the user asks for is handled once, in order, with the parameters asked for,
\* and nothing else is: not what was erased, not what surrounds it in a nested text.  Only a
\* JSON command with more parameters than par has room for ends this: what comes before it
\* has been handled as asked, and with it par is overrun.
THEOREM HandledIsAsked == Spec => []HandledAsAsked
<1>1. EditInv /\ EditInv' /\ ReadInv /\ ReadInv' /\ OutInv /\ [Next]_vars => OutInv'
  BY OutInvNext
<1>2. EditInv /\ EditInv' /\ ReadInv /\ [Next]_vars => ReadInv'
  BY ReadInvNext
<1>3. EditInv /\ EditInv' /\ ReadInv /\ ReadInv' /\ OutInv /\ HandInv /\ [Next]_vars => HandInv'
  BY HandInvNext
<1>4. EditInv /\ HandInv => HandledAsAsked
  BY HandSays
<1> QED BY <1>1, <1>2, <1>3, <1>4, ReadInvInit, OutInvInit, HandInvInit, Edited, PTL DEF Spec
==================================================================================
