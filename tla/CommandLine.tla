------------------------------ MODULE CommandLine ------------------------------
(***************************************************************************)
(* Reading a command line character by character into a buffer that grows  *)
(* (cli/cmdline_get.cc, cli/cmdline_set.cc), and taking it apart into a    *)
(* command and its parameters (cli/cmdline_parse.cc).                      *)
(*                                                                         *)
(* A character is a letter or one of the words "quote", "=", ";", " ",     *)
(* "{" and "}"; the key "mid" is the letter "m".  Typing may also give a   *)
(* "backspace" or a "newline".                                             *)
(***************************************************************************)
EXTENDS Integers, Sequences, SequencesExt

CONSTANTS
  FirstSize, Growth,   \* the size of the first buffer, and by how much it is enlarged
  MaxSize,             \* bound: the size of the buffer
  MaxPar,              \* the number of places for parameters
  Letters,             \* the characters without a meaning
  NoLine, NoVal

\* What a line may hold
Chars == Letters \cup {"quote", "=", ";", " ", "{", "}"}

ASSUME SizesAssumption ==
  FirstSize \in Nat \ {0, 1} /\ Growth \in Nat \ {0} /\ MaxPar \in Nat \ {0}

ASSUME CharsAssumption ==
  /\ Letters \cap {"quote", "=", ";", " ", "{", "}", "backspace", "newline"} = {}
  /\ NoLine \notin Seq(Chars) /\ NoVal \notin Seq(Chars)

VARIABLES
  chars,         \* buf up to buf_idx
  size,          \* buf_size
  quote_count,
  line           \* the complete line in buf while it is worked on

bufvars == <<chars, size, quote_count, line>>

ReaderInit == chars = <<>> /\ size = 0 /\ quote_count = 0 /\ line = NoLine

\* CMDL_LINE_BUF_FULL
Full == Len(chars) + 1 >= size

\* cliBuf_enlarge.  When the heap has nothing the buffer stays full, and it is tried again
\* the next time.
Enlarge ==
  /\ line = NoLine /\ Full
  /\ size' = IF size = 0 THEN FirstSize ELSE size + Growth
  /\ size' <= MaxSize
  /\ UNCHANGED <<chars, quote_count, line>>

Buffer(content, count) ==
  /\ chars' = content /\ quote_count' = count
  /\ UNCHANGED <<size, line>>

\* A bug: the quotes of a line that is thrown away are still counted.
DiscardLineOnly == Buffer(<<>>, quote_count)

Discard == Buffer(<<>>, 0)

Backspace ==
  IF chars = <<>> THEN Buffer(chars, quote_count)
  ELSE Buffer(Front(chars), quote_count - IF Last(chars) = "quote" THEN 1 ELSE 0)

EndOfLine ==
  /\ line' = chars /\ chars' = <<>> /\ quote_count' = 0
  /\ UNCHANGED size

\* cli_get_commandline with the next character
ReadChar(c) ==
  /\ line = NoLine /\ ~Full
  /\ CASE c = "newline" -> Discard
       [] c = "backspace" -> Backspace
       [] c = ";" /\ quote_count % 2 = 0 -> EndOfLine
       [] OTHER -> Buffer(Append(chars, c), quote_count + IF c = "quote" THEN 1 ELSE 0)

Done == line' = NoLine /\ UNCHANGED <<chars, size, quote_count>>

--------------------------------------------------------------------------------
(* Taking a line apart *)

\* The first position from i on that holds one of the stops, or the end of the line
Until(s, i, stops) ==
  CHOOSE j \in i .. Len(s) + 1 :
    /\ j = Len(s) + 1 \/ s[j] \in stops
    /\ \A k \in i .. j - 1 : s[k] \notin stops

Blank(s, i) == i <= Len(s) /\ s[i] = " "

Error == [bad |-> TRUE, next |-> 0]
Item(key, val, next) == [bad |-> FALSE, key |-> key, val |-> val, next |-> next]

\* The value at v up to its end: one in quotes needs the second quote, another one is not
\* empty.
Quoted(s, key, v, end) ==
  IF end > Len(s) THEN Error ELSE Item(key, SubSeq(s, v + 1, end - 1), end + 1)

ValueAt(s, key, v) ==
  IF v > Len(s) \/ s[v] \in {";", " "} THEN Error
  ELSE IF s[v] = "quote" THEN Quoted(s, key, v, Until(s, v + 1, {"quote"}))
  ELSE Item(key, SubSeq(s, v, Until(s, v, {" ", "="}) - 1), Until(s, v, {" ", "="}) + 1)

\* The key that starts at i and ends before k, with its value if it has one
KeyAndValue(s, i, k) ==
  IF k > Len(s) \/ s[k] = " " THEN Item(SubSeq(s, i, k - 1), NoVal, k)
  ELSE ValueAt(s, SubSeq(s, i, k - 1), k + 1)

Parameter(s, i) == KeyAndValue(s, i, Until(s, i, {" ", "="}))

Before(p, items) == IF p.bad THEN <<p>> ELSE <<p>> \o items[p.next]

Items(s) ==
  LET from[i \in 1 .. Len(s) + 2] ==
        IF i > Len(s) THEN <<>>
        ELSE IF Blank(s, i) THEN from[i + 1]
        ELSE Before(Parameter(s, i), from)
  IN  from[1]

\* "mid=" is an option of all commands: it gives the message id and takes no place.
IsMid(p) == ~p.bad /\ p.key = <<"m">> /\ p.val # NoVal

\* The loop over the places, item by item, until one is wrong or no place is left
Take(st, item) ==
  IF st.wrong \/ Len(st.pars) = MaxPar THEN st
  ELSE IF item.bad THEN [st EXCEPT !.wrong = TRUE]
  ELSE IF IsMid(item) THEN [st EXCEPT !.mid = item.val]
  ELSE [st EXCEPT !.pars = Append(@, <<item.key, item.val>>)]

NoneTaken == [pars |-> <<>>, mid |-> NoVal, wrong |-> FALSE]

Taken(items) ==
  LET after[j \in 0 .. Len(items)] ==
        IF j = 0 THEN NoneTaken ELSE Take(after[j - 1], items[j])
  IN  after[Len(items)]

\* cli_parseCommandline.  The last place is never used: the end of the line is looked for
\* while there is one left.
ParseLine(s) ==
  LET taken == Taken(Items(s))
  IN  [n |-> IF taken.wrong \/ Len(taken.pars) = MaxPar THEN -1 ELSE Len(taken.pars),
       pars |-> taken.pars, mid |-> taken.mid]
================================================================================
