------------------------------- MODULE LineEditor -------------------------------
(***************************************************************************)
(* What cli_get_commandline promises whoever types (cli/cli.h): a line may *)
(* be edited with backspaces, quotes protect a ";", a ";" outside quotes   *)
(* ends it, and a new line throws away what has been typed so far.         *)
(***************************************************************************)
EXTENDS Integers, Sequences, FiniteSets

CONSTANTS
  Chars,     \* what is typed into a line: "quote" and ";" are among them
  NoLine     \* no line is complete

VARIABLES
  typed,     \* the line as it stands
  line       \* the line that is complete and being worked on

evars == <<typed, line>>

InQuotes == Cardinality({i \in DOMAIN typed : typed[i] = "quote"}) % 2 = 1

Init == typed = <<>> /\ line = NoLine

Type(c) ==
  /\ line = NoLine
  /\ c = ";" => InQuotes
  /\ typed' = Append(typed, c)
  /\ UNCHANGED line

Erase ==
  /\ line = NoLine /\ typed # <<>>
  /\ typed' = SubSeq(typed, 1, Len(typed) - 1)
  /\ UNCHANGED line

Discard == line = NoLine /\ typed' = <<>> /\ UNCHANGED line

End ==
  /\ line = NoLine /\ ~InQuotes
  /\ line' = typed /\ typed' = <<>>

Done == line # NoLine /\ line' = NoLine /\ UNCHANGED typed

Next == (\E c \in Chars : Type(c)) \/ Erase \/ Discard \/ End \/ Done

Spec == Init /\ [][Next]_evars
================================================================================
