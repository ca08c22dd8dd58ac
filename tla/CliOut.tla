--------------------------------- MODULE CliOut ---------------------------------
(***************************************************************************)
(* What a command prints (uout/cli_out.cc): replies of one line, and       *)
(* entries "key=val" that share lines of limited length.  The console      *)
(* writes "\r\n" for "\n" (uout/so_target_desc.cc,          *)
(* txtio/esp32/txtio_setup.cc).                                            *)
(*                                                                         *)
(* A piece of text is [c, id]: the words of a reply, a message id, or an   *)
(* entry; "\n" and "\r" are pieces of their own.                           *)
(***************************************************************************)
EXTENDS Integers, Sequences, SequencesExt

CONSTANTS
  OutMax,   \* OUT_MAX_LEN
  NoId      \* cli_msgid = 0

ASSUME OutMaxAssumption == OutMax \in Nat

VARIABLES
  terminal,    \* what has been written to the terminal
  myLength,    \* the characters on the line that is open
  cli_msgid

outvars == <<terminal, myLength, cli_msgid>>

OutInit == terminal = <<>> /\ myLength = 0 /\ cli_msgid = NoId

Piece(c) == [c |-> c, id |-> NoId]

\* The loop of priv_write: what lies between two new lines is written as it is.  What
\* follows the last one is written when its last character is reached, unless that is
\* a "\r".
Put(w, p, last) ==
  IF p.c = "\n"
  THEN [chunk |-> <<>>, out |-> w.out \o w.chunk \o <<Piece("\r"), Piece("\n")>>]
  ELSE IF last /\ p.c # "\r"
  THEN [chunk |-> <<>>, out |-> w.out \o w.chunk \o <<p>>]
  ELSE [w EXCEPT !.chunk = Append(@, p)]

Crlf(s) ==
  LET put[i \in 0 .. Len(s)] ==
        IF i = 0 THEN [chunk |-> <<>>, out |-> <<>>] ELSE Put(put[i - 1], s[i], i = Len(s))
  IN  put[Len(s)].out

\* UoutWriterConsole::priv_write, call by call
Written(calls) ==
  LET out[i \in 0 .. Len(calls)] == IF i = 0 THEN <<>> ELSE out[i - 1] \o Crlf(calls[i])
  IN  out[Len(calls)]

Words(text) == <<Piece(text)>>
NewLine == <<Piece("\n")>>

\* io_putlf: es_io_putc_crlf writes a "\r", of which priv_write makes nothing, and a "\n".
PutLf == Crlf(<<Piece("\r")>>) \o Crlf(NewLine)

\* cli_msg_ready
Ready == Crlf(<<Piece("\n"), Piece("ready:"), Piece("\n")>>)

\* pctChange_cb: something has changed, and the console tells.
Status == <<Piece("status"), Piece("\r"), Piece("\n")>>

\* msg_print
Message(tag) ==
  <<Words("cli_reply")>>
    \o (IF cli_msgid # NoId THEN <<<<[c |-> "@", id |-> cli_msgid], Piece("\n")>>>> ELSE <<>>)
    \o (IF tag = "" THEN <<>> ELSE <<Words(":"), Words(tag)>>)
    \o <<Words(": ")>>

\* reply_message
ReplyMessage(tag, msg) == Message(tag) \o <<Words(msg), NewLine>>

\* cli_out_start_reply
StartReply == <<<<[c |-> "cli_reply", id |-> cli_msgid]>>>>

EndLine == <<<<Piece(";"), Piece("\n")>>>>

\* The calls of cli_out_entry for an entry of n characters.  Whether there is room for
\* it is asked before it is added.
Breaks(n) == myLength + n > OutMax /\ myLength > 0

\* A bug: a line that is full is ended, and goes on being counted.
EntryStillCounted(n) ==
  /\ myLength' = myLength + n
  /\ terminal' = terminal \o Written(
       (IF Breaks(n) THEN EndLine ELSE <<>>)
         \o (IF myLength = 0 THEN StartReply ELSE <<>>)
         \o <<<<[c |-> "entry", id |-> NoId, n |-> n]>>>>)
  /\ UNCHANGED cli_msgid

Entry(n) ==
  /\ myLength' = IF Breaks(n) THEN n ELSE myLength + n
  /\ terminal' = terminal \o Written(
       (IF Breaks(n) THEN EndLine ELSE <<>>)
         \o (IF Breaks(n) \/ myLength = 0 THEN StartReply ELSE <<>>)
         \o <<<<[c |-> "entry", id |-> NoId, n |-> n]>>>>)
  /\ UNCHANGED cli_msgid

\* cli_out_close, and what comes behind it
CloseLine(rest) ==
  /\ myLength' = 0
  /\ terminal' = terminal \o (IF myLength > 0 THEN Written(EndLine) ELSE <<>>) \o rest
  /\ UNCHANGED cli_msgid
================================================================================
