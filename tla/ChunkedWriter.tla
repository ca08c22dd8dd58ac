----------------------------- MODULE ChunkedWriter -----------------------------
(***************************************************************************)
(* UoutWriterFunction (uout/include/uout/uout_writer.hh): what is built is *)
(* handed in chunks to a call-back, which is told with every chunk its     *)
(* place in the message; and ws_write, the call-back that makes every      *)
(* chunk a websocket frame (net_http_server/esp32/websocket.cc).           *)
(*                                                                         *)
(* Text is a sequence of pieces, each with the number of its characters.   *)
(***************************************************************************)
EXTENDS Integers, Sequences, SequencesExt

CONSTANT Answers   \* what the call-back may do: "all", "none" or "error"

ASSUME AnswersAssumption == Answers \subseteq {"all", "none", "error"}

VARIABLES
  chunks,    \* nmb_chunks_written
  frames,    \* the heads of the frames sent
  sent,      \* the text sent
  refused    \* has the call-back, or the heap, refused?

wvars == <<chunks, frames, sent, refused>>

\* How many characters a text has: width[i] of them in its first i pieces.
Width(s) ==
  LET width[i \in 0 .. Len(s)] == IF i = 0 THEN 0 ELSE width[i - 1] + s[i].n
  IN  width[Len(s)]

\* The place of a chunk: 0 for the only one, -1, -2 ... and +n for the last.
ChunkStatus(written, final) ==
  IF final THEN (IF written = 0 THEN 0 ELSE written + 1) ELSE -(written + 1)

Frame(status) ==
  [type |-> IF status \in {0, -1} THEN "text" ELSE "continue",
   final |-> status >= 0, fragmented |-> status # 0]

\* What a call of UoutWriter::write may lead to: the state of the writer with n, the
\* number the call-back returns.  It takes the text as a whole or nothing of it.
Writes(w, s, final) ==
  {[w EXCEPT
      !.n = CASE a = "all" -> Width(s) [] a = "none" -> 0 [] OTHER -> -1,
      !.chunks = IF final THEN 0 ELSE IF a = "all" THEN @ + 1 ELSE @,
      !.frames = IF a = "all" THEN Append(@, Frame(ChunkStatus(w.chunks, final))) ELSE @,
      !.sent = IF a = "all" THEN @ \o s ELSE @,
      !.refused = @ \/ a # "all"] : a \in Answers}

WriterInit == chunks = 0 /\ frames = <<>> /\ sent = <<>> /\ refused = FALSE

Wrote(w) == chunks' = w.chunks /\ frames' = w.frames /\ sent' = w.sent /\ refused' = w.refused

--------------------------------------------------------------------------------
\* The frames are those of one websocket message: the first one alone says "text",
\* one that is not alone says so, and none follows the final one.
OneMessage ==
  \A i \in DOMAIN frames :
    /\ (frames[i].type = "text") = (i = 1)
    /\ frames[i].final => i = Len(frames)
    /\ frames[i].fragmented = (i > 1 \/ ~frames[i].final)
================================================================================
