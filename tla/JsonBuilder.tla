------------------------------ MODULE JsonBuilder ------------------------------
(***************************************************************************)
(* UoutBuilderJson (uout/status_json.cc): a JSON text is built call by     *)
(* call in a buffer that grows up to BufMax, and is handed on in chunks    *)
(* whenever the next piece does not fit.  Every call writes its comma in   *)
(* advance and a closing bracket takes it back, so that the last character *)
(* stays in the buffer when the others leave it.                           *)
(*                                                                         *)
(* The caller is one that builds a JSON value: names in objects, values in *)
(* arrays.  When a call fails it stops, or goes on without what failed, as *)
(* UoutPrinter (uout/so_out.cc) does.                                      *)
(***************************************************************************)
EXTENDS ChunkedWriter

CONSTANTS
  BufMax,      \* BUF_MAX_SIZE
  Lengths,     \* the lengths of names and strings
  Digits,      \* the lengths of printed numbers
  Expected,    \* required_size of read_json_from_function
  UserSizes,   \* the sizes of the buffers a user may provide
  MaxPieces, MaxNest

ASSUME SizesAssumption ==
  /\ Lengths \subseteq Nat /\ Digits \subseteq Nat \ {0} /\ Expected \subseteq Nat \ {0}
  /\ BufMax \in Nat /\ UserSizes \subseteq Nat \ {0}

VARIABLES
  text,      \* myBuf up to myBuf_idx
  size,      \* myBuf_size, 0 without a buffer
  mine,      \* myBuf_isMine
  nul,       \* how far behind myBuf_idx the first null character is
  depth,     \* m_obj_ct
  eof,       \* m_eof
  past,      \* how many characters have been written behind the end of the buffer
  odd,       \* which calls have departed from what is said of them
  nest,      \* the brackets the caller has opened
  doc,       \* the text the caller has asked for
  state      \* "building", "failed", "aborted", "written" or "destroyed"

vars == <<wvars, text, size, mine, nul, depth, eof, past, odd, nest, doc, state>>

\* Every call is always made, also where it departs from what is said of it:
\* number:  add_value and add_value_d append no number;
\* long:    put_kv makes room for fifteen characters of a number, which may have more;
\* exact:   read_json_from_function takes a value that leaves no place for its comma's null
\*          character;
\* again:   its second pass makes no more room unless more is missing than is free;
\* append:  cat_to_buf looks for the null character, which a chunk that is sent leaves behind;
\* far:     advance_position asserts that n is at most the position it starts from;
\* more:    a text is written with final = false and the destructor adds "{}" to it;
\* foreign: alloc_bigger_buffer reallocates a buffer that is the user's.
Causes == {"number", "long", "exact", "again", "append", "far", "more", "foreign"}

\* Pieces of text.  A text never ends with a piece of more than one character.
Char(c) == <<[c |-> c, n |-> 1]>>
Quoted(k) == <<[c |-> "name", n |-> k + 2]>>
Number(k) == <<[c |-> "value", n |-> k]>>
Key(k) == Quoted(k) \o Char(":")
Comma == Char(",")

\* A bug: the comma before a closing bracket stays.
UnreadNothing(s) == s

Unread(s) == IF s # <<>> /\ Last(s).c = "," THEN Front(s) ELSE s

--------------------------------------------------------------------------------
(* The buffer *)

Idx(b) == Width(b.text)
Free(b) == b.size - Idx(b)

Now == [ok |-> TRUE, text |-> text, size |-> size, nul |-> nul, past |-> past, odd |-> odd,
        n |-> 0, chunks |-> chunks, frames |-> frames, sent |-> sent, refused |-> refused]

\* What is said of a call does not hold, and n characters lie behind the end.
Noted(b, cause) == [b EXCEPT !.odd = @ \union {cause}]
Behind(b, n) == IF n > b.past THEN [b EXCEPT !.past = n] ELSE b

\* realloc_buffer.  The heap may have nothing.
Realloc(b, new) ==
  IF new > BufMax
  THEN {[b EXCEPT !.ok = FALSE]}
  ELSE {[b EXCEPT !.ok = FALSE, !.refused = TRUE], [b EXCEPT !.size = new, !.nul = 0]}

\* A bug: the buffer is emptied.
SomeWrittenAll(b) ==
  IF eof \/ Len(b.text) <= 1
  THEN {b}
  ELSE {IF w.n > 0 THEN [w EXCEPT !.text = <<>>, !.nul = @ + Idx(b)] ELSE w
          : w \in Writes(b, b.text, FALSE)}

\* write_some_json: all but the last character, which may be a comma to take back.
SomeWritten(b) ==
  IF eof \/ Len(b.text) <= 1
  THEN {b}
  ELSE {IF w.n > 0 THEN [w EXCEPT !.text = <<Last(b.text)>>, !.nul = @ + Idx(b) - 1] ELSE w
          : w \in Writes(b, Front(b.text), FALSE)}

\* A bug: what is still in the buffer does not count.
GrownIgnoringText(b0, required) ==
  UNION {IF b.text # <<>> /\ required + 20 < Free(b) THEN {b}
         ELSE IF ~mine THEN {[b EXCEPT !.ok = FALSE]}
         ELSE Realloc(b, required) : b \in SomeWritten(b0)}

\* A bug: nothing is sent to make room.
GrownOnly(b, required) ==
  IF ~mine THEN {[b EXCEPT !.ok = FALSE]} ELSE Realloc(b, required + Idx(b))

\* buffer_grow
Grown(b0, required) ==
  UNION {IF b.text # <<>> /\ required + 20 < Free(b) THEN {b}
         ELSE IF ~mine THEN {[b EXCEPT !.ok = FALSE]}
         ELSE Realloc(b, required + Idx(b)) : b \in SomeWritten(b0)}

\* not_enough_buffer, with room for ten characters more than the name and the value
Room(required) == IF Free(Now) < required THEN Grown(Now, required) ELSE {Now}
PairRoom(k, v) == Room(k + v + 10)
NameRoom(k) == PairRoom(k, 10)

Buffer(b) ==
  /\ text' = b.text /\ size' = b.size /\ nul' = b.nul
  /\ past' = b.past /\ odd' = b.odd
  /\ Wrote(b)

Gives(b, outcome) ==
  /\ Buffer(b)
  /\ state' = outcome
  /\ UNCHANGED <<mine, depth, eof, nest, doc>>

\* A call that fails returns false.
Fails(b) == \E outcome \in {"failed", state} : Gives(b, outcome)

\* A text that does not fit is cut, and its null character may lie behind the end;
\* postcond(myBuf_size > myBuf_idx) or strcpy_error_handler stops the program.
Overflows(b) == \E over \in {0, 1} : Gives(Behind(b, over), "aborted")

\* A call that needs room appends its text.
Adds(rooms, new, deeper, brackets) ==
  \E b \in rooms :
    IF ~b.ok THEN Fails(b)
    ELSE IF Width(new) >= Free(b) THEN Overflows(b)
    ELSE /\ Buffer([b EXCEPT !.text = @ \o new, !.nul = 0])
         /\ doc' = doc \o new
         /\ depth' = depth + deeper
         /\ nest' = brackets
         /\ UNCHANGED <<mine, eof, state>>

\* A closing call takes a comma back.  Without room it calls abort.
Closes(new) ==
  \E b \in NameRoom(0) :
    IF b.ok
    THEN /\ Buffer([b EXCEPT !.text = Unread(@) \o new, !.nul = 0])
         /\ doc' = Unread(doc) \o new
         /\ depth' = depth - 1
         /\ nest' = Front(nest)
         /\ UNCHANGED <<mine, eof, state>>
    ELSE Gives(b, "aborted")

--------------------------------------------------------------------------------
(* The calls *)

Building == state = "building" /\ Len(doc) < MaxPieces
Within(bracket) == Building /\ nest # <<>> /\ Last(nest) = bracket /\ Last(doc).c # ":"
ValueDue == Building /\ nest # <<>> /\ (Last(nest) = "[" \/ Last(doc).c = ":")
Nested == ~eof /\ Len(nest) < MaxNest

\* open_root_object, without and with an id
OpenRoot ==
  /\ Building /\ doc = <<>> /\ depth = 0
  /\ \/ Adds(NameRoom(0), Char("{"), 1, <<"{">>)
     \/ \E k \in Lengths :
          Adds(NameRoom(k), Char("{") \o Key(4) \o Quoted(k) \o Comma, 1, <<"{">>)

\* add_object and add_array, with a name in an object and without one elsewhere
Open ==
  \E bracket \in {"{", "["} :
    \/ /\ Within("{") /\ Nested
       /\ \E k \in Lengths :
            Adds(NameRoom(k), Key(k) \o Char(bracket), 1, Append(nest, bracket))
    \/ /\ ValueDue /\ Nested
       /\ Adds(NameRoom(0), Char(bracket), 1, Append(nest, bracket))

CloseObject == Within("{") /\ depth > 1 /\ Closes(Char("}") \o Comma)
CloseArray == Within("[") /\ depth > 0 /\ Closes(Char("]") \o Comma)
CloseRootObject == Within("{") /\ depth = 1 /\ Closes(Char("}"))

\* put_kv and add_key_value_pair: a string has its own room, a number that of ten characters,
\* which with the ten for the signs around it are enough for one of fifteen.
NumberRoom(k, d) == {IF b.ok /\ d > 15 THEN Noted(b, "long") ELSE b : b \in NameRoom(k)}
PutKv(k) ==
  /\ Within("{")
  /\ \/ \E v \in Lengths : Adds(PairRoom(k, v), Key(k) \o Quoted(v) \o Comma, 0, nest)
     \/ \E d \in Digits : Adds(NumberRoom(k, d), Key(k) \o Number(d) \o Comma, 0, nest)

AddKey(k) == Within("{") /\ Adds(NameRoom(k), Key(k), 0, nest)

\* add_value_s; add_value and add_value_d print the number into a local buffer and
\* leave it there.
AddValue ==
  /\ Within("[")
  /\ \/ \E v \in Lengths : Adds(PairRoom(3, v), Quoted(v) \o Comma, 0, nest)
     \/ \E d \in Digits : \E b \in PairRoom(0, d) :
          IF b.ok
          THEN /\ Buffer(Noted([b EXCEPT !.text = @ \o Comma, !.nul = 0], "number"))
               /\ doc' = doc \o Number(d) \o Comma
               /\ UNCHANGED <<mine, depth, eof, nest, state>>
          ELSE Fails(b)

\* read_json_from_function, which the functions for arrays call for every element, for a
\* function that has n characters.  If they do not fit it asks for what is missing and
\* calls the function again.
Fits(b, n) == b.ok /\ n < Free(b)
Read(required, n) ==
  UNION {IF ~b.ok \/ Fits(b, n) THEN {b}
         ELSE LET missing == n + 1 - Free(b)
              IN  {Noted([c EXCEPT !.ok = Fits(c, n)], "again")
                     : c \in IF Free(b) < missing THEN Grown(b, missing) ELSE {b}}
           : b \in Room(required)}

ReadJson(required, n) ==
  /\ ValueDue
  /\ Adds({IF b.ok /\ n + 1 = Free(b) THEN Noted(b, "exact") ELSE b : b \in Read(required, n)},
          Number(n) \o Comma, 0, nest)

\* get_a_buffer, for n characters of JSON that the caller puts there, and
\* advance_position, which wants a place for the null character behind them.
GetAndAdvance(n) ==
  /\ Within("[")
  /\ \E b \in IF Free(Now) < n + 1 THEN Grown(Now, n) ELSE {Now} :
       IF ~b.ok THEN Fails(b)
       ELSE IF n > Idx(b) THEN Gives(Noted(b, "far"), "aborted")
       ELSE LET new == Number(n - 1) \o Comma
                c == [b EXCEPT !.text = @ \o new, !.nul = 0]
            IN  \E e \in IF Free(c) = 0 THEN Grown(c, 1) ELSE {c} :
                  IF ~e.ok THEN Gives([e EXCEPT !.text = <<>>, !.nul = 0], "failed")
                  ELSE Buffer(e) /\ doc' = doc \o new /\ UNCHANGED <<mine, depth, eof, nest, state>>

\* cat_to_buf appends at the first null character, which is that of the text before the
\* last chunk when that chunk has been sent meanwhile: it makes room for a text at
\* myBuf_idx, and the one it writes may reach behind the end.
CatToBuf(n) ==
  /\ Within("[")
  /\ \E b \in NameRoom(n) :
       IF ~b.ok THEN Fails(b)
       ELSE LET new == Number(n - 1) \o Comma
                stale == <<[c |-> "stale", n |-> n - 1]>> \o Char("stale")
                there == Noted([b EXCEPT !.text = @ \o stale], "append")
            IN  /\ Buffer(IF b.nul = 0 THEN [b EXCEPT !.text = @ \o new]
                          ELSE Behind(there, b.nul + n + 1 - Free(b)))
                /\ doc' = doc \o new
                /\ UNCHANGED <<mine, depth, eof, nest, state>>

\* copy_to_buf, for a whole value and a builder that has none yet
CopyToBuf(n) ==
  Building /\ doc = <<>> /\ Adds(NameRoom(n), Number(n - 1) \o Char("rest"), 0, <<>>)

\* alloc_bigger_buffer.  It reallocates the user's buffer too, which the heap does not own:
\* what happens then is undefined, and nothing more is said of it here.
AllocBigger(total) ==
  /\ Building /\ total > size
  /\ IF mine \/ total > BufMax
     THEN \E b \in Realloc(Now, total) : IF b.ok THEN Gives(b, state) ELSE Fails(b)
     ELSE Gives(Noted(Now, "foreign"), "aborted")

\* write_some_json, called by the user
WriteSome == Building /\ \E b \in SomeWritten(Now) : b # Now /\ Gives(b, state)

\* write_json, writeln_json.  An empty builder writes "{}".
Empty == Char("{") \o Char("}")
Line == Char("newline")
Written(final, line) ==
  IF line /\ text # <<>> /\ Free(Now) < 1
  THEN UNION {Writes(w, Line, final) : w \in Writes(Now, text, FALSE)}
  ELSE Writes(Now, (IF text = <<>> THEN Empty ELSE text) \o IF line THEN Line ELSE <<>>, final)

WritesOut(final, line, outcome) ==
  /\ \E w \in Written(final, line) :
       /\ text' = <<>> /\ Wrote(w)
  /\ nul' = IF line THEN 0 ELSE nul + Idx(Now)
  /\ eof' = final
  /\ odd' = IF final THEN odd ELSE odd \union {"more"}
  /\ state' = outcome
  /\ UNCHANGED <<size, mine, depth, past, nest, doc>>

WriteJson ==
  /\ state = "building" /\ nest = <<>> /\ doc # <<>> /\ ~eof
  /\ \E final, line \in BOOLEAN : WritesOut(final, line, "written")

\* The destructor of UoutWriterFunction writes what remains, if anything does.
Destroy ==
  /\ state \in {"building", "failed", "written"}
  /\ IF eof
     THEN /\ state' = "destroyed"
          /\ UNCHANGED <<wvars, text, size, mine, nul, depth, eof, past, odd, nest, doc>>
     ELSE WritesOut(TRUE, FALSE, "destroyed")

\* root_open, x_open, x_close, root_close and print
UoutPrinter ==
  \/ OpenRoot \/ Open \/ CloseObject \/ CloseRootObject
  \/ \E k \in Lengths : PutKv(k)

Init ==
  /\ WriterInit
  /\ text = <<>> /\ nul = 0
  /\ \/ mine = TRUE /\ size = 0
     \/ mine = FALSE /\ size \in UserSizes
  /\ depth = 0 /\ eof = FALSE /\ past = 0 /\ odd = {}
  /\ nest = <<>> /\ doc = <<>> /\ state = "building"

Next ==
  \/ UoutPrinter
  \/ CloseArray \/ AddValue
  \/ \E k \in Lengths :
       \/ AddKey(k) \/ \E required \in Expected : ReadJson(required, k + 1)
       \/ GetAndAdvance(k + 2) \/ CatToBuf(k + 2) \/ CopyToBuf(k + 2)
  \/ AllocBigger(BufMax) \/ WriteSome
  \/ WriteJson \/ Destroy

Spec == Init /\ [][Next]_vars

--------------------------------------------------------------------------------
(* Properties *)

\* postcond(myBuf_size > myBuf_idx): the text and its null character lie in the buffer,
\* whatever has been sent, taken back and grown before.  Nothing is ever written behind its
\* end but by cat_to_buf behind a chunk, and by a number of more than fifteen characters
\* or a value that leaves no place for its comma's null character: these write one
\* character there at most, and the program stops.  The buffer is the user's or no larger
\* than BUF_MAX_SIZE, and m_obj_ct counts the brackets that are open.
InBounds ==
  /\ text # <<>> => Width(text) < size
  /\ past > 0 => \/ "append" \in odd
                 \/ past = 1 /\ state = "aborted" /\ odd \cap {"long", "exact"} # {}
  /\ size <= BufMax \/ (~mine /\ size \in UserSizes)
  /\ depth = Len(nest)

\* Whatever has left the buffer and what is still in it are together the text
\* asked for: no chunk is lost or sent twice and no comma has left too early, unless a
\* number was given to add_value or a text to cat_to_buf behind a chunk.
TextAsAsked ==
  state \in {"building", "failed"} /\ text # <<>> /\ odd \cap {"number", "append"} = {}
    => sent \o text = doc

\* A call fails only when the call-back or the heap has refused, when the buffer is one
\* that must not grow, or when read_json_from_function needs its second pass; and the
\* program stops besides only for a number or a value that is too long for its room and
\* for a step too far in advance_position.
OnlyRefusalFails ==
  /\ state = "failed" => refused \/ ~mine \/ "again" \in odd
  /\ state = "aborted" => refused \/ ~mine \/ odd \cap {"long", "exact", "far"} # {}

\* JSON: what may follow, and the brackets that are open
After(st, p) ==
  LET bad == [st EXCEPT !.want = "bad"]
      done(stack) == [stack |-> stack, want |-> IF stack = <<>> THEN "end" ELSE "next"]
      value == st.want \in {"value", "element"}
      key == st.want \in {"key", "member"}
  IN  CASE p.c \in {"rest", "newline"} -> st
        [] p.c \in {"{", "["} /\ value ->
             [stack |-> Append(st.stack, p.c), want |-> IF p.c = "{" THEN "member" ELSE "element"]
        [] p.c = "name" /\ key -> [st EXCEPT !.want = "colon"]
        [] p.c = ":" /\ st.want = "colon" -> [st EXCEPT !.want = "value"]
        [] p.c \in {"name", "value"} /\ value -> done(st.stack)
        [] p.c = "," /\ st.want = "next" ->
             [st EXCEPT !.want = IF Last(st.stack) = "{" THEN "key" ELSE "value"]
        [] p.c = "}" /\ st.want \in {"next", "member"} /\ Last(st.stack) = "{" -> done(Front(st.stack))
        [] p.c = "]" /\ st.want \in {"next", "element"} /\ Last(st.stack) = "[" -> done(Front(st.stack))
        [] OTHER -> bad

\* What a reader of JSON expects behind a text: after[i] behind its first i pieces.
Parsed(s) ==
  LET after[i \in 0 .. Len(s)] ==
        IF i = 0 THEN [stack |-> <<>>, want |-> "value"] ELSE After(after[i - 1], s[i])
  IN  after[Len(s)]

IsJson(s) == Parsed(s).want = "end"

\* The frames are always those of one websocket message, and what arrives of a finished
\* text, unless something was refused or a call has written something else than it was
\* asked for or has said that more will follow, is one JSON value whose last frame says so.
MessageIsJson ==
  /\ OneMessage
  /\ state \in {"written", "destroyed"} /\ nest = <<>> /\ doc # <<>> /\ ~refused
       /\ odd \cap {"number", "append", "more"} = {}
       => IsJson(sent) /\ Last(frames).final
================================================================================
