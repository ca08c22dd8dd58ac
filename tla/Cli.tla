---------------------------------- MODULE Cli ----------------------------------
(***************************************************************************)
(* A user types commands, makes mistakes and corrects them, and the        *)
(* command line reads, takes apart, dispatches and answers what arrives    *)
(* (cli/cli.cc, cli/cmdline_process.cc): lines of key=value parameters,    *)
(* and JSON objects whose members are commands.                            *)
(***************************************************************************)
EXTENDS CommandLine, JsmnIterator, CliOut

CONSTANTS
  Params,      \* what the user may ask for: [key, val, quoted]
  Docs,        \* the JSON commands
  Handlers,    \* the keys with a handler
  ParLen,      \* par_len: the room for a JSON command and its parameters
  Wanted,      \* the keys of numbers the hook for "json" objects takes
  Slips,       \* what is typed by mistake
  MaxParams, MaxSlips, MaxEntries, EntrySizes   \* bounds

\* A value without quotes ends at the next blank and has none of the other signs in it.
ASSUME ParamsAssumption ==
  /\ MaxParams \in Nat
  /\ \A p \in Params :
       /\ p.key \in Seq(Letters) \ {<<>>}
       /\ p.quoted \in BOOLEAN
       /\ p.val = NoVal \/ p.val \in Seq(IF p.quoted THEN Chars \ {"quote"} ELSE Letters)

\* The members that are commands have no objects or arrays in them.
ASSUME DocsAssumption ==
  \A d \in Docs :
    /\ d \in Values /\ d.type = "object"
    /\ \A m \in Range(d.members) : m[2].type = "object" /\ m[1] # <<"json">> =>
         \A x \in Range(m[2].members) : x[2].type \in {"string", "primitive"}

ASSUME NamesAssumption ==
  /\ Slips \subseteq Chars /\ EntrySizes \subseteq Nat \ {0} /\ AnyKey # <<"json">>
  /\ ParLen \in Nat \ {0}

VARIABLES
  want,        \* what the user asks for
  todo,        \* what of it is not typed yet
  wrong,       \* the characters typed by mistake and not erased yet
  slips,       \* the mistakes so far
  phase,       \* "idle", "failed", "reply", "json" or "overrun"
  toks, pos, count,   \* jsmn, it and count of parse_and_process_json
  handled,     \* what the handlers have been called with
  entries      \* the entries printed by the handler

vars == <<bufvars, outvars, want, todo, wrong, slips, phase, toks, pos, count, handled, entries>>

uservars == <<want, todo, wrong, slips>>
jsonvars == <<toks, pos, count>>

--------------------------------------------------------------------------------
(* The user *)

Typed(p) ==
  p.key \o (IF p.val = NoVal THEN <<>>
            ELSE <<"=">> \o (IF p.quoted THEN <<"quote">> \o p.val \o <<"quote">> ELSE p.val))

Spaces(n) == [i \in 1 .. n |-> " "]

LineOf(ps, n) ==
  LET text[i \in 0 .. Len(ps)] ==
        IF i = 0 THEN Spaces(n - 1) ELSE text[i - 1] \o Typed(ps[i]) \o Spaces(n)
  IN  text[Len(ps)]

TextLine(ps, n) == [json |-> FALSE, pars |-> ps, text |-> LineOf(ps, n)]

\* A text in quotes may hold the character that ends a command.
JsonLine(d) == [json |-> TRUE, doc |-> d, text |-> <<"{", "quote", ";", "quote", "}">>]

Lists == UNION {[1 .. k -> Params] : k \in 0 .. MaxParams}

Lines == {TextLine(ps, n) : ps \in Lists, n \in {1, 2}} \cup {JsonLine(d) : d \in Docs}

ASSUME WantAssumption == NoVal \notin Lines

AtRest == phase = "idle" /\ line = NoLine

Choose ==
  /\ want = NoVal
  /\ want' \in Lines
  /\ todo' = want'.text \o <<";">>
  /\ UNCHANGED <<bufvars, outvars, wrong, slips, phase, jsonvars, handled, entries>>

\* The user has the answer.
Answered ==
  /\ want # NoVal /\ AtRest /\ todo = <<>>
  /\ want' = NoVal
  /\ slips' = 0
  /\ terminal' = <<>> /\ handled' = <<>> /\ entries' = 0
  /\ toks' = <<>> /\ pos' = 1 /\ count' = 0
  /\ UNCHANGED <<bufvars, myLength, cli_msgid, todo, wrong, phase>>

Typing == UNCHANGED <<outvars, want, phase, jsonvars, handled, entries>>

TypeNext ==
  /\ todo # <<>> /\ wrong = 0
  /\ ReadChar(Head(todo))
  /\ todo' = Tail(todo)
  /\ UNCHANGED <<wrong, slips>>
  /\ Typing

Slip ==
  /\ todo # <<>> /\ slips < MaxSlips
  /\ \E c \in Slips : (c = ";" => quote_count % 2 = 1) /\ ReadChar(c)
  /\ wrong' = wrong + 1 /\ slips' = slips + 1
  /\ UNCHANGED todo
  /\ Typing

Correct ==
  /\ wrong > 0
  /\ ReadChar("backspace")
  /\ wrong' = wrong - 1
  /\ UNCHANGED <<todo, slips>>
  /\ Typing

Restart ==
  /\ todo # <<>> /\ slips < MaxSlips
  /\ ReadChar("newline")
  /\ todo' = want.text \o <<";">>
  /\ wrong' = 0 /\ slips' = slips + 1
  /\ Typing

EnlargeBuffer == Enlarge /\ UNCHANGED <<outvars, uservars, phase, jsonvars, handled, entries>>

--------------------------------------------------------------------------------
(* A line of parameters *)

IsText == phase = "idle" /\ line # NoLine /\ (line # <<>> => Head(line) # "{")

MessageId(s) == IF ParseLine(s).mid = NoVal THEN NoId ELSE ParseLine(s).mid

\* get_commandline gives no empty line to anybody.
IgnoreEmpty ==
  /\ IsText /\ line = <<>>
  /\ Done
  /\ UNCHANGED <<outvars, uservars, phase, jsonvars, handled, entries>>

\* cli_loop with a line without a command
NoCommand ==
  /\ IsText /\ line # <<>> /\ ParseLine(line).n = 0
  /\ cli_msgid' = MessageId(line)
  /\ terminal' = terminal \o PutLf \o Ready
  /\ Done
  /\ UNCHANGED <<myLength, uservars, phase, jsonvars, handled, entries>>

\* cli_process_cmdline for a line that is wrong
Refuse ==
  /\ IsText /\ ParseLine(line).n < 0
  /\ cli_msgid' = MessageId(line)
  /\ phase' = "failed"
  /\ terminal' = terminal \o PutLf
  /\ UNCHANGED <<bufvars, myLength, uservars, jsonvars, handled, entries>>

\* cli_replyFailure, and back in cli_loop
ReplyFailure ==
  /\ phase = "failed"
  /\ terminal' = terminal \o Written(ReplyMessage("", "error")) \o Ready
  /\ phase' = "idle"
  /\ Done
  /\ UNCHANGED <<myLength, cli_msgid, uservars, jsonvars, handled, entries>>

\* cli_processParameters
Handle(pars) == IF pars[1][1] \in Handlers THEN Append(handled, pars) ELSE handled

\* cli_process_cmdline, when there is no password or it is right
Process ==
  /\ IsText
  /\ LET parsed == ParseLine(line)
     IN  /\ parsed.n > 0
         /\ handled' = Handle(parsed.pars)
  /\ cli_msgid' = MessageId(line)
  /\ phase' = "reply"
  /\ terminal' = terminal \o PutLf
  /\ UNCHANGED <<bufvars, myLength, uservars, jsonvars, entries>>

\* The handler prints an entry.
PrintEntry ==
  /\ phase = "reply" /\ handled # <<>> /\ entries < MaxEntries
  /\ \E n \in EntrySizes : Entry(n)
  /\ entries' = entries + 1
  /\ UNCHANGED <<bufvars, uservars, phase, jsonvars, handled>>

\* What the command changes may be published while its handler runs.
StatusMessage ==
  /\ phase = "reply" /\ handled # <<>> /\ entries < MaxEntries
  /\ terminal' = terminal \o Status
  /\ entries' = entries + 1
  /\ UNCHANGED <<bufvars, myLength, cli_msgid, uservars, phase, jsonvars, handled>>

\* root_close, and back in cli_loop
RootClose ==
  /\ phase = "reply"
  /\ CloseLine(Ready)
  /\ phase' = "idle"
  /\ Done
  /\ UNCHANGED <<uservars, jsonvars, handled, entries>>

--------------------------------------------------------------------------------
(* A JSON object *)

\* cli_process_json
BeginJson ==
  /\ phase = "idle" /\ line # NoLine /\ ~IsText
  /\ toks' = Parsed(want.doc)
  /\ pos' = 2
  /\ count' = IF toks' = <<>> THEN 0 ELSE toks'[1].size
  /\ phase' = "json"
  /\ UNCHANGED <<bufvars, outvars, uservars, handled, entries>>

Walking == phase = "json" /\ count > 0 /\ On(toks, pos)

NextMember(p, calls) ==
  /\ pos' = p /\ count' = count - 1
  /\ handled' = handled \o calls
  /\ UNCHANGED <<bufvars, outvars, uservars, phase, toks, entries>>

\* The member "json", which may be nested, goes to a hook with a copy of the iterator.  The
\* hook is taken to be one like weather_process_json: it takes the numbers it knows.
JsonMember ==
  /\ Walking /\ KeyIsEqual(toks, pos, <<"json">>, "object")
  /\ NextMember(SkipKeyAndValue(toks, pos), <<[json |-> TakeObject(toks, pos, Wanted).taken]>>)

AtCommand ==
  Walking /\ KeyIsEqual(toks, pos, AnyKey, "object") /\ ~KeyIsEqual(toks, pos, <<"json">>, "object")

\* Any other object is a command with its parameters.
CommandMember ==
  /\ AtCommand /\ toks[pos + 1].size < ParLen
  /\ LET pairs == toks[pos + 1].size
         text(i) == ValueAsString(toks, i)
         par == <<<<text(pos), <<>>>>>>
                  \o [k \in 1 .. pairs |-> <<text(pos + 2 * k), text(pos + 2 * k + 1)>>]
     IN  NextMember(pos + 2 + 2 * pairs, IF text(pos) \in Handlers THEN <<par>> ELSE <<>>)

\* Nothing in the code looks whether par has room for them all: the first one too many is
\* written behind it.  What the program does from there on is undefined, and not modelled.
Overrun ==
  /\ AtCommand /\ toks[pos + 1].size >= ParLen
  /\ phase' = "overrun"
  /\ UNCHANGED <<bufvars, outvars, uservars, jsonvars, handled, entries>>

Undefined == phase = "overrun" /\ UNCHANGED vars

OtherMember ==
  /\ Walking /\ ~KeyIsEqual(toks, pos, AnyKey, "object")
  /\ NextMember(SkipKeyAndValue(toks, pos), <<>>)

EndJson ==
  /\ phase = "json" /\ ~Walking
  /\ phase' = "idle"
  /\ Done
  /\ UNCHANGED <<outvars, uservars, jsonvars, handled, entries>>

--------------------------------------------------------------------------------

Init ==
  /\ ReaderInit /\ OutInit
  /\ want = NoVal /\ todo = <<>> /\ wrong = 0 /\ slips = 0
  /\ phase = "idle" /\ toks = <<>> /\ pos = 1 /\ count = 0
  /\ handled = <<>> /\ entries = 0

Next ==
  \/ Choose \/ Answered \/ TypeNext \/ Slip \/ Correct \/ Restart \/ EnlargeBuffer
  \/ IgnoreEmpty \/ NoCommand \/ Refuse \/ ReplyFailure
  \/ Process \/ PrintEntry \/ StatusMessage \/ RootClose
  \/ BeginJson \/ JsonMember \/ CommandMember \/ OtherMember \/ EndJson
  \/ Overrun \/ Undefined

Spec == Init /\ [][Next]_vars

--------------------------------------------------------------------------------
(* Properties *)

\* However the buffer grows and whatever is erased or thrown away, a line is read as it was
\* edited, and it ends at the first ";" outside quotes.
Editor == INSTANCE LineEditor WITH
  typed <- chars

IsEditor == Editor!Spec

\* What the user asks for
Bad(p) == ~p.quoted /\ p.val = <<>>
Mid(p) == p.key = <<"m">> /\ p.val # NoVal
Asked(ps) ==
  LET asked[i \in 0 .. Len(ps)] ==
        IF i = 0 THEN <<>> ELSE IF Mid(ps[i]) THEN asked[i - 1] ELSE Append(asked[i - 1], ps[i])
  IN  asked[Len(ps)]
Wrong(ps) == (\E i \in DOMAIN ps : Bad(ps[i])) \/ Len(Asked(ps)) >= MaxPar
IsCommand(ps) == ~Wrong(ps) /\ Asked(ps) # <<>>
AskedOf(m) ==
  IF m[2].type # "object" THEN <<>>
  ELSE IF m[1] = <<"json">>
  THEN <<[json |-> {<<x[1], x[2].text>> :
                      x \in {x \in Range(m[2].members) : x[1] \in Wanted /\ x[2].type = "primitive"}}]>>
  ELSE IF m[1] \notin Handlers THEN <<>>
  ELSE <<<<<<m[1], <<>>>>>> \o [i \in DOMAIN m[2].members |-> <<m[2].members[i][1], m[2].members[i][2].text>>]>>
Calls(w) ==
  IF w.json
  THEN IF Len(Tokens[w.doc]) > MaxTokens THEN <<>>
       ELSE LET calls[i \in 0 .. Len(w.doc.members)] ==
                  IF i = 0 THEN <<>> ELSE calls[i - 1] \o AskedOf(w.doc.members[i])
            IN  calls[Len(w.doc.members)]
  ELSE IF IsCommand(w.pars) /\ Asked(w.pars)[1].key \in Handlers
  THEN <<[i \in DOMAIN Asked(w.pars) |-> <<Asked(w.pars)[i].key, Asked(w.pars)[i].val>>]>>
  ELSE <<>>

\* A JSON command whose parameters par has no room for
TooLong(m) == m[2].type = "object" /\ m[1] # <<"json">> /\ Len(m[2].members) >= ParLen

\* Each command the user asks for is handled once, in order, with the parameters asked for,
\* and nothing else is: not what was erased, not what surrounds it in a nested text.  Only a
\* JSON command with more parameters than par has room for ends this: what comes before it
\* has been handled as asked, and with it par is overrun.
HandledAsAsked ==
  want # NoVal =>
    /\ IsPrefix(handled, Calls(want))
    /\ AtRest /\ todo = <<>> => handled = Calls(want)
    /\ phase = "overrun" => want.json /\ \E m \in Range(want.doc.members) : TooLong(m)

\* The last message id of a command is its own.
IsAskedId(ps, id) ==
  \/ id = NoId /\ \A i \in DOMAIN ps : ~Mid(ps[i])
  \/ \E i \in DOMAIN ps :
       Mid(ps[i]) /\ id = ps[i].val /\ \A k \in i + 1 .. Len(ps) : ~Mid(ps[k])

\* The line of the terminal on which its jth piece is, up to that piece: its first piece, how
\* many it has, and the characters of its entries.  Status messages in between do not count.
NoPieces == [first |-> Piece(""), pieces |-> 0, length |-> 0]
OfStatus(t, j) == \E k \in 0 .. 2 : k < j /\ t[j - k].c = "status"
OnLine(t) ==
  LET on[j \in 0 .. Len(t)] ==
        IF j = 0 THEN NoPieces
        ELSE IF OfStatus(t, j) THEN on[j - 1]
        ELSE IF t[j].c = "\n" THEN NoPieces
        ELSE [first  |-> IF on[j - 1].pieces = 0 THEN t[j] ELSE on[j - 1].first,
              pieces |-> on[j - 1].pieces + 1,
              length |-> on[j - 1].length + IF t[j].c = "entry" THEN t[j].n ELSE 0]
  IN  on

\* What has been printed when a command is through are complete lines: each entry is on one
\* that begins with the message id of this command and is too long only if it has a single
\* entry.  A command is answered as an error exactly if it is wrong, and then with no id that
\* it has not given.
OutputLines ==
  LET t == terminal
      at == DOMAIN t
  IN
  /\ \A j \in at : t[j].c = "\n" => j > 1 /\ t[j - 1].c = "\r"
  /\ \A j \in at : t[j].c = "entry" =>
       LET on == OnLine(t)[j]
       IN  /\ on.first.c = "cli_reply" /\ IsAskedId(want.pars, on.first.id)
           /\ on.length <= OutMax \/ on.pieces = 2
  /\ AtRest /\ t # <<>> => Last(t).c = "\n" /\ myLength = 0
  /\ AtRest /\ todo = <<>> /\ want # NoVal =>
       /\ (\E j \in at : t[j].c = "error") <=> ~want.json /\ Wrong(want.pars)
       /\ \A j \in at : t[j].c = "@" => \E p \in Range(want.pars) : Mid(p) /\ p.val = t[j].id
================================================================================
