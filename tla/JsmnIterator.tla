------------------------------ MODULE JsmnIterator ------------------------------
(***************************************************************************)
(* Walking the tokens of a JSON text (jsmn/include/jsmn/jsmn_iterate.hh).  *)
(*                                                                         *)
(* The tokens of a text lie one behind the other: an object is followed by *)
(* its keys, each followed by the tokens of its value, an array by those   *)
(* of its elements.  A token knows how many keys or elements it has, not   *)
(* where its value ends.  An iterator is a position in the tokens.         *)
(***************************************************************************)
EXTENDS Integers, Sequences

CONSTANTS
  MaxTokens,   \* the room for tokens: tok_max
  AnyKey,      \* the null pointer of keyIsEqual
  NoText,      \* what is no string: the null pointer of getValueAsString
  Strings,     \* the texts of keys, strings and numbers
  Values,      \* the JSON values: [type, text, members]
  Tokens       \* what jsmn_parse makes of each

\* The members of an object are pairs of key and value, those of an array are values.
ASSUME ValuesAssumption ==
  \A v \in Values :
    /\ v.type \in {"object", "array", "string", "primitive"}
    /\ v.members \in IF v.type = "object" THEN Seq(Strings \X Values)
                     ELSE IF v.type = "array" THEN Seq(Values) ELSE {<<>>}

Token(type, size, text) == [type |-> type, size |-> size, text |-> text]

MemberTokens(v, m) ==
  IF v.type = "object" THEN <<Token("string", 1, m[1])>> \o Tokens[m[2]] ELSE Tokens[m]

\* The token of a value and then those of its members
Layout(v) ==
  LET laid[k \in 0 .. Len(v.members)] ==
        IF k = 0 THEN <<Token(v.type, Len(v.members), v.text)>>
        ELSE laid[k - 1] \o MemberTokens(v, v.members[k])
  IN  laid[Len(v.members)]

ASSUME TokensAssumption ==
  /\ Tokens \in [Values -> Seq([type : {"object", "array", "string", "primitive"}, size : Nat,
                                text : Strings \cup {NoText}])]
  /\ \A v \in Values : Tokens[v] = Layout(v)

\* do_parse: a text that is no object or has too many tokens is no text at all.
Parsed(v) ==
  LET toks == Tokens[v]
  IN  IF v.type # "object" \/ Len(toks) > MaxTokens THEN <<>> ELSE toks

\* operator bool
On(toks, i) == i \in DOMAIN toks

KeyIs(toks, i, key) == toks[i].type = "string" /\ toks[i].text = key

\* keyIsEqual(key, val_type), which takes it that there is a token behind the key
KeyIsEqual(toks, i, key, type) ==
  toks[i + 1].type = type /\ (key = AnyKey \/ KeyIs(toks, i, key))

\* getValueAsString
ValueAsString(toks, i) ==
  IF toks[i].type \in {"string", "primitive"} THEN toks[i].text ELSE NoText

\* A bug: the members of an object are not looked into.
SkipValueFlat(toks, i) ==
  IF On(toks, i) /\ toks[i].type \in {"object", "array"}
  THEN i + 1 + toks[i].size * (IF toks[i].type = "object" THEN 2 ELSE 1)
  ELSE i + 1

\* The loop over the members of the object or array at i, with what skip_value does in behind
Members(toks, i, behind) ==
  LET key == IF toks[i].type = "object" THEN 1 ELSE 0
      member[k \in 0 .. toks[i].size] ==
        IF k = 0 THEN i + 1
        ELSE IF ~On(toks, member[k - 1]) THEN member[k - 1]
        ELSE behind[member[k - 1] + key]
  IN  member[toks[i].size]

\* skip_value
SkipValue(toks, i) ==
  LET behind[j \in 1 .. Len(toks) + 1] ==
        IF ~On(toks, j) THEN j
        ELSE IF toks[j].type \in {"object", "array"} THEN Members(toks, j, behind)
        ELSE j + 1
  IN  behind[i]

\* skip_key_and_value
SkipKeyAndValue(toks, i) == SkipValue(toks, i + 1)

\* getValue and takeValue of a number: if the key fits and its value is a primitive, the
\* iterator goes on behind both.
Takes(toks, i, key) ==
  KeyIs(toks, i, key) /\ On(toks, i + 1) /\ toks[i + 1].type = "primitive"

\* The next member: a number under a key that is wanted is taken, anything else is skipped.
TakeMember(toks, st, wanted) ==
  IF ~On(toks, st.pos) THEN st
  ELSE IF \E key \in wanted : Takes(toks, st.pos, key)
  THEN [pos |-> st.pos + 2,
        taken |-> st.taken \cup {<<toks[st.pos].text, toks[st.pos + 1].text>>}]
  ELSE [st EXCEPT !.pos = SkipKeyAndValue(toks, @)]

\* The loop over the members of the object that is the value of the key at i
TakeObject(toks, i, wanted) ==
  LET after[k \in 0 .. toks[i + 1].size] ==
        IF k = 0 THEN [pos |-> i + 2, taken |-> {}] ELSE TakeMember(toks, after[k - 1], wanted)
  IN  after[toks[i + 1].size]
================================================================================
