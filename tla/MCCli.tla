--------------------------------- MODULE MCCli ---------------------------------
(* Commands of up to three parameters and JSON texts with up to three members, typed *)
(* with a mistake; one member is a command with more parameters than par has room.  *)
EXTENDS Cli

P(key, val, quoted) == [key |-> key, val |-> val, quoted |-> quoted]

MCParams ==
  {P(<<"a">>, NoVal, FALSE), P(<<"a", "b">>, <<"b">>, FALSE), P(<<"b">>, <<"=", " ", ";">>, TRUE),
   P(<<"b">>, <<>>, TRUE), P(<<"m">>, <<"b">>, FALSE), P(<<"b">>, <<>>, FALSE)}

MCWanted == {<<"temp">>, <<"deg">>}

MCHandlers == {<<"a">>, <<"a", "b">>, <<"set">>}

Value(type, text) == [type |-> type, text |-> text, members |-> <<>>]
Object(members) == [type |-> "object", text |-> NoText, members |-> members]
Array(members) == [type |-> "array", text |-> NoText, members |-> members]

Number == Value("primitive", <<"1">>)
Text == Value("string", <<"x">>)
Member(key, value) == <<<<key>>, value>>
List == Array(<<Object(<<Member("set", Text)>>), Number>>)
Nested == Object(<<Member("k", List), Member("temp", Number)>>)

MCMembers ==
  {Member("from", Text), Member("list", List),
   Member("set", Object(<<Member("k", Text), Member("l", Number)>>)), Member("set", Object(<<>>)),
   Member("get", Object(<<Member("set", Text)>>)),
   Member("set", Object(<<Member("k", Text), Member("l", Number), Member("x", Text)>>)),
   Member("json", Object(<<Member("temp", Number), Member("set", Nested), Member("deg", Text)>>))}

MCDocs == {Object(ms) : ms \in UNION {[1 .. k -> MCMembers] : k \in 0 .. 3}}

\* The JSON values that occur, and their tokens
MCValues == MCDocs \cup {m[2] : m \in MCMembers} \cup {Number, Text, List, Nested, Object(<<Member("set", Text)>>)}
MCStrings == {<<s>> : s \in {"from", "list", "set", "get", "json", "temp", "deg", "k", "l", "x", "1"}}

RECURSIVE TokensOf(_)
TokensOf(v) ==
  LET ofMember(m) == IF v.type = "object" THEN <<Token("string", 1, m[1])>> \o TokensOf(m[2]) ELSE TokensOf(m)
  IN  <<Token(v.type, Len(v.members), v.text)>> \o FlattenSeq([i \in DOMAIN v.members |-> ofMember(v.members[i])])

MCTokens == [v \in MCValues |-> TokensOf(v)]
================================================================================
