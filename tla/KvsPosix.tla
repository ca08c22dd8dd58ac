-------------------------------- MODULE KvsPosix --------------------------------
(***************************************************************************)
(* The key/value store in a POSIX file of kvs/host/kvs_posix.cc.           *)
(*                                                                         *)
(* The file is a chain of nodes: a header, and for strings and blobs a     *)
(* body.  A reader walks the chain from the front, each header telling how *)
(* long its body is.  A node is never removed: it is marked dead, and its  *)
(* place is used again by a node that fits.  Setting a value takes up to   *)
(* four writes, and the process may end between any two of them.           *)
(*                                                                         *)
(* A header is one cell of the file and a body a number of cells of its    *)
(* own.  One handle is open at a time.                                     *)
(***************************************************************************)
EXTENDS Integers, Sequences

CONSTANTS
  Keys,
  NoKey,      \* the key of an erased node
  Ints,       \* values of the types of up to 32 bits
  Wides,      \* 64-bit values, as [lo, hi]: what lies where blob_len and blob_size do
  Chars,      \* what a byte of a string can be
  Strings,    \* strings, as sequences
  Absent,
  Unknown,    \* nothing is said of a value: the process ended while it was written
  NoOp,       \* no function of the store is running
  MaxCells    \* bound: the length of the file

Values ==
  [type : {"u8"}, val : Ints] \cup [type : {"u64"}, val : Wides] \cup [type : {"str"}, val : Strings]

\* A header, its value in it if its type is one of a number.  A node without a key is
\* dead.
HeaderOf(type, vals) ==
  {h \in [hdr : {TRUE}, key : Keys \cup {NoKey}, type : {type}, dead : BOOLEAN,
          len : Nat, size : Nat, val : vals \cup {Absent}] : h.key = NoKey <=> h.dead}

\* What a function of the store may want to write: a header, or a byte of a body.
Asked ==
  HeaderOf("u8", Ints) \cup HeaderOf("u64", Wides) \cup HeaderOf("str", {})
    \cup [hdr : {FALSE}, byte : Chars]

\* What a cell of the file can be: what lies at blob_len is not above what lies at
\* blob_size, be they lengths or the halves of a number.
Cell == {c \in Asked : c.hdr => c.len <= c.size}

\* A set or an erase under way.
Ops ==
  [key : Keys, val : Values \cup {Absent},
   writes : Seq([at : Nat, cells : Seq(Asked)]), sound : BOOLEAN]

ASSUME ConstantsOK ==
  /\ NoKey \notin Keys
  /\ Absent \notin Values /\ Unknown \notin Values
  /\ MaxCells \in Nat
  /\ \A w \in Wides : w.lo \in Nat /\ w.hi \in Nat
  /\ Strings \subseteq Seq(Chars)
  /\ NoOp \notin Ops
  /\ NoOp \notin [key : Keys, val : Values \cup {Absent}, sound : BOOLEAN]
  /\ NoOp \notin [key : Keys, val : Values \cup {Absent}]

VARIABLES
  file,       \* the cells of the file
  op,         \* the set or erase under way: its request and the writes it has yet to do
  aborted,    \* an assert() has failed
  \* History, for the properties alone:
  before,     \* the value of its key when the operation began
  torn,       \* keys whose last write was cut short or went to a file with such an end
  last        \* the request that completed last, and whether the file was sound then

vars == <<file, op, aborted, before, torn, last>>

--------------------------------------------------------------------------------
(* The file *)

\* struct line_info
Header(key, type, len, size, val) ==
  [hdr |-> TRUE, key |-> key, type |-> type, dead |-> FALSE, len |-> len, size |-> size, val |-> val]

Byte(b) == [hdr |-> FALSE, byte |-> b]
Bytes(s) == [i \in 1 .. Len(s) |-> Byte(s[i])]

\* li_typeInt: what it does not hold for has its bytes taken for lengths.
IsInt(h) == h.type = "u8"

\* A bug: the length of the value instead of the size of its place.
BodyByLen(h) == IF h.type = "str" THEN h.len ELSE 0

\* li_size
Body(h) == IF h.type = "str" THEN h.size ELSE 0

\* The nodes a reader reaches from the front: it stops at what is no header.
Chain(f) ==
  LET from[p \in Nat] ==
        IF p \notin 1 .. Len(f) \/ ~f[p].hdr THEN {} ELSE {p} \cup from[p + 1 + Body(f[p])]
  IN  from[1]

Nodes == Chain(file)

Least(S) == CHOOSE p \in S : \A q \in S : p <= q
Greatest(S) == CHOOSE p \in S : \A q \in S : p >= q

\* li_matchKey and kvs_find_next
NodesOf(key) == {p \in Nodes : ~file[p].dead /\ file[p].key = key}

\* kvs_get_*: a body that ends behind the end of the file is not read.
Value(f, p) ==
  LET h == f[p]
      body == SubSeq(f, p + 1, p + h.len)
  IN  CASE h.type # "str" -> [type |-> h.type, val |-> h.val]
        [] h.type = "str" /\ p + h.len > Len(f) -> Absent
        [] h.type = "str" /\ p + h.len <= Len(f) ->
             [type |-> "str", val |-> [i \in 1 .. h.len |-> IF body[i].hdr THEN NoKey ELSE body[i].byte]]

Get(key) == IF NodesOf(key) = {} THEN Absent ELSE Value(file, Least(NodesOf(key)))

\* The chain ends where the file ends: what is appended will be reached.
Sound ==
  \/ file = <<>>
  \/ \E p \in Nodes : p + Body(file[p]) = Len(file)

--------------------------------------------------------------------------------
(* The choice of a place: what a set deletes first and where it writes.     *)
(* A key has at most one node (OneNodePerKey).                              *)

\* At the end of the file.
AtEnd == 0

DeadInts == {p \in Nodes : file[p].dead /\ IsInt(file[p])}

\* A bug: any node of an integer will do.
IntPlaceAnyNode(key) ==
  LET ints == {p \in Nodes : IsInt(file[p])}
  IN  CASE \E p \in NodesOf(key) : IsInt(file[p]) -> [del |-> <<>>, at |-> Least(NodesOf(key))]
        [] OTHER -> [del |-> IF NodesOf(key) = {} THEN <<>> ELSE <<Least(NodesOf(key))>>,
                     at |-> IF ints = {} THEN AtEnd ELSE Least(ints)]

\* A bug: the node of another type is left alone.
IntPlaceKeepsOther(key) ==
  [del |-> <<>>,
   at |-> CASE \E p \in NodesOf(key) : IsInt(file[p]) -> Least(NodesOf(key))
            [] \A p \in NodesOf(key) : ~IsInt(file[p]) ->
                 IF DeadInts = {} THEN AtEnd ELSE Least(DeadInts)]

\* find_key_int_w: the key's own node if it is one of an integer; otherwise that
\* node is deleted, and the first dead node of an integer is used again.
IntPlace(key) ==
  CASE \E p \in NodesOf(key) : IsInt(file[p]) -> [del |-> <<>>, at |-> Least(NodesOf(key))]
    [] \A p \in NodesOf(key) : ~IsInt(file[p]) ->
         [del |-> IF NodesOf(key) = {} THEN <<>> ELSE <<Least(NodesOf(key))>>,
          at |-> IF DeadInts = {} THEN AtEnd ELSE Least(DeadInts)]

\* A bug: a node that is too small is taken as well.
BlobPlaceTooSmall(key, n) ==
  LET own == NodesOf(key)
      free == {p \in Nodes : ~IsInt(file[p]) /\ (file[p].dead \/ p \in own)}
      del == IF own = {} THEN <<>> ELSE <<Least(own)>>
  IN  CASE \E p \in own : ~IsInt(file[p]) /\ file[p].size = n -> [del |-> <<>>, at |-> Least(own)]
        [] OTHER -> [del |-> del, at |-> IF free = {} THEN AtEnd ELSE Greatest(free)]

\* find_key_blob_w: the key's own node if its size is the one asked for; otherwise
\* that node is deleted, and of the dead nodes (itself included) that are large
\* enough one with the least waste is used again: the first without any behind
\* the deleted node, else the last.
BlobPlace(key, n) ==
  LET own == NodesOf(key)
      waste(p) == file[p].size - n
      free == {p \in Nodes : ~IsInt(file[p]) /\ waste(p) \in 0 .. 1000 /\ (file[p].dead \/ p \in own)}
      exact == {p \in free : waste(p) = 0 /\ \E q \in own : q <= p}
      best == {p \in free : \A q \in free : waste(p) <= waste(q)}
      del == IF own = {} THEN <<>> ELSE <<Least(own)>>
  IN  CASE \E p \in own : ~IsInt(file[p]) /\ waste(p) = 0 -> [del |-> <<>>, at |-> Least(own)]
        [] OTHER -> [del |-> del,
                     at |-> CASE exact # {} -> Least(exact)
                              [] exact = {} /\ best # {} -> Greatest(best)
                              [] OTHER -> AtEnd]

\* kvs_write_str_or_blob looks at the place once more: a dead node of a 64-bit value
\* has no body, whatever lies where its size would be.  The string then goes to the
\* end of the file, but `size' is still that of the place that was given up.
StrPlace(key, n) ==
  LET place == BlobPlace(key, n)
      body == IF place.at = AtEnd THEN n ELSE Body(file[place.at])
  IN  IF body < n
      THEN [del |-> Append(place.del, place.at), at |-> AtEnd, size |-> body]
      ELSE [del |-> place.del, at |-> place.at, size |-> body]

--------------------------------------------------------------------------------
(* Setting and erasing: a sequence of writes *)

Write(at, cells) == [at |-> at, cells |-> cells]

\* The mark of a dead node; nobody reads its key or its value again.
Dead(h) == [h EXCEPT !.dead = TRUE, !.key = NoKey, !.val = Absent]

\* kvs_deleteNode
Deletes(nodes) == [i \in 1 .. Len(nodes) |-> Write(nodes[i], <<Dead(file[nodes[i]])>>)]

\* The end of the file is looked up when the header is written; no delete moves it.
Position(at) == IF at = AtEnd THEN Len(file) + 1 ELSE at

Begin(key, val, writes) ==
  /\ op = NoOp
  /\ ~aborted
  /\ op' = [key |-> key, val |-> val, writes |-> writes, sound |-> Sound]
  /\ before' = IF key \in torn THEN Unknown ELSE Get(key)
  /\ last' = NoOp
  /\ UNCHANGED <<file, aborted, torn>>

Room(at, cells) == at = AtEnd => Len(file) + cells <= MaxCells

\* A bug: the old node is deleted once the new one has been written.
SetIntDeleteLast(key, v) ==
  LET place == IntPlace(key)
      h == Header(key, v.type, 0, IF v.type = "u64" THEN v.val.hi ELSE 0, v.val)
  IN  /\ Room(place.at, 1)
      /\ Begin(key, v, <<Write(Position(place.at), <<h>>)>> \o Deletes(place.del))

\* kvs_set_u8 and kvs_set_u64
SetInt(key, v) ==
  LET place == IntPlace(key)
      h == IF v.type = "u64" THEN Header(key, v.type, v.val.lo, v.val.hi, v.val)
                             ELSE Header(key, v.type, 0, 0, v.val)
  IN  /\ Room(place.at, 1)
      /\ Begin(key, v, Deletes(place.del) \o <<Write(Position(place.at), <<h>>)>>)

\* kvs_set_str
SetStr(key, v) ==
  LET n == Len(v.val)
      place == StrPlace(key, n)
      at == Position(place.at)
  IN  /\ Room(place.at, 1 + n)
      /\ Begin(key, v, Deletes(place.del) \o
           <<Write(at, <<Header(key, "str", n, place.size, Absent)>>), Write(at + 1, Bytes(v.val))>>)

\* kvs_erase_key.  (Without such a key it returns false and writes nothing.)
Erase(key) ==
  /\ NodesOf(key) # {}
  /\ LET p == Least(NodesOf(key))
     IN  Begin(key, Absent, <<Write(p, <<Dead(file[p])>>)>>)

Put(f, w) ==
  LET end == w.at + Len(w.cells) - 1
      length == IF end > Len(f) THEN end ELSE Len(f)
  IN  [i \in 1 .. length |-> IF i \in w.at .. end THEN w.cells[i - w.at + 1] ELSE f[i]]

\* The assertion of kvs_write, which every header passes.
Asserted(w) ==
  \A i \in 1 .. Len(w.cells) :
    w.cells[i].hdr => IsInt(w.cells[i]) \/ w.cells[i].size >= w.cells[i].len

NextWrite ==
  /\ op # NoOp /\ op.writes # <<>> /\ ~aborted
  /\ LET w == Head(op.writes)
     IN  IF Asserted(w)
         THEN file' = Put(file, w) /\ UNCHANGED aborted
         ELSE aborted' = TRUE /\ UNCHANGED file
  /\ op' = [op EXCEPT !.writes = Tail(@)]
  /\ UNCHANGED <<before, torn, last>>

Return ==
  /\ op # NoOp /\ op.writes = <<>> /\ ~aborted
  /\ op' = NoOp
  /\ last' = [key |-> op.key, val |-> op.val, sound |-> op.sound]
  /\ torn' = IF op.sound THEN torn \ {op.key} ELSE torn \cup {op.key}
  /\ before' = Absent
  /\ UNCHANGED <<file, aborted>>

\* The process ends; the next one opens the file as it is.
Crash ==
  /\ op # NoOp
  /\ op' = NoOp
  /\ aborted' = FALSE
  /\ torn' = torn \cup {op.key}
  /\ before' = Absent
  /\ UNCHANGED <<file, last>>

Init ==
  /\ file = <<>>
  /\ op = NoOp
  /\ aborted = FALSE
  /\ before = Absent
  /\ torn = {}
  /\ last = NoOp

Set(key, v) == (v.type = "str" /\ SetStr(key, v)) \/ (v.type # "str" /\ SetInt(key, v))

Next ==
  \/ \E key \in Keys : Erase(key) \/ \E v \in Values : Set(key, v)
  \/ NextWrite \/ Return \/ Crash

Spec == Init /\ [][Next]_vars

--------------------------------------------------------------------------------
(* Properties *)

\* The file is made of headers that passed the assertion of kvs_write and of bytes;
\* what is yet to be written may be a header that will not pass it.
TypeOK ==
  /\ file \in Seq(Cell)
  /\ op \in Ops \cup {NoOp}
  /\ aborted \in BOOLEAN
  /\ torn \subseteq Keys

\* A key never has two nodes, at whatever write the process ends: kvs_find_next
\* would find the older one for ever.
OneNodePerKey == \A key \in Keys : \A p, q \in NodesOf(key) : p = q

\* kvs_get_str returns false for an empty string.
Seen(v) == IF v # Absent /\ v.type = "str" /\ v.val = <<>> THEN Absent ELSE v

\* A value that has been set is read back, as long as the file was sound: its last
\* body had not been cut off by a crash.  After such a crash what is appended
\* may land in the missing body.
ReadBack ==
  last # NoOp /\ last.sound => Seen(Get(last.key)) = Seen(last.val)

\* Between two operations the chain leads to the end of the file, as long as no write
\* has been cut short.
StaysSound == op = NoOp /\ torn = {} => Sound

\* kvs_write: assert(li_typeInt(li) || li->nval.len.blob_size >= li->nval.len.blob_len)
AssertHolds == ~aborted

\* The assertion fails only where 64-bit values are kept: while one is set whose lower
\* half is above its upper half, or while a string is set and there is a 64-bit value,
\* dead or about to be, in which there seemed to be room for it.  No erase fails it, no
\* mark of a dead node does, and nothing does in a store without such values.
FailsAtWides ==
  aborted =>
    /\ op.val # Absent
    /\ \/ op.val.type = "u64" /\ op.val.val.lo > op.val.val.hi
       \/ /\ op.val.type = "str"
          /\ \E p \in Nodes : file[p].type = "u64" /\ file[p].size >= Len(op.val.val)

\* The store is a map whose functions do one thing at one moment: no write of a set
\* or an erase, and no crash between two of them, changes what is read under another
\* key, unless a crash had cut the last write of that key short.
Stored(key) ==
  IF op # NoOp /\ op.key = key THEN IF before = Unknown THEN Unknown ELSE Seen(before)
  ELSE IF key \in torn THEN Unknown ELSE Seen(Get(key))

Promise == INSTANCE KvsMap WITH
  Values <- {Seen(v) : v \in Values} \ {Absent},
  NoReq <- NoOp,
  map <- [key \in Keys |-> Stored(key)],
  req <- IF op = NoOp THEN NoOp ELSE [key |-> op.key, val |-> Seen(op.val)]

IsMap == Promise!Spec
================================================================================
