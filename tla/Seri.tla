-------------------------------- MODULE Seri ---------------------------------
(***************************************************************************)
(* lua-seri: a graph of Lua tables written as a stream of tagged values,   *)
(* and read back into fresh tables.                                        *)
(*                                                                         *)
(* The writer walks the graph depth first.  A table that contains itself   *)
(* is written as a short reference to one of the tables being written (its *)
(* ancestors), a table that was written before as a reference to its       *)
(* number, in which case the tag of the first occurrence is changed to     *)
(* TYPE_TABLE_MARK so that the reader remembers it.                        *)
(*                                                                         *)
(* The recursion of pack_one and unpack_one is an explicit stack here.  A  *)
(* value other than a table is one element of the stream, whatever its     *)
(* length in bytes; a number is half the field v, so that keys like 1.5    *)
(* exist.  __pairs stands for a metamethod that lists the whole table.     *)
(***************************************************************************)
EXTENDS Integers, Sequences, FiniteSets

CONSTANTS
  Tables,         \* tables of the sender
  Heaps,          \* the contents the tables may have
  Arguments,      \* the lists of values given to pack
  MAX_DEPTH,      \* ancestors kept by writer and reader (31)
  MAX_REFERENCE,  \* tables numbered in the C array (32)
  MAX_COOKIE      \* cookies of a tag (32)

EXTEND_NUMBER == MAX_COOKIE - 1

ASSUME LimitsAssumption ==
  /\ MAX_DEPTH \in Nat /\ MAX_REFERENCE \in Nat \ {0} /\ MAX_COOKIE \in Nat \ {0, 1}
  /\ MAX_DEPTH <= EXTEND_NUMBER

\* What can be packed: values that are one element of the stream, tables, and values
\* of a type that is refused.
Nil == [type |-> "nil", v |-> 0]
Atoms == [type : {"nil", "number", "string"}, v : Int]
Values == Atoms \cup [type : {"table"}, v : Tables] \cup [type : {"other"}, v : Int]
Index(i) == [type |-> "number", v |-> 2 * i]

\* What a hash part lists: a key and its value.  A key that has none is not listed.
Fields == (Values \ {Nil}) \X (Values \ {Nil})

\* A Lua table has each key once, be it in the array part or in the hash part.
Contents ==
  {c \in [array : Seq(Values), hash : Seq(Fields), metapairs : BOOLEAN] :
     /\ \A i \in DOMAIN c.array, j \in DOMAIN c.hash : c.hash[j][1] # Index(i)
     /\ \A i, j \in DOMAIN c.hash : c.hash[i][1] = c.hash[j][1] => i = j}

ASSUME ContentsAssumption == Heaps \subseteq [Tables -> Contents] /\ Arguments \subseteq Seq(Values)

IsTable(x) == x.type = "table"
Copy(id) == [type |-> "table", v |-> id]

VARIABLES
  heap,       \* contents of the sender's tables: array part, hash part, __pairs
  args,       \* the values packed
  phase,      \* "pack", "unpack", "done", or "failed" (pack), "refused" (unpack)
  out,        \* the stream
  todo,       \* writer: what is left to write, outermost values first
  path,       \* writer: the tables being written, outermost first
  objectid,   \* writer: number of tables written
  r,          \* writer: the first MAX_REFERENCE tables and their tags' addresses
  idOf,       \* writer: numbers of tables, once there are more
  addressOf,  \* writer: addresses of tags, once there are more
  pos,        \* reader: position in the stream
  lstack,     \* reader: the Lua stack
  frames,     \* reader: the calls of unpack_table in progress
  ready,      \* reader: unpack_one has returned to unpack_table
  copies,     \* reader: contents of the tables made, by number
  refs,       \* reader: numbers of the tables remembered
  ancestor    \* reader: stack index of the table at each depth

writer == <<todo, path, objectid, r, idOf, addressOf>>
reader == <<pos, lstack, frames, ready, copies, refs, ancestor>>
vars == <<heap, args, phase, out, writer, reader>>

Empty == [x \in {} |-> x]
\* f with f[x] = y.
With(f, x, y) == [z \in DOMAIN f \cup {x} |-> IF z = x THEN y ELSE f[z]]
Without(f, x) == [z \in DOMAIN f \ {x} |-> f[z]]
Top(s) == s[Len(s)]
\* s without its last n elements.
Pop(s, n) == SubSeq(s, 1, Len(s) - n)

Init ==
  /\ heap \in Heaps
  /\ args \in Arguments
  /\ phase = "pack"
  /\ out = <<>>
  /\ todo = <<args>>
  /\ path = <<>>
  /\ objectid = 0
  /\ r = <<>>
  /\ idOf = Empty
  /\ addressOf = Empty
  /\ pos = 1
  /\ lstack = <<>>
  /\ frames = <<>>
  /\ ready = FALSE
  /\ copies = <<>>
  /\ refs = {}
  /\ ancestor = [d \in 0 .. MAX_DEPTH - 1 |-> 0]

------------------------------------------------------------------------------
(* The writer.                                                              *)

\* Mutant: 0 is taken for an index.
InArray_zero(k, size) == k.type = "number" /\ k.v \div 2 \in 0..size

\* Number keys that lua_tointeger makes an index of the array part are taken to
\* be in it.
InArray(k, size) == k.type = "number" /\ k.v \div 2 \in 1..size

ArraySize(t) == IF heap[t].metapairs THEN 0 ELSE Len(heap[t].array)

\* wb_table_hash: the pairs whose key is not in the array part.
Kept(ps, size) ==
  LET kept[n \in 0..Len(ps)] ==
        IF n = 0 THEN <<>>
        ELSE IF InArray(ps[n][1], size) THEN kept[n - 1] ELSE Append(kept[n - 1], ps[n])
  IN  kept[Len(ps)]

\* The key-value pairs written after the array part: what __pairs lists, or what
\* lua_next lists and wb_table_hash does not skip.
Pairs(t) ==
  LET array == heap[t].array
      all   == [i \in 1..Len(array) |-> <<Index(i), array[i]>>] \o heap[t].hash
  IN  IF heap[t].metapairs THEN all ELSE Kept(all, Len(array))

Flatten(ps) == [i \in 1 .. 2 * Len(ps) |-> ps[(i + 1) \div 2][2 - (i % 2)]]

\* Everything wb_table packs between the tag and the final nil.
Items(t) == SubSeq(heap[t].array, 1, ArraySize(t)) \o Flatten(Pairs(t))

\* wb_integer, of an array's size or a table's number (an int, never negative):
\* how many bytes follow, and the bytes.
wb_integer(v) ==
  IF v = 0 THEN [width |-> 0, bytes |-> 0]
  ELSE IF v < 256 THEN [width |-> 1, bytes |-> v % 256]
  ELSE IF v < 65536 THEN [width |-> 2, bytes |-> v % 65536]
  ELSE [width |-> 4, bytes |-> v]

\* get_integer: bytes and words are unsigned; four bytes are an int32_t, which
\* holds every int.
get_integer(e) == e.bytes

\* Nothing follows the tag.
NoNumber == [width |-> 0, bytes |-> 0]

\* Mutant: > for >=.
TableTag_late(size) ==
  [type   |-> "table",
   cookie |-> IF size > EXTEND_NUMBER THEN EXTEND_NUMBER ELSE size,
   n      |-> IF size > EXTEND_NUMBER THEN wb_integer(size) ELSE NoNumber]

\* The tag of a table: a size that does not fit in the cookie follows it.
TableTag(size) ==
  [type   |-> "table",
   cookie |-> IF size >= EXTEND_NUMBER THEN EXTEND_NUMBER ELSE size,
   n      |-> IF size >= EXTEND_NUMBER THEN wb_integer(size) ELSE NoNumber]

Ref(cookie, n) == [type |-> "ref", cookie |-> cookie, n |-> n]

\* Mutant: where the last one is.
wb_address_last == Len(out)

\* Where the next tag will be.
wb_address == Len(out) + 1

\* Mutant: looked for at every depth.
AncestorDepths_unlimited(t) == {d \in 0 .. Len(path) - 1 : path[d + 1] = t}

\* ref_ancestor: depths at which t is being written.  Deeper than MAX_DEPTH it is
\* not looked for.
AncestorDepths(t) ==
  IF Len(path) >= MAX_DEPTH THEN {} ELSE {d \in 0 .. Len(path) - 1 : path[d + 1] = t}

\* lookup_ref: in the array, or in the two Lua tables that replace it.
InTables == objectid > MAX_REFERENCE
NumbersOf(t) ==
  IF InTables THEN {idOf[x] : x \in DOMAIN idOf \cap {t}}
              ELSE {i \in DOMAIN r : r[i].object = t}
NoAddress == 0
Address(id) ==
  IF InTables THEN (IF id \in DOMAIN addressOf THEN addressOf[id] ELSE NoAddress)
              ELSE r[id].address

\* Mutant: the last table of the array is forgotten.
MigratedIds_short ==
  [t \in {r[i].object : i \in DOMAIN r \ {MAX_REFERENCE}} |->
     CHOOSE i \in DOMAIN r : r[i].object = t]

\* The array as the two tables: of the tags, those not yet changed.
MigratedIds == [t \in {r[i].object : i \in DOMAIN r} |-> CHOOSE i \in DOMAIN r : r[i].object = t]
MigratedAddresses == [i \in {j \in DOMAIN r : r[j].address # NoAddress} |-> r[i].address]

mark_table(t) ==
  LET id == objectid + 1
  IN  /\ objectid' = id
      /\ IF objectid < MAX_REFERENCE
           THEN /\ r' = Append(r, [object |-> t, address |-> wb_address])
                /\ UNCHANGED <<idOf, addressOf>>
           ELSE /\ idOf' = With(IF InTables THEN idOf ELSE MigratedIds, t, id)
                /\ addressOf' = With(IF InTables THEN addressOf ELSE MigratedAddresses,
                                     id, wb_address)
                /\ UNCHANGED r

\* The stream with the tag of table id changed, if it was not before.
change_mark(id) ==
  IF Address(id) = NoAddress THEN out ELSE [out EXCEPT ![Address(id)].type = "mark"]

\* The next value to write, and the rest.
Packing == phase = "pack" /\ Top(todo) # <<>>
Value == Head(Top(todo))
Rest == [todo EXCEPT ![Len(todo)] = Tail(@)]

\* Mutant: the tag's address is not forgotten.
Forget_not(id) == UNCHANGED <<r, addressOf>>

\* The tag of table id is not changed again.
Forget(id) ==
  IF InTables THEN addressOf' = Without(addressOf, id) /\ UNCHANGED r
              ELSE r' = [r EXCEPT ![id].address = NoAddress] /\ UNCHANGED addressOf

\* pack_one: nil, a boolean, a number, a string, a pointer.
PackValue ==
  /\ Packing /\ Value.type \in {"nil", "number", "string"}
  /\ out' = Append(out, Value)
  /\ todo' = Rest
  /\ UNCHANGED <<heap, args, phase, path, objectid, r, idOf, addressOf, reader>>

\* pack_one: a value of another type raises an error in the sender.
PackUnsupported ==
  /\ Packing /\ Value.type = "other"
  /\ phase' = "failed"
  /\ UNCHANGED <<heap, args, out, writer, reader>>

\* ref_ancestor finds the table.
PackAncestor ==
  /\ Packing /\ IsTable(Value)
  /\ \E d \in AncestorDepths(Value.v) :
       /\ \A e \in AncestorDepths(Value.v) : e <= d
       /\ out' = Append(out, Ref(d, NoNumber))
  /\ todo' = Rest
  /\ UNCHANGED <<heap, args, phase, path, objectid, r, idOf, addressOf, reader>>

\* ref_object finds the table.
PackObject ==
  /\ Packing /\ IsTable(Value) /\ AncestorDepths(Value.v) = {}
  /\ \E id \in NumbersOf(Value.v) :
       /\ out' = Append(change_mark(id), Ref(EXTEND_NUMBER, wb_integer(id)))
       /\ Forget(id)
  /\ todo' = Rest
  /\ UNCHANGED <<heap, args, phase, path, objectid, idOf, reader>>

\* wb_table: the table is new; its tag is written and its items come next.
PackTable ==
  /\ Packing /\ IsTable(Value)
  /\ AncestorDepths(Value.v) = {} /\ NumbersOf(Value.v) = {}
  /\ mark_table(Value.v)
  /\ out' = Append(out, TableTag(ArraySize(Value.v)))
  /\ todo' = Append(Rest, Items(Value.v))
  /\ path' = Append(path, Value.v)
  /\ UNCHANGED <<heap, args, phase, reader>>

\* wb_nil after the last item of a table.
PackEnd ==
  /\ phase = "pack" /\ path # <<>> /\ Top(todo) = <<>>
  /\ out' = Append(out, Nil)
  /\ todo' = Pop(todo, 1)
  /\ path' = Pop(path, 1)
  /\ UNCHANGED <<heap, args, phase, objectid, r, idOf, addressOf, reader>>

\* seri: all arguments are written; the buffer goes to the receiver.
PackDone ==
  /\ phase = "pack" /\ path = <<>> /\ Top(todo) = <<>>
  /\ phase' = "unpack"
  /\ UNCHANGED <<heap, args, out, writer, reader>>

------------------------------------------------------------------------------
(* The reader.                                                              *)

\* Mutant: the values are not deeper either.
Depth_values ==
  IF frames = <<>> THEN 0
  ELSE Top(frames).base + (IF Top(frames).stage = "array" THEN 1 ELSE 0)

\* s->depth: a table's array elements and values are one deeper than the table,
\* its keys are not.
Depth ==
  IF frames = <<>> THEN 0
  ELSE Top(frames).base + (IF Top(frames).stage = "key" THEN 0 ELSE 1)

Reading == phase = "unpack" /\ ~ready /\ pos <= Len(out)
Token == out[pos]

\* unpack_one pushes x and returns.
Push(x) ==
  /\ pos' = pos + 1
  /\ lstack' = Append(lstack, x)
  /\ ready' = (frames # <<>>)
  /\ UNCHANGED <<heap, args, phase, out, writer, frames, copies, refs, ancestor>>

\* luaL_error: the reader gives up, the buffer is freed.
Refuse ==
  /\ phase' = "refused"
  /\ UNCHANGED <<heap, args, out, writer, reader>>

ReadValue == Reading /\ Token.type \in {"nil", "number", "string"} /\ Push(Token)

\* unpack_table: a new table is made, and remembered if its tag is marked.
ReadTable ==
  LET id   == Len(copies) + 1
      size == IF Token.cookie = EXTEND_NUMBER THEN get_integer(Token.n) ELSE Token.cookie
  IN  /\ Reading /\ Token.type \in {"table", "mark"}
      /\ pos' = pos + 1
      /\ copies' = Append(copies, Empty)
      /\ lstack' = Append(lstack, Copy(id))
      /\ refs' = IF Token.type = "mark" THEN refs \cup {id} ELSE refs
      /\ ancestor' = IF Depth < MAX_DEPTH
                       THEN [ancestor EXCEPT ![Depth] = Len(lstack) + 1] ELSE ancestor
      /\ frames' = Append(frames, [base |-> Depth, size |-> size, i |-> 1,
                                   stage |-> IF size > 0 THEN "array" ELSE "key"])
      /\ UNCHANGED <<heap, args, phase, out, writer, ready>>

\* unpack_ref, short form.
ReadAncestor ==
  /\ Reading /\ Token.type = "ref" /\ Token.cookie # EXTEND_NUMBER
  /\ IF Token.cookie >= Depth THEN Refuse ELSE Push(lstack[ancestor[Token.cookie]])

\* unpack_ref, extended form: an error without remembered tables, and an error if
\* the table is among them; otherwise lua_rawgeti has pushed nil.
ReadObject ==
  /\ Reading /\ Token.type = "ref" /\ Token.cookie = EXTEND_NUMBER
  /\ IF refs = {} \/ get_integer(Token.n) \in refs THEN Refuse ELSE Push(Nil)

\* The table at index -n of the stack gets x at key k.
Set(n, k, x) ==
  LET id == lstack[Len(lstack) - n + 1].v
  IN  copies' = [copies EXCEPT ![id] = IF x = Nil THEN Without(@, k) ELSE With(@, k, x)]

Storing(stage) == phase = "unpack" /\ ready /\ Top(frames).stage = stage

\* lua_rawseti in the loop over the array part.
StoreElement ==
  LET f == Top(frames)
  IN  /\ Storing("array")
      /\ Set(2, Index(f.i), Top(lstack))
      /\ lstack' = Pop(lstack, 1)
      /\ frames' = [frames EXCEPT ![Len(frames)] =
                      [@ EXCEPT !.i = f.i + 1, !.stage = IF f.i = f.size THEN "key" ELSE "array"]]
      /\ ready' = FALSE
      /\ UNCHANGED <<heap, args, phase, out, writer, pos, refs, ancestor>>

\* The key is on the stack, its value comes next.
StoreKey ==
  /\ Storing("key") /\ Top(lstack) # Nil
  /\ frames' = [frames EXCEPT ![Len(frames)].stage = "value"]
  /\ ready' = FALSE
  /\ UNCHANGED <<heap, args, phase, out, writer, pos, lstack, copies, refs, ancestor>>

\* A nil for a key ends the table, which is now the value the caller reads.
StoreEnd ==
  /\ Storing("key") /\ Top(lstack) = Nil
  /\ lstack' = Pop(lstack, 1)
  /\ frames' = Pop(frames, 1)
  /\ ready' = (Len(frames) > 1)
  /\ UNCHANGED <<heap, args, phase, out, writer, pos, copies, refs, ancestor>>

\* lua_rawset.
StoreValue ==
  /\ Storing("value")
  /\ Set(3, lstack[Len(lstack) - 1], Top(lstack))
  /\ lstack' = Pop(lstack, 2)
  /\ frames' = [frames EXCEPT ![Len(frames)].stage = "key"]
  /\ ready' = FALSE
  /\ UNCHANGED <<heap, args, phase, out, writer, pos, refs, ancestor>>

\* The stream is at its end: seri_unpack returns what is on the stack, or
\* unpack_table finds that its table does not end.
UnpackDone ==
  /\ phase = "unpack" /\ ~ready /\ pos > Len(out)
  /\ IF frames = <<>> THEN phase' = "done" ELSE phase' = "refused"
  /\ UNCHANGED <<heap, args, out, writer, reader>>

Next ==
  \/ PackValue \/ PackUnsupported \/ PackAncestor \/ PackObject
  \/ PackTable \/ PackEnd \/ PackDone
  \/ ReadValue \/ ReadTable \/ ReadAncestor \/ ReadObject
  \/ StoreElement \/ StoreKey \/ StoreEnd \/ StoreValue \/ UnpackDone

Spec == Init /\ [][Next]_vars

------------------------------------------------------------------------------
(* Properties.                                                              *)

\* The assert of change_mark: a remembered address is that of a table's tag that
\* was not changed before, also after the array has become two Lua tables.
AddressesAreTags ==
  \A id \in 1..objectid :
    Address(id) # NoAddress =>
      Address(id) <= Len(out) /\ out[Address(id)].type = "table"

\* No table is written twice, so that a graph with cycles has an end: the writer
\* knows exactly the tables it has numbered, before and after the array is full.
TablesAreWrittenOnce ==
  /\ Cardinality({t \in Tables : NumbersOf(t) # {}}) = objectid
  /\ \A t \in Tables : Cardinality(NumbersOf(t)) <= 1

\* A cookie fits in the tag, and one that is an ancestor's depth or an array's
\* size is never taken for the announcement of a number that follows.
CookiesFit ==
  \A p \in DOMAIN out :
    out[p].type \in {"table", "mark", "ref"} =>
      /\ out[p].cookie \in 0 .. MAX_COOKIE - 1
      /\ out[p].cookie = EXTEND_NUMBER <=> out[p].n # NoNumber

\* What the sender's table holds: key -> value.
Keys(t) ==
  {Index(i) : i \in {j \in DOMAIN heap[t].array : heap[t].array[j] # Nil}}
    \cup {heap[t].hash[j][1] : j \in DOMAIN heap[t].hash}
ValueAt(t, k) ==
  IF \E j \in DOMAIN heap[t].hash : heap[t].hash[j][1] = k
    THEN heap[t].hash[CHOOSE j \in DOMAIN heap[t].hash : heap[t].hash[j][1] = k][2]
    ELSE heap[t].array[k.v \div 2]

\* Keys like 1.5 that wb_table_hash takes to be in the array part.
LostKeys(t) ==
  {k \in Keys(t) : /\ k.type = "number" /\ k.v % 2 # 0
                   /\ k.v \div 2 \in 1..ArraySize(t)}

\* Tables are numbered alike by writer and reader.
NumberOf(t) == CHOOSE id \in NumbersOf(t) : TRUE
CopyOf(x) == IF IsTable(x) THEN Copy(NumberOf(x.v)) ELSE x
Packed == {t \in Tables : NumbersOf(t) # {}}

\* The copy of t holds copies of these keys and of their values.
IsCopied(t, keys) ==
  copies[NumberOf(t)] =
    [c \in {CopyOf(k) : k \in keys} |->
       CopyOf(ValueAt(t, CHOOSE k \in keys : CopyOf(k) = c))]

TableKeys ==
  \E t \in Tables : \E j \in DOMAIN heap[t].hash : IsTable(heap[t].hash[j][1])

\* Without tables as keys, what the receiver gets is the sender's graph: as many
\* tables, the same keys (but for those lost), and references that lead to the
\* copies of the tables they led to.
RoundTrip ==
  (phase = "done" /\ ~TableKeys) =>
    /\ lstack = [i \in DOMAIN args |-> CopyOf(args[i])]
    /\ Len(copies) = objectid
    /\ \A t \in Packed : IsCopied(t, Keys(t) \ LostKeys(t))

\* Only references to a table's number are refused, not those to an ancestor, when
\* no tables are keys.
OnlyNumbersAreRefused ==
  (phase = "refused" /\ ~TableKeys) => Token = Ref(EXTEND_NUMBER, Token.n)

\* Tables inside t.
Inside(t) ==
  {u \in Tables :
     \/ \E i \in DOMAIN heap[t].array : heap[t].array[i] = Copy(u)
     \/ \E j \in DOMAIN heap[t].hash : Copy(u) \in {heap[t].hash[j][1], heap[t].hash[j][2]}}

\* No table is inside itself: all can be laid out in levels.
IsAcyclic ==
  \E level \in [Tables -> 1..Cardinality(Tables)] :
    \A t \in Tables : \A u \in Inside(t) : level[t] < level[u]

\* CODEX-LUA_SERI.md:64: the extended form gets the same table back, so that
\* shared references are kept.  So a graph without cycles, and without tables as
\* keys, is never refused, however often its tables occur.
SharedTablesAreRead == (IsAcyclic /\ ~TableKeys) => phase # "refused"
==============================================================================
