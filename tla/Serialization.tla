--------------------------- MODULE Serialization ---------------------------
(***************************************************************************)
(* mutils-serialization: how values are written to and read from byte      *)
(* buffers.  A C++ type is a record (its kind and the types it is made     *)
(* of), a value of it is a number (POD types: integers, enumerations and   *)
(* bool as 0 or 1), a sequence (strings and std::array as their bytes;     *)
(* vectors, lists, pairs, tuples), a set, a function (maps), <<>> or       *)
(* <<v>> (pointers), or the sequence <<tag, member, ...>> of an object     *)
(* whose class begins with a tag; <<>> is the null pointer to such an      *)
(* object.  An object type names the classes it may be one of.             *)
(***************************************************************************)
EXTENDS Integers, Sequences, SequencesExt

CONSTANT
  class   \* the classes an object of a type may have: for the name of the type
          \* and a tag, [members |-> the types of all members, the tag
          \* included, whole |-> whether post_object copies the object to a
          \* buffer of bytes_size() first]

Pod(size) == [kind |-> "pod", size |-> size]
Array(size) == [kind |-> "array", size |-> size]      \* copied with memcpy
String == [kind |-> "string"]
Vector(type) == [kind |-> "sequence", of |-> type, count |-> Pod(4)]
List(type) == Vector(type)
Set(type) == [kind |-> "set", of |-> type, count |-> Pod(4)]
Map(key, value, count) ==   \* count: the type to_bytes writes the size in
  [kind |-> "map", of |-> <<key, value>>, count |-> count]
Tuple(types) == [kind |-> "tuple", of |-> types]      \* pairs too
Pointer(type) == [kind |-> "pointer", of |-> type]
Object(family) == [kind |-> "object", of |-> family]

Byte == Pod(1)
Bool == Pod(1)
Tag == Pod(2)
Int32 == Pod(4)
SizeT == Pod(8)

Null == <<>>

\* An unknown tag: from_bytes returns nullptr.
unknown == [members |-> <<>>, whole |-> FALSE]
class_of(type, tag) ==
  IF tag \in DOMAIN class[type.of] THEN class[type.of][tag] ELSE unknown

\* The bytes of a number, the lowest first; numbers fit into four bytes.
pod_bytes(size, v) ==
  [k \in 1 .. size |->
     IF k <= 4 THEN (v \div (256 ^ (k - 1))) % 256 ELSE IF v < 0 THEN 255 ELSE 0]

\* What a read of 1, 2 or 4 bytes yields that begins behind the given number of
\* bytes; behind the end of the buffer there are zeros.
pod_value(size, buffer, begin) ==
  LET byte(k) == IF begin + k <= Len(buffer) THEN buffer[begin + k] ELSE 0
      signed(b) == IF b >= 128 THEN b - 256 ELSE b
  IN CASE size = 1 -> byte(1)
       [] size = 2 -> byte(1) + 256 * signed(byte(2))
       [] OTHER -> byte(1) + 256 * byte(2) + 65536 * byte(3) + 16777216 * signed(byte(4))

after(buffer, size) == SubSeq(buffer, size + 1, Len(buffer))

-----------------------------------------------------------------------------
sorted(S) == SetToSortSeq(S, LAMBDA a, b : a < b)

\* The typed values a value consists of, in the order of its bytes.
parts(type, v) ==
  CASE type.kind = "sequence" -> [i \in DOMAIN v |-> <<type.of, v[i]>>]
    [] type.kind = "set" -> [i \in DOMAIN sorted(v) |-> <<type.of, sorted(v)[i]>>]
    [] type.kind = "map" ->
         LET keys == sorted(DOMAIN v)
         IN [i \in DOMAIN keys |-> <<Tuple(type.of), <<keys[i], v[keys[i]]>>>>]
    [] type.kind = "tuple" -> [i \in DOMAIN type.of |-> <<type.of[i], v[i]>>]
    [] type.kind = "pointer" -> [i \in DOMAIN v |-> <<type.of, v[i]>>]
    [] OTHER -> LET members == class_of(type, v[1]).members
                IN [i \in DOMAIN v |-> <<members[i], v[i]>>]

\* Vectors of a POD type are measured and read as one block.
of_pods(type) == type.kind = "sequence" /\ type.of.kind = "pod"
counted(type) == type.kind \in {"sequence", "set", "map"}

sum_of(sizes) ==
  LET sum[i \in 0 .. Len(sizes)] == IF i = 0 THEN 0 ELSE sum[i - 1] + sizes[i]
  IN sum[Len(sizes)]

RECURSIVE bytes_size(_, _), sizes_of(_)

sizes_of(p) == [i \in DOMAIN p |-> bytes_size(p[i][1], p[i][2])]

bytes_size(type, v) ==
  LET header == IF counted(type) THEN 4 ELSE IF type.kind = "pointer" THEN 1 ELSE 0
  IN CASE type.kind \in {"pod", "array"} -> type.size
       [] type.kind = "string" -> Len(v) + 1
       [] of_pods(type) -> header + Len(v) * type.of.size
       [] OTHER -> header + sum_of(sizes_of(parts(type, v)))

prefix_of_value(type, p) ==    \* a mutated form
  IF counted(type) THEN pod_bytes(type.count.size, Len(p))
  ELSE IF type.kind = "pointer" /\ p # <<>> THEN <<1>> ELSE <<>>

\* What comes before the parts p: their number, or whether there is a value.
prefix(type, p) ==
  CASE counted(type) -> pod_bytes(type.count.size, Len(p))
    [] type.kind = "pointer" -> pod_bytes(1, Len(p))
    [] OTHER -> <<>>

RECURSIVE to_bytes(_, _), written(_, _)

written(type, p) ==
  prefix(type, p) \o FlattenSeq([i \in DOMAIN p |-> to_bytes(p[i][1], p[i][2])])

to_bytes(type, v) ==
  CASE type.kind = "pod" -> pod_bytes(type.size, v)
    [] type.kind = "array" -> v
    [] type.kind = "string" -> Append(v, 0)
    [] OTHER -> written(type, parts(type, v))

\* post_object hands the bytes to a consumer in pieces: here, the pieces
\* together.  Objects of some classes are copied to one buffer first.
RECURSIVE post_object(_, _), posted(_, _)

posted(type, p) ==
  prefix(type, p) \o FlattenSeq([i \in DOMAIN p |-> post_object(p[i][1], p[i][2])])

post_object(type, v) ==
  CASE type.kind \in {"pod", "array", "string"} -> to_bytes(type, v)
    [] type.kind = "object" /\ class_of(type, v[1]).whole ->
         SubSeq(to_bytes(type, v), 1, bytes_size(type, v))
    [] OTHER -> posted(type, parts(type, v))

-----------------------------------------------------------------------------
elements_in_but_last(buffer) ==    \* a mutated form
  LET n == pod_value(4, buffer, 0)
  IN IF n < 1 THEN 0 ELSE IF n > Len(buffer) THEN Len(buffer) ELSE n - 1

\* How many elements a container holds, as its first bytes say.  Bound: not
\* more than there are bytes in the buffer.
elements_in(buffer) ==
  LET n == pod_value(4, buffer, 0)
  IN IF n < 0 THEN 0 ELSE IF n > Len(buffer) THEN Len(buffer) ELSE n

\* insert and emplace keep the first of several entries with the same key.
first_entries(entries) ==
  [k \in {entries[i][1] : i \in DOMAIN entries} |->
     entries[CHOOSE i \in DOMAIN entries :
               /\ entries[i][1] = k
               /\ \A j \in 1 .. i - 1 : entries[j][1] # k][2]]

RECURSIVE from_bytes(_, _), read_all(_, _)

\* Values of the given types, read one after the other: the next begins where
\* the one just read ends according to its bytes_size.
read_all(types, buffer) ==
  IF types = <<>> THEN <<>>
  ELSE LET v == from_bytes(Head(types), buffer)
       IN <<v>> \o read_all(Tail(types), after(buffer, bytes_size(Head(types), v)))

from_bytes(type, buffer) ==
  LET many(t) == read_all([i \in 1 .. elements_in(buffer) |-> t], after(buffer, 4))
  IN CASE type.kind = "pod" -> pod_value(type.size, buffer, 0)
       [] type.kind = "array" -> [k \in 1 .. type.size |-> pod_value(1, buffer, k - 1)]
       [] type.kind = "string" ->
            SubSeq(buffer, 1, (CHOOSE k \in 1 .. Len(buffer) :
                                 /\ buffer[k] = 0
                                 /\ \A j \in 1 .. k - 1 : buffer[j] # 0) - 1)
       [] of_pods(type) ->
            [i \in 1 .. elements_in(buffer) |->
               pod_value(type.of.size, buffer, 4 + (i - 1) * type.of.size)]
       [] type.kind = "sequence" -> many(type.of)
       [] type.kind = "set" -> LET s == many(type.of) IN {s[i] : i \in DOMAIN s}
       [] type.kind = "map" -> first_entries(many(Tuple(type.of)))
       [] type.kind = "tuple" -> read_all(type.of, buffer)
       [] type.kind = "pointer" ->
            IF pod_value(1, buffer, 0) = 0 THEN <<>>
            ELSE <<from_bytes(type.of, after(buffer, 1))>>
       [] OTHER -> read_all(class_of(type, pod_value(2, buffer, 0)).members, buffer)
=============================================================================
