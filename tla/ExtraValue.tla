----------------------------- MODULE ExtraValue -----------------------------
(***************************************************************************)
(* The values of TOH info and their way over D-Bus (src/toh/value.rs):     *)
(* ToDbus, FromDbus, Convertable and Scalars are what MCTohInfo gives      *)
(* TohInfo for its Sent, Received, Sendable and Leaves.                    *)
(*                                                                         *)
(* A value is a record with its variant in type.  A map is a function from *)
(* names; a D-Bus value is of the same form, with byte arrays for Bytes.   *)
(***************************************************************************)
EXTENDS Integers, SequencesExt

Text(s) == [type |-> "Text", text |-> s]
U64(n) == [type |-> "U64", u64 |-> n]
Bytes(s) == [type |-> "Bytes", bytes |-> s]
NullValue == [type |-> "Null"]
Tag(tag, v) == [type |-> "Tag", tag |-> tag, inner |-> v]
Array(s) == [type |-> "Array", items |-> s]
Map(m) == [type |-> "Map", entries |-> m]

\* D-Bus has neither null nor tags: try_into_dbus_lossy returns an error.
Convertable(v) == v.type \notin {"Null", "Tag"}
ConvertableIn(m) == {k \in DOMAIN m : Convertable(m[k])}

\* What cannot be converted inside of an array or a map is left out there.
RECURSIVE ToDbus(_)
ToDbus(v) ==
    CASE v.type = "Array" ->
           LET kept == SelectSeq(v.items, Convertable)
           IN Array([i \in DOMAIN kept |-> ToDbus(kept[i])])
      [] v.type = "Map" ->
           Map([k \in ConvertableIn(v.entries) |-> ToDbus(v.entries[k])])
      [] v.type = "Bytes" -> [type |-> "ByteArray", bytes |-> v.bytes]
      [] OTHER -> v

Unsupported == [type |-> "UnsupportedValueType"]

\* TryFrom<&zvariant::Value>: the inverse, except that bytes are numbers now.
\* What no variant stands for is an error of the whole value.
RECURSIVE FromDbus(_)
FromDbus(w) ==
    CASE w.type = "ByteArray" -> Array([i \in DOMAIN w.bytes |-> U64(w.bytes[i])])
      [] w.type = "Array" ->
           LET items == [i \in DOMAIN w.items |-> FromDbus(w.items[i])]
           IN IF \E i \in DOMAIN items : items[i] = Unsupported THEN Unsupported
                                                                ELSE Array(items)
      [] w.type = "Map" ->
           LET entries == [k \in DOMAIN w.entries |-> FromDbus(w.entries[k])]
           IN IF \E k \in DOMAIN entries : entries[k] = Unsupported THEN Unsupported
                                                                    ELSE Map(entries)
      [] w.type \in {"Boolean", "I64", "U64", "F64", "Text"} -> w
      [] OTHER -> Unsupported

\* Reference: the scalars of a value, each with its path, where an item of an
\* array is counted among those that D-Bus can express.
RECURSIVE Scalars(_)
Scalars(v) ==
    LET below(step, inner) == {<<<<step>> \o s[1], s[2]>> : s \in Scalars(inner)}
        place(i) == ToString(Cardinality({j \in 1 .. i : Convertable(v.items[j])}))
    IN CASE v.type = "Map" -> UNION {below(k, v.entries[k]) : k \in DOMAIN v.entries}
         [] v.type = "Array" -> UNION {below(place(i), v.items[i]) : i \in DOMAIN v.items}
         [] v.type = "Bytes" -> {<<<<ToString(i)>>, U64(v.bytes[i])>> : i \in DOMAIN v.bytes}
         [] Convertable(v) /\ v.type \notin {"Map", "Array", "Bytes"} -> {<<<<>>, v>>}
         [] OTHER -> {}
=============================================================================
