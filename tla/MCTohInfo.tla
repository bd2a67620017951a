----------------------------- MODULE MCTohInfo -----------------------------
(***************************************************************************)
(* Two TOHs, one with a directory of two YAML files and another file.  A   *)
(* file may set the name, with null too, or nothing; each brings nested    *)
(* extra data, or replaces that of the chip by null; and they share an     *)
(* address and add executables and units of their own.                     *)
(***************************************************************************)
EXTENDS TohInfo

CONSTANTS lamp, sensor

V == INSTANCE ExtraValue
MCSent(v) == V!ToDbus(v)
MCReceived(w) == V!FromDbus(w)
MCSendable(v) == V!Convertable(v)
MCLeaves(v) == V!Scalars(v)
MCNotReceived == V!Unsupported
NullValue == V!NullValue

Acme == V!Text("acme")
Empty == V!Text("")
Nested == V!Map("led" :> V!Array(<<NullValue, V!Text("aw2023"), V!Bytes(<<1, 2>>)>>)
                @@ "tag" :> V!Tag(1, V!Text("x")))
MCValues == {Acme, Empty, Nested, NullValue, V!Tag(2, Nested)}

MCChip == lamp :> ("name" :> Empty @@ "colour" :> V!Tag(2, Nested))
          @@ sensor :> ("name" :> Acme @@ "colour" :> None)

MCContents == {
    [override |-> ("name" :> Acme @@ "colour" :> Nested), access |-> {"led"},
     devices |-> <<[address |-> 69, name |-> "none"], [address |-> 69, name |-> "led"]>>,
     unit |-> None],
    [override |-> ("name" :> NullValue @@ "colour" :> NullValue), access |-> {"test"},
     devices |-> <<[address |-> 69, name |-> "none"]>>, unit |-> "glow"],
    [override |-> ("name" :> Empty @@ "colour" :> None), access |-> {},
     devices |-> <<>>, unit |-> "blink"]
}

MCInstalled == {[t \in Tohs |-> [f \in Files |-> IF t = lamp /\ f \in Yaml THEN d[f]
                                                                       ELSE Missing]] :
                  d \in [Yaml -> MCContents \cup {Missing}]}

MCFields == <<"name">>
MCVendor == lamp :> 1 @@ sensor :> 2
MCProduct == lamp :> 7 @@ sensor :> 8
=============================================================================
