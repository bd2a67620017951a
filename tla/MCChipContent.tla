--------------------------- MODULE MCChipContent ---------------------------
(***************************************************************************)
(* Two products on a chip of two blocks of five cells, or on one of five   *)
(* or ten cells that is read in chunks of five, written in pages of three: *)
(* infos with several keys, with one, with extra keys only, without any,   *)
(* with values that are written as an integer of 64 or of more bits, with  *)
(* an extra key in the place of a known one, and one that does not fit on  *)
(* the chip and overflows the size field; and images of another            *)
(* tool with a value of the wrong type, a double key, a map cut short and  *)
(* an integer of more than 64 bits.                                        *)
(***************************************************************************)
EXTENDS ChipContent, TLC

CONSTANTS lamp, sensor, name, serial, yes, zero, large, other, signed, big

Nothing == [k \in {} |-> name]

MCKeys == <<"PI", "PN", "PO", "PS", "SC", "SN", "VN", "VS", "a", "b", "c", "colour", "d">>
MCBefore ==
    UNION {{<<MCKeys[i], MCKeys[j]>> : i \in 1 .. j - 1} : j \in DOMAIN MCKeys}

MCInfos == {
    [ids |-> lamp, known |-> "PN" :> name @@ "PO" :> yes, extra |-> "colour" :> large],
    [ids |-> sensor, known |-> "SN" :> serial, extra |-> "SC" :> large],
    [ids |-> sensor, known |-> Nothing, extra |-> "colour" :> large],
    [ids |-> sensor, known |-> Nothing, extra |-> "colour" :> signed],
    [ids |-> sensor, known |-> Nothing, extra |-> "colour" :> big],
    [ids |-> lamp, known |-> Nothing, extra |-> Nothing],
    [ids |-> lamp, known |-> [k \in {"SN", "VN", "PN", "VS", "PS"} |-> name],
     extra |-> [k \in {"a", "b", "c", "d"} |-> large]]
}

MCWritten == signed :> large @@ big :> other

MCForeign == {
    <<lamp, <<Count(2), Entry("SN", name), Entry("SN", serial), Entry("SC", zero)>>>>,
    <<sensor, <<Count(2), Entry("SC", zero)>>>>,
    <<sensor, <<Count(1), Entry("colour", other), Entry("SC", zero)>>>>
}
=============================================================================
