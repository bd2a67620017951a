----------------------------- MODULE AdcReading -----------------------------
(***************************************************************************)
(* One measurement of the ID pin: read_adc (src/back_cover.rs) takes five  *)
(* readings in half a second, while the connector may move, and identify   *)
(* and is_toh_present (src/id.rs) tell what they mean.  Daemon relies on   *)
(* what is checked here when it says which measurements can succeed.       *)
(***************************************************************************)
EXTENDS Integers, Sequences, FiniteSetsExt

CONSTANTS
    Resistors,  \* what the ADC reads for the ID resistors, apart from noise
    Noise,      \* the noise of a reading
    Open,       \* what it reads for an open pin
    Bounce      \* what it may read while the contact is bad

AdcValue == 0 .. 65535  \* u16

ASSUME AdcAssumption ==
    /\ Resistors \cup Noise \subseteq Int /\ Open \cup Bounce \subseteq AdcValue
    /\ \A r \in Resistors, n \in Noise : r + n \in AdcValue

\* No resistor reads within 0.5 % of an open pin.
ASSUME OpenAssumption ==
    \A r \in Resistors, n \in Noise, o \in Open :
        \/ 200 * (o - (r + n)) > o
        \/ 200 * ((r + n) - o) > r + n

VARIABLES
    resistor,  \* of the cover that is being attached or removed
    contact,   \* away, loose or firm
    seen,      \* the contacts at the readings so far
    values,    \* the readings so far
    outcome    \* the measurement: pending, failed, ok or inconsistent

vars == <<resistor, contact, seen, values, outcome>>

Contacts == {"away", "loose", "firm"}

TypeOK ==
    /\ resistor \in Resistors /\ contact \in Contacts
    /\ seen \subseteq Contacts
    /\ values \in Seq(AdcValue) /\ Len(values) <= 5
    /\ outcome \in {"pending", "failed", "ok", "inconsistent"}
    /\ outcome = "ok" => Len(values) = 5

Init ==
    /\ resistor \in Resistors /\ contact \in Contacts
    /\ seen = {} /\ values = <<>> /\ outcome = "pending"

\* TohId of a reading.
Identify(value) ==
    CASE value \in 600 .. 799 -> "R6k2"
      [] value \in 800 .. 999 -> "R10k"
      [] value \in 1000 .. 1199 -> "R15k"
      [] value >= 1750 -> "NotPresent"
      [] OTHER -> "Unknown"

\* Mutant of IsTohPresent: the limit is included.
IsTohPresentInclusive(value) == value \in 0 .. 1750

IsTohPresent(value) == value \in 0 .. 1749

\* The k-th of the sorted readings: the least one up to which there are k.
UpTo(value) == {i \in DOMAIN values : values[i] <= value}
Sorted ==
    [k \in DOMAIN values |->
        Min({v \in {values[i] : i \in DOMAIN values} : Cardinality(UpTo(v)) >= k})]

\* Mutant of Result: the largest reading.
LastValue == Sorted[5]

\* The median.
Result == Sorted[3]

\* The connector moves between two readings, one contact at a time.
Move ==
    /\ outcome = "pending"
    /\ contact' \in IF contact = "loose" THEN {"away", "firm"} ELSE {"loose"}
    /\ UNCHANGED <<resistor, seen, values, outcome>>

Readings ==
    CASE contact = "away" -> Open
      [] contact = "loose" -> Bounce
      [] contact = "firm" -> {resistor + n : n \in Noise}

\* Mutant of Read: one reading more than there is room for.
ReadAgain ==
    /\ outcome = "pending" /\ Len(values) <= 5
    /\ \E value \in Readings : values' = Append(values, value)
    /\ seen' = seen \cup {contact}
    /\ UNCHANGED <<resistor, contact, outcome>>

\* A tick of the interval.
Read ==
    /\ outcome = "pending" /\ Len(values) < 5
    /\ \E value \in Readings : values' = Append(values, value)
    /\ seen' = seen \cup {contact}
    /\ UNCHANGED <<resistor, contact, outcome>>

ReadFails ==
    /\ outcome = "pending" /\ Len(values) < 5
    /\ outcome' = "failed"
    /\ UNCHANGED <<resistor, contact, seen, values>>

\* Mutant of Inconsistent: the half percent is taken for a half.
InconsistentByHalf == 2 * (Sorted[5] - Sorted[1]) > Result

\* The spread is more than 0.5 % of the median.  For a median of zero, 0/0 is
\* not greater than anything and any other quotient is infinite.
Inconsistent == 200 * (Sorted[5] - Sorted[1]) > Result

Finish ==
    /\ outcome = "pending" /\ Len(values) = 5
    /\ outcome' = IF Inconsistent THEN "inconsistent" ELSE "ok"
    /\ UNCHANGED <<resistor, contact, seen, values>>

Next == Move \/ Read \/ ReadFails \/ Finish

Spec == Init /\ [][Next]_vars

-----------------------------------------------------------------------------

\* A measurement that is accepted did not see the cover both in place and
\* away, in whatever order and through whatever bad contacts.
AcceptedWasSteady == outcome = "ok" => ~({"away", "firm"} \subseteq seen)

\* The type of an accepted measurement is the type of most of its readings,
\* also at the border of two types.
MajorityIdentified ==
    outcome = "ok" =>
        Cardinality({i \in DOMAIN values : Identify(values[i]) = Identify(Result)}) >= 3

\* Half a percent more or less does not carry a reading over a limit of a type.
Clear(value) ==
    \A limit \in {600, 800, 1000, 1200, 1750} :
        IF value < limit THEN 200 * value < 199 * limit ELSE 200 * value > 201 * (limit - 1)

OfType(readings, type) == \A value \in readings : Clear(value) /\ Identify(value) = type

\* One touch of a cover whose resistor is clearly of some type, or one look at
\* a pin that is clearly open, decides what an accepted measurement says, both
\* to power_up, which identifies, and to is_present and detect, which only ask
\* whether there is a TOH: a bad contact does not make another cover of it.
TouchDecides ==
    outcome = "ok" =>
        \A type \in {"R6k2", "R10k", "R15k", "Unknown", "NotPresent"} :
            \/ "firm" \in seen /\ OfType({resistor + n : n \in Noise}, type)
            \/ "away" \in seen /\ OfType(Open, type)
            => Identify(Result) = type /\ (IsTohPresent(Result) <=> type # "NotPresent")
=============================================================================
