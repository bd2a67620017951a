-------------------------- MODULE AdcReading_proofs --------------------------
(***************************************************************************)
(* Proofs about AdcReading, for all resistors, noise and bad contacts.     *)
(***************************************************************************)
EXTENDS AdcReading, FiniteSetTheorems, SequenceTheorems, TLAPS

-----------------------------------------------------------------------------
(* Sorting five readings *)

\* A set all of whose nonempty subsets have a least and a greatest element.
Bounded(S) ==
    \A T \in SUBSET S : T # {} =>
        /\ \E x \in T : \A y \in T : x <= y
        /\ \E x \in T : \A y \in T : y <= x

LEMMA BoundedByOne ==
    ASSUME NEW S \in SUBSET Int, Bounded(S), NEW v \in Int
    PROVE  Bounded(S \cup {v})
<1> SUFFICES ASSUME NEW T \in SUBSET (S \cup {v}), T # {}
             PROVE  /\ \E x \in T : \A y \in T : x <= y
                    /\ \E x \in T : \A y \in T : y <= x
    BY DEF Bounded
<1>1. CASE T \ {v} = {}
    <2>1. T = {v}
        BY <1>1
    <2> QED
        BY <2>1
<1>2. CASE T \ {v} # {}
    <2>1. T \ {v} \in SUBSET S
        OBVIOUS
    <2>2. PICK lo \in T \ {v} : \A y \in T \ {v} : lo <= y
        BY <1>2, <2>1 DEF Bounded
    <2>3. PICK hi \in T \ {v} : \A y \in T \ {v} : y <= hi
        BY <1>2, <2>1 DEF Bounded
    <2>4. \E x \in T : \A y \in T : x <= y
        <3>1. CASE v \in T /\ v <= lo
            BY <2>2, <3>1
        <3>2. CASE ~(v \in T /\ v <= lo)
            BY <2>2, <3>2
        <3> QED
            BY <3>1, <3>2
    <2>5. \E x \in T : \A y \in T : y <= x
        <3>1. CASE v \in T /\ hi <= v
            BY <2>3, <3>1
        <3>2. CASE ~(v \in T /\ hi <= v)
            BY <2>3, <3>2
        <3> QED
            BY <3>1, <3>2
    <2> QED
        BY <2>4, <2>5
<1> QED
    BY <1>1, <1>2

\* Five readings that are complete.
Complete == values \in Seq(AdcValue) /\ Len(values) = 5

Taken == {values[i] : i \in DOMAIN values}

LEMMA AdcValueIsNat == \A v \in AdcValue : v \in Nat
BY DEF AdcValue

LEMMA FiveReadings ==
    ASSUME Complete
    PROVE  /\ DOMAIN values = 1 .. Len(values) /\ Len(values) \in Nat
           /\ 1 \in DOMAIN values /\ 3 \in DOMAIN values /\ 5 \in DOMAIN values
           /\ \A i \in DOMAIN values : values[i] \in Taken
           /\ Taken \subseteq AdcValue /\ Taken \subseteq Int
           /\ \A v \in Taken : \E i \in DOMAIN values : values[i] = v
           /\ Bounded(Taken)
<1>1. DOMAIN values = 1 .. Len(values) /\ \A i \in DOMAIN values : values[i] \in AdcValue
    BY DEF Complete
<1>2. /\ {1, 2, 3, 4, 5} = DOMAIN values
      /\ Taken = {values[1]} \cup {values[2]} \cup {values[3]} \cup {values[4]} \cup {values[5]}
    <2>1. DOMAIN values = {1, 2, 3, 4, 5}
        BY <1>1 DEF Complete
    <2> QED
        BY <2>1 DEF Taken
<1>3. \A i \in DOMAIN values : values[i] \in Int
    BY <1>1, AdcValueIsNat
<1>4. Bounded({})
    BY DEF Bounded
<1>5. Bounded({values[1]})
    BY <1>2, <1>3, <1>4, BoundedByOne
<1>6. Bounded({values[1]} \cup {values[2]})
    BY <1>2, <1>3, <1>5, BoundedByOne
<1>7. Bounded({values[1]} \cup {values[2]} \cup {values[3]})
    BY <1>2, <1>3, <1>6, BoundedByOne
<1>8. Bounded({values[1]} \cup {values[2]} \cup {values[3]} \cup {values[4]})
    BY <1>2, <1>3, <1>7, BoundedByOne
<1>9. Bounded(Taken)
    BY <1>2, <1>3, <1>8, BoundedByOne
<1> QED
    BY <1>1, <1>2, <1>3, <1>9 DEF Taken, Complete

\* Sets of readings are finite, and five at most.
LEMMA Places ==
    ASSUME Complete, NEW T \in SUBSET DOMAIN values
    PROVE  /\ Cardinality(DOMAIN values) = 5
           /\ IsFiniteSet(T) /\ Cardinality(T) \in Nat /\ Cardinality(T) <= 5
           /\ Cardinality(T) = 5 => T = DOMAIN values
           /\ T # {} => Cardinality(T) >= 1
           /\ Cardinality(DOMAIN values \ T) = 5 - Cardinality(T)
<1>1. IsFiniteSet(DOMAIN values) /\ Cardinality(DOMAIN values) = 5
    <2>1. \A n \in Nat : IsFiniteSet(1 .. n) /\ Cardinality(1 .. n) = n
        BY FS_Interval
    <2>2. DOMAIN values = 1 .. Len(values) /\ Len(values) \in Nat
        BY FiveReadings
    <2>3. IsFiniteSet(DOMAIN values) /\ Cardinality(DOMAIN values) = Len(values)
        BY <2>1, <2>2
    <2> QED
        BY <2>3 DEF Complete
<1>2. IsFiniteSet(T) /\ Cardinality(T) <= 5 /\ (Cardinality(T) = 5 => T = DOMAIN values)
    BY <1>1, FS_Subset
<1>3. Cardinality(T) \in Nat
    BY <1>2, FS_CardinalityType
<1>4. T # {} => Cardinality(T) # 0
    BY <1>2, FS_EmptySet
<1>5. Cardinality(DOMAIN values \ T) = 5 - Cardinality(DOMAIN values \cap T)
    BY <1>1, <1>2, FS_Difference
<1>6. DOMAIN values \cap T = T
    OBVIOUS
<1>7. T # {} => Cardinality(T) >= 1
    BY <1>3, <1>4
<1>8. Cardinality(DOMAIN values \ T) = 5 - Cardinality(T)
    BY <1>5, <1>6
<1> QED
    BY <1>1, <1>2, <1>3, <1>7, <1>8

\* The k-th reading is the least with k readings up to it.
LEMMA SortedReading ==
    ASSUME Complete, NEW k \in DOMAIN values
    PROVE  /\ Sorted[k] \in Taken
           /\ Cardinality(UpTo(Sorted[k])) >= k
           /\ \A v \in Taken : Cardinality(UpTo(v)) >= k => Sorted[k] <= v
<1> DEFINE T == {v \in Taken : Cardinality(UpTo(v)) >= k}
<1>1. PICK hi \in Taken : \A v \in Taken : v <= hi
    BY FiveReadings DEF Bounded
<1>2. UpTo(hi) = DOMAIN values
    BY <1>1, FiveReadings DEF UpTo
<1>3. hi \in T
    <2>1. Cardinality(UpTo(hi)) = 5
        BY <1>2, Places
    <2>2. k \in Nat /\ k <= 5
        BY FiveReadings DEF Complete
    <2> QED
        BY <1>1, <2>1, <2>2
<1>4. \E x \in T : \A y \in T : x <= y
    BY <1>3, FiveReadings DEF Bounded
<1>5. Sorted[k] = Min(T)
    BY DEF Sorted, Taken
<1> HIDE DEF T
<1>6. Min(T) \in T /\ \A y \in T : Min(T) <= y
    BY <1>4 DEF Min
<1> QED
    BY <1>5, <1>6 DEF T

\* The first is the smallest, and the last is the largest.
LEMMA Extremes ==
    ASSUME Complete, NEW i \in DOMAIN values
    PROVE  Sorted[1] <= values[i] /\ values[i] <= Sorted[5]
<1>1. values[i] \in Taken /\ values[i] \in AdcValue
    BY FiveReadings
<1>2. UpTo(values[i]) \in SUBSET DOMAIN values /\ UpTo(Sorted[5]) \in SUBSET DOMAIN values
    BY FiveReadings DEF UpTo
<1>3. i \in UpTo(values[i])
    BY <1>1, FiveReadings DEF UpTo
<1>4. Sorted[1] <= values[i]
    <2>1. UpTo(values[i]) # {}
        BY <1>3
    <2>2. Cardinality(UpTo(values[i])) >= 1
        BY <1>2, <2>1, Places
    <2> QED
        BY <1>1, <2>2, FiveReadings, SortedReading
<1>5. UpTo(Sorted[5]) = DOMAIN values
    <2>1. Cardinality(UpTo(Sorted[5])) >= 5
        BY FiveReadings, SortedReading
    <2>2. Cardinality(UpTo(Sorted[5])) <= 5 /\ Cardinality(UpTo(Sorted[5])) \in Nat
        BY <1>2, Places
    <2>3. Cardinality(UpTo(Sorted[5])) = 5
        BY <2>1, <2>2
    <2> QED
        BY <1>2, <2>3, Places
<1>6. values[i] <= Sorted[5]
    BY <1>5 DEF UpTo
<1> QED
    BY <1>4, <1>6

\* At least three readings are up to the median, and three from it on.
LEMMA Median ==
    ASSUME Complete
    PROVE  /\ Result \in AdcValue
           /\ Cardinality({i \in DOMAIN values : values[i] <= Result}) >= 3
           /\ Cardinality({i \in DOMAIN values : values[i] >= Result}) >= 3
<1>1. /\ Result \in Taken /\ Cardinality(UpTo(Result)) >= 3
      /\ \A v \in Taken : Cardinality(UpTo(v)) >= 3 => Result <= v
    BY FiveReadings, SortedReading DEF Result
<1>2. Result \in AdcValue
    BY <1>1, FiveReadings
<1>3. UpTo(Result) = {i \in DOMAIN values : values[i] <= Result}
    BY FiveReadings DEF UpTo
<1> DEFINE below == {i \in DOMAIN values : values[i] < Result}
<1>4. below \in SUBSET DOMAIN values
    OBVIOUS
<1>5. Cardinality(below) < 3
    <2>1. CASE below = {}
        BY <2>1, FS_EmptySet
    <2>2. CASE below # {}
        <3> DEFINE lower == {v \in Taken : v < Result}
        <3>1. lower # {}
            BY <2>2, FiveReadings
        <3>2. PICK u \in lower : \A v \in lower : v <= u
            BY <3>1, FiveReadings DEF Bounded
        <3>3. u < Result /\ u \in Taken /\ u \in AdcValue
            BY FiveReadings
        <3>4. UpTo(u) = below
            BY <1>2, <3>2, <3>3, FiveReadings, AdcValueIsNat DEF UpTo
        <3>5. ~(Result <= u)
            BY <1>2, <3>3, AdcValueIsNat
        <3>6. ~(Cardinality(UpTo(u)) >= 3)
            BY <1>1, <3>3, <3>5
        <3>7. Cardinality(below) \in Nat
            BY <1>4, Places
        <3> QED
            BY <3>4, <3>6, <3>7
    <2> QED
        BY <2>1, <2>2
<1>6. DOMAIN values \ below = {i \in DOMAIN values : values[i] >= Result}
    BY <1>2, FiveReadings, AdcValueIsNat
<1>7. Cardinality(DOMAIN values \ below) >= 3
    <2>1. Cardinality(DOMAIN values \ below) = 5 - Cardinality(below) /\ Cardinality(below) \in Nat
        BY <1>4, Places
    <2> QED
        BY <1>5, <2>1
<1> QED
    BY <1>1, <1>2, <1>3, <1>6, <1>7

-----------------------------------------------------------------------------
(* The invariant *)

\* Readings leave a trace of the contact they were taken at, and only a consistent
\* measurement is accepted.
Traces ==
    /\ "away" \in seen => \E i \in DOMAIN values : values[i] \in Open
    /\ "firm" \in seen => \E i \in DOMAIN values : \E n \in Noise : values[i] = resistor + n
    /\ outcome = "ok" => ~Inconsistent

AdcInv == TypeOK /\ Traces

LEMMA AdcInit == Init => AdcInv
<1>1. Init => values \in Seq(AdcValue) /\ Len(values) = 0
    BY DEF Init
<1> QED
    BY <1>1 DEF Init, AdcInv, TypeOK, Traces

LEMMA AdcNext == AdcInv /\ [Next]_vars => AdcInv'
<1> SUFFICES ASSUME AdcInv, [Next]_vars PROVE AdcInv'
    OBVIOUS
<1>1. values \in Seq(AdcValue) /\ Len(values) \in Nat /\ DOMAIN values = 1 .. Len(values)
    BY LenProperties DEF AdcInv, TypeOK
<1>2. CASE Move
    BY <1>2 DEF Move, AdcInv, TypeOK, Traces, Contacts
<1>3. CASE Read
    <2>1. PICK value \in Readings : values' = Append(values, value)
        BY <1>3 DEF Read
    <2>2. /\ contact = "away" => Readings = Open
          /\ contact = "loose" => Readings = Bounce
          /\ contact = "firm" => Readings = {resistor + n : n \in Noise}
          /\ contact \in {"away", "loose", "firm"} /\ resistor \in Resistors
        BY DEF Readings, AdcInv, TypeOK, Contacts
    <2>3. value \in AdcValue
        BY <2>2, AdcAssumption
    <2>4. /\ values' \in Seq(AdcValue) /\ Len(values') = Len(values) + 1
          /\ DOMAIN values' = 1 .. Len(values) + 1
          /\ \A i \in DOMAIN values : values'[i] = values[i]
          /\ values'[Len(values) + 1] = value
        BY <1>1, <2>1, <2>3, AppendProperties
    <2>5. \A i \in DOMAIN values : i \in DOMAIN values'
        BY <1>1, <2>4
    <2>6. Len(values) + 1 \in DOMAIN values'
        BY <1>1, <2>4
    <2>7. /\ seen' = seen \cup {contact} /\ UNCHANGED <<resistor, contact, outcome>>
          /\ outcome = "pending" /\ Len(values) < 5
        BY <1>3 DEF Read
    <2>8. TypeOK'
        <3>1. Len(values') <= 5
            BY <1>1, <2>4, <2>7
        <3> QED
            BY <2>4, <2>7, <3>1 DEF AdcInv, TypeOK
    <2>9. "away" \in seen' => \E i \in DOMAIN values' : values'[i] \in Open
        <3>1. CASE contact = "away"
            BY <2>2, <2>4, <2>6, <3>1
        <3>2. CASE contact # "away"
            BY <2>4, <2>5, <2>7, <3>2 DEF AdcInv, Traces
        <3> QED
            BY <3>1, <3>2
    <2>10. "firm" \in seen' =>
               \E i \in DOMAIN values' : \E n \in Noise : values'[i] = resistor' + n
        <3>1. CASE contact = "firm"
            BY <2>2, <2>4, <2>6, <2>7, <3>1
        <3>2. CASE contact # "firm"
            BY <2>4, <2>5, <2>7, <3>2 DEF AdcInv, Traces
        <3> QED
            BY <3>1, <3>2
    <2> QED
        BY <2>7, <2>8, <2>9, <2>10 DEF AdcInv, Traces
<1>4. CASE ReadFails
    BY <1>4 DEF ReadFails, AdcInv, TypeOK, Traces
<1>5. CASE Finish
    <2>1. Inconsistent' = Inconsistent
        BY <1>5 DEF Finish, Inconsistent, Result, Sorted, UpTo
    <2> QED
        BY <1>5, <2>1 DEF Finish, AdcInv, TypeOK, Traces
<1>6. CASE UNCHANGED vars
    BY <1>6 DEF vars, AdcInv, TypeOK, Traces, Inconsistent, Result, Sorted, UpTo
<1> QED
    BY <1>2, <1>3, <1>4, <1>5, <1>6 DEF Next

LEMMA AdcInvariant == Spec => []AdcInv
BY AdcInit, AdcNext, PTL DEF Spec

\* What the invariant says of an accepted measurement.
LEMMA Accepted ==
    ASSUME AdcInv, outcome = "ok"
    PROVE  /\ Complete
           /\ \A i, j \in DOMAIN values :
                 /\ values[i] \in Nat /\ Result \in Nat
                 /\ 200 * (values[i] - values[j]) <= Result
                 /\ \E k \in DOMAIN values : Result = values[k]
<1>1. Complete
    BY DEF AdcInv, TypeOK, Complete
<1>2. Result \in Taken /\ Result \in Nat
    BY <1>1, FiveReadings, SortedReading, AdcValueIsNat DEF Result
<1>3. \E k \in DOMAIN values : Result = values[k]
    BY <1>1, <1>2, FiveReadings
<1>4. Sorted[5] \in Nat /\ Sorted[1] \in Nat
    BY <1>1, FiveReadings, SortedReading, AdcValueIsNat
<1>5. \A i \in DOMAIN values : values[i] \in Nat
    BY <1>1, FiveReadings, AdcValueIsNat
<1>6. ~(200 * (Sorted[5] - Sorted[1]) > Result)
    BY DEF AdcInv, Traces, Inconsistent
<1>7. ASSUME NEW i \in DOMAIN values, NEW j \in DOMAIN values
      PROVE  200 * (values[i] - values[j]) <= Result
    <2>1. Sorted[1] <= values[j] /\ values[i] <= Sorted[5]
        BY <1>1, Extremes
    <2> QED
        BY <1>2, <1>4, <1>5, <1>6, <2>1
<1> QED
    BY <1>1, <1>2, <1>3, <1>5, <1>7

-----------------------------------------------------------------------------
(* The theorems *)

\* read_adc never has more than its five readings, all of a u16, and accepts only
\* with all of them.
THEOREM TypeCorrect == Spec => []TypeOK
<1>1. AdcInv => TypeOK
    BY DEF AdcInv
<1> QED
    BY <1>1, AdcInvariant, PTL

\* A measurement that read_adc accepts never saw the cover both in place and away,
\* if no resistor reads within half a percent of an open pin.
THEOREM Steady == Spec => []AcceptedWasSteady
<1>1. ASSUME AdcInv PROVE AcceptedWasSteady
    <2> SUFFICES ASSUME outcome = "ok", "away" \in seen, "firm" \in seen PROVE FALSE
        BY DEF AcceptedWasSteady
    <2>1. PICK i \in DOMAIN values : values[i] \in Open
        BY <1>1 DEF AdcInv, Traces
    <2>2. PICK j \in DOMAIN values, n \in Noise : values[j] = resistor + n
        BY <1>1 DEF AdcInv, Traces
    <2>3. resistor \in Resistors
        BY <1>1 DEF AdcInv, TypeOK
    <2>4. \/ 200 * (values[i] - values[j]) > values[i]
          \/ 200 * (values[j] - values[i]) > values[j]
        BY <2>1, <2>2, <2>3, OpenAssumption
    <2>5. PICK k \in DOMAIN values : Result = values[k]
        BY <1>1, Accepted
    <2>6. /\ values[i] \in Nat /\ values[j] \in Nat /\ values[k] \in Nat /\ Result \in Nat
          /\ 200 * (values[i] - values[j]) <= Result /\ 200 * (values[j] - values[i]) <= Result
          /\ 200 * (values[k] - values[j]) <= Result /\ 200 * (values[k] - values[i]) <= Result
        BY <1>1, Accepted
    <2> QED
        BY <2>4, <2>5, <2>6
<1> QED
    BY <1>1, AdcInvariant, PTL

\* The types by their limits.
LEMMA Types ==
    ASSUME NEW v \in Nat
    PROVE  /\ v < 600 => Identify(v) = "Unknown"
           /\ 600 <= v /\ v < 800 => Identify(v) = "R6k2"
           /\ 800 <= v /\ v < 1000 => Identify(v) = "R10k"
           /\ 1000 <= v /\ v < 1200 => Identify(v) = "R15k"
           /\ 1200 <= v /\ v < 1750 => Identify(v) = "Unknown"
           /\ 1750 <= v => Identify(v) = "NotPresent"
           /\ IsTohPresent(v) <=> v < 1750
BY DEF Identify, IsTohPresent

\* Half a percent does not reach over two limits.
LEMMA OneLimit ==
    ASSUME NEW lo \in Nat, NEW m \in Nat, NEW hi \in Nat,
           lo <= m, m <= hi, 200 * (hi - lo) <= m
    PROVE  Identify(lo) = Identify(m) \/ Identify(hi) = Identify(m)
<1>1. CASE m >= 40000
    <2>1. lo >= 1750
        BY <1>1
    <2> QED
        BY <1>1, <2>1, Types
<1>2. CASE m < 40000
    <2>1. hi - lo < 200
        BY <1>2
    <2> QED
        BY <2>1, Types
<1> QED
    BY <1>1, <1>2

\* The type by which power_up goes on is that of at least three of the five
\* readings, also when noise carries some over the limit of two types.
THEOREM Majority == Spec => []MajorityIdentified
<1>1. ASSUME AdcInv PROVE MajorityIdentified
    <2> DEFINE same == {i \in DOMAIN values : Identify(values[i]) = Identify(Result)}
               upTo == {i \in DOMAIN values : values[i] <= Result}
               from == {i \in DOMAIN values : values[i] >= Result}
    <2> SUFFICES ASSUME outcome = "ok" PROVE Cardinality(same) >= 3
        BY DEF MajorityIdentified
    <2>1. Complete /\ Result \in Nat /\ \A i \in DOMAIN values : values[i] \in Nat
        BY <1>1, Accepted, FiveReadings, AdcValueIsNat, Median
    <2>2. Cardinality(upTo) >= 3 /\ Cardinality(from) >= 3
        BY <2>1, Median
    <2>3. upTo \subseteq same \/ from \subseteq same
        <3> SUFFICES ASSUME NEW i \in upTo, i \notin same, NEW j \in from, j \notin same
                     PROVE  FALSE
            OBVIOUS
        <3>1. 200 * (values[j] - values[i]) <= Result
            BY <1>1, Accepted
        <3>2. /\ values[i] \in Nat /\ values[j] \in Nat
              /\ values[i] <= Result /\ Result <= values[j]
            BY <2>1
        <3>3. Identify(values[i]) = Identify(Result) \/ Identify(values[j]) = Identify(Result)
            BY <2>1, <3>1, <3>2, OneLimit
        <3> QED
            BY <3>3
    <2>4. IsFiniteSet(same) /\ Cardinality(same) \in Nat
        BY <2>1, Places
    <2>5. Cardinality(upTo) \in Nat /\ Cardinality(from) \in Nat
        BY <2>1, Places
    <2>6. upTo \subseteq same => Cardinality(upTo) <= Cardinality(same)
        BY <2>4, FS_Subset
    <2>7. from \subseteq same => Cardinality(from) <= Cardinality(same)
        BY <2>4, FS_Subset
    <2> QED
        BY <2>2, <2>3, <2>4, <2>5, <2>6, <2>7
<1> QED
    BY <1>1, AdcInvariant, PTL

\* What is within half a percent of a clear reading is of its type.
LEMMA SameType ==
    ASSUME NEW v \in Nat, NEW f \in Nat, Clear(f), 200 * (v - f) <= v, 200 * (f - v) <= v
    PROVE  Identify(v) = Identify(f)
<1>1. ASSUME NEW limit \in {600, 800, 1000, 1200, 1750}
      PROVE  v < limit <=> f < limit
    <2>1. IF f < limit THEN 200 * f < 199 * limit ELSE 200 * f > 201 * (limit - 1)
        BY DEF Clear
    <2> QED
        BY <2>1
<1>2. /\ v < 600 <=> f < 600
      /\ v < 800 <=> f < 800
      /\ v < 1000 <=> f < 1000
      /\ v < 1200 <=> f < 1200
      /\ v < 1750 <=> f < 1750
    BY <1>1
<1> QED
    BY <1>2, Types

\* Whatever a bad contact adds, power_up, is_present and detect hear of an accepted
\* measurement what a reading of the resistor, or of an open pin, has said.
THEOREM Decided == Spec => []TouchDecides
<1>1. ASSUME AdcInv PROVE TouchDecides
    <2> SUFFICES ASSUME outcome = "ok",
                        NEW type \in {"R6k2", "R10k", "R15k", "Unknown", "NotPresent"},
                        \/ "firm" \in seen /\ OfType({resistor + n : n \in Noise}, type)
                        \/ "away" \in seen /\ OfType(Open, type)
                 PROVE  Identify(Result) = type /\ (IsTohPresent(Result) <=> type # "NotPresent")
        BY DEF TouchDecides
    <2>1. PICK i \in DOMAIN values : Clear(values[i]) /\ Identify(values[i]) = type
        BY <1>1 DEF AdcInv, Traces, OfType
    <2>2. PICK k \in DOMAIN values : Result = values[k]
        BY <1>1, Accepted
    <2>3. /\ values[i] \in Nat /\ Result \in Nat
          /\ 200 * (values[i] - values[k]) <= Result /\ 200 * (values[k] - values[i]) <= Result
        BY <1>1, Accepted
    <2>4. Identify(Result) = type
        BY <2>1, <2>2, <2>3, SameType
    <2> QED
        BY <2>3, <2>4, Types
<1> QED
    BY <1>1, AdcInvariant, PTL
=============================================================================
