------------------------ MODULE ChipReadBack_proofs ------------------------
(***************************************************************************)
(* Proof that a verified chip reads back what create_toh_bin was given:    *)
(* first that parse_from_bytes inverts into_bytes, then that verification  *)
(* and detection see the same cells.                                       *)
(***************************************************************************)
EXTENDS ChipContent_proofs, FunctionTheorems

-----------------------------------------------------------------------------
(* Division, as chips do it with their data address *)

LEMMA ModSmall ==
    ASSUME NEW n \in Nat, NEW m \in Nat \ {0}, n < m
    PROVE  n % m = n /\ n \div m = 0
OBVIOUS

LEMMA DivMod ==
    ASSUME NEW n \in Nat, NEW m \in Nat \ {0}
    PROVE  /\ n \div m \in Nat /\ n % m \in 0 .. m - 1
           /\ n = m * (n \div m) + (n % m)
OBVIOUS

LEMMA LessQuotient ==
    ASSUME NEW m \in Nat \ {0}, NEW p \in Nat, NEW q \in Nat, p < q
    PROVE  m * p + m <= m * q
<1>1. q - p >= 1 /\ q - p \in Nat
    OBVIOUS
<1>2. m * (q - p) >= m
    BY <1>1
<1>3. m * (q - p) = m * q - m * p
    OBVIOUS
<1> QED
    BY <1>2, <1>3

LEMMA QuotientUnique ==
    ASSUME NEW m \in Nat \ {0}, NEW p \in Nat, NEW q \in Nat,
           NEW r \in 0 .. m - 1, NEW s \in 0 .. m - 1, m * p + r = m * q + s
    PROVE  p = q /\ r = s
<1>1. ~(p < q) /\ ~(q < p)
    BY LessQuotient
<1> QED
    BY <1>1

LEMMA ModOf ==
    ASSUME NEW m \in Nat \ {0}, NEW q \in Nat, NEW r \in 0 .. m - 1
    PROVE  (m * q + r) % m = r /\ (m * q + r) \div m = q
<1> DEFINE n == m * q + r
<1>1. n \in Nat
    OBVIOUS
<1>2. n = m * q + r
    OBVIOUS
<1> HIDE DEF n
<1>3. n \div m \in Nat /\ n % m \in 0 .. m - 1 /\ m * (n \div m) + (n % m) = m * q + r
    BY <1>1, <1>2, DivMod
<1>4. n \div m = q /\ n % m = r
    BY <1>3, QuotientUnique
<1> QED
    BY <1>4 DEF n

LEMMA ModPlus ==
    ASSUME NEW m \in Nat \ {0}, NEW a \in Nat, NEW b \in Nat
    PROVE  ((a % m) + b) % m = (a + b) % m
<1> DEFINE q == a \div m
           r == a % m
           p == (r + b) \div m
           s == (r + b) % m
<1>1. q \in Nat /\ r \in 0 .. m - 1 /\ a = m * q + r
    BY DivMod
<1> HIDE DEF q, r
<1>2. r + b \in Nat
    BY <1>1
<1>3. p \in Nat /\ s \in 0 .. m - 1 /\ r + b = m * p + s
    BY <1>2, DivMod
<1> HIDE DEF p, s
<1>4. a + b = m * q + m * p + s
    BY <1>1, <1>3
<1>5. a + b = m * (q + p) + s /\ q + p \in Nat
    BY <1>1, <1>3, <1>4
<1>6. (a + b) % m = s
    BY <1>3, <1>5, ModOf
<1> QED
    BY <1>6, Zenon DEF r, s

-----------------------------------------------------------------------------
(* The order of the keys *)

Keys == KnownKeys \cup UNION {DOMAIN i.extra : i \in Infos}

\* The keys that come before one of a map.
KeysBefore(map, k) == {j \in DOMAIN map : <<j, k>> \in Before}

\* Each key of a map has one place in its payload, and each place one key.
LEMMA KeyPlaces ==
    ASSUME NEW map, IsFiniteSet(DOMAIN map), DOMAIN map \subseteq Keys
    PROVE  /\ \A i \in 1 .. Cardinality(DOMAIN map) : KeyAt(map, i) \in DOMAIN map
           /\ \A k \in DOMAIN map : \E i \in 1 .. Cardinality(DOMAIN map) : KeyAt(map, i) = k
           /\ \A i, j \in 1 .. Cardinality(DOMAIN map) : KeyAt(map, i) = KeyAt(map, j) => i = j
<1> DEFINE D == DOMAIN map
           n == Cardinality(D)
           place == [k \in D |-> Cardinality(KeysBefore(map, k)) + 1]
<1>1. n \in Nat /\ IsFiniteSet(1 .. n) /\ Cardinality(1 .. n) = n
    <2>1. n \in Nat
        BY FS_CardinalityType
    <2> HIDE DEF n
    <2> QED
        BY <2>1, FS_Interval
<1>2. /\ \A j, k \in D : j = k \/ <<j, k>> \in Before \/ <<k, j>> \in Before
      /\ \A j \in D : <<j, j>> \notin Before
      /\ \A j, k, l \in D : <<j, k>> \in Before /\ <<k, l>> \in Before => <<j, l>> \in Before
    BY OrderAssumption DEF Keys
<1>3. \A k \in D : IsFiniteSet(KeysBefore(map, k)) /\ Cardinality(KeysBefore(map, k)) \in Nat
    <2> SUFFICES ASSUME NEW k \in D
                 PROVE  IsFiniteSet(KeysBefore(map, k)) /\ Cardinality(KeysBefore(map, k)) \in Nat
        OBVIOUS
    <2>1. KeysBefore(map, k) \in SUBSET D
        BY DEF KeysBefore
    <2>2. IsFiniteSet(KeysBefore(map, k))
        BY <2>1, FS_Subset
    <2> QED
        BY <2>2, FS_CardinalityType
<1>4. \A k \in D : place[k] \in 1 .. n
    <2> SUFFICES ASSUME NEW k \in D PROVE Cardinality(KeysBefore(map, k)) + 1 \in 1 .. n
        OBVIOUS
    <2>1. KeysBefore(map, k) \in SUBSET (D \ {k})
        BY <1>2 DEF KeysBefore
    <2>2. IsFiniteSet(D \ {k}) /\ Cardinality(D \ {k}) = n - 1
        BY FS_RemoveElement
    <2>3. Cardinality(KeysBefore(map, k)) <= Cardinality(D \ {k})
        BY <2>1, <2>2, FS_Subset
    <2> HIDE DEF n
    <2> QED
        BY <1>1, <1>3, <2>2, <2>3
<1>5. ASSUME NEW j \in D, NEW k \in D, <<j, k>> \in Before
      PROVE  Cardinality(KeysBefore(map, j)) # Cardinality(KeysBefore(map, k))
    <2>1. KeysBefore(map, j) \in SUBSET KeysBefore(map, k)
        BY <1>2, <1>5 DEF KeysBefore
    <2>2. j \in KeysBefore(map, k) /\ j \notin KeysBefore(map, j)
        BY <1>2, <1>5 DEF KeysBefore
    <2> QED
        BY <1>3, <2>1, <2>2, FS_Subset
<1>6. \A j, k \in D : Cardinality(KeysBefore(map, j)) = Cardinality(KeysBefore(map, k)) => j = k
    BY <1>2, <1>5
<1>7. place \in Injection(D, 1 .. n)
    <2>1. place \in [D -> 1 .. n]
        BY <1>4
    <2>2. \A j, k \in D : place[j] = place[k] => j = k
        BY <1>3, <1>6
    <2> HIDE DEF place
    <2> QED
        BY <2>1, <2>2 DEF Injection, IsInjective
<1>8. \A i \in 1 .. n : \E k \in D : place[k] = i
    <2>1. place \in Surjection(D, 1 .. n)
        BY <1>1, <1>7, FS_Injection
    <2> HIDE DEF place
    <2> QED
        BY <2>1 DEF Surjection
<1>9. ASSUME NEW i \in 1 .. n
      PROVE  KeyAt(map, i) \in D /\ place[KeyAt(map, i)] = i
    <2>1. PICK k \in D : place[k] = i
        BY <1>8
    <2>2. Cardinality(KeysBefore(map, k)) = i - 1
        BY <1>3, <2>1
    <2>3. KeyAt(map, i) \in D /\ Cardinality(KeysBefore(map, KeyAt(map, i))) = i - 1
        BY <2>2 DEF KeyAt, KeysBefore
    <2> QED
        BY <2>3
<1>10. ASSUME NEW k \in D
       PROVE  place[k] \in 1 .. n /\ KeyAt(map, place[k]) = k
    <2>1. place[k] \in 1 .. n
        BY <1>4
    <2>2. KeyAt(map, place[k]) \in D /\ place[KeyAt(map, place[k])] = place[k]
        BY <1>9, <2>1
    <2> QED
        BY <1>3, <1>6, <2>1, <2>2
<1> HIDE DEF place
<1> QED
    BY <1>9, <1>10

-----------------------------------------------------------------------------
(* parse_from_bytes inverts into_bytes *)

\* What stands where in a CBOR map.
LEMMA CborCells ==
    ASSUME NEW map, IsFiniteSet(DOMAIN map)
    PROVE  /\ Cardinality(DOMAIN map) \in Nat
           /\ Len(Cbor(map)) = Cardinality(DOMAIN map) + 1
           /\ Cbor(map)[1] = Count(Cardinality(DOMAIN map))
           /\ \A i \in 1 .. Cardinality(DOMAIN map) :
                 Cbor(map)[i + 1] = Entry(KeyAt(map, i), map[KeyAt(map, i)])
<1> DEFINE n == Cardinality(DOMAIN map)
           entries == [i \in 1 .. n |-> Entry(KeyAt(map, i), map[KeyAt(map, i)])]
           S == {Count(n)} \cup {entries[i] : i \in 1 .. n}
<1>1. n \in Nat
    BY FS_CardinalityType
<1>2. Cbor(map) = <<Count(n)>> \o entries
    BY DEF Cbor
<1> HIDE DEF n
<1>3. entries \in Seq(S) /\ Len(entries) = n
    BY <1>1
<1>4. <<Count(n)>> \in Seq(S) /\ Len(<<Count(n)>>) = 1 /\ <<Count(n)>>[1] = Count(n)
    OBVIOUS
<1>5. \A i \in 1 .. n : entries[i] = Entry(KeyAt(map, i), map[KeyAt(map, i)])
    OBVIOUS
<1> HIDE DEF entries, S
<1>6. /\ Len(Cbor(map)) = 1 + n
      /\ \A i \in 1 .. 1 + n :
            Cbor(map)[i] = IF i <= 1 THEN <<Count(n)>>[i] ELSE entries[i - 1]
    BY <1>2, <1>3, <1>4, ConcatProperties
<1> QED
    BY <1>1, <1>4, <1>5, <1>6 DEF n

\* A CBOR map says what it was made of: each entry has a place, and no two of
\* them have the same key.
LEMMA EntriesOfCbor ==
    ASSUME NEW map, IsFiniteSet(DOMAIN map), DOMAIN map \subseteq Keys,
           map = [k \in DOMAIN map |-> map[k]]
    PROVE  IsMap(Cbor(map)) /\ Entries(Cbor(map)) = map
<1> DEFINE n == Cardinality(DOMAIN map)
           p == Cbor(map)
           places == 2 .. p[1].count + 1
           Of(k) == {i \in places : p[i].key = k}
<1>1. n \in Nat /\ Len(p) = n + 1 /\ p[1] = Count(n)
    BY CborCells
<1>2. /\ \A i \in 1 .. n : KeyAt(map, i) \in DOMAIN map
      /\ \A k \in DOMAIN map : \E i \in 1 .. n : KeyAt(map, i) = k
      /\ \A i, j \in 1 .. n : KeyAt(map, i) = KeyAt(map, j) => i = j
    BY KeyPlaces
<1>3. \A i \in 1 .. n : p[i + 1] = Entry(KeyAt(map, i), map[KeyAt(map, i)])
    BY CborCells
<1> HIDE DEF n, p
<1>4. p[1].count = n /\ "count" \in DOMAIN p[1]
    BY <1>1 DEF Count
<1>5. IsMap(p)
    BY <1>1, <1>4 DEF IsMap
<1>6. places = 2 .. n + 1
    BY <1>4
<1> HIDE DEF places
<1>7. ASSUME NEW i \in places
      PROVE  /\ i - 1 \in 1 .. n
             /\ p[i].key = KeyAt(map, i - 1) /\ p[i].value = map[KeyAt(map, i - 1)]
    <2>1. i - 1 \in 1 .. n /\ (i - 1) + 1 = i
        BY <1>1, <1>6
    <2>2. p[i] = Entry(KeyAt(map, i - 1), map[KeyAt(map, i - 1)])
        BY <1>3, <2>1
    <2> QED
        BY <2>1, <2>2 DEF Entry
<1>8. {p[i].key : i \in places} = DOMAIN map
    <2>1. {p[i].key : i \in places} \subseteq DOMAIN map
        BY <1>2, <1>7
    <2>2. ASSUME NEW k \in DOMAIN map PROVE k \in {p[i].key : i \in places}
        <3>1. PICK i \in 1 .. n : KeyAt(map, i) = k
            BY <1>2
        <3>2. i + 1 \in places /\ (i + 1) - 1 = i
            BY <1>1, <1>6, <3>1
        <3> QED
            BY <1>7, <3>1, <3>2
    <2> QED
        BY <2>1, <2>2
<1>9. ASSUME NEW k \in DOMAIN map
      PROVE  p[CHOOSE i \in Of(k) : \A j \in Of(k) : j <= i].value = map[k]
    <2>1. PICK i \in places : p[i].key = k
        BY <1>8
    <2>2. \A j \in Of(k) : j = i
        <3> SUFFICES ASSUME NEW j \in Of(k) PROVE j = i
            OBVIOUS
        <3>0. j \in places /\ p[j].key = k
            OBVIOUS
        <3>1. KeyAt(map, j - 1) = KeyAt(map, i - 1) /\ j - 1 \in 1 .. n /\ i - 1 \in 1 .. n
            BY <1>7, <2>1, <3>0
        <3>2. j - 1 = i - 1 /\ i \in Int /\ j \in Int
            BY <1>1, <1>2, <1>6, <3>1
        <3> QED
            BY <3>2
    <2>3. i \in Of(k) /\ \A j \in Of(k) : j <= i
        BY <1>1, <1>6, <2>1, <2>2
    <2> DEFINE last == CHOOSE h \in Of(k) : \A j \in Of(k) : j <= h
    <2> HIDE DEF Of
    <2>4. last \in Of(k)
        BY <2>3
    <2>5. last = i
        BY <2>2, <2>4
    <2> HIDE DEF last
    <2>6. p[last].value = map[k]
        BY <1>7, <2>1, <2>5
    <2> QED
        BY <2>6 DEF last
<1>10. Entries(p) = [k \in DOMAIN map |-> p[CHOOSE i \in Of(k) : \A j \in Of(k) : j <= i].value]
    BY <1>8 DEF Entries, places
<1>11. Entries(p) = [k \in DOMAIN map |-> map[k]]
    BY <1>9, <1>10
<1> QED
    BY <1>5, <1>11 DEF p

\* The map of an info that comes back: its keys have an order, and its values
\* the types that the parser asks for.
LEMMA PayloadOfReadable ==
    ASSUME NEW info \in Infos, Readable(info)
    PROVE  LET map == GetPayload(info) IN
           /\ map = [k \in DOMAIN map |-> map[k]]
           /\ IsFiniteSet(DOMAIN map) /\ DOMAIN map \subseteq Keys
           /\ TypesMatch(map)
           /\ Drop(map, KnownKeys) = ExtraCbor(info)
<1> DEFINE known == Drop(info.known, {"SC"})
           versioned == IF DOMAIN known = {} THEN known ELSE Insert([SC |-> Zero], known)
           extra == ExtraCbor(info)
           map == GetPayload(info)
<1>1. /\ DOMAIN info.known \subseteq KnownKeys
      /\ \A k \in DOMAIN info.known : info.known[k] \in KnownType[k]
    BY InfosAssumption
<1>e. /\ extra = [k \in DOMAIN extra |-> extra[k]] /\ DOMAIN extra = DOMAIN info.extra
      /\ \A k \in DOMAIN extra : extra[k] \in Supported
    BY DEF ExtraCbor, Readable
<1>2. "SC" \in KnownKeys /\ Zero \in KnownType["SC"]
    BY ChipAssumption DEF KnownKeys, KnownType
<1>3. /\ DOMAIN known \subseteq DOMAIN info.known
      /\ \A k \in DOMAIN known : known[k] = info.known[k]
    BY DEF Drop
<1> HIDE DEF known
<1>4. /\ DOMAIN versioned \subseteq KnownKeys
      /\ \A k \in DOMAIN versioned : versioned[k] \in KnownType[k]
    BY <1>1, <1>2, <1>3 DEF Insert
<1>5. map = Insert(versioned, extra)
    BY DEF GetPayload, known
<1> HIDE DEF versioned, map, extra
<1>6. /\ map = [k \in DOMAIN map |-> map[k]]
      /\ DOMAIN map = DOMAIN versioned \cup DOMAIN extra
      /\ \A k \in DOMAIN map : map[k] = IF k \in DOMAIN extra THEN extra[k] ELSE versioned[k]
    BY <1>5 DEF Insert
<1>7. DOMAIN extra \cap KnownKeys = {}
    BY <1>e DEF Readable
<1>8. DOMAIN map \subseteq Keys
    BY <1>e, <1>4, <1>6 DEF Keys
<1>9. TypesMatch(map)
    BY <1>e, <1>4, <1>6, <1>7 DEF TypesMatch
<1>11. Drop(map, KnownKeys) = extra
    <2>1. DOMAIN map \ KnownKeys = DOMAIN extra
        BY <1>4, <1>6, <1>7
    <2> QED
        BY <1>e, <1>6, <2>1 DEF Drop
<1>10. IsFiniteSet(DOMAIN map)
    BY PayloadFinite DEF map
<1> QED
    BY <1>6, <1>8, <1>9, <1>10, <1>11 DEF map, extra

\* A cell as it should be at the place j of an image; the first one may have been
\* overwritten by zero.
Matches(i, j, cell) == IF j = 1 THEN cell \in {Magic, ZeroedMagic} ELSE cell = i[j]

\* parse_from_bytes finds in what begins with an image the info it was made of, as
\* CBOR brings it back.
LEMMA ParsedBack ==
    ASSUME NEW info \in Infos, Readable(info),
           NEW i, i = IntoBytes(info), Len(i) <= SizeMod,
           NEW data \in Seq(Cells), Len(data) >= Len(i),
           \A j \in 1 .. Len(i) : Matches(i, j, data[j])
    PROVE  ParseFromBytes(data) = ReadAs(info)
<1> DEFINE map == GetPayload(info)
           payload == Cbor(map)
           n == Len(payload)
<1>1. /\ map = [k \in DOMAIN map |-> map[k]]
      /\ IsFiniteSet(DOMAIN map) /\ DOMAIN map \subseteq Keys
      /\ TypesMatch(map)
      /\ Drop(map, KnownKeys) = ExtraCbor(info)
    BY PayloadOfReadable
<1>2. IsPayload(payload) /\ IsMap(payload) /\ Entries(payload) = map
    BY <1>1, CborIsPayload, EntriesOfCbor
<1>3. i = Sealed(info.ids, payload)
    BY DEF IntoBytes, Readable
<1> HIDE DEF map, payload
<1>4. /\ n \in Nat /\ Len(i) = 4 + n
      /\ i[2] = Crc(SubSeq(i, 3, Len(i)))
      /\ i[3] = Ids(info.ids) /\ i[4] = Size(n % SizeMod)
      /\ \A j \in 5 .. Len(i) : i[j] = payload[j - 4]
    <2> DEFINE sealed == Sealed(info.ids, payload)
    <2>1. /\ n \in Nat /\ Len(sealed) = 4 + n
          /\ sealed[2] = Crc(SubSeq(sealed, 3, Len(sealed)))
          /\ sealed[3] = Ids(info.ids) /\ sealed[4] = Size(n % SizeMod)
          /\ \A j \in 5 .. Len(sealed) : sealed[j] = payload[j - 4]
        BY <1>2, SealedCells, Zenon
    <2> QED
        BY <1>3, <2>1, Zenon
<1> HIDE DEF n
<1>5. i \in Seq(Cells) /\ \A j \in 1 .. Len(i) : i[j] \in Cells
    <2>1. i \in Images
        BY DEF Images
    <2> QED
        BY <2>1, ImageCells
<1>6. Len(data) \in Nat /\ \A j \in 1 .. Len(data) : data[j] \in Cells
    BY ElementOfSeq, LenProperties
<1>7. data[1] \in {Magic, ZeroedMagic} /\ \A j \in 2 .. Len(i) : data[j] = i[j]
    BY <1>4 DEF Matches
<1>8. PayloadSize(data) = n
    <2>1. n % SizeMod = n
        BY <1>4, ChipAssumption, ModSmall
    <2>2. data[4] = Size(n)
        BY <1>4, <1>7, <2>1
    <2> QED
        BY <2>2 DEF PayloadSize, Size
<1>9. IdsOf(data) = info.ids
    BY <1>4, <1>7 DEF IdsOf, Ids
<1>10. Covered(data) = SubSeq(i, 3, Len(i))
    <2>1. /\ SubSeq(data, 3, Len(i)) \in Seq(Cells)
          /\ Len(SubSeq(data, 3, Len(i))) = Len(i) - 2
          /\ \A j \in 1 .. Len(i) - 2 : SubSeq(data, 3, Len(i))[j] = data[j + 2]
        BY <1>4, <1>6, SubSeqProperties
    <2>2. /\ SubSeq(i, 3, Len(i)) \in Seq(Cells)
          /\ Len(SubSeq(i, 3, Len(i))) = Len(i) - 2
          /\ \A j \in 1 .. Len(i) - 2 : SubSeq(i, 3, Len(i))[j] = i[j + 2]
        BY <1>4, <1>5, SubSeqProperties
    <2>3. \A j \in 1 .. Len(i) - 2 : data[j + 2] = i[j + 2]
        BY <1>4, <1>7
    <2>4. SubSeq(data, 3, Len(i)) = SubSeq(i, 3, Len(i))
        BY <2>1, <2>2, <2>3, SeqEqual
    <2>5. HeaderSize + PayloadSize(data) = Len(i)
        BY <1>4, <1>8 DEF HeaderSize
    <2> QED
        BY <2>4, <2>5 DEF Covered
<1>11. SubSeq(data, HeaderSize + 1, HeaderSize + PayloadSize(data)) = payload
    <2>1. /\ SubSeq(data, 5, 4 + n) \in Seq(Cells)
          /\ Len(SubSeq(data, 5, 4 + n)) = n
          /\ \A j \in 1 .. n : SubSeq(data, 5, 4 + n)[j] = data[j + 4]
        BY <1>4, <1>6, SubSeqProperties
    <2>2. payload \in Seq({payload[j] : j \in 1 .. n})
        BY <1>2 DEF IsPayload, n
    <2>3. \A j \in 1 .. n : data[j + 4] = payload[j]
        <3> SUFFICES ASSUME NEW j \in 1 .. n PROVE data[j + 4] = payload[j]
            OBVIOUS
        <3>1. j + 4 \in 5 .. Len(i) /\ (j + 4) - 4 = j
            BY <1>4
        <3> QED
            BY <1>4, <1>7, <3>1
    <2>4. SubSeq(data, 5, 4 + n) = payload
        <3>1. payload \in Seq(Cells)
            <4>1. \A j \in 1 .. n : payload[j] \in Cells
                BY <1>4, <1>6, <2>3
            <4> QED
                BY <2>2, <4>1
        <3> QED
            BY <2>1, <2>3, <3>1, SeqEqual DEF n
    <2> QED
        BY <1>8, <2>4 DEF HeaderSize
<1>12. HeaderValid(data)
    BY <1>4, <1>6, <1>7, <1>8, <1>10 DEF HeaderValid, HeaderSize
<1>13. ParseFromBytes(data) = InfoOf(info.ids, map)
    BY <1>1, <1>2, <1>9, <1>11, <1>12 DEF ParseFromBytes
<1> QED
    BY <1>1, <1>13 DEF InfoOf, ReadAs, map

-----------------------------------------------------------------------------
(* Cells on a chip *)

\* The cell, and whether the chip has it, that comes n cells after the first one
\* when a chip of blocks is read block by block, or one of up to 64 kB around and
\* around.
NthCell(w, c, n) == IF w THEN c[0][n % Cardinality(DOMAIN c[0])]
                         ELSE c[n \div BlockSize][n % BlockSize]
HasCell(w, c, n) == w \/ n \div BlockSize \in DOMAIN c

\* The first n cells of an image are on the chip.
OnChip(w, c, i, n) ==
    \A j \in 1 .. n : HasCell(w, c, j - 1) /\ Matches(i, j, NthCell(w, c, j - 1))

\* A block of len cells, counted from 0, has len cells.
LEMMA IntervalLength ==
    ASSUME NEW len \in Nat \ {0}
    PROVE  Cardinality(0 .. len - 1) = len
<1>1. len - 1 \in Int /\ ~(0 > len - 1) /\ (len - 1) - 0 + 1 = len
    OBVIOUS
<1>2. Cardinality(0 .. len - 1) = (len - 1) - 0 + 1
    BY <1>1, FS_Interval
<1> QED
    BY <1>1, <1>2

\* What verification and detection see, k cells on from a data address that has
\* followed the cells before, is the next cell.
LEMMA CellAround ==
    ASSUME wide, NEW len \in Nat \ {0}, DOMAIN chip[0] = 0 .. len - 1,
           NEW from \in Nat, NEW k \in Nat
    PROVE  /\ HasCell(wide, chip, from + k)
           /\ chip[0][((from % len) + k) % len] = NthCell(wide, chip, from + k)
<1>1. Cardinality(DOMAIN chip[0]) = len
    BY IntervalLength
<1>2. ((from % len) + k) % len = (from + k) % len
    BY ModPlus
<1> QED
    BY <1>1, <1>2 DEF HasCell, NthCell

LEMMA CellInBlock ==
    ASSUME ~wide, NEW block \in Nat, block \in DOMAIN chip,
           NEW from \in Nat, NEW k \in Nat, from = BlockSize * block, k < BlockSize
    PROVE  /\ HasCell(wide, chip, from + k)
           /\ chip[block][(0 + k) % BlockSize] = NthCell(wide, chip, from + k)
<1>1. BlockSize \in Nat \ {0} /\ k \in 0 .. BlockSize - 1
    BY ChipAssumption
<1>2. /\ (BlockSize * block + k) % BlockSize = k
      /\ (BlockSize * block + k) \div BlockSize = block
    BY <1>1, ModOf
<1>3. (from + k) % BlockSize = k /\ (from + k) \div BlockSize = block
    BY <1>2
<1>4. (0 + k) % BlockSize = k
    BY <1>1, ModSmall
<1> QED
    BY <1>3, <1>4 DEF HasCell, NthCell

\* Only the first cell of an image is the magic.
LEMMA OneMagic ==
    ASSUME NEW i, IsImage(i), NEW j \in 2 .. Len(i)
    PROVE  i[j] # Magic
<1>1. Len(i) \in Nat
    BY LenProperties DEF IsImage
<1>2. j \in {2, 3, 4} \/ j \in HeaderSize + 1 .. Len(i)
    BY <1>1 DEF HeaderSize
<1>3. j = 2 => DOMAIN i[j] = {"crc"}
    BY DEF IsImage, Crc
<1>4. j = 3 => DOMAIN i[j] = {"ids"}
    BY DEF IsImage, Ids
<1>5. j = 4 => DOMAIN i[j] = {"size"}
    BY DEF IsImage, Size
<1>6. j \in HeaderSize + 1 .. Len(i) => DOMAIN i[j] \in PayloadCells
    BY DEF IsImage
<1>7. DOMAIN Magic = {"magic"}
    BY DEF Magic
<1> QED
    BY <1>2, <1>3, <1>4, <1>5, <1>6, <1>7 DEF PayloadCells

\* An image stays on the chip when its first byte is overwritten, on a chip that
\* is read around and around too.
LEMMA ZeroKeeps ==
    ASSUME NEW w \in BOOLEAN, NEW c, NEW blocks \in Nat \ {0}, NEW len \in Nat \ {0},
           c \in [0 .. blocks - 1 -> [0 .. len - 1 -> Cells]],
           NEW i, IsImage(i), NEW n \in Nat, n <= Len(i),
           OnChip(w, c, i, n), c[0][0] = Magic
    PROVE  OnChip(w, [c EXCEPT ![0][0] = ZeroedMagic], i, n)
<1> DEFINE d == [c EXCEPT ![0][0] = ZeroedMagic]
<1>1. /\ DOMAIN c = 0 .. blocks - 1 /\ DOMAIN d = DOMAIN c
      /\ DOMAIN c[0] = 0 .. len - 1 /\ DOMAIN d[0] = DOMAIN c[0]
      /\ \A b \in DOMAIN c : \A x : c[b][x] # Magic => d[b][x] = c[b][x]
      /\ d[0][0] = ZeroedMagic
    OBVIOUS
<1> HIDE DEF d
<1>2. Cardinality(DOMAIN c[0]) = len /\ BlockSize \in Nat \ {0}
    BY <1>1, IntervalLength, ChipAssumption
<1> SUFFICES ASSUME NEW j \in 1 .. n
             PROVE  HasCell(w, d, j - 1) /\ Matches(i, j, NthCell(w, d, j - 1))
    BY DEF OnChip, d
<1>3. HasCell(w, c, j - 1) /\ Matches(i, j, NthCell(w, c, j - 1))
    BY DEF OnChip
<1>4. HasCell(w, d, j - 1)
    BY <1>1, <1>3 DEF HasCell
<1>5. CASE j = 1
    <2>1. 0 % len = 0 /\ 0 % BlockSize = 0 /\ 0 \div BlockSize = 0
        BY <1>2, ModSmall
    <2>2. NthCell(w, d, j - 1) = d[0][0]
        BY <1>1, <1>2, <1>5, <2>1 DEF NthCell
    <2> QED
        BY <1>1, <1>4, <1>5, <2>2 DEF Matches
<1>6. CASE j # 1
    <2>1. j \in 2 .. Len(i)
        <3>1. Len(i) \in Nat
            BY LenProperties DEF IsImage
        <3> QED
            BY <1>6, <3>1
    <2>2. NthCell(w, c, j - 1) = i[j] /\ i[j] # Magic
        BY <1>3, <1>6, <2>1, OneMagic DEF Matches
    <2>3. NthCell(w, d, j - 1) = NthCell(w, c, j - 1)
        BY <1>1, <1>3, <2>2 DEF NthCell, HasCell
    <2> QED
        BY <1>4, <1>6, <2>2, <2>3 DEF Matches
<1> QED
    BY <1>5, <1>6

-----------------------------------------------------------------------------
(* The inductive invariant *)

\* As long as it is alone with the data address of a chip of up to 64 kB,
\* verification has found on the chip what it has compared.
WriterInv ==
    /\ wide \/ (alone /\ CellsPerBlock = BlockSize)
    /\ tool # "idle" => Len(image) <= Capacity
    /\ tool = "address" => done % BlockLen = 0
    /\ tool = "verifying" => Block \in DOMAIN chip /\ (wide \/ done = BlockSize * Block)
    /\ tool \in {"address", "verifying"} /\ alone => OnChip(wide, chip, image, done)
    /\ tool = "verifying" /\ alone => pointer = IF wide THEN done % CellsPerBlock ELSE 0

\* A verified image is on the chip, and no other one counts for detection.
VerifiedInv ==
    /\ verified # NoImage =>
         Len(verified) <= Capacity /\ OnChip(wide, chip, verified, Len(verified))
    /\ readOf \in {NoImage, verified}

\* Detection has read the image's cells so far, and before it parses, all of them.
ReaderInv ==
    /\ at = "idle" => content = <<>>
    /\ at = "address" => ~wide
    /\ at \in {"address", "data"} => Len(content) = step * ReadLen
    /\ readOf # NoImage /\ at # "idle" =>
         /\ \A j \in 1 .. Len(content) : j <= Len(readOf) => Matches(readOf, j, content[j])
         /\ at = "data" => pointer = IF wide THEN Len(content) % CellsPerBlock ELSE 0
         /\ at = "parse" => Len(content) >= Len(readOf)

BackInv == WriterInv /\ VerifiedInv /\ ReaderInv /\ ReadBack

LEMMA BackInit == Init => BackInv
<1> SUFFICES ASSUME Init PROVE BackInv
    OBVIOUS
<1>1. wide \/ CellsPerBlock = BlockSize
    <2>1. PICK blocks \in 1 .. Blocks, len \in WideSizes \cup {BlockSize} :
              /\ ~wide => len = BlockSize
              /\ chip = [b \in 0 .. blocks - 1 |-> [i \in 0 .. len - 1 |-> Blank]]
        BY DEF Init
    <2>2. len \in Nat \ {0} /\ DOMAIN chip[0] = 0 .. len - 1
        <3>1. {BlockSize, Blocks} \subseteq Nat \ {0} /\ WideSizes \subseteq Nat \ {0}
            BY ChipAssumption
        <3> QED
            BY <2>1, <3>1
    <2>3. CellsPerBlock = len
        BY <2>2, IntervalLength DEF CellsPerBlock
    <2> QED
        BY <2>1, <2>3
<1>2. WriterInv /\ VerifiedInv
    BY <1>1 DEF Init, WriterInv, VerifiedInv
<1>3. ReaderInv /\ ReadBack
    BY DEF Init, ReaderInv, ReadBack
<1> QED
    BY <1>2, <1>3 DEF BackInv

\* What detection does to a verification: on a chip of blocks nothing.
LEMMA WriterStays ==
    ASSUME WriterInv, UNCHANGED <<wide, chip, tool, image, done>>,
           \/ UNCHANGED <<pointer, alone>>
           \/ alone' = ~wide /\ (wide \/ tool # "verifying" \/ pointer' = 0)
    PROVE  WriterInv'
<1> USE DEF WriterInv, CellsPerBlock, Capacity, BlockLen, Block
<1>1. CASE UNCHANGED <<pointer, alone>>
    BY <1>1
<1>2. CASE alone' = ~wide /\ (wide \/ tool # "verifying" \/ pointer' = 0)
    <2>1. CASE wide
        BY <1>2, <2>1
    <2>2. CASE ~wide
        BY <1>2, <2>2
    <2> QED
        BY <2>1, <2>2
<1> QED
    BY <1>1, <1>2

LEMMA VerifiedStays ==
    ASSUME VerifiedInv, UNCHANGED <<wide, chip, verified>>, readOf' \in {NoImage, readOf, verified}
    PROVE  VerifiedInv'
BY DEF VerifiedInv, Capacity

\* What the tool does to detection: as far as it matters, all starts again.
LEMMA ReaderStays ==
    ASSUME ReaderInv, ReadBack, UNCHANGED <<wide, readVars>>,
           UNCHANGED <<readOf, pointer, chip>> \/ readOf' = NoImage
    PROVE  ReaderInv' /\ ReadBack'
BY DEF ReaderInv, ReadBack, readVars, ReadLen, CellsPerBlock

LEMMA BackNext == ChipInv /\ BackInv /\ [Next]_vars => BackInv'
<1> SUFFICES ASSUME ChipInv, BackInv, [Next]_vars PROVE BackInv'
    OBVIOUS
<1>0. WriterInv /\ VerifiedInv /\ ReaderInv /\ ReadBack
    BY DEF BackInv
<1>1. PICK blocks \in Nat \ {0}, len \in Nat \ {0} :
          /\ Shape(blocks, len) /\ CellsPerBlock = len /\ 0 \in DOMAIN chip
          /\ \A n \in Nat : n % CellsPerBlock \in 0 .. len - 1
    BY ChipShape DEF ChipInv
<1>2. /\ chip \in [0 .. blocks - 1 -> [0 .. len - 1 -> Cells]]
      /\ DOMAIN chip = 0 .. blocks - 1 /\ pointer \in Nat /\ wide \in BOOLEAN
    <2>1. /\ chip \in [0 .. blocks - 1 -> [0 .. len - 1 -> Cells]]
          /\ pointer \in 0 .. len - 1
        BY <1>1 DEF Shape
    <2>2. wide \in BOOLEAN
        BY DEF ChipInv, TypeOK
    <2> QED
        BY <2>1, <2>2
<1>3. /\ BlockSize \in Nat \ {0} /\ BlockLen \in Nat \ {0}
      /\ ReadLen \in Nat \ {0} /\ Reads \in Nat \ {0}
      /\ Capacity \in Nat /\ Capacity <= SizeMod /\ Capacity = Reads * ReadLen
      /\ wide => BlockLen = Capacity
      /\ ~wide => BlockLen = BlockSize /\ ReadLen = BlockSize
    <2>1. {BlockSize, Blocks, ChunkSize, Chunks} \subseteq Nat \ {0}
        BY ChipAssumption
    <2>2. ChunkSize * Chunks \in Nat \ {0} /\ BlockSize * Blocks \in Nat
          /\ ChunkSize * Chunks = Chunks * ChunkSize /\ BlockSize * Blocks = Blocks * BlockSize
        BY <2>1
    <2> QED
        BY <1>2, <2>1, <2>2, ChipAssumption DEF BlockLen, ReadLen, Reads, Capacity
<1>4. CASE WriteChip
    <2>1. WriterInv'
        BY <1>0, <1>4 DEF WriteChip, WriterInv, Capacity, CellsPerBlock
    <2> QED
        BY <1>0, <1>4, <2>1, VerifiedStays, ReaderStays DEF WriteChip, BackInv
<1>7. CASE AbortWrite
    <2>1. WriterInv'
        BY <1>0, <1>7 DEF AbortWrite, WriterInv, CellsPerBlock
    <2> QED
        BY <1>0, <1>7, <2>1, VerifiedStays, ReaderStays DEF AbortWrite, BackInv
<1>5. CASE WritePage
    <2>1. /\ chip' = [chip EXCEPT ![Block] = chip'[Block]]
          /\ DOMAIN chip'[Block] = DOMAIN chip[Block] /\ Block \in DOMAIN chip
        BY <1>2, <1>5 DEF WritePage
    <2>2. CellsPerBlock' = CellsPerBlock
        BY <1>1, <1>2, <2>1 DEF CellsPerBlock
    <2>3. /\ tool' = "writing" \/ (tool' = "address" /\ done' = 0)
          /\ image' = image /\ wide' = wide /\ alone' = alone
          /\ verified' = NoImage /\ readOf' = NoImage /\ UNCHANGED readVars /\ tool # "idle"
        BY <1>5 DEF WritePage
    <2>4. 0 % BlockLen = 0
        BY <1>3, ModSmall
    <2>5. WriterInv'
        BY <1>0, <2>2, <2>3, <2>4 DEF WriterInv, Capacity, OnChip, BlockLen
    <2>6. VerifiedInv'
        BY <2>3 DEF VerifiedInv
    <2> QED
        BY <1>0, <2>3, <2>5, <2>6, ReaderStays DEF BackInv
<1>6. CASE VerifyAddress
    <2>1. /\ image \in Images /\ done < Len(image) /\ done \in Nat /\ Len(image) \in Nat
        BY <1>6, ImageCells DEF VerifyAddress, ChipInv, TypeOK, Progress
    <2>2. Len(image) <= Capacity /\ done % BlockLen = 0 /\ done = BlockLen * Block
        <3>1. Len(image) <= Capacity /\ done % BlockLen = 0
            BY <1>0, <1>6 DEF WriterInv, VerifyAddress
        <3>2. done = BlockLen * Block + (done % BlockLen) /\ Block \in Nat
            BY <1>3, <2>1, DivMod DEF Block
        <3> QED
            BY <1>3, <3>1, <3>2
    <2>3. wide => done = 0
        <3>1. wide => done < BlockLen
            BY <1>3, <2>1, <2>2
        <3> QED
            BY <1>3, <2>1, <2>2, <3>1, ModSmall
    <2>4. OnChip(wide, chip, image, done)
        <3>1. CASE wide
            BY <2>3, <3>1 DEF OnChip
        <3>2. CASE ~wide
            BY <1>0, <1>6, <3>2 DEF WriterInv, VerifyAddress
        <3> QED
            BY <3>1, <3>2
    <2>5. 0 % CellsPerBlock = 0
        BY <1>1, ModSmall
    <2>6. WriterInv'
        BY <1>0, <1>3, <1>6, <2>2, <2>3, <2>4, <2>5
            DEF WriterInv, VerifyAddress, CellsPerBlock, Capacity, BlockLen, Block
    <2> QED
        BY <1>0, <1>6, <2>6, VerifiedStays, ReaderStays DEF VerifyAddress, BackInv
<1>8. CASE VerifyBlock
    <2> DEFINE n == Min({BlockSize, Len(image) - done})
               end == done + n
               cell(j) == chip[Block][(pointer + j - 1 - done) % CellsPerBlock]
               same == \A j \in done + 1 .. end : cell(j) = image[j]
    <2>1. /\ image \in Images /\ IsImage(image) /\ Len(image) \in Nat
          /\ done \in Nat /\ done < Len(image)
        BY <1>8, ImageCells, ImagesAreImages DEF VerifyBlock, ChipInv, TypeOK, Progress
    <2>2. /\ tool = "verifying" /\ tool' \in {"idle", "address", "verifying"}
          /\ pointer' = (pointer + end - done) % CellsPerBlock
          /\ \/ /\ same /\ end < Len(image) /\ done' = end
                /\ tool' = IF end % BlockLen = 0 THEN "address" ELSE "verifying"
                /\ UNCHANGED <<image, verified>>
             \/ /\ ~(same /\ end < Len(image))
                /\ tool' = "idle" /\ verified' = IF same /\ alone THEN image ELSE verified
          /\ readOf' = NoImage /\ UNCHANGED <<wide, chip, alone, readVars>>
        BY <1>8 DEF VerifyBlock
    <2>3. n \in {BlockSize, Len(image) - done} /\ n <= BlockSize /\ n <= Len(image) - done
        <3>1. BlockSize \in Int /\ Len(image) - done \in Int
            BY <1>3, <2>1
        <3>2. \E x \in {BlockSize, Len(image) - done} :
                  \A y \in {BlockSize, Len(image) - done} : x <= y
            BY <3>1
        <3> QED
            BY <3>1, <3>2 DEF Min
    <2> HIDE DEF n
    <2>4. /\ n \in Nat /\ end \in Nat /\ end <= Len(image)
          /\ end < Len(image) => n = BlockSize
        BY <1>3, <2>1, <2>3
    <2>5. /\ Block \in DOMAIN chip /\ (wide \/ done = BlockSize * Block)
          /\ Len(image) <= Capacity
          /\ alone => OnChip(wide, chip, image, done)
                      /\ pointer = IF wide THEN done % CellsPerBlock ELSE 0
        BY <1>0, <2>2 DEF WriterInv
    <2>6. ASSUME NEW j \in done + 1 .. end
          PROVE  HasCell(wide, chip, j - 1) /\ (alone => cell(j) = NthCell(wide, chip, j - 1))
        <3> DEFINE k == j - 1 - done
        <3>1. /\ k \in Nat /\ k < n /\ k < BlockSize /\ done + k = j - 1
              /\ pointer + k = pointer + j - 1 - done
            BY <1>2, <1>3, <2>1, <2>3, <2>4, <2>6
        <3> HIDE DEF k
        <3>2. /\ wide => Block = 0
              /\ ~wide => len = BlockSize /\ done = BlockSize * Block
            <4>1. ASSUME wide PROVE Block = 0
                BY <1>3, <2>1, <2>5, <4>1, ModSmall DEF Block
            <4>2. ASSUME ~wide PROVE len = BlockSize
                BY <1>0, <1>1, <4>2 DEF WriterInv
            <4> QED
                BY <2>5, <4>1, <4>2
        <3>3. /\ HasCell(wide, chip, done + k)
              /\ chip[Block][((IF wide THEN done % len ELSE 0) + k) % len]
                     = NthCell(wide, chip, done + k)
            <4>1. CASE wide
                <5>1. DOMAIN chip[0] = 0 .. len - 1
                    BY <1>2
                <5>2. /\ HasCell(wide, chip, done + k)
                      /\ chip[0][((done % len) + k) % len] = NthCell(wide, chip, done + k)
                    BY <2>1, <3>1, <4>1, <5>1, CellAround
                <5> QED
                    BY <3>2, <4>1, <5>2
            <4>2. CASE ~wide
                BY <1>2, <2>1, <2>5, <3>1, <3>2, <4>2, CellInBlock
            <4> QED
                BY <4>1, <4>2
        <3>4. ASSUME alone PROVE cell(j) = NthCell(wide, chip, j - 1)
            <4>1. pointer = IF wide THEN done % len ELSE 0
                BY <1>1, <2>5, <3>4
            <4>2. cell(j) = chip[Block][(pointer + k) % len]
                BY <1>1, <3>1
            <4> QED
                BY <3>1, <3>3, <4>1, <4>2
        <3> QED
            BY <3>1, <3>3, <3>4
    <2>7. ASSUME alone, same PROVE OnChip(wide, chip, image, end)
        <3> SUFFICES ASSUME NEW j \in 1 .. end
                     PROVE  /\ HasCell(wide, chip, j - 1)
                            /\ Matches(image, j, NthCell(wide, chip, j - 1))
            BY DEF OnChip
        <3>1. CASE j \in 1 .. done
            BY <2>5, <2>7, <3>1 DEF OnChip
        <3>2. CASE j \in done + 1 .. end
            <4>1. HasCell(wide, chip, j - 1) /\ NthCell(wide, chip, j - 1) = image[j]
                BY <2>6, <2>7, <3>2
            <4>2. image[1] = Magic
                BY <2>1 DEF IsImage
            <4> QED
                BY <4>1, <4>2 DEF Matches
        <3> QED
            BY <2>1, <2>4, <3>1, <3>2
    <2>8. ASSUME ~wide, end < Len(image) PROVE end % BlockLen = 0
        <3>1. Block \in Nat /\ done = BlockSize * Block /\ n = BlockSize
            BY <1>2, <2>4, <2>5, <2>8
        <3>2. end = BlockSize * (Block + 1) + 0 /\ Block + 1 \in Nat /\ 0 \in 0 .. BlockSize - 1
            BY <1>3, <3>1
        <3>3. (BlockSize * (Block + 1) + 0) % BlockSize = 0
            BY <1>3, <3>2, ModOf
        <3> QED
            BY <1>3, <2>8, <3>2, <3>3
    <2> HIDE DEF end, same
    <2>9. WriterInv'
        <3>1. CASE tool' = "idle"
            BY <1>0, <2>2, <3>1 DEF WriterInv, CellsPerBlock
        <3>2. CASE tool' # "idle"
            <4>1. /\ same /\ end < Len(image) /\ done' = end /\ image' = image
                  /\ tool' = IF end % BlockLen = 0 THEN "address" ELSE "verifying"
                BY <2>2, <3>2
            <4>2. /\ wide' = wide /\ chip' = chip /\ alone' = alone
                  /\ CellsPerBlock' = CellsPerBlock /\ BlockLen' = BlockLen /\ Capacity' = Capacity
                BY <2>2 DEF CellsPerBlock, BlockLen, Capacity
            <4>3. tool' = "address" => done' % BlockLen' = 0
                BY <4>1, <4>2
            <4>4. ASSUME tool' = "verifying" PROVE wide /\ Block' = 0
                <5>1. wide /\ end < BlockLen
                    BY <1>3, <2>1, <2>4, <2>5, <2>8, <4>1, <4>4
                <5>2. end \div BlockLen = 0
                    BY <1>3, <2>4, <5>1, ModSmall
                <5> QED
                    BY <4>1, <4>2, <5>1, <5>2 DEF Block
            <4>5. ASSUME tool' = "verifying", alone
                  PROVE  pointer' = end % CellsPerBlock
                <5>1. pointer = done % len
                    BY <1>1, <2>5, <4>4, <4>5
                <5>2. ((done % len) + n) % len = (done + n) % len
                    BY <2>1, <2>4, ModPlus
                <5>3. pointer + end - done = pointer + n
                    BY <1>2, <2>1, <2>4 DEF end
                <5> QED
                    BY <1>1, <2>2, <5>1, <5>2, <5>3 DEF end
            <4>6. alone => OnChip(wide, chip, image, end)
                BY <2>7, <4>1
            <4> QED
                BY <1>0, <1>1, <2>5, <4>1, <4>2, <4>3, <4>4, <4>5, <4>6 DEF WriterInv
        <3> QED
            BY <3>1, <3>2
    <2>10. VerifiedInv'
        <3>1. CASE verified' = verified
            BY <1>0, <2>2, <3>1, VerifiedStays
        <3>2. CASE verified' # verified
            <4>1. verified' = image /\ same /\ alone /\ end = Len(image)
                BY <2>1, <2>2, <2>4, <3>2
            <4> QED
                BY <2>2, <2>5, <2>7, <4>1 DEF VerifiedInv, Capacity
        <3> QED
            BY <3>1, <3>2
    <2> QED
        BY <1>0, <2>2, <2>9, <2>10, ReaderStays DEF BackInv
<1>9. CASE SetAddress
    <2>1. \/ at = "idle" /\ readOf' = verified /\ content = <<>> /\ step = 0
          \/ at = "address" /\ readOf' = readOf /\ ~wide /\ Len(content) = step * ReadLen
        BY <1>0, <1>9 DEF SetAddress, ReaderInv, ChipInv, Progress
    <2>2. /\ at' = "data" /\ pointer' = 0 /\ alone' = ~wide
          /\ UNCHANGED <<wide, chip, tool, image, done, verified, step, content>>
        BY <1>9 DEF SetAddress, Disturbs
    <2>3. WriterInv'
        BY <1>0, <2>2, WriterStays
    <2>4. VerifiedInv'
        BY <1>0, <2>1, <2>2, VerifiedStays
    <2>5. 0 % CellsPerBlock = 0
        BY <1>1, ModSmall
    <2>6. ReaderInv'
        <3>1. CASE at = "idle" /\ readOf' = verified /\ content = <<>> /\ step = 0
            BY <1>3, <2>2, <2>5, <3>1 DEF ReaderInv, ReadLen, CellsPerBlock
        <3>2. CASE at = "address" /\ readOf' = readOf /\ ~wide /\ Len(content) = step * ReadLen
            BY <1>0, <2>2, <3>2 DEF ReaderInv, ReadLen
        <3> QED
            BY <2>1, <3>1, <3>2
    <2> QED
        BY <2>2, <2>3, <2>4, <2>6 DEF BackInv, ReadBack
<1>10. CASE NoMoreBlocks
    <2>1. /\ at = "address" /\ at' = "parse"
          /\ readOf' = IF step \in DOMAIN chip THEN NoImage ELSE readOf
          /\ UNCHANGED <<wide, chip, pointer, toolVars, content>>
        BY <1>10 DEF NoMoreBlocks
    <2>2. WriterInv' /\ VerifiedInv'
        BY <1>0, <2>1, WriterStays, VerifiedStays DEF toolVars
    <2>3. readOf' # NoImage => Len(content) >= Len(readOf)
        <3> SUFFICES ASSUME readOf' # NoImage PROVE Len(content) >= Len(readOf)
            OBVIOUS
        <3>1. readOf = verified /\ readOf # NoImage /\ step \notin DOMAIN chip /\ step \in Nat
              /\ ~wide /\ Len(content) = step * BlockSize
            BY <1>0, <1>3, <2>1 DEF VerifiedInv, ReaderInv, ChipInv, TypeOK
        <3>2. readOf \in Images /\ Len(readOf) \in Nat /\ Len(readOf) >= HeaderSize
            BY <3>1, ImageCells DEF ChipInv, TypeOK
        <3>3. (Len(readOf) - 1) \div BlockSize \in DOMAIN chip
            <4>1. OnChip(wide, chip, readOf, Len(readOf))
                BY <1>0, <3>1 DEF VerifiedInv
            <4>2. Len(readOf) \in 1 .. Len(readOf)
                BY <3>2 DEF HeaderSize
            <4> QED
                BY <3>1, <4>1, <4>2 DEF OnChip, HasCell
        <3> DEFINE last == Len(readOf) - 1
        <3>4. last \in Nat /\ (last \div BlockSize) \in Nat /\ last \div BlockSize < step
            BY <1>2, <3>1, <3>2, <3>3 DEF HeaderSize
        <3>5. /\ last = BlockSize * (last \div BlockSize) + (last % BlockSize)
              /\ last % BlockSize \in 0 .. BlockSize - 1
            BY <1>3, <3>4, DivMod
        <3>6. BlockSize * (last \div BlockSize) + BlockSize <= BlockSize * step
            BY <1>3, <3>1, <3>4, LessQuotient
        <3> QED
            BY <1>3, <3>1, <3>2, <3>4, <3>5, <3>6
    <2>4. ReaderInv'
        BY <1>0, <2>1, <2>3 DEF ReaderInv, toolVars
    <2> QED
        BY <2>1, <2>2, <2>4 DEF BackInv, ReadBack
<1>11. CASE ReadBlock
    <2> DEFINE block == IF wide THEN 0 ELSE step
               read == [i \in 1 .. ReadLen |-> chip[block][(pointer + i - 1) % CellsPerBlock]]
               from == Len(content)
    <2>1. /\ at = "data" /\ content' = content \o read
          /\ pointer' = (pointer + ReadLen) % CellsPerBlock
          /\ \/ step + 1 = Reads /\ at' = "parse"
             \/ step + 1 # Reads /\ at' = (IF wide THEN "data" ELSE "address") /\ step' = step + 1
          /\ alone' = ~wide
          /\ UNCHANGED <<wide, chip, readOf, result, tool, image, done, verified>>
        BY <1>11 DEF ReadBlock, Disturbs
    <2>2. /\ block \in DOMAIN chip /\ step \in Nat /\ from \in Nat
          /\ content \in Seq(Cells) /\ from = step * ReadLen
        <3>1. block \in DOMAIN chip
            BY <1>1, <2>1 DEF ChipInv, Progress
        <3>2. step \in Nat /\ content \in Seq(Cells)
            BY <1>3 DEF ChipInv, TypeOK
        <3>3. Len(content) \in Nat /\ Len(content) = step * ReadLen
            BY <1>0, <2>1, <3>2, LenProperties DEF ReaderInv
        <3> QED
            BY <3>1, <3>2, <3>3
    <2>3. read \in Seq(Cells) /\ Len(read) = ReadLen
        <3>1. ASSUME NEW i \in 1 .. ReadLen
              PROVE  chip[block][(pointer + i - 1) % CellsPerBlock] \in Cells
            <4>1. pointer + i - 1 \in Nat
                BY <1>2, <1>3
            <4> QED
                BY <1>1, <1>2, <2>2, <4>1
        <3> QED
            BY <1>3, <3>1
    <2>10. \A i \in 1 .. ReadLen : read[i] = chip[block][(pointer + i - 1) % CellsPerBlock]
        OBVIOUS
    <2> HIDE DEF read
    <2>4. /\ Len(content') = from + ReadLen
          /\ \A j \in 1 .. from + ReadLen :
                content'[j] = IF j <= from THEN content[j] ELSE read[j - from]
        BY <2>1, <2>2, <2>3, ConcatProperties
    <2>5. Len(content') = (step + 1) * ReadLen
        BY <1>3, <2>2, <2>4
    <2>6. WriterInv' /\ VerifiedInv'
        <3>1. (~wide /\ tool = "verifying") => pointer' = 0
            <4> SUFFICES ASSUME ~wide, tool = "verifying" PROVE pointer' = 0
                OBVIOUS
            <4>1. pointer = 0 /\ CellsPerBlock = BlockSize
                BY <1>0 DEF WriterInv
            <4>2. 0 + BlockSize = BlockSize * 1 + 0 /\ 0 \in 0 .. BlockSize - 1
                BY <1>3
            <4>3. (BlockSize * 1 + 0) % BlockSize = 0
                BY <1>3, <4>2, ModOf
            <4> QED
                BY <1>3, <2>1, <4>1, <4>2, <4>3
        <3> QED
            BY <1>0, <2>1, <3>1, WriterStays, VerifiedStays
    <2> HIDE DEF block
    <2>7. ASSUME readOf # NoImage
          PROVE  /\ \A j \in 1 .. Len(content') :
                       j <= Len(readOf) => Matches(readOf, j, content'[j])
                 /\ wide => pointer' = Len(content') % CellsPerBlock
                 /\ at' = "parse" => Len(content') >= Len(readOf)
        <3>1. /\ \A j \in 1 .. from : j <= Len(readOf) => Matches(readOf, j, content[j])
              /\ pointer = IF wide THEN from % len ELSE 0
            BY <1>0, <1>1, <2>1, <2>7 DEF ReaderInv
        <3>2. readOf = verified /\ readOf \in Images /\ Len(readOf) \in Nat
            BY <1>0, <2>7, ImageCells DEF VerifiedInv, ChipInv, TypeOK
        <3>3. Len(readOf) <= Capacity /\ OnChip(wide, chip, readOf, Len(readOf))
            BY <1>0, <2>7, <3>2 DEF VerifiedInv
        <3>4. ASSUME NEW j \in 1 .. Len(content'), j <= Len(readOf)
              PROVE  Matches(readOf, j, content'[j])
            <4>1. CASE j <= from
                BY <2>2, <2>4, <3>1, <3>4, <4>1
            <4>2. CASE ~(j <= from)
                <5> DEFINE k == j - 1 - from
                <5>1. k \in Nat /\ k < ReadLen /\ from + k = j - 1 /\ j - from \in 1 .. ReadLen
                      /\ pointer + (j - from) - 1 = pointer + k /\ j \in 1 .. from + ReadLen
                    <6>1. j \in 1 .. from + ReadLen
                        BY <2>4
                    <6> HIDE DEF from
                    <6> QED
                        BY <1>2, <1>3, <2>2, <4>2, <6>1
                <5> HIDE DEF k
                <5>2. /\ wide => block = 0
                      /\ ~wide => len = BlockSize /\ from = BlockSize * block /\ k < BlockSize
                    <6>1. ~wide => CellsPerBlock = BlockSize
                        BY <1>0 DEF WriterInv
                    <6>2. ~wide => block = step /\ ReadLen = BlockSize
                        BY <1>3 DEF block
                    <6>3. wide => block = 0
                        BY DEF block
                    <6>4. step * ReadLen = ReadLen * step
                        BY <1>3, <2>2
                    <6> QED
                        BY <1>1, <2>2, <5>1, <6>1, <6>2, <6>3, <6>4
                <5>3. chip[block][((IF wide THEN from % len ELSE 0) + k) % len]
                          = NthCell(wide, chip, from + k)
                    <6>1. CASE wide
                        <7>1. DOMAIN chip[0] = 0 .. len - 1
                            BY <1>2
                        <7>2. chip[0][((from % len) + k) % len] = NthCell(wide, chip, from + k)
                            BY <2>2, <5>1, <6>1, <7>1, CellAround
                        <7> QED
                            BY <5>2, <6>1, <7>2
                    <6>2. CASE ~wide
                        BY <1>2, <2>2, <5>1, <5>2, <6>2, CellInBlock
                    <6> QED
                        BY <6>1, <6>2
                <5>4. content'[j] = read[j - from]
                    BY <2>4, <4>2, <5>1
                <5>5. read[j - from] = chip[block][(pointer + k) % len]
                    BY <1>1, <2>10, <5>1
                <5>6. content'[j] = NthCell(wide, chip, j - 1)
                    BY <3>1, <5>1, <5>3, <5>4, <5>5
                <5>7. j \in 1 .. Len(readOf)
                    BY <2>2, <2>4, <3>2, <3>4
                <5> QED
                    BY <3>3, <5>6, <5>7 DEF OnChip
            <4> QED
                BY <4>1, <4>2
        <3>5. ASSUME wide PROVE pointer' = Len(content') % CellsPerBlock
            <4>1. ((from % len) + ReadLen) % len = (from + ReadLen) % len
                BY <1>3, <2>2, ModPlus
            <4> QED
                BY <1>1, <2>1, <2>4, <3>1, <3>5, <4>1
        <3>6. ASSUME at' = "parse" PROVE Len(content') >= Len(readOf)
            <4>1. step + 1 = Reads
                BY <2>1, <3>6
            <4> QED
                BY <1>3, <2>5, <3>2, <3>3, <4>1
        <3> QED
            BY <3>4, <3>5, <3>6
    <2>8. ReaderInv' /\ ReadBack'
        <3>1. /\ at' \in {"parse", "data", "address"} /\ readOf' = readOf /\ wide' = wide
              /\ at' = "data" => wide
              /\ at' = "address" => ~wide
              /\ at' \in {"address", "data"} => step' = step + 1
              /\ ReadLen' = ReadLen /\ CellsPerBlock' = CellsPerBlock
            BY <2>1 DEF ReadLen, CellsPerBlock
        <3>2. ReadBack'
            BY <3>1 DEF ReadBack
        <3>3. ReaderInv'
            BY <2>5, <2>7, <3>1 DEF ReaderInv
        <3> QED
            BY <3>2, <3>3
    <2> QED
        BY <2>6, <2>8 DEF BackInv
<1>12. CASE ReadFails
    <2>1. WriterInv' /\ VerifiedInv'
        BY <1>0, <1>12, WriterStays, VerifiedStays DEF ReadFails, toolVars
    <2> QED
        BY <1>12, <2>1 DEF ReadFails, ReaderInv, ReadBack, BackInv
<1>13. CASE Parse
    <2>1. /\ at = "parse" /\ at' = "idle" /\ content' = <<>>
          /\ result' = ParseFromBytes(content)
          /\ UNCHANGED <<wide, chip, pointer, toolVars, readOf>>
        BY <1>13 DEF Parse
    <2>2. WriterInv' /\ VerifiedInv'
        BY <1>0, <2>1, WriterStays, VerifiedStays DEF toolVars
    <2>3. ReaderInv'
        BY <2>1 DEF ReaderInv
    <2>4. ReadBack'
        <3> SUFFICES ASSUME readOf # NoImage, NEW info \in Infos, Readable(info),
                            readOf = IntoBytes(info)
                     PROVE  result' = ReadAs(info)
            BY <2>1 DEF ReadBack
        <3>1. Len(readOf) <= Capacity
            BY <1>0 DEF VerifiedInv
        <3>2. readOf \in Images /\ Len(readOf) \in Nat
            BY ImageCells DEF ChipInv, TypeOK
        <3>3. Len(readOf) <= SizeMod
            BY <1>3, <3>1, <3>2, ChipAssumption
        <3>4. content \in Seq(Cells) /\ Len(content) \in Nat
            BY LenProperties DEF ChipInv, TypeOK
        <3>5. /\ Len(content) >= Len(readOf)
              /\ \A j \in 1 .. Len(content) : j <= Len(readOf) => Matches(readOf, j, content[j])
            BY <1>0, <2>1 DEF ReaderInv
        <3>6. \A j \in 1 .. Len(readOf) : Matches(readOf, j, content[j])
            BY <3>2, <3>4, <3>5
        <3> QED
            BY <2>1, <3>3, <3>4, <3>5, <3>6, ParsedBack
    <2> QED
        BY <2>2, <2>3, <2>4 DEF BackInv
<1>14. CASE ZeroFirstByte
    <2>1. /\ chip[0][0] = Magic /\ chip' = [chip EXCEPT ![0][0] = ZeroedMagic]
          /\ UNCHANGED <<wide, pointer, toolVars, readVars, readOf>>
        BY <1>14 DEF ZeroFirstByte
    <2>2. DOMAIN chip' = DOMAIN chip /\ CellsPerBlock' = CellsPerBlock
        BY <1>1, <1>2, <2>1 DEF CellsPerBlock
    <2>3. ASSUME NEW i \in Images, NEW n \in Nat, n <= Len(i), OnChip(wide, chip, i, n)
          PROVE  OnChip(wide, chip', i, n)
        BY <1>2, <2>1, <2>3, ZeroKeeps, ImagesAreImages
    <2>4. WriterInv'
        <3>1. tool \in {"address", "verifying"} /\ alone => OnChip(wide, chip', image, done)
            <4> SUFFICES ASSUME tool \in {"address", "verifying"}, alone
                         PROVE  OnChip(wide, chip', image, done)
                OBVIOUS
            <4>1. image \in Images /\ done \in Nat /\ done <= Len(image)
                BY ImageCells DEF ChipInv, TypeOK, Progress
            <4> QED
                BY <1>0, <2>3, <4>1 DEF WriterInv
        <3> QED
            BY <1>0, <2>1, <2>2, <3>1 DEF WriterInv, toolVars, Capacity, BlockLen, Block
    <2>5. VerifiedInv'
        <3>1. verified # NoImage => OnChip(wide, chip', verified, Len(verified))
            <4> SUFFICES ASSUME verified # NoImage
                         PROVE  OnChip(wide, chip', verified, Len(verified))
                OBVIOUS
            <4>1. verified \in Images /\ Len(verified) \in Nat /\ Len(verified) <= Len(verified)
                BY ImageCells DEF ChipInv, TypeOK
            <4> QED
                BY <1>0, <2>3, <4>1 DEF VerifiedInv
        <3> QED
            BY <1>0, <2>1, <3>1 DEF VerifiedInv, toolVars, Capacity
    <2>6. ReaderInv' /\ ReadBack'
        BY <1>0, <2>1, <2>2 DEF ReaderInv, ReadBack, readVars, ReadLen
    <2> QED
        BY <2>4, <2>5, <2>6 DEF BackInv
<1>15. CASE CellGoesBad
    <2>1. PICK b \in DOMAIN chip : \E i \in DOMAIN chip[b] : chip' = [chip EXCEPT ![b][i] = Junk]
        BY <1>15 DEF CellGoesBad
    <2>2. DOMAIN chip' = DOMAIN chip /\ CellsPerBlock' = CellsPerBlock
        BY <1>1, <1>2, <2>1 DEF CellsPerBlock
    <2>3. /\ tool \notin {"address", "verifying"} /\ verified' = NoImage /\ readOf' = NoImage
          /\ UNCHANGED <<wide, pointer, tool, image, done, alone, readVars>>
        BY <1>15 DEF CellGoesBad
    <2>4. WriterInv'
        BY <1>0, <2>2, <2>3 DEF WriterInv, Capacity
    <2>5. VerifiedInv'
        BY <2>3 DEF VerifiedInv
    <2> QED
        BY <1>0, <2>3, <2>4, <2>5, ReaderStays DEF BackInv
<1>16. CASE UNCHANGED vars
    <2>1. WriterInv' /\ VerifiedInv'
        BY <1>0, <1>16, WriterStays, VerifiedStays DEF vars, toolVars
    <2> QED
        BY <1>0, <1>16, <2>1, ReaderStays DEF vars, BackInv
<1> QED
    BY <1>4, <1>5, <1>6, <1>7, <1>8, <1>9, <1>10, <1>11, <1>12, <1>13, <1>14, <1>15,
       <1>16
        DEF Next

LEMMA BackInvariant == Spec => []BackInv
<1>1. Init => BackInv
    BY BackInit
<1>2. ChipInv /\ BackInv /\ [Next]_vars => BackInv'
    BY BackNext
<1>3. Spec => []ChipInv
    BY ChipInvariant
<1> QED
    BY <1>1, <1>2, <1>3, PTL DEF Spec

\* A chip that toh_writer has verified, that nobody has written to since and of
\* which at most the first byte was overwritten gives detection back the info that
\* into_bytes was given, each extra value as what CBOR makes of it, whatever the
\* sizes of chips, pages and chunks, and however often verification and detection
\* were mixed.
THEOREM VerifiedReadsBack == Spec => []ReadBack
<1>1. BackInv => ReadBack
    BY DEF BackInv
<1> QED
    BY <1>1, BackInvariant, PTL
=============================================================================
