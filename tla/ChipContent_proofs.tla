------------------------- MODULE ChipContent_proofs -------------------------
(***************************************************************************)
(* Proofs about ChipContent, for every set of infos and of images of other *)
(* tools, and for every size of blocks, chunks, pages and chips.           *)
(***************************************************************************)
EXTENDS ChipContent, FiniteSetTheorems, SequenceTheorems, TLAPS

\* What stands behind the header.
PayloadCells == {{"count"}, {"key", "value"}}

IsPayload(p) ==
    /\ p \in Seq({p[j] : j \in 1 .. Len(p)})
    /\ \A j \in 1 .. Len(p) : DOMAIN p[j] \in PayloadCells

-----------------------------------------------------------------------------
(* Images *)

\* The least of three numbers is one of them and none is smaller.
LEMMA MinOfThree ==
    ASSUME NEW a \in Int, NEW b \in Int, NEW c \in Int
    PROVE  /\ Min({a, b, c}) \in {a, b, c}
           /\ Min({a, b, c}) <= a /\ Min({a, b, c}) <= b /\ Min({a, b, c}) <= c
<1>1. \E x \in {a, b, c} : \A y \in {a, b, c} : x <= y
    OBVIOUS
<1> QED
    BY <1>1 DEF Min

LEMMA MinOfTwo ==
    ASSUME NEW a \in Int, NEW b \in Int
    PROVE  Min({a, b}) \in {a, b}
<1>1. \E x \in {a, b} : \A y \in {a, b} : x <= y
    OBVIOUS
<1> QED
    BY <1>1 DEF Min

\* A cell of a payload is neither a checksum nor a size.
LEMMA PayloadCell ==
    ASSUME NEW c, DOMAIN c \in PayloadCells
    PROVE  "crc" \notin DOMAIN c /\ "size" \notin DOMAIN c
BY DEF PayloadCells

\* There are eight known keys.
LEMMA KnownKeysFinite == IsFiniteSet(KnownKeys)
<1>1. /\ IsFiniteSet({"SC"} \cup {"SN"}) /\ IsFiniteSet({"VN"} \cup {"PN"})
      /\ IsFiniteSet({"VS"} \cup {"PS"}) /\ IsFiniteSet({"PO"} \cup {"PI"})
    BY FS_Singleton, FS_Union
<1>2. /\ IsFiniteSet(({"SC"} \cup {"SN"}) \cup ({"VN"} \cup {"PN"}))
      /\ IsFiniteSet(({"VS"} \cup {"PS"}) \cup ({"PO"} \cup {"PI"}))
    BY <1>1, FS_Union
<1>3. IsFiniteSet((({"SC"} \cup {"SN"}) \cup ({"VN"} \cup {"PN"}))
                  \cup (({"VS"} \cup {"PS"}) \cup ({"PO"} \cup {"PI"})))
    BY <1>2, FS_Union
<1>4. KnownKeys = (({"SC"} \cup {"SN"}) \cup ({"VN"} \cup {"PN"}))
                  \cup (({"VS"} \cup {"PS"}) \cup ({"PO"} \cup {"PI"}))
    BY DEF KnownKeys, KnownType
<1> QED
    BY <1>3, <1>4

\* The payload of an info has finitely many keys.
LEMMA PayloadFinite ==
    ASSUME NEW info \in Infos
    PROVE  IsFiniteSet(DOMAIN GetPayload(info))
<1> DEFINE known == Drop(info.known, {"SC"})
<1>1. IsFiniteSet(DOMAIN info.known) /\ IsFiniteSet(DOMAIN info.extra)
    BY InfosAssumption, KnownKeysFinite, FS_Subset
<1>2. DOMAIN known \subseteq DOMAIN info.known
    BY DEF Drop
<1>3. IsFiniteSet(DOMAIN known)
    BY <1>1, <1>2, FS_Subset
<1>4. IsFiniteSet({"SC"} \cup DOMAIN known)
    BY <1>3, FS_Singleton, FS_Union
<1>5. DOMAIN GetPayload(info) \in
          {DOMAIN info.extra \cup DOMAIN known, DOMAIN info.extra \cup ({"SC"} \cup DOMAIN known)}
    BY DEF GetPayload, Insert, ExtraCbor
<1>6. IsFiniteSet(DOMAIN info.extra \cup DOMAIN known)
    BY <1>1, <1>3, FS_Union
<1>7. IsFiniteSet(DOMAIN info.extra \cup ({"SC"} \cup DOMAIN known))
    BY <1>1, <1>4, FS_Union
<1> QED
    BY <1>5, <1>6, <1>7

\* A CBOR map is a payload.
LEMMA CborIsPayload ==
    ASSUME NEW map, IsFiniteSet(DOMAIN map)
    PROVE  IsPayload(Cbor(map))
<1> DEFINE size == Cardinality(DOMAIN map)
           entries == [i \in 1 .. size |-> Entry(KeyAt(map, i), map[KeyAt(map, i)])]
           S == {Count(size)} \cup {entries[i] : i \in 1 .. size}
<1>1. size \in Nat
    BY FS_CardinalityType
<1> HIDE DEF size
<1>2. entries \in Seq(S) /\ Len(entries) = size
    BY <1>1
<1>3. <<Count(size)>> \in Seq(S) /\ Len(<<Count(size)>>) = 1
    OBVIOUS
<1>4. Cbor(map) = <<Count(size)>> \o entries
    BY DEF Cbor, size
<1>5. DOMAIN Count(size) \in PayloadCells
    BY DEF Count, PayloadCells
<1>6. \A i \in 1 .. size : DOMAIN entries[i] \in PayloadCells
    BY DEF Entry, PayloadCells
<1> HIDE DEF entries
<1> DEFINE p == Cbor(map)
<1>7. /\ p \in Seq(S) /\ Len(p) = 1 + size
      /\ \A i \in 1 .. 1 + size : p[i] = IF i <= 1 THEN Count(size) ELSE entries[i - 1]
    BY <1>2, <1>3, <1>4, ConcatProperties
<1> HIDE DEF p, S
<1>8. p \in Seq({p[j] : j \in 1 .. Len(p)})
    BY <1>7, <1>1
<1>9. \A j \in 1 .. Len(p) : DOMAIN p[j] \in PayloadCells
    BY <1>1, <1>5, <1>6, <1>7
<1> QED
    BY <1>8, <1>9 DEF IsPayload, p

\* What an image looks like: the header, with a checksum over all that follows
\* it, and a payload.
IsImage(i) ==
    /\ i \in Seq({i[j] : j \in 1 .. Len(i)})
    /\ Len(i) >= HeaderSize
    /\ i[1] = Magic
    /\ i[2] = Crc(SubSeq(i, 3, Len(i)))
    /\ i[3] = Ids(i[3].ids)
    /\ i[4] = Size(i[4].size) /\ i[4].size \in Nat
    /\ \A j \in HeaderSize + 1 .. Len(i) : DOMAIN i[j] \in PayloadCells

\* What stands where in an image.
LEMMA SealedCells ==
    ASSUME NEW ids, NEW payload, IsPayload(payload)
    PROVE  LET i == Sealed(ids, payload) IN
           /\ i \in Seq({i[j] : j \in 1 .. Len(i)})
           /\ Len(payload) \in Nat /\ Len(i) = 4 + Len(payload)
           /\ i[1] = Magic /\ i[2] = Crc(SubSeq(i, 3, Len(i)))
           /\ i[3] = Ids(ids) /\ i[4] = Size(Len(payload) % SizeMod)
           /\ \A j \in 5 .. Len(i) : i[j] = payload[j - 4]
<1> DEFINE size == Len(payload) % SizeMod
           head == <<Ids(ids), Size(size)>>
           body == head \o payload
           top == <<Magic, Crc(body)>>
           i == top \o body
           S == {payload[j] : j \in 1 .. Len(payload)}
           T == S \cup {Ids(ids), Size(size)}
           U == T \cup {Magic, Crc(body)}
<1>1. payload \in Seq(S) /\ Len(payload) \in Nat
    BY LenProperties DEF IsPayload
<1>2. size \in Nat
    BY <1>1, ChipAssumption
<1> HIDE DEF size, S
<1>3. head \in Seq(T) /\ Len(head) = 2 /\ head[1] = Ids(ids) /\ head[2] = Size(size)
    OBVIOUS
<1>4. payload \in Seq(T)
    BY <1>1
<1> HIDE DEF head, T
<1>5. /\ body \in Seq(T) /\ Len(body) = 2 + Len(payload)
      /\ \A j \in 1 .. 2 + Len(payload) : body[j] = IF j <= 2 THEN head[j] ELSE payload[j - 2]
    <2>1. /\ body \in Seq(T) /\ Len(body) = Len(head) + Len(payload)
          /\ \A j \in 1 .. Len(head) + Len(payload) :
                body[j] = IF j <= Len(head) THEN head[j] ELSE payload[j - Len(head)]
        BY <1>3, <1>4, ConcatProperties
    <2> QED
        BY <1>3, <2>1
<1> HIDE DEF body
<1>6. top \in Seq(U) /\ Len(top) = 2 /\ top[1] = Magic /\ top[2] = Crc(body)
    OBVIOUS
<1>7. body \in Seq(U)
    BY <1>5
<1> HIDE DEF top, U
<1>8. /\ i \in Seq(U) /\ Len(i) = 4 + Len(payload)
      /\ \A j \in 1 .. 4 + Len(payload) : i[j] = IF j <= 2 THEN top[j] ELSE body[j - 2]
    <2>1. /\ i \in Seq(U) /\ Len(i) = 2 + Len(body)
          /\ \A j \in 1 .. 2 + Len(body) : i[j] = IF j <= 2 THEN top[j] ELSE body[j - 2]
        BY <1>6, <1>7, ConcatProperties
    <2>2. 2 + Len(body) = 4 + Len(payload)
        BY <1>1, <1>5
    <2> QED
        BY <2>1, <2>2
<1>9. i = Sealed(ids, payload)
    BY DEF Sealed, top, body, head, size
<1> HIDE DEF i
<1>10. /\ i[1] = Magic /\ i[2] = Crc(body) /\ i[3] = Ids(ids) /\ i[4] = Size(size)
       /\ \A j \in 5 .. Len(i) : i[j] = payload[j - 4]
    BY <1>1, <1>3, <1>5, <1>6, <1>8
<1>11. SubSeq(i, 3, Len(i)) = body
    <2>1. /\ SubSeq(i, 3, Len(i)) \in Seq(U)
          /\ Len(SubSeq(i, 3, Len(i))) = Len(body)
          /\ \A j \in 1 .. Len(body) : SubSeq(i, 3, Len(i))[j] = i[j + 2]
        BY <1>1, <1>5, <1>8, SubSeqProperties
    <2>2. \A j \in 1 .. Len(body) : i[j + 2] = body[j]
        BY <1>1, <1>5, <1>8
    <2> QED
        BY <1>7, <2>1, <2>2, SeqEqual
<1>12. i \in Seq({i[j] : j \in 1 .. Len(i)})
    BY <1>1, <1>8
<1>13. i[2] = Crc(SubSeq(i, 3, Len(i)))
    BY <1>10, <1>11, Zenon
<1> QED
    BY <1>1, <1>8, <1>9, <1>10, <1>12, <1>13, Zenon DEF size

LEMMA SealedIsImage ==
    ASSUME NEW ids, NEW payload, IsPayload(payload)
    PROVE  IsImage(Sealed(ids, payload))
<1> DEFINE i == Sealed(ids, payload)
           size == Len(payload) % SizeMod
<1>1. /\ i \in Seq({i[j] : j \in 1 .. Len(i)})
      /\ Len(payload) \in Nat /\ Len(i) = 4 + Len(payload)
      /\ i[1] = Magic /\ i[2] = Crc(SubSeq(i, 3, Len(i)))
      /\ i[3] = Ids(ids) /\ i[4] = Size(size)
      /\ \A j \in 5 .. Len(i) : i[j] = payload[j - 4]
    BY SealedCells
<1>2. size \in Nat
    BY <1>1, ChipAssumption
<1> HIDE DEF i, size
<1>3. i[3] = Ids(i[3].ids) /\ i[4] = Size(i[4].size) /\ i[4].size \in Nat
    BY <1>1, <1>2 DEF Ids, Size
<1>4. \A j \in 5 .. Len(i) : DOMAIN i[j] \in PayloadCells
    <2> SUFFICES ASSUME NEW j \in 5 .. Len(i) PROVE DOMAIN i[j] \in PayloadCells
        OBVIOUS
    <2>1. j - 4 \in 1 .. Len(payload)
        BY <1>1
    <2> QED
        BY <1>1, <2>1 DEF IsPayload
<1>5. Len(i) >= 4 /\ HeaderSize = 4
    BY <1>1 DEF HeaderSize
<1>6. IsImage(i)
    BY <1>1, <1>3, <1>4, <1>5 DEF IsImage
<1> QED
    BY <1>6 DEF i

\* Only the second cell of an image is a checksum, only the fourth one a size.
LEMMA HeaderCells ==
    ASSUME NEW i, IsImage(i), NEW j \in 1 .. Len(i)
    PROVE  /\ "crc" \in DOMAIN i[j] => j = 2
           /\ "size" \in DOMAIN i[j] => j = 4
<1>1. Len(i) \in Nat
    BY LenProperties DEF IsImage
<1>2. j \in {1, 2, 3, 4} \/ j \in HeaderSize + 1 .. Len(i)
    BY <1>1 DEF HeaderSize
<1>3. j = 1 => DOMAIN i[j] = {"magic"}
    BY DEF IsImage, Magic
<1>4. j = 2 => DOMAIN i[j] = {"crc"}
    BY DEF IsImage, Crc
<1>5. j = 3 => DOMAIN i[j] = {"ids"}
    BY DEF IsImage, Ids
<1>6. j = 4 => DOMAIN i[j] = {"size"}
    BY DEF IsImage, Size
<1>7. j \in HeaderSize + 1 .. Len(i) => DOMAIN i[j] \in PayloadCells
    BY DEF IsImage
<1> QED
    BY <1>2, <1>3, <1>4, <1>5, <1>6, <1>7, PayloadCell

\* All images are such.
LEMMA ImagesAreImages ==
    ASSUME NEW i \in Images
    PROVE  IsImage(i)
<1>1. CASE \E info \in Infos : i = IntoBytes(info)
    <2>1. PICK info \in Infos : i = IntoBytes(info)
        BY <1>1
    <2>2. IsPayload(<<>>)
        BY DEF IsPayload
    <2>3. IsPayload(Cbor(GetPayload(info)))
        BY PayloadFinite, CborIsPayload
    <2> QED
        BY <2>1, <2>2, <2>3, SealedIsImage DEF IntoBytes
<1>2. CASE \E f \in Foreign : i = Sealed(f[1], f[2])
    <2>1. PICK f \in Foreign : i = Sealed(f[1], f[2])
        BY <1>2
    <2>2. IsPayload(f[2])
        <3>1. f[2] \in Seq({f[2][j] : j \in DOMAIN f[2]})
            BY ForeignAssumption
        <3>2. DOMAIN f[2] = 1 .. Len(f[2])
            BY <3>1
        <3> QED
            BY <3>1, <3>2, ForeignAssumption DEF IsPayload, PayloadCells
    <2> QED
        BY <2>1, <2>2, SealedIsImage
<1> QED
    BY <1>1, <1>2 DEF Images

\* The cells of an image are cells of a chip.
LEMMA ImageCells ==
    ASSUME NEW i \in Images
    PROVE  /\ i \in Seq(Cells) /\ Len(i) \in Nat /\ Len(i) >= HeaderSize
           /\ \A j \in 1 .. Len(i) : i[j] \in Cells
<1>1. i \in Seq({i[j] : j \in 1 .. Len(i)}) /\ Len(i) >= HeaderSize
    BY ImagesAreImages DEF IsImage
<1>2. {i[j] : j \in 1 .. Len(i)} \subseteq Cells
    BY DEF Cells
<1> QED
    BY <1>1, <1>2, LenProperties

-----------------------------------------------------------------------------
(* Parsing *)

\* A size field is a number, whatever is on the chip.
LEMMA PayloadSizeIsNat ==
    ASSUME NEW data \in Seq(Cells), Len(data) >= HeaderSize
    PROVE  PayloadSize(data) \in Nat
<1>1. data[4] \in Cells
    BY ElementOfSeq, LenProperties DEF HeaderSize
<1>2. CASE "size" \notin DOMAIN data[4]
    <2>1. SizeMod - 1 \in Nat
        BY ChipAssumption
    <2> QED
        BY <1>2, <2>1 DEF PayloadSize
<1>3. CASE "size" \in DOMAIN data[4]
    <2>0. PICK i \in Images : \E j \in 1 .. Len(i) : data[4] = i[j]
        BY <1>1, <1>3 DEF Cells, Blank, Junk, ZeroedMagic
    <2>1. PICK j \in 1 .. Len(i) : data[4] = i[j]
        BY <2>0
    <2>2. IsImage(i)
        BY ImagesAreImages
    <2>3. j = 4
        BY <1>3, <2>1, <2>2, HeaderCells
    <2> QED
        BY <1>3, <2>1, <2>2, <2>3 DEF PayloadSize, IsImage
<1> QED
    BY <1>2, <1>3

\* The checksum says which image has been read, with its IDs and its whole payload.
LEMMA ChecksumIdentifies ==
    ASSUME NEW data \in Seq(Cells), HeaderValid(data)
    PROVE  \E i \in Images :
              /\ IdsOf(data) = i[3].ids
              /\ SubSeq(data, HeaderSize + 1, HeaderSize + PayloadSize(data))
                     = SubSeq(i, HeaderSize + 1, Len(i))
<1>1. /\ Len(data) \in Nat /\ Len(data) >= HeaderSize
      /\ Len(data) >= HeaderSize + PayloadSize(data)
      /\ data[2] = Crc(Covered(data))
    BY LenProperties DEF HeaderValid
<1>2. PayloadSize(data) \in Nat
    BY <1>1, PayloadSizeIsNat
<1> DEFINE end == HeaderSize + PayloadSize(data)
<1>3. data[2] \in Cells /\ "crc" \in DOMAIN data[2]
    BY <1>1, ElementOfSeq DEF HeaderSize, Crc
<1>0. PICK i \in Images : \E j \in 1 .. Len(i) : data[2] = i[j]
    BY <1>3 DEF Cells, Blank, Junk, ZeroedMagic
<1>4. PICK j \in 1 .. Len(i) : data[2] = i[j]
    BY <1>0
<1>5. IsImage(i) /\ i \in Seq(Cells) /\ Len(i) \in Nat /\ Len(i) >= HeaderSize
    BY ImagesAreImages, ImageCells
<1>6. j = 2
    BY <1>3, <1>4, <1>5, HeaderCells
<1>7. SubSeq(data, 3, end) = SubSeq(i, 3, Len(i))
    <2>1. Crc(Covered(data)) = Crc(SubSeq(i, 3, Len(i)))
        BY <1>1, <1>4, <1>5, <1>6 DEF IsImage
    <2>2. Covered(data) = SubSeq(i, 3, Len(i))
        BY <2>1 DEF Crc
    <2> QED
        BY <2>2 DEF Covered
<1>8. /\ Len(SubSeq(data, 3, end)) = end - 2
      /\ \A k \in 1 .. end - 2 : SubSeq(data, 3, end)[k] = data[k + 2]
    BY <1>1, <1>2, SubSeqProperties, ElementOfSeq DEF HeaderSize
<1>9. /\ Len(SubSeq(i, 3, Len(i))) = Len(i) - 2
      /\ \A k \in 1 .. Len(i) - 2 : SubSeq(i, 3, Len(i))[k] = i[k + 2]
    BY <1>5, SubSeqProperties, ElementOfSeq DEF HeaderSize
<1>10. end = Len(i) /\ \A k \in 3 .. Len(i) : data[k] = i[k]
    <2>1. end - 2 = Len(i) - 2 /\ end \in Nat
        BY <1>2, <1>7, <1>8, <1>9 DEF HeaderSize
    <2>2. end = Len(i)
        BY <2>1, <1>5
    <2>3. ASSUME NEW k \in 3 .. Len(i) PROVE data[k] = i[k]
        <3>1. k - 2 \in 1 .. Len(i) - 2 /\ (k - 2) + 2 = k
            BY <1>5
        <3> QED
            BY <3>1, <2>2, <1>7, <1>8, <1>9
    <2> QED
        BY <2>2, <2>3
<1>11. IdsOf(data) = i[3].ids
    BY <1>5, <1>10 DEF IdsOf, IsImage, Ids, HeaderSize
<1>12. SubSeq(data, HeaderSize + 1, end) = SubSeq(i, HeaderSize + 1, Len(i))
    <2>1. /\ SubSeq(data, 5, end) \in Seq(Cells)
          /\ Len(SubSeq(data, 5, end)) = end - 4
          /\ \A k \in 1 .. end - 4 : SubSeq(data, 5, end)[k] = data[k + 4]
        BY <1>1, <1>2, SubSeqProperties, ElementOfSeq DEF HeaderSize
    <2>2. /\ SubSeq(i, 5, Len(i)) \in Seq(Cells)
          /\ Len(SubSeq(i, 5, Len(i))) = end - 4
          /\ \A k \in 1 .. end - 4 : SubSeq(i, 5, Len(i))[k] = i[k + 4]
        BY <1>5, <1>10, SubSeqProperties, ElementOfSeq DEF HeaderSize
    <2>3. \A k \in 1 .. end - 4 : data[k + 4] = i[k + 4]
        BY <1>5, <1>10
    <2>4. SubSeq(data, 5, end) = SubSeq(i, 5, Len(i))
        BY <2>1, <2>2, <2>3, SeqEqual
    <2>5. HeaderSize + 1 = 5
        BY DEF HeaderSize
    <2> QED
        BY <2>4, <2>5
<1> QED
    BY <1>11, <1>12

\* Only values of the right types, of one image.
LEMMA ParsedInfo ==
    ASSUME NEW data \in Seq(Cells), ParseFromBytes(data) # Rejected
    PROVE  /\ \A k \in DOMAIN ParseFromBytes(data).known :
                 ParseFromBytes(data).known[k] \in KnownType[k]
           /\ \A k \in DOMAIN ParseFromBytes(data).extra :
                 ParseFromBytes(data).extra[k] \in Supported
           /\ \E i \in Images :
                 LET payload == SubSeq(i, HeaderSize + 1, Len(i)) IN
                 /\ IsMap(payload)
                 /\ ParseFromBytes(data) = InfoOf(i[3].ids, Entries(payload))
<1> DEFINE payload == SubSeq(data, HeaderSize + 1, HeaderSize + PayloadSize(data))
           map == Entries(payload)
<1>1. /\ HeaderValid(data) /\ IsMap(payload) /\ TypesMatch(map)
      /\ ParseFromBytes(data) = InfoOf(IdsOf(data), map)
    BY DEF ParseFromBytes
<1>2. PICK i \in Images : IdsOf(data) = i[3].ids /\ payload = SubSeq(i, HeaderSize + 1, Len(i))
    BY <1>1, ChecksumIdentifies
<1> HIDE DEF payload
<1>3. IsMap(payload) /\ ParseFromBytes(data) = InfoOf(i[3].ids, Entries(payload))
    BY <1>1, <1>2
<1> HIDE DEF map
<1>4. /\ ParseFromBytes(data).known = Pick(map, KnownKeys)
      /\ ParseFromBytes(data).extra = Drop(map, KnownKeys)
    BY <1>1 DEF InfoOf
<1>5. \A k \in DOMAIN ParseFromBytes(data).known :
          ParseFromBytes(data).known[k] \in KnownType[k]
    BY <1>1, <1>4 DEF TypesMatch, Pick
<1>6. \A k \in DOMAIN ParseFromBytes(data).extra :
          ParseFromBytes(data).extra[k] \in Supported
    BY <1>1, <1>4 DEF TypesMatch, Drop
<1> QED
    BY <1>2, <1>3, <1>5, <1>6

-----------------------------------------------------------------------------
(* The inductive invariant *)

\* Some image is being written while the tool works, and not to its end; a
\* detection only reads blocks that the chip has.
Progress ==
    /\ tool # "idle" => image \in Images /\ done < Len(image)
    /\ at \in {"idle", "parse"} => step = 0
    /\ at = "data" /\ ~wide => step \in DOMAIN chip

ChipInv == TypeOK /\ Progress /\ AcceptedIsOneImage

\* What TypeOK says of the chip.
Shape(blocks, len) ==
    /\ blocks \in 1 .. Blocks /\ len \in WideSizes \cup {BlockSize}
    /\ chip \in [0 .. blocks - 1 -> [0 .. len - 1 -> Cells]]
    /\ pointer \in 0 .. len - 1

LEMMA ChipShape ==
    ASSUME TypeOK
    PROVE  \E blocks, len \in Nat \ {0} :
              /\ Shape(blocks, len) /\ CellsPerBlock = len
              /\ 0 \in DOMAIN chip
              /\ \A n \in Nat : n % CellsPerBlock \in 0 .. len - 1
<1>1. PICK blocks \in 1 .. Blocks, len \in WideSizes \cup {BlockSize} : Shape(blocks, len)
    BY DEF TypeOK, ChipOK, Shape
<1>2. blocks \in Nat \ {0} /\ len \in Nat \ {0}
    <2>1. WideSizes \subseteq Nat \ {0} /\ BlockSize \in Nat \ {0} /\ Blocks \in Nat \ {0}
        BY ChipAssumption
    <2> QED
        BY <2>1
<1>3. DOMAIN chip = 0 .. blocks - 1 /\ 0 \in DOMAIN chip /\ DOMAIN chip[0] = 0 .. len - 1
    BY <1>1, <1>2 DEF Shape
<1>4. CellsPerBlock = len
    BY <1>2, <1>3, FS_Interval DEF CellsPerBlock
<1>5. \A n \in Nat : n % len \in 0 .. len - 1
    BY <1>2
<1> QED
    BY <1>1, <1>2, <1>3, <1>4, <1>5

\* A step that leaves the chip alone but for the data address.
LEMMA PointerMoves ==
    ASSUME NEW blocks, NEW len, Shape(blocks, len), UNCHANGED chip, pointer' \in 0 .. len - 1
    PROVE  ChipOK'
BY DEF Shape, ChipOK

LEMMA ChipInit == Init => ChipInv
<1> SUFFICES ASSUME Init PROVE ChipInv
    OBVIOUS
<1>1. Blank \in Cells
    BY DEF Cells
<1>2. ChipOK
    <2>1. PICK blocks \in 1 .. Blocks, len \in WideSizes \cup {BlockSize} :
              chip = [b \in 0 .. blocks - 1 |-> [i \in 0 .. len - 1 |-> Blank]]
        BY DEF Init
    <2>2. len \in Nat \ {0}
        BY ChipAssumption
    <2> QED
        BY <1>1, <2>1, <2>2 DEF ChipOK, Init
<1>3. Reads \in Nat \ {0}
    BY ChipAssumption DEF Reads
<1>4. TypeOK
    BY <1>2, <1>3, ChipAssumption DEF TypeOK, Init
<1>5. Progress /\ AcceptedIsOneImage
    BY DEF Progress, AcceptedIsOneImage, Init
<1> QED
    BY <1>4, <1>5 DEF ChipInv

\* No step of the tool touches what detection has read, and the other way round.
LEMMA ToolKeeps ==
    ASSUME ChipInv, UNCHANGED <<wide, readVars, flaws>>, ChipOK', DOMAIN chip' = DOMAIN chip,
           tool' \in {"idle", "writing", "address", "verifying"},
           image' \in Images \cup {NoImage}, done' \in Nat, writes' \in 0 .. MaxWrites,
           alone' \in BOOLEAN, {verified', readOf'} \subseteq Images \cup {NoImage},
           tool' # "idle" => image' \in Images /\ done' < Len(image')
    PROVE  ChipInv'
BY DEF ChipInv, TypeOK, Progress, AcceptedIsOneImage, readVars, Reads

LEMMA DetectionKeeps ==
    ASSUME ChipInv, UNCHANGED <<wide, chip, flaws>>, UNCHANGED toolVars \/ Disturbs, ChipOK',
           at' \in {"idle", "address", "data", "parse"}, step' \in 0 .. Reads - 1,
           content' \in Seq(Cells), result' = NoInfo \/ UNCHANGED result,
           readOf' \in Images \cup {NoImage},
           at' \in {"idle", "parse"} => step' = 0,
           at' = "data" /\ ~wide => step' \in DOMAIN chip
    PROVE  ChipInv'
BY DEF ChipInv, TypeOK, Progress, AcceptedIsOneImage, toolVars, Disturbs, Reads

LEMMA ChipNext == ChipInv /\ [Next]_vars => ChipInv'
<1> SUFFICES ASSUME ChipInv, [Next]_vars PROVE ChipInv'
    OBVIOUS
<1> USE DEF readVars, toolVars
<1>1. PICK blocks \in Nat \ {0}, len \in Nat \ {0} :
          /\ Shape(blocks, len) /\ CellsPerBlock = len
          /\ 0 \in DOMAIN chip
          /\ \A n \in Nat : n % CellsPerBlock \in 0 .. len - 1
    BY ChipShape DEF ChipInv
<1>2. /\ pointer \in Nat /\ DOMAIN chip = 0 .. blocks - 1
      /\ \A b \in DOMAIN chip : DOMAIN chip[b] = 0 .. len - 1
      /\ \A b \in DOMAIN chip : \A i \in 0 .. len - 1 : chip[b][i] \in Cells
    <2>1. /\ chip \in [0 .. blocks - 1 -> [0 .. len - 1 -> Cells]]
          /\ pointer \in 0 .. len - 1
        BY <1>1 DEF Shape
    <2> QED
        BY <2>1
<1>3. /\ BlockSize \in Nat \ {0} /\ PageSize \in Nat \ {0}
      /\ ReadLen \in Nat \ {0} /\ Reads \in Nat \ {0} /\ BlockLen \in Nat \ {0}
    <2>1. {BlockSize, Blocks, ChunkSize, Chunks, PageSize} \subseteq Nat \ {0}
        BY ChipAssumption
    <2>2. ChunkSize * Chunks \in Nat \ {0}
        BY <2>1
    <2> QED
        BY <2>1, <2>2 DEF ReadLen, Reads, BlockLen
<1>4. ASSUME NEW b \in DOMAIN chip, NEW i \in 0 .. len - 1, NEW c \in Cells,
             chip' = [chip EXCEPT ![b][i] = c], UNCHANGED pointer
      PROVE  ChipOK' /\ DOMAIN chip' = DOMAIN chip
    BY <1>1, <1>2, <1>4 DEF Shape, ChipOK
<1>5. CASE WriteChip
    <2>1. \A i \in Images : 0 < Len(i)
        BY ImageCells DEF HeaderSize
    <2>2. ChipOK' /\ DOMAIN chip' = DOMAIN chip
        BY <1>1, <1>5, PointerMoves DEF WriteChip, Shape
    <2>3. writes' \in 0 .. MaxWrites
        BY <1>5, ChipAssumption DEF WriteChip, ChipInv, TypeOK
    <2>4. image' \in Images /\ done' = 0 /\ done' < Len(image') /\ tool' = "writing"
        BY <1>5, <2>1 DEF WriteChip
    <2>5. UNCHANGED <<wide, readVars, flaws, alone, verified, readOf>>
        BY <1>5 DEF WriteChip
    <2> QED
        BY <2>2, <2>3, <2>4, <2>5, ToolKeeps DEF ChipInv, TypeOK
<1>6. CASE WritePage
    <2> DEFINE to(i) == {j \in done + 1 .. PageEnd : (j - 1 - Block * BlockLen) % CellsPerBlock = i}
    <2>1. image \in Images /\ done < Len(image) /\ Len(image) \in Nat /\ done \in Nat
        BY <1>6, ImageCells DEF WritePage, ChipInv, TypeOK, Progress
    <2>2. PageEnd \in done + 1 .. Len(image) /\ PageEnd - Block * BlockLen \in Nat
        <3>1. /\ done % BlockLen \in 0 .. BlockLen - 1
              /\ done = BlockLen * Block + (done % BlockLen)
              /\ Block \in Nat
            BY <1>3, <2>1 DEF Block
        <3>2. /\ PageSize \in Int /\ BlockLen - (done % BlockLen) \in Int
              /\ Len(image) - done \in Int
            BY <1>3, <2>1, <3>1
        <3> DEFINE n == Min({PageSize, BlockLen - (done % BlockLen), Len(image) - done})
        <3>3. /\ n \in {PageSize, BlockLen - (done % BlockLen), Len(image) - done}
              /\ n <= Len(image) - done
            BY <3>2, MinOfThree
        <3>4. n \in 1 .. Len(image) - done
            BY <1>3, <2>1, <3>1, <3>3
        <3>5. PageEnd = done + n
            BY DEF PageEnd
        <3> HIDE DEF n
        <3>6. BlockLen * Block = Block * BlockLen /\ Block * BlockLen \in Nat
            BY <1>3, <3>1
        <3> QED
            BY <2>1, <3>1, <3>4, <3>5, <3>6
    <2>3. chip' = [chip EXCEPT ![Block] =
              [i \in DOMAIN @ |-> IF to(i) = {} THEN @[i] ELSE image[CHOOSE j \in to(i) : TRUE]]]
        BY <1>6 DEF WritePage
    <2>4. \A i \in 0 .. len - 1 : to(i) # {} => image[CHOOSE j \in to(i) : TRUE] \in Cells
        <3> SUFFICES ASSUME NEW i, to(i) # {}
                     PROVE  image[CHOOSE j \in to(i) : TRUE] \in Cells
            OBVIOUS
        <3>1. (CHOOSE j \in to(i) : TRUE) \in to(i)
            OBVIOUS
        <3>2. to(i) \subseteq 1 .. Len(image)
            BY <2>1, <2>2
        <3> QED
            BY <2>1, <3>1, <3>2, ImageCells
    <2>5. Block \in DOMAIN chip /\ pointer' = (PageEnd - Block * BlockLen) % CellsPerBlock
        BY <1>6 DEF WritePage
    <2> HIDE DEF to
    <2>6. chip' \in [0 .. blocks - 1 -> [0 .. len - 1 -> Cells]] /\ DOMAIN chip' = DOMAIN chip
        BY <1>2, <2>3, <2>4, <2>5, <1>1 DEF Shape
    <2>7. pointer' \in 0 .. len - 1
        BY <1>1, <2>2, <2>5
    <2>8. ChipOK'
        BY <1>1, <2>6, <2>7 DEF Shape, ChipOK
    <2>9. /\ done' \in Nat /\ tool' \in {"writing", "address"}
          /\ tool' # "idle" => image' \in Images /\ done' < Len(image')
        BY <1>6, <2>1, <2>2 DEF WritePage
    <2> QED
        BY <1>6, <2>6, <2>8, <2>9, ToolKeeps DEF WritePage, ChipInv, TypeOK
<1>7. CASE VerifyAddress
    BY <1>1, <1>2, <1>7, PointerMoves, ToolKeeps DEF VerifyAddress, ChipInv, TypeOK, Progress
<1>8. CASE VerifyBlock
    <2> DEFINE n == Min({BlockSize, Len(image) - done})
               end == done + n
    <2>1. image \in Images /\ done < Len(image) /\ Len(image) \in Nat /\ done \in Nat
        BY <1>8, ImageCells DEF VerifyBlock, ChipInv, TypeOK, Progress
    <2>2. n \in {BlockSize, Len(image) - done}
        <3>1. BlockSize \in Int /\ Len(image) - done \in Int
            BY <1>3, <2>1
        <3> QED
            BY <3>1, MinOfTwo
    <2>3. n \in Nat /\ end \in Nat /\ pointer + end - done \in Nat
        BY <1>2, <1>3, <2>1, <2>2
    <2>4. pointer' = (pointer + end - done) % CellsPerBlock
        BY <1>8 DEF VerifyBlock
    <2>5. ChipOK' /\ DOMAIN chip' = DOMAIN chip
        BY <1>1, <1>8, <2>3, <2>4, PointerMoves DEF VerifyBlock
    <2>6. \/ /\ end < Len(image) /\ done' = end /\ tool' \in {"address", "verifying"}
             /\ UNCHANGED <<image, verified>>
          \/ tool' = "idle" /\ image' = NoImage /\ done' = 0 /\ verified' \in {image, verified}
        BY <1>8 DEF VerifyBlock
    <2> HIDE DEF end
    <2>7. /\ tool' \in {"idle", "address", "verifying"} /\ done' \in Nat
          /\ tool' # "idle" => image' \in Images /\ done' < Len(image')
          /\ image' \in Images \cup {NoImage} /\ verified' \in Images \cup {NoImage}
        BY <2>1, <2>3, <2>6 DEF ChipInv, TypeOK
    <2> QED
        BY <1>8, <2>5, <2>7, ToolKeeps DEF VerifyBlock, ChipInv, TypeOK
<1>9. CASE AbortWrite
    BY <1>1, <1>9, PointerMoves, ToolKeeps DEF AbortWrite, ChipInv, TypeOK, Shape
<1>10. CASE SetAddress
    <2>1. ChipOK'
        BY <1>1, <1>10, PointerMoves DEF SetAddress
    <2> QED
        BY <1>1, <1>10, <2>1, DetectionKeeps DEF SetAddress, ChipInv, TypeOK, Progress
<1>11. CASE NoMoreBlocks
    <2>1. ChipOK'
        BY <1>1, <1>11, PointerMoves DEF NoMoreBlocks, Shape
    <2>2. step' \in 0 .. Reads - 1
        BY <1>3, <1>11 DEF NoMoreBlocks
    <2> QED
        BY <1>11, <2>1, <2>2, DetectionKeeps DEF NoMoreBlocks, ChipInv, TypeOK
<1>12. CASE ReadBlock
    <2> DEFINE block == IF wide THEN 0 ELSE step
               read == [i \in 1 .. ReadLen |-> chip[block][(pointer + i - 1) % CellsPerBlock]]
    <2>1. block \in DOMAIN chip
        BY <1>1, <1>12 DEF ReadBlock, ChipInv, Progress
    <2>2. read \in Seq(Cells)
        <3> SUFFICES ASSUME NEW i \in 1 .. ReadLen
                     PROVE  chip[block][(pointer + i - 1) % CellsPerBlock] \in Cells
            BY <1>3
        <3>1. pointer + i - 1 \in Nat
            BY <1>2, <1>3
        <3> QED
            BY <1>1, <1>2, <2>1, <3>1
    <2>3. content' \in Seq(Cells)
        BY <1>12, <2>2 DEF ReadBlock, ChipInv, TypeOK
    <2>4. ChipOK'
        <3>1. pointer + ReadLen \in Nat /\ pointer' = (pointer + ReadLen) % CellsPerBlock
            BY <1>2, <1>3, <1>12 DEF ReadBlock
        <3> QED
            BY <1>1, <1>12, <3>1, PointerMoves DEF ReadBlock
    <2>5. \/ step + 1 = Reads /\ at' = "parse" /\ step' = 0
          \/ step + 1 # Reads /\ wide /\ at' = "data" /\ step' = step + 1
          \/ step + 1 # Reads /\ ~wide /\ at' = "address" /\ step' = step + 1
        BY <1>12 DEF ReadBlock
    <2>6. step' \in 0 .. Reads - 1
        BY <1>3, <2>5 DEF ChipInv, TypeOK
    <2>7. UNCHANGED <<wide, chip, flaws, result, readOf>> /\ Disturbs
        BY <1>12 DEF ReadBlock
    <2> QED
        BY <2>3, <2>4, <2>5, <2>6, <2>7, DetectionKeeps DEF ChipInv, TypeOK
<1>13. CASE ReadFails
    <2>1. ChipOK'
        BY <1>1, <1>13, PointerMoves DEF ReadFails, Shape
    <2>2. step' \in 0 .. Reads - 1
        BY <1>3, <1>13 DEF ReadFails
    <2> QED
        BY <1>13, <2>1, <2>2, DetectionKeeps DEF ReadFails, ChipInv, TypeOK
<1>14. CASE Parse
    <2>1. content \in Seq(Cells) /\ result' = ParseFromBytes(content)
        BY <1>14 DEF Parse, ChipInv, TypeOK
    <2>2. ChipOK'
        BY <1>1, <1>14, PointerMoves DEF Parse, Shape
    <2>3. /\ result' # Rejected =>
                /\ \A k \in DOMAIN result'.known : result'.known[k] \in KnownType[k]
                /\ \A k \in DOMAIN result'.extra : result'.extra[k] \in Supported
          /\ AcceptedIsOneImage'
        BY <2>1, ParsedInfo DEF AcceptedIsOneImage
    <2>4. at' = "idle" /\ content' = <<>> /\ UNCHANGED <<wide, toolVars, step, flaws, readOf>>
        BY <1>14 DEF Parse
    <2>5. step = 0
        BY <1>14 DEF Parse, ChipInv, Progress
    <2>6. TypeOK'
        BY <1>3, <2>2, <2>3, <2>4 DEF ChipInv, TypeOK, Reads
    <2>7. Progress'
        BY <2>4, <2>5 DEF ChipInv, Progress
    <2> QED
        BY <2>3, <2>6, <2>7 DEF ChipInv
<1>15. CASE ZeroFirstByte
    <2>1. chip' = [chip EXCEPT ![0][0] = ZeroedMagic] /\ UNCHANGED pointer
        BY <1>15 DEF ZeroFirstByte
    <2>2. ZeroedMagic \in Cells /\ 0 \in 0 .. len - 1
        BY DEF Cells
    <2>3. ChipOK' /\ DOMAIN chip' = DOMAIN chip
        BY <1>1, <1>4, <2>1, <2>2
    <2>4. flaws' \in 0 .. MaxFlaws
        BY <1>15, ChipAssumption DEF ZeroFirstByte, ChipInv, TypeOK
    <2> QED
        BY <1>15, <2>3, <2>4
            DEF ZeroFirstByte, ChipInv, TypeOK, Progress, AcceptedIsOneImage, Reads
<1>16. CASE CellGoesBad
    <2>1. PICK b \in DOMAIN chip, i \in 0 .. len - 1 :
              chip' = [chip EXCEPT ![b][i] = Junk] /\ UNCHANGED pointer
        BY <1>2, <1>16 DEF CellGoesBad
    <2>2. Junk \in Cells
        BY DEF Cells
    <2>3. ChipOK' /\ DOMAIN chip' = DOMAIN chip
        BY <1>4, <2>1, <2>2
    <2>4. flaws' \in 0 .. MaxFlaws
        BY <1>16, ChipAssumption DEF CellGoesBad, ChipInv, TypeOK
    <2> QED
        BY <1>16, <2>3, <2>4
            DEF CellGoesBad, ChipInv, TypeOK, Progress, AcceptedIsOneImage, Reads
<1>17. CASE UNCHANGED vars
    BY <1>17 DEF vars, ChipInv, TypeOK, ChipOK, Progress, AcceptedIsOneImage, Reads
<1> QED
    BY <1>5, <1>6, <1>7, <1>8, <1>9, <1>10, <1>11, <1>12, <1>13, <1>14, <1>15, <1>16, <1>17
        DEF Next
-----------------------------------------------------------------------------
(* The theorems *)

LEMMA ChipInvariant == Spec => []ChipInv
<1>1. Init => ChipInv
    BY ChipInit
<1>2. ChipInv /\ [Next]_vars => ChipInv'
    BY ChipNext
<1> QED
    BY <1>1, <1>2, PTL DEF Spec

\* Chip, tool and detection stay well typed: the data address within a block, the
\* reading within the chip's claimed size, and of an info that parse_from_bytes
\* accepts, every known value has its key's type and every extra value a supported one.
THEOREM TypeCorrect == Spec => []TypeOK
<1>1. ChipInv => TypeOK
    BY DEF ChipInv
<1> QED
    BY <1>1, ChipInvariant, PTL

\* However toh_writer's pages, its verification, detection's reads and flaws of the
\* chip are mixed, on a chip of blocks as on one of up to 64 kB, parse_from_bytes
\* accepts only what one image says, with its own IDs and its whole payload.
THEOREM Accepted == Spec => []AcceptedIsOneImage
<1>1. ChipInv => AcceptedIsOneImage
    BY DEF ChipInv
<1> QED
    BY <1>1, ChipInvariant, PTL
=============================================================================
