---------------------------- MODULE ChipContent ----------------------------
(***************************************************************************)
(* The content of a memory chip: Info::into_bytes makes an image of it     *)
(* (src/toh/info.rs), toh_writer puts it on the chip page by page, and     *)
(* detection reads it block by block (read_chip, src/back_cover.rs) and    *)
(* parses it (Info::parse_from_bytes).  Writer and daemon do not know of   *)
(* each other, the writer can be stopped at any page, and cells can go     *)
(* bad.                                                                    *)
(*                                                                         *)
(* A cell of the chip holds one unit of the format: magic, checksum, IDs,  *)
(* payload size, the CBOR map's number of entries, or one of its entries.  *)
(* The checksum is what it was computed over (CRC-32 without collisions).  *)
(***************************************************************************)
EXTENDS Integers, Sequences, FiniteSetsExt

CONSTANTS
    Infos,       \* what into_bytes is given
    Foreign,     \* <<ids, payload>> of images that other tools make
    Before,      \* the order of the keys in a BTreeMap: pairs of keys
    Text, Bool,  \* values of these types
    Small, Zero, \* integers that fit into a u8, and the zero among them
    Long,        \* other integers that fit into 64 bits
    Written,     \* extra value -> the other one as which it is written: I64 of a
                 \* number >= 0 as U64, tag 2 or 3 of bytes as the big number
    BlockSize, Blocks,     \* in cells: chips with blocks of 256 bytes
    ChunkSize, Chunks,     \* in cells: how chips of up to 64 kB are read
    WideSizes,   \* in cells: the sizes that those chips really have
    PageSize,    \* in cells: what toh_writer writes at once
    SizeMod,     \* 2^16 of the size field
    MaxWrites,   \* bound: images written
    MaxFlaws,    \* bound: cells that go bad
    NoImage, NoInfo, Rejected

HeaderSize == 4
Supported == Text \cup Bool \cup Small \cup Long

\* The cells.  What a chip holds that was never written, or a cell gone bad, is
\* none of the others.
Magic == [magic |-> "JTOH"]
ZeroedMagic == [magic |-> "\\0TOH"]
Crc(body) == [crc |-> body]
Ids(ids) == [ids |-> ids]
Size(n) == [size |-> n]
Count(n) == [count |-> n]
Entry(k, v) == [key |-> k, value |-> v]
Blank == [flaw |-> "blank"]
Junk == [flaw |-> "junk"]

ASSUME ChipAssumption ==
    /\ {BlockSize, Blocks, ChunkSize, Chunks, PageSize} \subseteq Nat \ {0}
    /\ ChunkSize % BlockSize = 0 /\ WideSizes \subseteq 1 .. ChunkSize * Chunks
    /\ \A n \in WideSizes \cup {BlockSize} : PageSize <= n
    /\ SizeMod \in Nat \ {0} /\ SizeMod >= BlockSize * Blocks /\ SizeMod >= ChunkSize * Chunks
    /\ Zero \in Small
    /\ MaxWrites \in Nat /\ MaxFlaws \in Nat

\* The known keys and the types of their values.
KnownType ==
    [SC |-> Small, SN |-> Text, VN |-> Text, PN |-> Text, VS |-> Text, PS |-> Text,
     PO |-> Bool, PI |-> Bool]
KnownKeys == DOMAIN KnownType

\* What reads as itself is written as it is.
ASSUME WrittenAssumption == Supported \cap DOMAIN Written = {}

\* What the types of Info say.
ASSUME InfosAssumption ==
    \A i \in Infos :
        /\ DOMAIN i.known \subseteq KnownKeys
        /\ \A k \in DOMAIN i.known : i.known[k] \in KnownType[k]
        /\ IsFiniteSet(DOMAIN i.extra)
        /\ \A k \in DOMAIN i.extra : i.extra[k] \in Supported \cup DOMAIN Written
ASSUME ForeignAssumption ==
    \A f \in Foreign :
        /\ f[2] \in Seq({f[2][j] : j \in DOMAIN f[2]})
        /\ \A j \in DOMAIN f[2] : DOMAIN f[2][j] \in {{"count"}, {"key", "value"}}
ASSUME OrderAssumption ==
    LET Keys == KnownKeys \cup UNION {DOMAIN i.extra : i \in Infos} IN
    /\ \A j, k \in Keys : j = k \/ <<j, k>> \in Before \/ <<k, j>> \in Before
    /\ \A j \in Keys : <<j, j>> \notin Before
    /\ \A j, k, l \in Keys : <<j, k>> \in Before /\ <<k, l>> \in Before => <<j, l>> \in Before
ASSUME ResultAssumption == NoInfo # Rejected

Pick(map, keys) == [k \in DOMAIN map \cap keys |-> map[k]]
Drop(map, keys) == [k \in DOMAIN map \ keys |-> map[k]]

\* A map into which the entries of another are inserted.
Insert(map, other) ==
    [k \in DOMAIN map \cup DOMAIN other |-> IF k \in DOMAIN other THEN other[k] ELSE map[k]]

-----------------------------------------------------------------------------
(* Info::into_bytes *)

\* into_cbor.  An item is named like the value as which it is read: an integer is
\* a U64 if it can be, whatever it was when it was written.
IntoCbor(v) == IF v \in DOMAIN Written THEN Written[v] ELSE v

ExtraCbor(info) == [k \in DOMAIN info.extra |-> IntoCbor(info.extra[k])]

\* The schema version is always zero, and missing when there is nothing else.
\* Extra keys come last and win.
GetPayload(info) ==
    LET known == Drop(info.known, {"SC"}) IN
    Insert(IF DOMAIN known = {} THEN known ELSE Insert([SC |-> Zero], known),
           ExtraCbor(info))

\* The key at a place of the payload.
KeyAt(map, i) ==
    CHOOSE k \in DOMAIN map : Cardinality({j \in DOMAIN map : <<j, k>> \in Before}) = i - 1

Cbor(map) ==
    LET size == Cardinality(DOMAIN map) IN
    <<Count(size)>> \o [i \in 1 .. size |-> Entry(KeyAt(map, i), map[KeyAt(map, i)])]

\* The header in front of a payload; the size field wraps.
Sealed(ids, payload) ==
    LET body == <<Ids(ids), Size(Len(payload) % SizeMod)>> \o payload
    IN <<Magic, Crc(body)>> \o body

\* Without any keys there is not even an empty map.
IntoBytes(info) ==
    LET payload == GetPayload(info) IN
    Sealed(info.ids, IF DOMAIN payload = {} THEN <<>> ELSE Cbor(payload))

Images == {IntoBytes(i) : i \in Infos} \cup {Sealed(f[1], f[2]) : f \in Foreign}

Cells == {Blank, Junk, ZeroedMagic} \cup UNION {{i[j] : j \in 1 .. Len(i)} : i \in Images}

-----------------------------------------------------------------------------
(* Info::parse_from_bytes *)

\* What a size field says that was never written (0xffff) or went bad.
PayloadSize(data) ==
    IF "size" \in DOMAIN data[4] THEN data[4].size ELSE SizeMod - 1

\* Any bytes are IDs.
IdsOf(data) == IF "ids" \in DOMAIN data[3] THEN data[3].ids ELSE data[3]

\* What the checksum is computed over.
Covered(data) == SubSeq(data, 3, HeaderSize + PayloadSize(data))

\* Mutant of HeaderValid: the checksum leaves out the IDs.
HeaderValidButIds(data) ==
    /\ Len(data) >= HeaderSize
    /\ data[1] \in {Magic, ZeroedMagic}
    /\ Len(data) >= HeaderSize + PayloadSize(data)
    /\ "crc" \in DOMAIN data[2] /\ Tail(data[2].crc) = Tail(Covered(data))

\* The first byte may have been overwritten by zero.
HeaderValid(data) ==
    /\ Len(data) >= HeaderSize
    /\ data[1] \in {Magic, ZeroedMagic}
    /\ Len(data) >= HeaderSize + PayloadSize(data)
    /\ data[2] = Crc(Covered(data))

\* from_reader takes one CBOR item and ignores what follows it.
IsMap(payload) ==
    /\ payload # <<>> /\ "count" \in DOMAIN payload[1]
    /\ payload[1].count < Len(payload)

\* The map of the entries; the last one of a key wins.
Entries(payload) ==
    LET places == 2 .. payload[1].count + 1
        Of(k) == {i \in places : payload[i].key = k}
    IN [k \in {payload[i].key : i \in places} |->
           payload[CHOOSE i \in Of(k) : \A j \in Of(k) : j <= i].value]

\* Mutant of TypesMatch: the schema version is any integer.
TypesMatchWide(map) ==
    /\ \A k \in DOMAIN map \cap KnownKeys : map[k] \in KnownType[k] \cup Long
    /\ \A k \in DOMAIN map \ KnownKeys : map[k] \in Supported

TypesMatch(map) ==
    /\ \A k \in DOMAIN map \cap KnownKeys : map[k] \in KnownType[k]
    /\ \A k \in DOMAIN map \ KnownKeys : map[k] \in Supported

InfoOf(ids, map) ==
    [ids |-> ids, known |-> Pick(map, KnownKeys), extra |-> Drop(map, KnownKeys)]

ParseFromBytes(data) ==
    LET payload == SubSeq(data, HeaderSize + 1, HeaderSize + PayloadSize(data))
        map == Entries(payload)
    IN IF HeaderValid(data) /\ IsMap(payload) /\ TypesMatch(map)
       THEN InfoOf(IdsOf(data), map)
       ELSE Rejected

-----------------------------------------------------------------------------
VARIABLES
    wide,     \* the chip has one block of up to 64 kB, as the ID resistor says
    chip,     \* block -> the cells
    pointer,  \* the chip's data address, in the block it was last used for
    tool,     \* toh_writer: idle, writing, address or verifying
    image,    \* what it writes
    done,     \* how much of it is written, or verified
    at,       \* detection: idle, address, data or parse
    step,     \* the block, or the chunk of the only one, that it has come to
    content,  \* what it has read
    result,   \* of the last detection
    writes, flaws,
    alone,    \* history: nobody has moved the data address between the chunks of a
              \* chip that toh_writer verifies
    verified, \* history: the image that toh_writer has verified so and that is still
              \* on the chip (but for the first byte)
    readOf    \* history: the same, if it was all read by the last detection, with
              \* nobody else using the chip since it began

toolVars == <<tool, image, done, writes, alone, verified>>
readVars == <<at, step, content, result>>
vars == <<wide, chip, pointer, toolVars, readVars, flaws, readOf>>

\* What toh_writer takes for a block, and for the whole chip.
BlockLen == IF wide THEN ChunkSize * Chunks ELSE BlockSize
Capacity == IF wide THEN ChunkSize * Chunks ELSE BlockSize * Blocks

\* What is read at once.
ReadLen == IF wide THEN ChunkSize ELSE BlockSize
Reads == IF wide THEN Chunks ELSE Blocks

\* The chip goes on reading and writing at the start of the block after its end.
CellsPerBlock == Cardinality(DOMAIN chip[0])

ChipOK ==
    \E blocks \in 1 .. Blocks, len \in WideSizes \cup {BlockSize} :
        /\ chip \in [0 .. blocks - 1 -> [0 .. len - 1 -> Cells]]
        /\ pointer \in 0 .. len - 1

TypeOK ==
    /\ wide \in BOOLEAN /\ ChipOK
    /\ tool \in {"idle", "writing", "address", "verifying"} /\ image \in Images \cup {NoImage}
    /\ done \in Nat
    /\ at \in {"idle", "address", "data", "parse"} /\ step \in 0 .. Reads - 1
    /\ content \in Seq(Cells)
    /\ result \notin {NoInfo, Rejected} =>
         /\ \A k \in DOMAIN result.known : result.known[k] \in KnownType[k]
         /\ \A k \in DOMAIN result.extra : result.extra[k] \in Supported
    /\ writes \in 0 .. MaxWrites /\ flaws \in 0 .. MaxFlaws
    /\ alone \in BOOLEAN /\ {verified, readOf} \subseteq Images \cup {NoImage}

Init ==
    /\ \E blocks \in 1 .. Blocks, len \in WideSizes \cup {BlockSize} :
          /\ wide \in BOOLEAN
          /\ wide => blocks = 1 /\ len \in WideSizes
          /\ ~wide => len = BlockSize
          /\ chip = [b \in 0 .. blocks - 1 |-> [i \in 0 .. len - 1 |-> Blank]]
    /\ pointer = 0
    /\ tool = "idle" /\ image = NoImage /\ done = 0 /\ writes = 0
    /\ alone = TRUE /\ verified = NoImage
    /\ at = "idle" /\ step = 0 /\ content = <<>> /\ result = NoInfo
    /\ flaws = 0 /\ readOf = NoImage

-----------------------------------------------------------------------------
(* toh_writer *)

\* An image that does not fit on the chip is refused.
WriteChip ==
    /\ tool = "idle" /\ tool' = "writing"
    /\ writes < MaxWrites /\ writes' = writes + 1
    /\ image' \in {i \in Images : Len(i) <= Capacity}
    /\ done' = 0
    /\ UNCHANGED <<wide, chip, pointer, alone, verified, readVars, flaws, readOf>>

\* The block at which toh_writer is, if the chip has it, and the cells up to which
\* a page goes: to the end of the block or of the image.
Block == done \div BlockLen
PageEnd == done + Min({PageSize, BlockLen - (done % BlockLen), Len(image) - done})

WritePage ==
    LET to(i) == {j \in done + 1 .. PageEnd : (j - 1 - Block * BlockLen) % CellsPerBlock = i}
    IN
    /\ tool = "writing" /\ Block \in DOMAIN chip
    /\ chip' = [chip EXCEPT ![Block] =
                   [i \in DOMAIN @ |-> IF to(i) = {} THEN @[i]
                                                   ELSE image[CHOOSE j \in to(i) : TRUE]]]
    /\ pointer' = (PageEnd - Block * BlockLen) % CellsPerBlock
    /\ IF PageEnd < Len(image) THEN done' = PageEnd /\ UNCHANGED tool
                               ELSE done' = 0 /\ tool' = "address"
    /\ verified' = NoImage /\ readOf' = NoImage
    /\ UNCHANGED <<wide, image, writes, alone, readVars, flaws>>

\* verify_chip sets the data address of each block to zero.
VerifyAddress ==
    /\ tool = "address" /\ Block \in DOMAIN chip
    /\ tool' = "verifying" /\ pointer' = 0
    /\ alone' = TRUE /\ readOf' = NoImage
    /\ UNCHANGED <<wide, chip, image, done, writes, verified, readVars, flaws>>

\* What it reads from there on, 256 bytes or up to the end of the image at once,
\* is compared with it.
VerifyBlock ==
    LET end == done + Min({BlockSize, Len(image) - done})
        cell(j) == chip[Block][(pointer + j - 1 - done) % CellsPerBlock]
        same == \A j \in done + 1 .. end : cell(j) = image[j]
    IN
    /\ tool = "verifying"
    /\ pointer' = (pointer + end - done) % CellsPerBlock
    /\ IF same /\ end < Len(image)
         THEN /\ done' = end /\ tool' = IF end % BlockLen = 0 THEN "address" ELSE "verifying"
              /\ UNCHANGED <<image, verified>>
         ELSE /\ tool' = "idle" /\ image' = NoImage /\ done' = 0
              /\ verified' = IF same /\ alone THEN image ELSE verified
    /\ readOf' = NoImage
    /\ UNCHANGED <<wide, chip, writes, alone, readVars, flaws>>

\* The tool is stopped, the TOH removed, or a transfer fails.
AbortWrite ==
    /\ tool # "idle" /\ tool' = "idle" /\ image' = NoImage /\ done' = 0
    /\ UNCHANGED <<wide, chip, pointer, writes, alone, verified, readVars, flaws, readOf>>

-----------------------------------------------------------------------------
(* Detection *)

\* A chip of blocks is back at its data address after each read.
Disturbs == alone' = ~wide /\ UNCHANGED <<tool, image, done, writes, verified>>

\* Mutant of SetAddress: the data address is not set.
SetTargetOnly ==
    /\ at \in {"idle", "address"} /\ at' = "data"
    /\ at = "address" => step \in DOMAIN chip
    /\ readOf' = IF at = "idle" THEN verified ELSE readOf
    /\ result' = NoInfo
    /\ Disturbs
    /\ UNCHANGED <<wide, chip, pointer, step, content, flaws>>

\* set_target_address and the data address of a block.
SetAddress ==
    /\ at \in {"idle", "address"} /\ at' = "data"
    /\ at = "address" => step \in DOMAIN chip
    /\ readOf' = IF at = "idle" THEN verified ELSE readOf
    /\ pointer' = 0
    /\ result' = NoInfo
    /\ Disturbs
    /\ UNCHANGED <<wide, chip, step, content, flaws>>

\* A chip that does not answer at another than its first block is at its end.
NoMoreBlocks ==
    /\ at = "address" /\ at' = "parse" /\ step' = 0
    /\ readOf' = IF step \in DOMAIN chip THEN NoImage ELSE readOf
    /\ UNCHANGED <<wide, chip, pointer, toolVars, content, result, flaws>>

\* A block, or a chunk, from the data address on and around: whoever has used
\* the chip in between has moved it.
ReadBlock ==
    LET block == IF wide THEN 0 ELSE step
        read == [i \in 1 .. ReadLen |-> chip[block][(pointer + i - 1) % CellsPerBlock]]
    IN
    /\ at = "data"
    /\ content' = content \o read
    /\ pointer' = (pointer + ReadLen) % CellsPerBlock
    /\ IF step + 1 = Reads THEN at' = "parse" /\ step' = 0
                           ELSE at' = (IF wide THEN "data" ELSE "address") /\ step' = step + 1
    /\ Disturbs
    /\ UNCHANGED <<wide, chip, result, flaws, readOf>>

\* Any error but that one ends the detection.
ReadFails ==
    /\ at \in {"address", "data"} /\ at' = "idle" /\ step' = 0 /\ content' = <<>>
    /\ result' = NoInfo /\ readOf' = NoImage
    /\ UNCHANGED <<wide, chip, pointer, toolVars, flaws>>

Parse ==
    /\ at = "parse" /\ at' = "idle" /\ content' = <<>>
    /\ result' = ParseFromBytes(content)
    /\ UNCHANGED <<wide, chip, pointer, toolVars, step, flaws, readOf>>

-----------------------------------------------------------------------------
\* The first byte of the chip is overwritten by accident.
ZeroFirstByte ==
    /\ flaws < MaxFlaws /\ flaws' = flaws + 1
    /\ chip[0][0] = Magic /\ chip' = [chip EXCEPT ![0][0] = ZeroedMagic]
    /\ UNCHANGED <<wide, pointer, toolVars, readVars, readOf>>

\* (Not during a verification, so that what was verified is on the chip.)
CellGoesBad ==
    /\ tool \notin {"address", "verifying"}
    /\ flaws < MaxFlaws /\ flaws' = flaws + 1
    /\ \E b \in DOMAIN chip : \E i \in DOMAIN chip[b] : chip' = [chip EXCEPT ![b][i] = Junk]
    /\ verified' = NoImage /\ readOf' = NoImage
    /\ UNCHANGED <<wide, pointer, tool, image, done, writes, alone, readVars>>

Next ==
    \/ WriteChip \/ WritePage \/ VerifyAddress \/ VerifyBlock \/ AbortWrite
    \/ SetAddress \/ NoMoreBlocks \/ ReadBlock \/ ReadFails \/ Parse
    \/ ZeroFirstByte \/ CellGoesBad

Spec == Init /\ [][Next]_vars

-----------------------------------------------------------------------------
(* Properties *)

\* What detection accepts is exactly what one image says, with its own IDs and
\* its whole payload, however writing, reading and flaws were mixed.
AcceptedIsOneImage ==
    result \in {NoInfo, Rejected} \/ \E i \in Images :
        LET payload == SubSeq(i, HeaderSize + 1, Len(i)) IN
        /\ IsMap(payload)
        /\ result = InfoOf(i[3].ids, Entries(payload))

\* An info that can be read: it has some key, no extra key takes the place of a
\* known one, and its numbers have no more than 64 bits.
Readable(info) ==
    /\ DOMAIN GetPayload(info) # {}
    /\ DOMAIN info.extra \cap KnownKeys = {}
    /\ \A k \in DOMAIN info.extra : IntoCbor(info.extra[k]) \in Supported

\* How it comes back: with the schema version of the format, and extra values
\* that may have changed their type.
ReadAs(info) ==
    [ids |-> info.ids, known |-> Pick(GetPayload(info), KnownKeys), extra |-> ExtraCbor(info)]

\* A chip that was written and verified, and left alone but for its first byte,
\* gives back what into_bytes was given when it is read to the end, but for the
\* schema version and for extra values that CBOR does not tell from others.  (A
\* verification of a chip of up to 64 kB into which detection reads compares
\* cells at other places, and says nothing.)
ReadBack ==
    at = "idle" /\ readOf # NoImage =>
        \A i \in Infos : Readable(i) /\ readOf = IntoBytes(i) => result = ReadAs(i)
=============================================================================
