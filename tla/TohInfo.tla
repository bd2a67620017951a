------------------------------ MODULE TohInfo ------------------------------
(***************************************************************************)
(* What a client of the library learns of a TOH: Configs publishes         *)
(* objects, their properties go over D-Bus (src/dbus/server.rs), and       *)
(* detect of the client's Toh (src/toh/client.rs) fetches them one by one  *)
(* while TOHs come and go and the daemon ends and starts.                  *)
(*                                                                         *)
(* A Toh has one proxy for all its detects.  The first access to a         *)
(* property takes all of them in one message and the proxy caches them; as *)
(* nothing ever tells it of a change, it answers from that from then on.   *)
(***************************************************************************)
EXTENDS Configs

CONSTANTS
    VendorId, ProductId, \* TOH -> its IDs
    Fields,    \* the members of Known in the order in which they are fetched
    NullText,  \* what stands for None where D-Bus has no null: the empty text
    Sent(_), Received(_), \* the conversions of a value of extra data
    Sendable(_),          \* D-Bus can express it
    NotReceived,          \* what Received gives when there is no such value
    Leaves(_)             \* the scalars in a value, each with its place

VARIABLES
    fetched,  \* the properties the present detect has got, in their order
    detect,   \* "idle", "fetching", and how the last detect has ended
    cache,    \* the proxy's: the object that its properties are of
    missed,   \* the proxy remembers that its first access failed
    shown     \* history: what has been published since the client was made

clientVars == <<fetched, detect, cache, missed, shown>>
allVars == <<vars, clientVars>>

ASSUME FieldsAssumption ==
    /\ Fields \in Seq(Known) /\ {Fields[i] : i \in DOMAIN Fields} = Known
    /\ Known \cap {"vendor_id", "product_id", "extra_data"} = {}

\* What D-Bus can express comes back with all of its scalars (ExtraValue).
ASSUME ConversionAssumption ==
    \A v \in Values : Sendable(v) =>
        Received(Sent(v)) # NotReceived /\ Leaves(Received(Sent(v))) = Leaves(v)

Properties == <<"vendor_id", "product_id">> \o Fields \o <<"extra_data">>
Detects == {"idle", "fetching", "some", "none", "service unknown", "conversion error"}

-----------------------------------------------------------------------------
(* The interface *)

\* Optional<T> of zvariant on its way there and back: the null value of a
\* type, like the empty text, and None are the same on D-Bus.
ToOptional(field) == IF field = None THEN NullText ELSE field
FromOptional(value) == IF value = NullText THEN None ELSE value

\* extra_data on both sides of the connection
SendableIn(extra) == {k \in DOMAIN extra : Sendable(extra[k])}
ExtraData(extra) == [k \in SendableIn(extra) |-> Sent(extra[k])]
FetchExtra(data) == [k \in DOMAIN data |-> Received(data[k])]

\* Mutant of Property: what cannot be converted is not left out.
PropertyAll(o, property) ==
    CASE property = "vendor_id" -> VendorId[o.toh]
      [] property = "product_id" -> ProductId[o.toh]
      [] property = "extra_data" ->
           [k \in {e \in Extra : o.info[e] # None} |-> Sent(o.info[k])]
      [] OTHER -> ToOptional(o.info[property])

\* The property getters of the published object.
Property(o, property) ==
    CASE property = "vendor_id" -> VendorId[o.toh]
      [] property = "product_id" -> ProductId[o.toh]
      [] property = "extra_data" ->
           ExtraData([k \in {e \in Extra : o.info[e] # None} |-> o.info[k]])
      [] OTHER -> ToOptional(o.info[property])

\* A property as the client has it in its own Info.
Converted(property, value) ==
    CASE property \in {"vendor_id", "product_id"} -> value
      [] property = "extra_data" -> FetchExtra(value)
      [] OTHER -> FromOptional(value)

-----------------------------------------------------------------------------
(* The client *)

\* Toh::new, which sends nothing yet.
NewClient ==
    /\ detect # "fetching" /\ detect' = "idle"
    /\ fetched' = <<>> /\ cache' = NoObject /\ missed' = FALSE /\ shown' = {object}

StartDetect ==
    /\ detect # "fetching" /\ detect' = "fetching"
    /\ fetched' = <<>> /\ UNCHANGED <<cache, missed, shown>>

\* Mutant of Fetch: without a cache, each property is asked for on its own.
FetchUncached ==
    /\ detect = "fetching" /\ object # NoObject
    /\ \E property \in {Properties[Len(fetched) + 1]} :
          fetched' = Append(fetched, Converted(property, Property(object, property)))
    /\ detect' = IF Len(fetched') = Len(Properties) THEN "some" ELSE "fetching"
    /\ UNCHANGED <<cache, missed, shown>>

\* fetch_info gets the next property and converts it, with the last one done.
Fetch ==
    LET property == Properties[Len(fetched) + 1]
        source == IF cache = NoObject THEN object ELSE cache
    IN
    /\ detect = "fetching" /\ source # NoObject /\ ~missed
    /\ cache' = source
    /\ fetched' = Append(fetched, Converted(property, Property(source, property)))
    /\ detect' = IF \E v \in {Property(source, property)} :
                       property = "extra_data"
                       /\ \E k \in DOMAIN v : Received(v[k]) = NotReceived
                   THEN "conversion error"
                 ELSE IF Len(fetched') = Len(Properties) THEN "some" ELSE "fetching"
    /\ UNCHANGED <<missed, shown>>

\* UnknownObject means that there is no TOH; that nobody owns the name of the
\* service is an error.  The proxy may try again the next time, or not.
FetchFails ==
    /\ detect = "fetching" /\ cache = NoObject
    /\ \/ missed /\ detect' \in {"service unknown", "none"} /\ UNCHANGED missed
       \/ /\ object = NoObject /\ missed' \in BOOLEAN
          /\ detect' = IF pc = "down" THEN "service unknown" ELSE "none"
    /\ UNCHANGED <<fetched, cache, shown>>

ClientStep == (NewClient \/ StartDetect \/ Fetch \/ FetchFails) /\ UNCHANGED vars

DaemonStep ==
    /\ Next
    /\ shown' = shown \cup {object'}
    /\ UNCHANGED <<fetched, detect, cache, missed>>

InfoInit ==
    /\ Init /\ fetched = <<>> /\ detect = "idle" /\ cache = NoObject /\ missed = FALSE
    /\ shown = {object}
InfoNext == ClientStep \/ DaemonStep
InfoSpec == InfoInit /\ [][InfoNext]_allVars

-----------------------------------------------------------------------------
(* Safety *)

\* An Info as a client should get it: None for what has the null value, and
\* the extra data without what D-Bus cannot express.
Image(o) ==
    <<VendorId[o.toh], ProductId[o.toh]>>
    \o [i \in DOMAIN Fields |-> IF o.info[Fields[i]] = NullText THEN None
                                                              ELSE o.info[Fields[i]]]

\* The extra data, scalar by scalar.
LeavesOf(extra) == {<<k, Leaves(extra[k])>> : k \in DOMAIN extra}

\* The client has got this Info.
Got(o) ==
    LET extra == [k \in {e \in Extra : o.info[e] # None} |-> o.info[k]] IN
    /\ SubSeq(fetched, 1, Len(Image(o))) = Image(o)
    /\ LeavesOf(fetched[Len(fetched)]) = {<<k, Leaves(extra[k])>> : k \in SendableIn(extra)}

\* What detect returns is the Info of one TOH that was published since the
\* client was made, not the properties of several, whatever is exchanged while
\* it fetches; and it does return one if a TOH was published all the time,
\* which is that one.  (Otherwise the Info may be that of a TOH that has gone.)
DetectAgrees ==
    detect \notin {"idle", "fetching"} =>
        /\ NoObject \notin shown => detect = "some"
        /\ detect # "conversion error"
        /\ detect = "some" => \E o \in shown \ {NoObject} : Got(o)
=============================================================================
