--------------------------- MODULE TohInfo_proofs ---------------------------
(***************************************************************************)
(* Proof that detect of the client library returns the info of one object  *)
(* that was published since the client was made, and does return one if    *)
(* there was one all the time, while it fetches the properties one by one. *)
(***************************************************************************)
EXTENDS TohInfo, Configs_proofs

\* A property of an object as the client has it in its own Info.
Own(o, property) == Converted(property, Property(o, property))

\* What the client has got is of the object that the proxy has cached, one that
\* was published; and nothing goes wrong as long as there is a TOH.
ClientInv ==
    /\ fetched \in Seq({fetched[i] : i \in 1 .. Len(fetched)})
    /\ object \in shown
    /\ cache # NoObject => cache \in shown /\ cache \in Object
    /\ detect = "fetching" => Len(fetched) < Len(Properties)
    /\ detect = "some" => Len(fetched) = Len(Properties)
    /\ detect # "conversion error"
    /\ fetched # <<>> => cache # NoObject
    /\ \A i \in 1 .. Len(fetched) : fetched[i] = Own(cache, Properties[i])
    /\ NoObject \notin shown => ~missed /\ detect \in {"idle", "fetching", "some"}

-----------------------------------------------------------------------------
\* The daemon of TohInfo is that of Configs.
LEMMA InfoImplementsSpec == InfoSpec => Spec
<1>1. InfoInit => Init
    BY DEF InfoInit
<1>2. [InfoNext]_allVars => [Next]_vars
    <2>1. UNCHANGED allVars => UNCHANGED vars
        BY DEF allVars
    <2>2. InfoNext => [Next]_vars
        BY DEF InfoNext, ClientStep, DaemonStep
    <2> QED
        BY <2>1, <2>2
<1> QED
    BY <1>1, <1>2, PTL DEF InfoSpec, Spec

\* The IDs come first and the extra data last.
LEMMA PropertyPlaces ==
    LET n == Len(Fields) IN
    /\ n \in Nat /\ Len(Properties) = n + 3
    /\ Properties[1] = "vendor_id" /\ Properties[2] = "product_id"
    /\ \A i \in 1 .. n : Properties[i + 2] = Fields[i] /\ Fields[i] \in Known
    /\ Properties[n + 3] = "extra_data"
<1> DEFINE S == Known \cup {"vendor_id", "product_id", "extra_data"}
           first == <<"vendor_id", "product_id">>
           last == <<"extra_data">>
           n == Len(Fields)
<1>1. Fields \in Seq(S) /\ n \in Nat /\ \A i \in 1 .. n : Fields[i] \in Known
    BY FieldsAssumption
<1>2. first \in Seq(S) /\ Len(first) = 2 /\ first[1] = "vendor_id" /\ first[2] = "product_id"
    OBVIOUS
<1>3. last \in Seq(S) /\ Len(last) = 1 /\ last[1] = "extra_data"
    OBVIOUS
<1>4. Properties = (first \o Fields) \o last
    BY DEF Properties
<1> HIDE DEF first, last, S, n
<1>a. n = Len(Fields)
    BY DEF n
<1>5. /\ first \o Fields \in Seq(S) /\ Len(first \o Fields) = 2 + n
      /\ \A i \in 1 .. 2 + n : (first \o Fields)[i] = IF i <= 2 THEN first[i] ELSE Fields[i - 2]
    <2>1. /\ first \o Fields \in Seq(S) /\ Len(first \o Fields) = Len(first) + Len(Fields)
          /\ \A i \in 1 .. Len(first) + Len(Fields) :
                (first \o Fields)[i] = IF i <= Len(first) THEN first[i] ELSE Fields[i - Len(first)]
        BY <1>1, <1>2, ConcatProperties
    <2> QED
        BY <1>a, <1>2, <2>1, Zenon
<1> DEFINE middle == first \o Fields
<1> HIDE DEF middle
<1>6. middle \in Seq(S) /\ Len(middle) = 2 + n
      /\ \A i \in 1 .. 2 + n : middle[i] = IF i <= 2 THEN first[i] ELSE Fields[i - 2]
    BY <1>5 DEF middle
<1>7. /\ Len(middle \o last) = 2 + n + 1
      /\ \A i \in 1 .. 2 + n + 1 :
            (middle \o last)[i] = IF i <= 2 + n THEN middle[i] ELSE last[i - (2 + n)]
    <2>1. /\ Len(middle \o last) = Len(middle) + Len(last)
          /\ \A i \in 1 .. Len(middle) + Len(last) :
                (middle \o last)[i] = IF i <= Len(middle) THEN middle[i]
                                                        ELSE last[i - Len(middle)]
        BY <1>3, <1>6, ConcatProperties
    <2>2. Len(middle) = 2 + n /\ Len(last) = 1
        BY <1>3, <1>6
    <2> QED
        BY <2>1, <2>2, Zenon
<1>8. Properties = middle \o last
    BY <1>4 DEF middle
<1>9. Len(Properties) = n + 3 /\ Properties[1] = "vendor_id" /\ Properties[2] = "product_id"
      /\ Properties[n + 3] = "extra_data"
    BY <1>1, <1>2, <1>3, <1>6, <1>7, <1>8
<1>10. ASSUME NEW i \in 1 .. n PROVE Properties[i + 2] = Fields[i]
    <2>1. i + 2 \in 1 .. 2 + n /\ ~(i + 2 <= 2) /\ (i + 2) - 2 = i /\ i + 2 \in 1 .. 2 + n + 1
          /\ i + 2 <= 2 + n
        BY <1>1
    <2>2. middle[i + 2] = Fields[i]
        BY <1>6, <2>1
    <2> QED
        BY <1>7, <1>8, <2>1, <2>2
<1> QED
    BY <1>a, <1>1, <1>9, <1>10

\* What goes out of an object's extra data is what D-Bus can express, and all of
\* it can be converted back.
LEMMA ExtraComesBack ==
    ASSUME NEW o \in Object
    PROVE  LET extra == [k \in {e \in Extra : o.info[e] # None} |-> o.info[k]] IN
           /\ Property(o, "extra_data") = [k \in SendableIn(extra) |-> Sent(extra[k])]
           /\ Own(o, "extra_data") =
                 [k \in SendableIn(extra) |-> Received(Sent(extra[k]))]
           /\ \A k \in SendableIn(extra) :
                 /\ Received(Sent(extra[k])) # NotReceived
                 /\ Leaves(Received(Sent(extra[k]))) = Leaves(extra[k])
<1> DEFINE extra == [k \in {e \in Extra : o.info[e] # None} |-> o.info[k]]
<1>1. Property(o, "extra_data") = ExtraData(extra)
    BY DEF Property
<1>2. \A k \in DOMAIN extra : extra[k] \in Values
    BY DEF Object, Info, Keys
<1> HIDE DEF extra
<1>3. Own(o, "extra_data") = FetchExtra(ExtraData(extra))
    BY <1>1 DEF Own, Converted
<1>4. FetchExtra(ExtraData(extra)) = [k \in SendableIn(extra) |-> Received(Sent(extra[k]))]
    BY DEF FetchExtra, ExtraData
<1>5. \A k \in SendableIn(extra) :
          /\ Received(Sent(extra[k])) # NotReceived
          /\ Leaves(Received(Sent(extra[k]))) = Leaves(extra[k])
    BY <1>2, ConversionAssumption DEF SendableIn
<1> QED
    BY <1>1, <1>3, <1>4, <1>5 DEF ExtraData, extra

\* A field goes over D-Bus as it is, or comes back as None.
LEMMA FieldComesBack ==
    ASSUME NEW o, NEW field \in Known
    PROVE  Own(o, field) = IF o.info[field] = NullText THEN None ELSE o.info[field]
<1>1. field # "vendor_id" /\ field # "product_id" /\ field # "extra_data"
    BY FieldsAssumption
<1>2. Property(o, field) = ToOptional(o.info[field])
    BY <1>1 DEF Property
<1>3. Own(o, field) = FromOptional(ToOptional(o.info[field]))
    BY <1>1, <1>2 DEF Own, Converted
<1> QED
    BY <1>3 DEF FromOptional, ToOptional

-----------------------------------------------------------------------------
LEMMA ClientNext == TypeOK /\ ClientInv /\ [InfoNext]_allVars => ClientInv'
<1> SUFFICES ASSUME TypeOK, ClientInv, [InfoNext]_allVars PROVE ClientInv'
    OBVIOUS
<1>0. Properties' = Properties
    BY DEF Properties
<1>1. Len(Properties) \in Nat /\ Len(Properties) > 0
    BY PropertyPlaces
<1>2. CASE (NewClient \/ StartDetect) /\ UNCHANGED vars
    <2>1. /\ fetched' = <<>> /\ detect' \in {"idle", "fetching"} /\ object' = object
          /\ \/ cache' = NoObject /\ shown' = {object} /\ ~missed'
             \/ UNCHANGED <<cache, shown, missed>>
        BY <1>2 DEF NewClient, StartDetect, vars
    <2>2. /\ fetched' \in Seq({fetched'[i] : i \in 1 .. Len(fetched')}) /\ Len(fetched') = 0
          /\ \A i \in 1 .. Len(fetched') : fetched'[i] = Own(cache, Properties[i])'
        BY <2>1
    <2>3. /\ object' \in shown' /\ (cache' # NoObject => cache' \in shown' /\ cache' \in Object)
          /\ NoObject \notin shown' => ~missed'
        <3>1. CASE cache' = NoObject /\ shown' = {object} /\ ~missed'
            BY <2>1, <3>1
        <3>2. CASE UNCHANGED <<cache, shown, missed>>
            BY <2>1, <3>2 DEF ClientInv
        <3> QED
            BY <2>1, <3>1, <3>2
    <2>4. Object' = Object
        BY DEF Object, Info
    <2> QED
        BY <1>0, <1>1, <2>1, <2>2, <2>3, <2>4 DEF ClientInv
<1>3. CASE Fetch /\ UNCHANGED vars
    <2> DEFINE property == Properties[Len(fetched) + 1]
               source == IF cache = NoObject THEN object ELSE cache
    <2>1. /\ detect = "fetching" /\ source # NoObject /\ object' = object
          /\ cache' = source /\ UNCHANGED <<missed, shown>>
          /\ fetched' = Append(fetched, Own(source, property))
          /\ detect' = IF /\ property = "extra_data"
                          /\ \E k \in DOMAIN Property(source, property) :
                                Received(Property(source, property)[k]) = NotReceived
                         THEN "conversion error"
                       ELSE IF Len(fetched') = Len(Properties) THEN "some" ELSE "fetching"
        BY <1>3 DEF Fetch, vars, Own
    <2>s. source \in Object /\ source \in shown
        BY <2>1 DEF ClientInv, TypeOK
    <2> HIDE DEF source
    <2>2. ClientInv /\ fetched \in Seq({fetched[i] : i \in 1 .. Len(fetched)})
        BY DEF ClientInv
    <2> DEFINE S == {fetched[i] : i \in 1 .. Len(fetched)} \cup {Own(source, property)}
    <2>3. fetched \in Seq(S) /\ Own(source, property) \in S
        BY <2>2
    <2> HIDE DEF S, property
    <2>4. /\ Len(fetched) \in Nat
          /\ fetched' \in Seq(S) /\ Len(fetched') = Len(fetched) + 1
          /\ \A i \in 1 .. Len(fetched) : fetched'[i] = fetched[i]
          /\ fetched'[Len(fetched) + 1] = Own(source, property)
        <3> DEFINE got == Own(source, property)
                   longer == Append(fetched, got)
        <3>1. got \in S /\ Len(fetched) \in Nat
            BY <2>3
        <3> HIDE DEF got
        <3>2. /\ longer \in Seq(S) /\ Len(longer) = Len(fetched) + 1
              /\ \A i \in 1 .. Len(fetched) : longer[i] = fetched[i]
              /\ longer[Len(fetched) + 1] = got
            BY <2>3, <3>1, AppendProperties
        <3>3. fetched' = longer
            BY <2>1 DEF got
        <3> HIDE DEF longer
        <3> QED
            BY <3>1, <3>2, <3>3 DEF got
    <2>5. fetched' \in Seq({fetched'[i] : i \in 1 .. Len(fetched')})
        BY <2>4
    <2>6. Len(fetched) < Len(Properties)
        BY <2>1, <2>2 DEF ClientInv
    <2>7. ~(/\ property = "extra_data"
            /\ \E k \in DOMAIN Property(source, property) :
                  Received(Property(source, property)[k]) = NotReceived)
        <3> SUFFICES ASSUME property = "extra_data"
                     PROVE  \A k \in DOMAIN Property(source, property) :
                                Received(Property(source, property)[k]) # NotReceived
            OBVIOUS
        <3> DEFINE extra == [k \in {e \in Extra : source.info[e] # None} |-> source.info[k]]
        <3>1. /\ Property(source, "extra_data") = [k \in SendableIn(extra) |-> Sent(extra[k])]
              /\ \A k \in SendableIn(extra) : Received(Sent(extra[k])) # NotReceived
            BY <2>s, ExtraComesBack
        <3> HIDE DEF extra
        <3> QED
            BY <3>1
    <2>8. detect' = IF Len(fetched') = Len(Properties) THEN "some" ELSE "fetching"
        BY <2>1, <2>7
    <2>9. detect' = "fetching" => Len(fetched') < Len(Properties)
        BY <1>1, <2>4, <2>6, <2>8
    <2>10. \A i \in 1 .. Len(fetched') : fetched'[i] = Own(source, Properties[i])
        <3>1. \A i \in 1 .. Len(fetched) : fetched[i] = Own(source, Properties[i])
            <4>1. CASE fetched = <<>>
                BY <4>1
            <4>2. CASE fetched # <<>>
                BY <4>2 DEF ClientInv, source
            <4> QED
                BY <4>1, <4>2
        <3>2. \A i \in 1 .. Len(fetched) + 1 : i \in 1 .. Len(fetched) \/ i = Len(fetched) + 1
            BY <2>4
        <3> QED
            BY <2>4, <3>1, <3>2 DEF property
    <2>11. \A i \in Nat : Own(cache, Properties[i])' = Own(source, Properties[i])
        BY <1>0, <2>1 DEF Own, Converted, Property
    <2>12. \A i \in 1 .. Len(fetched') : fetched'[i] = Own(cache, Properties[i])'
        BY <2>4, <2>10, <2>11
    <2>13. detect' \in {"fetching", "some"} /\ (detect' = "some" => Len(fetched') = Len(Properties))
        BY <2>8
    <2>14. object \in shown /\ (NoObject \notin shown => ~missed)
        BY DEF ClientInv
    <2> QED
        BY <1>0, <2>1, <2>s, <2>5, <2>9, <2>12, <2>13, <2>14 DEF ClientInv
<1>4. CASE FetchFails /\ UNCHANGED vars
    <2>1. /\ detect = "fetching" /\ cache = NoObject /\ (missed \/ object = NoObject)
          /\ UNCHANGED <<object, fetched, cache, shown>>
          /\ detect' \in {"service unknown", "none"}
        BY <1>4 DEF FetchFails, vars
    <2>2. NoObject \in shown
        BY <2>1 DEF ClientInv
    <2>3. fetched = <<>>
        BY <2>1 DEF ClientInv
    <2> QED
        BY <2>1, <2>2, <2>3 DEF ClientInv
<1>5. CASE DaemonStep
    <2>1. /\ UNCHANGED <<fetched, detect, cache, missed>>
          /\ shown' = shown \cup {object'}
        BY <1>5 DEF DaemonStep
    <2>2. \A i \in 1 .. Len(fetched) : Own(cache, Properties[i])' = Own(cache, Properties[i])
        BY <1>0, <2>1 DEF Own, Converted, Property
    <2> QED
        BY <1>0, <2>1, <2>2 DEF ClientInv
<1>6. CASE UNCHANGED allVars
    <2>1. UNCHANGED <<fetched, detect, cache, missed, shown, object>>
        BY <1>6 DEF allVars, clientVars, vars
    <2>2. \A i \in 1 .. Len(fetched) : Own(cache, Properties[i])' = Own(cache, Properties[i])
        BY <1>0, <2>1 DEF Own, Converted, Property
    <2> QED
        BY <1>0, <2>1, <2>2 DEF ClientInv
<1> QED
    BY <1>2, <1>3, <1>4, <1>5, <1>6 DEF InfoNext, ClientStep

LEMMA ClientInvariant == InfoSpec => [](TypeOK /\ ClientInv)
<1>1. InfoInit => ClientInv
    BY PropertyPlaces DEF InfoInit, ClientInv
<1>2. InfoSpec => []TypeOK
    BY InfoImplementsSpec, TypeCorrect
<1> QED
    BY <1>1, <1>2, ClientNext, PTL DEF InfoSpec

LEMMA WhatIsFetched ==
    ASSUME TypeOK, ClientInv
    PROVE  DetectAgrees
<1> SUFFICES ASSUME detect = "some" PROVE \E o \in shown \ {NoObject} : Got(o)
    BY DEF DetectAgrees, ClientInv
<1> DEFINE n == Len(Fields)
           extra == [k \in {e \in Extra : cache.info[e] # None} |-> cache.info[k]]
           image == Image(cache)
           converted(k) == Received(Sent(extra[k]))
<1>1. /\ Len(fetched) = Len(Properties)
      /\ fetched \in Seq({fetched[i] : i \in 1 .. Len(fetched)})
      /\ \A i \in 1 .. Len(fetched) : fetched[i] = Own(cache, Properties[i])
    BY DEF ClientInv
<1>2. cache \in Object /\ cache \in shown \ {NoObject}
    <2>1. fetched # <<>>
        BY <1>1, PropertyPlaces
    <2> QED
        BY <2>1 DEF ClientInv
<1>3. /\ n \in Nat /\ Len(Properties) = n + 3
      /\ Properties[1] = "vendor_id" /\ Properties[2] = "product_id"
      /\ \A i \in 1 .. n : Properties[i + 2] = Fields[i] /\ Fields[i] \in Known
      /\ Properties[n + 3] = "extra_data"
    BY PropertyPlaces
<1>4. /\ image \in Seq({image[i] : i \in 1 .. n + 2}) /\ Len(image) = n + 2
      /\ image[1] = VendorId[cache.toh] /\ image[2] = ProductId[cache.toh]
      /\ \A i \in 1 .. n : image[i + 2] = Own(cache, Fields[i])
    <2> DEFINE ids == <<VendorId[cache.toh], ProductId[cache.toh]>>
               fields == [i \in 1 .. n |-> Own(cache, Fields[i])]
               S == {ids[1], ids[2]} \cup {fields[i] : i \in 1 .. n}
    <2>1. image = ids \o fields
        <3>1. DOMAIN Fields = 1 .. n
            BY FieldsAssumption
        <3>2. \A i \in 1 .. n : Own(cache, Fields[i]) =
                 IF cache.info[Fields[i]] = NullText THEN None ELSE cache.info[Fields[i]]
            BY <1>3, FieldComesBack
        <3> HIDE DEF n
        <3> QED
            BY <3>1, <3>2 DEF Image
    <2>2. ids \in Seq(S) /\ Len(ids) = 2
          /\ ids[1] = VendorId[cache.toh] /\ ids[2] = ProductId[cache.toh]
        OBVIOUS
    <2> HIDE DEF n
    <2>3. /\ fields \in Seq(S) /\ Len(fields) = n
          /\ \A i \in 1 .. n : fields[i] = Own(cache, Fields[i])
        BY <1>3
    <2> HIDE DEF ids, fields, S
    <2>4. /\ ids \o fields \in Seq(S) /\ Len(ids \o fields) = Len(ids) + Len(fields)
          /\ \A i \in 1 .. Len(ids) + Len(fields) :
                (ids \o fields)[i] = IF i <= Len(ids) THEN ids[i] ELSE fields[i - Len(ids)]
        BY <2>2, <2>3, ConcatProperties
    <2> HIDE DEF image
    <2>5. /\ image \in Seq(S) /\ Len(image) = 2 + n
          /\ \A i \in 1 .. 2 + n : image[i] = IF i <= 2 THEN ids[i] ELSE fields[i - 2]
        BY <2>1, <2>2, <2>3, <2>4
    <2>6. \A i \in 1 .. n : i + 2 \in 1 .. 2 + n /\ ~(i + 2 <= 2) /\ (i + 2) - 2 = i
        BY <1>3
    <2>7. \A i \in 1 .. n : image[i + 2] = fields[i]
        BY <2>5, <2>6
    <2>8. image[1] = ids[1] /\ image[2] = ids[2]
        <3>1. 1 \in 1 .. 2 + n /\ 2 \in 1 .. 2 + n /\ 1 <= 2 /\ 2 <= 2
            BY <1>3
        <3>2. \A i \in 1 .. 2 + n : i <= 2 => image[i] = ids[i]
            BY <2>5
        <3> QED
            BY <3>1, <3>2
    <2>9. image \in Seq({image[i] : i \in 1 .. n + 2}) /\ 2 + n = n + 2
        <3>1. image \in Seq(S) /\ 2 + n = n + 2 /\ Len(image) = n + 2
            BY <1>3, <2>5
        <3>2. DOMAIN image = 1 .. Len(image) /\ Len(image) \in Nat
            BY <3>1
        <3> QED
            BY <3>1, <3>2
    <2> QED
        BY <2>2, <2>3, <2>5, <2>7, <2>8, <2>9
<1> HIDE DEF n, image
<1>5. SubSeq(fetched, 1, n + 2) = image
    <2> DEFINE S == {fetched[i] : i \in 1 .. Len(fetched)} \cup {image[i] : i \in 1 .. n + 2}
    <2>1. fetched \in Seq(S) /\ image \in Seq(S)
        BY <1>1, <1>4
    <2> HIDE DEF S
    <2>2. /\ SubSeq(fetched, 1, n + 2) \in Seq(S) /\ Len(SubSeq(fetched, 1, n + 2)) = n + 2
          /\ \A i \in 1 .. n + 2 : SubSeq(fetched, 1, n + 2)[i] = fetched[i]
        BY <1>1, <1>3, <2>1, SubSeqProperties
    <2>3. ASSUME NEW i \in 1 .. n + 2 PROVE fetched[i] = image[i]
        <3>1. fetched[i] = Own(cache, Properties[i])
            BY <1>1, <1>3
        <3>2. CASE i \in {1, 2}
            BY <1>3, <1>4, <3>1, <3>2 DEF Own, Converted, Property
        <3>3. CASE i \notin {1, 2}
            <4>1. i - 2 \in 1 .. n /\ (i - 2) + 2 = i
                BY <1>3, <3>3
            <4>2. Properties[i] = Fields[i - 2] /\ image[i] = Own(cache, Fields[i - 2])
                BY <1>3, <1>4, <4>1
            <4> QED
                BY <3>1, <4>2
        <3> QED
            BY <3>2, <3>3
    <2> QED
        BY <1>4, <2>1, <2>2, <2>3, SeqEqual
<1>6. fetched[Len(fetched)] = [k \in SendableIn(extra) |-> converted(k)]
      /\ \A k \in SendableIn(extra) : Leaves(converted(k)) = Leaves(extra[k])
    <2>1. Len(fetched) = n + 3 /\ n + 3 \in 1 .. Len(fetched)
        BY <1>1, <1>3
    <2>2. fetched[Len(fetched)] = Own(cache, "extra_data")
        BY <1>1, <1>3, <2>1
    <2> QED
        BY <1>2, <2>2, ExtraComesBack
<1> HIDE DEF extra
<1>7. LeavesOf(fetched[Len(fetched)]) =
         {<<k, Leaves(extra[k])>> : k \in SendableIn(extra)}
    BY <1>6 DEF LeavesOf
<1> QED
    BY <1>2, <1>4, <1>5, <1>7 DEF Got, extra, image

\* detect of the client: what it returns is one Info, with IDs, fields and extra
\* data of one TOH that was published since the client was made, whatever daemon,
\* files and TOHs do meanwhile; and it returns one if there was a TOH all along.
THEOREM DetectsThePublished == InfoSpec => []DetectAgrees
<1>1. TypeOK /\ ClientInv => DetectAgrees
    BY WhatIsFetched
<1> QED
    BY <1>1, ClientInvariant, PTL
=============================================================================
