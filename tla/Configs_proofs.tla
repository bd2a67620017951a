--------------------------- MODULE Configs_proofs ---------------------------
(***************************************************************************)
(* Type correctness of Configs, and that the merge of the files keeps its  *)
(* promises for any files, contents and changes to them.                   *)
(***************************************************************************)
EXTENDS Configs, SequenceTheorems, TLAPS

\* What find knows: it has read the listed files below those that are left,
\* and the published configuration is the one it has read.
FindInv ==
    /\ Read \subseteq listed
    /\ pc \in {"down", "idle", "open", "list"} => Read = {} /\ configs = Default
    /\ pc = "read" => todo \subseteq listed /\ Read = listed \ todo
                      /\ \A f \in Read, g \in todo : f < g
    /\ pc = "enable" => Read = listed
    /\ pc \in {"read", "enable"} => listed # {}
    /\ pc \notin {"enable", "published"} => enabled = 0
    /\ pc # "published" => object = NoObject

\* The permissions are those of the files that have been read.
AccessInv == configs.access = UNION {seen[f].access : f \in Read}

\* The units, one by one, are those of the files that have been read.
UnitsFrom(file) ==
    /\ \A i \in DOMAIN configs.units : configs.units[i] = seen[file[i]].unit
    /\ \A f \in Read : seen[f].unit # None => \E i \in DOMAIN configs.units : file[i] = f
    /\ \A i, j \in DOMAIN configs.units : i < j => file[i] < file[j]

UnitsInv == \E file \in [DOMAIN configs.units -> Read] : UnitsFrom(file)

\* And so are the devices: each is at some place of some file, and none of the
\* files' devices is missing.
DevicesFrom(file, place) ==
    /\ \A i \in DOMAIN configs.devices :
          /\ place[i] \in DOMAIN seen[file[i]].devices
          /\ configs.devices[i] = seen[file[i]].devices[place[i]]
    /\ \A f \in Read : \A p \in DOMAIN seen[f].devices :
          \E i \in DOMAIN configs.devices : file[i] = f /\ place[i] = p
    /\ \A i, j \in DOMAIN configs.devices :
          i < j => file[i] < file[j] \/ (file[i] = file[j] /\ place[i] < place[j])

DevicesInv ==
    \E file \in [DOMAIN configs.devices -> Read], place \in [DOMAIN configs.devices -> Nat] :
        DevicesFrom(file, place)

\* Each target is the last device so far with its address.
TargetsInv ==
    \A a \in Addresses :
        \/ /\ targets[a] = None
           /\ \A i \in 1 .. enabled : configs.devices[i].address # a
        \/ \E i \in 1 .. enabled :
             /\ configs.devices[i].address = a /\ configs.devices[i].name = targets[a]
             /\ \A j \in 1 .. enabled : j > i => configs.devices[j].address # a

\* While nobody touches the files they are what find has seen of them.
QuietInv ==
    quiet =>
        /\ listed \subseteq FilesOf(toh)
        /\ pc = "list" => FilesOf(toh) \subseteq listed \cup unlisted
        /\ pc \in {"read", "enable"} => listed = FilesOf(toh)
        /\ \A f \in Read : seen[f] = disk[toh][f]

IInv ==
    /\ TypeOK /\ FindInv /\ AccessInv /\ LastFileWins /\ AllFilesOrNone
    /\ UnitsInv /\ DevicesInv /\ TargetsInv /\ QuietInv

-----------------------------------------------------------------------------
\* Parsing and merging stay in the types of Info and Configs.
LEMMA MergeTypes ==
    ASSUME NEW content \in Contents, NEW c \in Configs
    PROVE  Members(content) \in Info /\ Update(c, content) \in Configs
  <1>1. content \in Content
    BY ContentsAssumption
  <1>2. Members(content) \in Info
    BY <1>1 DEF Content, Info, Members
  <1>3. Combine(c.overrides, Members(content)) \in Info
    BY <1>2 DEF Configs, Combine, Info
  <1>4. c.access \cup content.access \in SUBSET Exes
    BY <1>1 DEF Configs, Content
  <1>5. c.devices \o content.devices \in Seq(Device)
    BY <1>1 DEF Configs, Content
  <1>6. (IF content.unit = None THEN c.units ELSE Append(c.units, content.unit)) \in Seq(Units)
    BY <1>1 DEF Configs, Content
  <1> QED
    BY <1>2, <1>3, <1>4, <1>5, <1>6 DEF Update, Configs

\* The local variables at the beginning of find.
LEMMA DefaultType ==
    /\ Default \in Configs /\ Len(Default.devices) = 0
    /\ NoTargets \in [Addresses -> Names \cup {None}]
  BY DEF Default, Configs, Info, NoTargets

\* Both kinds of objects are objects.
LEMMA ObjectTypes ==
    ASSUME NEW t \in Tohs, NEW c \in Configs
    PROVE  Unconfigured(t) \in Object /\ Configured(t, c) \in Object
  <1>1. Chip[t] \in Info
    BY ChipAssumption
  <1>2. Combine(Chip[t], c.overrides) \in Info
    BY <1>1 DEF Combine, Info, Configs
  <1> QED
    BY <1>1, <1>2 DEF Unconfigured, Configured, Object, Configs

-----------------------------------------------------------------------------
\* The type invariant is inductive on its own.
LEMMA TypeInit == Init => TypeOK
  BY DefaultType, InstalledAssumption, EditsAssumption DEF Init, TypeOK

LEMMA TypeStep == TypeOK /\ [Next]_vars => TypeOK'
  <1> SUFFICES ASSUME TypeOK, [Next]_vars PROVE TypeOK'
    OBVIOUS
  <1> USE DEF TypeOK
  <1>a. MaxEdits \in Nat /\ MaxFaults \in Nat
    BY EditsAssumption
  <1>b. Fault => faults' \in 0 .. MaxFaults /\ quiet' \in BOOLEAN
    <2>1. Fault => faults' \in 0 .. MaxFaults
      BY <1>a DEF Fault
    <2>2. Fault => quiet' \in BOOLEAN
      BY Zenon DEF Fault
    <2> QED
      BY <2>1, <2>2
  <1>c. FindFails => /\ pc' = "published" /\ toh' \in Tohs /\ object' \in Object
                     /\ unlisted' \subseteq Files /\ todo' \subseteq Yaml
                     /\ listed' \subseteq Yaml /\ configs' \in Configs
                     /\ enabled' \in 0 .. Len(configs'.devices)
                     /\ targets' \in [Addresses -> Names \cup {None}]
                     /\ seen' \in [Files -> Contents \cup {Missing}]
    BY DefaultType, ObjectTypes DEF FindFails, Fresh, PublishObject
  <1>1. CASE Edit
    <2>1. PICK t \in Tohs, f \in Files, c \in Contents \cup {Broken, Missing} :
             disk' = [disk EXCEPT ![t][f] = c]
      BY <1>1 DEF Edit
    <2>2. disk' \in [Tohs -> [Files -> Contents \cup {Broken, Missing}]]
      BY <2>1
    <2>3. edits' \in 0 .. MaxEdits
      BY <1>1, <1>a DEF Edit
    <2> QED
      BY <1>1, <2>2, <2>3 DEF Edit, findVars
  <1>2. CASE Start
    BY <1>2 DEF Start, findVars
  <1>3. CASE Exit
    BY <1>3, DefaultType DEF Exit, Fresh
  <1>4. CASE Find
    BY <1>4, DefaultType, ObjectTypes DEF Find, Fresh, PublishObject
  <1>5. CASE OpenDir
    BY <1>5, <1>b, <1>c DEF OpenDir
  <1>6. CASE ListEntry
    BY <1>6, <1>b, <1>c DEF ListEntry
  <1>7. CASE Listed
    BY <1>7, ObjectTypes DEF Listed, PublishObject
  <1>8. CASE ReadFile
    <2>1. CASE FindFails /\ (Fault \/ UNCHANGED <<quiet, faults>>)
      BY <1>8, <2>1, <1>b, <1>c DEF ReadFile
    <2>2. ASSUME NEW f \in todo, disk[toh][f] \in Contents,
                 configs' = Update(configs, disk[toh][f]),
                 seen' = [seen EXCEPT ![f] = disk[toh][f]],
                 todo' = todo \ {f},
                 pc' = IF todo' = {} THEN "enable" ELSE "read",
                 UNCHANGED <<toh, unlisted, enabled, targets, listed, object, quiet, faults,
                             disk, edits>>
          PROVE  TypeOK'
      <3>1. configs' \in Configs /\ enabled' \in 0 .. Len(configs'.devices)
        <4>1. configs' \in Configs
          BY <2>2, MergeTypes
        <4>2. disk[toh][f].devices \in Seq(Device) /\ configs.devices \in Seq(Device)
          BY <2>2, ContentsAssumption DEF Content, Configs
        <4>3. configs'.devices = configs.devices \o disk[toh][f].devices
          BY <2>2 DEF Update
        <4>4. Len(configs'.devices) = Len(configs.devices) + Len(disk[toh][f].devices)
              /\ Len(configs.devices) \in Nat /\ Len(disk[toh][f].devices) \in Nat
          BY <4>2, <4>3
        <4>5. enabled' = enabled /\ enabled \in 0 .. Len(configs.devices)
          BY <2>2
        <4>6. enabled \in 0 .. Len(configs'.devices)
          <5> DEFINE before == Len(configs.devices)
                     after == Len(configs'.devices)
                     more == Len(disk[toh][f].devices)
          <5>1. before \in Nat /\ more \in Nat /\ after = before + more
            BY <4>4
          <5>2. enabled \in 0 .. before
            BY <4>5
          <5> HIDE DEF before, after, more
          <5>3. enabled \in 0 .. after
            BY <5>1, <5>2
          <5> QED
            BY <5>3 DEF after
        <4> QED
          BY <4>1, <4>5, <4>6
      <3>2. seen' \in [Files -> Contents \cup {Missing}]
        BY <2>2, FilesAssumption
      <3> QED
        BY <2>2, <3>1, <3>2
    <2> QED
      BY <1>8, <2>1, <2>2 DEF ReadFile
  <1>9. CASE Publish
    BY <1>9, ObjectTypes DEF Publish, PublishObject, findVars
  <1>10. CASE Unpublish
    BY <1>10, DefaultType DEF Unpublish, Fresh
  <1>11. CASE EnableTarget
    <2>1. configs.devices \in Seq(Device)
      BY DEF Configs
    <2>2. enabled' \in 0 .. Len(configs.devices) /\ enabled + 1 \in 1 .. Len(configs.devices)
      BY <1>11, <2>1 DEF EnableTarget
    <2>3. configs.devices[enabled + 1] \in Device
      BY <2>1, <2>2
    <2>4. targets' \in [Addresses -> Names \cup {None}]
      BY <1>11, <2>3 DEF EnableTarget, AddTarget, Device
    <2> QED
      BY <1>11, <2>2, <2>4 DEF EnableTarget
  <1>12. CASE UNCHANGED vars
    BY <1>12 DEF vars, findVars
  <1> QED
    BY <1>1, <1>2, <1>3, <1>4, <1>5, <1>6, <1>7, <1>8, <1>9, <1>10, <1>11, <1>12 DEF Next

-----------------------------------------------------------------------------
\* The rest of the invariant does not look at disk.
Merged == FindInv /\ AccessInv /\ LastFileWins /\ AllFilesOrNone

\* At the beginning of find nothing is read and nothing is merged.
LEMMA FreshMerge ==
    ASSUME Fresh
    PROVE  Read' = {} /\ AccessInv' /\ LastFileWins'
  <1>1. Read' = {}
    BY DEF Fresh, Read
  <1> QED
    BY <1>1 DEF Fresh, AccessInv, LastFileWins, Default

\* Whatever fails in find, the TOH is published as its chip describes it.
LEMMA FailedFind ==
    ASSUME FindFails
    PROVE  Merged'
  <1>1. Read' = {} /\ AccessInv' /\ LastFileWins'
    BY FreshMerge DEF FindFails
  <1>2. FindInv'
    BY <1>1 DEF FindFails, FindInv, PublishObject
  <1>3. AllFilesOrNone'
    <2>1. object' = Unconfigured(toh) /\ toh' = toh
      BY DEF FindFails, PublishObject
    <2> QED
      BY <2>1 DEF AllFilesOrNone, Unconfigured
  <1> QED
    BY <1>1, <1>2, <1>3 DEF Merged

\* A file that is read is the last one so far.
LEMMA ReadFacts ==
    ASSUME TypeOK, FindInv, pc = "read", NEW f \in todo, NextPath(f),
           disk[toh][f] \in Contents,
           seen' = [seen EXCEPT ![f] = disk[toh][f]]
    PROVE  /\ f \in Nat /\ Read \subseteq Nat
           /\ f \notin Read /\ \A g \in Read : g < f
           /\ Read' = Read \cup {f}
           /\ seen'[f] = disk[toh][f] /\ \A g \in Read : seen'[g] = seen[g]
  <1>1. f \in Files /\ f \in Nat /\ Files \subseteq Nat
    BY FilesAssumption DEF TypeOK
  <1>2. f \notin Read /\ \A g \in Read : g < f
    BY DEF FindInv
  <1>3. disk[toh][f] # Missing
    BY ContentsAssumption
  <1>4. Read' = Read \cup {f}
    BY <1>1, <1>3 DEF Read, TypeOK
  <1> QED
    BY <1>1, <1>2, <1>4 DEF Read, TypeOK

\* What it has replaces what the ones before it had.
LEMMA ReadStep ==
    ASSUME TypeOK, Merged, pc = "read", NEW f \in todo, NextPath(f),
           disk[toh][f] \in Contents,
           configs' = Update(configs, disk[toh][f]),
           seen' = [seen EXCEPT ![f] = disk[toh][f]],
           todo' = todo \ {f}, pc' \in {"read", "enable"},
           pc' = "enable" => todo' = {},
           UNCHANGED <<listed, object, enabled>>
    PROVE  Merged'
  <1> DEFINE content == disk[toh][f]
  <1>1. f \in Files /\ f \in Nat /\ todo \subseteq Nat /\ Files \subseteq Nat
    BY FilesAssumption DEF TypeOK
  <1>2. f \notin Read /\ Read = listed \ todo /\ todo \subseteq listed
        /\ \A g \in Read : g < f
    BY DEF Merged, FindInv
  <1>3. Read' = Read \cup {f}
    BY ReadFacts DEF Merged
  <1>4. \A g \in Read : seen'[g] = seen[g]
    BY ReadFacts DEF Merged
  <1>5. seen'[f] = content
    BY ReadFacts DEF Merged
  <1>6. FindInv'
    <2>1. Read' \subseteq listed' /\ Read' = listed' \ todo' /\ todo' \subseteq listed'
      BY <1>2, <1>3
    <2>2. \A g \in Read', h \in todo' : g < h
      <3> SUFFICES ASSUME NEW g \in Read', NEW h \in todo' PROVE g < h
        OBVIOUS
      <3>1. f <= h /\ f # h /\ h \in Nat
        BY <1>1 DEF NextPath
      <3>2. g \in Nat
        BY <1>1, <1>3 DEF Read
      <3>3. CASE g = f
        BY <3>1, <3>3, <1>1
      <3>4. CASE g \in Read
        BY <3>1, <3>2, <3>4, <1>1, <1>2
      <3> QED
        BY <3>3, <3>4, <1>3
    <2> QED
      BY <2>1, <2>2 DEF Merged, FindInv
  <1>7. AccessInv'
    <2>1. configs'.access = configs.access \cup content.access
      BY DEF Update
    <2>2. \A e : e \in UNION {seen'[g].access : g \in Read'}
                   <=> \E g \in Read' : e \in seen'[g].access
      OBVIOUS
    <2>3. \A e : (\E g \in Read' : e \in seen'[g].access)
                   <=> (e \in content.access \/ \E g \in Read : e \in seen[g].access)
      BY <1>3, <1>4, <1>5
    <2>4. \A e : e \in configs.access <=> \E g \in Read : e \in seen[g].access
      BY DEF Merged, AccessInv
    <2>5. configs'.access = UNION {seen'[g].access : g \in Read'}
      BY <2>1, <2>2, <2>3, <2>4
    <2> QED
      BY <2>5 DEF AccessInv
  <1>8. LastFileWins'
    <2> SUFFICES ASSUME NEW k \in Keys
                 PROVE  \/ /\ configs'.overrides[k] = None
                           /\ \A g \in Read' : Members(seen'[g])[k] = None
                        \/ \E g \in Read' :
                             /\ configs'.overrides[k] = Members(seen'[g])[k]
                             /\ configs'.overrides[k] # None
                             /\ \A h \in Read' : h > g => Members(seen'[h])[k] = None
      BY DEF LastFileWins
    <2>1. configs'.overrides[k] = IF Members(content)[k] = None THEN configs.overrides[k]
                                                              ELSE Members(content)[k]
      BY DEF Update, Combine
    <2>2. CASE Members(content)[k] # None
      <3>1. \A h \in Read' : ~(h > f)
        BY <1>1, <1>2, <1>3 DEF Read
      <3> QED
        BY <2>1, <2>2, <3>1, <1>3, <1>5
    <2>3. CASE Members(content)[k] = None
      <3>1. CASE /\ configs.overrides[k] = None
                 /\ \A g \in Read : Members(seen[g])[k] = None
        BY <2>1, <2>3, <3>1, <1>3, <1>4, <1>5
      <3>2. ASSUME NEW g \in Read,
                   configs.overrides[k] = Members(seen[g])[k],
                   configs.overrides[k] # None,
                   \A h \in Read : h > g => Members(seen[h])[k] = None
            PROVE  /\ g \in Read'
                   /\ configs'.overrides[k] = Members(seen'[g])[k]
                   /\ configs'.overrides[k] # None
                   /\ \A h \in Read' : h > g => Members(seen'[h])[k] = None
        <4>1. configs'.overrides[k] = configs.overrides[k]
          BY <2>1, <2>3
        <4>2. \A h \in Read' : h > g => Members(seen'[h])[k] = None
          BY <1>3, <1>4, <1>5, <2>3, <3>2
        <4> QED
          BY <4>1, <4>2, <3>2, <1>3, <1>4
      <3> QED
        BY <3>1, <3>2 DEF Merged, LastFileWins
    <2> QED
      BY <2>2, <2>3
  <1>9. AllFilesOrNone'
    BY DEF Merged, FindInv, AllFilesOrNone
  <1> QED
    BY <1>6, <1>7, <1>8, <1>9 DEF Merged

\* Each step of main and of the file system keeps the merge in order.
LEMMA MergeStep == TypeOK /\ Merged /\ [Next]_vars => Merged'
  <1> SUFFICES ASSUME TypeOK, Merged, [Next]_vars PROVE Merged'
    OBVIOUS
  <1>1. CASE Edit
    BY <1>1 DEF Edit, findVars, Merged, FindInv, AccessInv, LastFileWins, AllFilesOrNone, Read
  <1>2. CASE Start
    BY <1>2 DEF Start, findVars, Merged, FindInv, AccessInv, LastFileWins, AllFilesOrNone, Read
  <1>3. CASE Exit
    <2>1. Read' = {} /\ AccessInv' /\ LastFileWins'
      BY <1>3, FreshMerge DEF Exit
    <2> QED
      BY <1>3, <2>1 DEF Exit, Fresh, Merged, FindInv, AllFilesOrNone
  <1>4. CASE Find
    <2>1. Read' = {} /\ AccessInv' /\ LastFileWins' /\ configs' = Default /\ enabled' = 0
      BY <1>4, FreshMerge DEF Find, Fresh
    <2>2. object = NoObject
      BY <1>4 DEF Find, Merged, FindInv
    <2>3. \/ pc' = "open" /\ object' = NoObject
          \/ pc' = "published" /\ object' = Unconfigured(toh')
      BY <1>4, <2>2 DEF Find, PublishObject
    <2>4. FindInv'
      BY <2>1, <2>3 DEF FindInv
    <2>5. AllFilesOrNone'
      BY <2>3 DEF AllFilesOrNone, Unconfigured
    <2> QED
      BY <2>1, <2>4, <2>5 DEF Merged
  <1>5. CASE OpenDir
    <2>1. CASE FindFails
      BY <2>1, FailedFind
    <2>2. CASE pc' = "list" /\ UNCHANGED <<toh, configs, enabled, listed, seen, object>>
      BY <1>5, <2>2
      DEF OpenDir, Merged, FindInv, AccessInv, LastFileWins, AllFilesOrNone, Read
    <2> QED
      BY <1>5, <2>1, <2>2 DEF OpenDir
  <1>6. CASE ListEntry
    <2>1. CASE FindFails
      BY <2>1, FailedFind
    <2>2. CASE listed \subseteq listed' /\ UNCHANGED <<pc, toh, configs, enabled, seen, object>>
      BY <1>6, <2>2
      DEF ListEntry, Merged, FindInv, AccessInv, LastFileWins, AllFilesOrNone, Read
    <2> QED
      BY <1>6, <2>1, <2>2 DEF ListEntry
  <1>7. CASE Listed
    <2>1. Read = {} /\ object = NoObject
      BY <1>7 DEF Listed, Merged, FindInv
    <2>2. Read' = {} /\ AccessInv' /\ LastFileWins'
      BY <1>7, <2>1 DEF Listed, Merged, AccessInv, LastFileWins, Read
    <2>3. \/ pc' = "published" /\ object' = Unconfigured(toh')
          \/ pc' = "read" /\ object' = NoObject /\ todo' = listed' /\ listed' # {}
      BY <1>7, <2>1 DEF Listed, PublishObject
    <2>4. enabled' = 0
      BY <1>7 DEF Listed, Merged, FindInv
    <2>6. FindInv'
      BY <2>2, <2>3, <2>4 DEF FindInv
    <2>5. AllFilesOrNone'
      BY <2>3 DEF AllFilesOrNone, Unconfigured
    <2> QED
      BY <2>2, <2>5, <2>6 DEF Merged
  <1>8. CASE ReadFile
    <2>1. CASE FindFails
      BY <2>1, FailedFind
    <2>2. ASSUME NEW f \in todo, NextPath(f),
                 disk[toh][f] \in Contents,
                 configs' = Update(configs, disk[toh][f]),
                 seen' = [seen EXCEPT ![f] = disk[toh][f]],
                 todo' = todo \ {f},
                 pc' = IF todo' = {} THEN "enable" ELSE "read",
                 UNCHANGED <<listed, object, enabled>>
          PROVE  Merged'
      <3>1. pc = "read" /\ pc' \in {"read", "enable"} /\ (pc' = "enable" => todo' = {})
        BY <1>8, <2>2 DEF ReadFile
      <3> QED
        BY <2>2, <3>1, ReadStep
    <2> QED
      BY <1>8, <2>1, <2>2 DEF ReadFile
  <1>9. CASE Publish
    <2>1. Read' = Read /\ Read = listed /\ AccessInv' /\ LastFileWins'
      BY <1>9 DEF Publish, findVars, Merged, FindInv, AccessInv, LastFileWins, Read
    <2>2. object' = Configured(toh, configs) /\ pc' = "published"
          /\ UNCHANGED <<configs, seen, listed, toh>>
      BY <1>9 DEF Publish, PublishObject, findVars
    <2>3. AllFilesOrNone'
      <3>1. object'.configured /\ object'.access = configs'.access
        BY <2>2 DEF Configured
      <3>2. Read' = listed'
        BY <2>1, <2>2
      <3> QED
        BY <2>1, <3>1, <3>2 DEF AllFilesOrNone, AccessInv
    <2>4. FindInv'
      BY <2>1, <2>2 DEF FindInv
    <2> QED
      BY <2>1, <2>3, <2>4 DEF Merged
  <1>10. CASE Unpublish
    <2>1. Read' = {} /\ AccessInv' /\ LastFileWins'
      BY <1>10, FreshMerge DEF Unpublish
    <2> QED
      BY <1>10, <2>1 DEF Unpublish, Fresh, Merged, FindInv, AllFilesOrNone
  <1>11. CASE EnableTarget
    BY <1>11 DEF EnableTarget, Merged, FindInv, AccessInv, LastFileWins, AllFilesOrNone, Read
  <1>12. CASE UNCHANGED vars
    BY <1>12
    DEF vars, findVars, Merged, FindInv, AccessInv, LastFileWins, AllFilesOrNone, Read
  <1> QED
    BY <1>1, <1>2, <1>3, <1>4, <1>5, <1>6, <1>7, <1>8, <1>9, <1>10, <1>11, <1>12 DEF Next

-----------------------------------------------------------------------------
\* Devices and units come in the order of the files.
Ordered == UnitsInv /\ DevicesInv /\ TargetsInv

LEMMA FreshOrder ==
    ASSUME Fresh
    PROVE  Ordered'
  <1>1. Read' = {} /\ configs' = Default /\ enabled' = 0 /\ targets' = NoTargets
    BY DEF Fresh, Read
  <1>2. DOMAIN configs'.units = {} /\ DOMAIN configs'.devices = {}
    BY <1>1 DEF Default
  <1> DEFINE nothing == [i \in {} |-> i]
  <1>3. UnitsInv'
    <2>1. nothing \in [DOMAIN configs'.units -> Read'] /\ UnitsFrom(nothing)'
      BY <1>1, <1>2 DEF UnitsFrom
    <2> QED
      BY <2>1 DEF UnitsInv
  <1>4. DevicesInv'
    <2>1. nothing \in [DOMAIN configs'.devices -> Read']
          /\ nothing \in [DOMAIN configs'.devices -> Nat]
      BY <1>2
    <2>2. DevicesFrom(nothing, nothing)'
      BY <1>1, <1>2 DEF DevicesFrom
    <2> QED
      BY <2>1, <2>2 DEF DevicesInv
  <1>5. TargetsInv'
    BY <1>1 DEF TargetsInv, NoTargets
  <1> QED
    BY <1>3, <1>4, <1>5 DEF Ordered

LEMMA OrderStays ==
    ASSUME Ordered, UNCHANGED <<configs, seen, enabled, targets>>
    PROVE  Ordered'
  BY DEF Ordered, UnitsInv, UnitsFrom, DevicesInv, DevicesFrom, TargetsInv, Read

\* The devices and the unit of a file come after those of the files before it.
LEMMA OrderRead ==
    ASSUME TypeOK, FindInv, Ordered, pc = "read", NEW f \in todo, NextPath(f),
           disk[toh][f] \in Contents,
           configs' = Update(configs, disk[toh][f]),
           seen' = [seen EXCEPT ![f] = disk[toh][f]],
           UNCHANGED <<enabled, targets>>
    PROVE  Ordered'
  <1> DEFINE content == disk[toh][f]
  <1>1. /\ f \in Nat /\ Read \subseteq Nat
        /\ f \notin Read /\ \A g \in Read : g < f
        /\ Read' = Read \cup {f}
        /\ seen'[f] = content /\ \A g \in Read : seen'[g] = seen[g]
    BY ReadFacts
  <1>2. content \in Content /\ configs \in Configs
    BY ContentsAssumption DEF TypeOK
  <1> HIDE DEF content
  <1>3. UnitsInv'
    <2>0. PICK n : n = Len(configs.units)
      OBVIOUS
    <2>1. n \in Nat /\ DOMAIN configs.units = 1 .. n
      BY <1>2, <2>0 DEF Configs
    <2>2. configs'.units = IF content.unit = None THEN configs.units
                                                  ELSE Append(configs.units, content.unit)
      BY DEF Update, content
    <2>3. PICK file \in [1 .. n -> Read] :
             /\ \A i \in 1 .. n : configs.units[i] = seen[file[i]].unit
             /\ \A g \in Read : seen[g].unit # None => \E i \in 1 .. n : file[i] = g
             /\ \A i, j \in 1 .. n : i < j => file[i] < file[j]
      BY <2>1 DEF Ordered, UnitsInv, UnitsFrom
    <2>4. \A i \in 1 .. n : file[i] \in Read /\ seen'[file[i]] = seen[file[i]] /\ file[i] < f
      BY <1>1, <2>3
    <2>5. CASE content.unit = None
      <3>1. DOMAIN configs'.units = 1 .. n /\ configs'.units = configs.units
        BY <2>1, <2>2, <2>5
      <3>2. UnitsFrom(file)'
        BY <1>1, <2>3, <2>4, <2>5, <3>1 DEF UnitsFrom
      <3>3. file \in [DOMAIN configs'.units -> Read']
        BY <1>1, <3>1
      <3> QED
        BY <3>2, <3>3 DEF UnitsInv
    <2>6. CASE content.unit # None
      <3> DEFINE after == [i \in 1 .. n + 1 |-> IF i <= n THEN file[i] ELSE f]
      <3>1. /\ DOMAIN configs'.units = 1 .. n + 1
            /\ \A i \in 1 .. n : configs'.units[i] = configs.units[i]
            /\ configs'.units[n + 1] = content.unit
        BY <1>2, <2>0, <2>1, <2>2, <2>6 DEF Configs
      <3>2. after \in [1 .. n + 1 -> Read']
        BY <1>1, <2>1, <2>4
      <3>3. /\ \A i \in 1 .. n : after[i] = file[i]
            /\ after[n + 1] = f
        BY <2>1
      <3> HIDE DEF after
      <3>4. \A g \in Read' : seen'[g].unit # None => \E i \in 1 .. n + 1 : after[i] = g
        <4> SUFFICES ASSUME NEW g \in Read', seen'[g].unit # None
                     PROVE  \E i \in 1 .. n + 1 : after[i] = g
          OBVIOUS
        <4>1. CASE g = f
          BY <2>1, <3>3, <4>1
        <4>2. CASE g \in Read
          <5>1. PICK i \in 1 .. n : file[i] = g
            BY <1>1, <2>3, <4>2
          <5> QED
            BY <2>1, <3>3, <5>1
        <4> QED
          BY <1>1, <4>1, <4>2
      <3>5. ASSUME NEW i \in 1 .. n + 1, NEW j \in 1 .. n + 1, i < j
            PROVE  after[i] < after[j]
        <4>1. i \in 1 .. n /\ (j \in 1 .. n \/ j = n + 1)
          BY <2>1, <3>5
        <4> QED
          BY <2>3, <2>4, <3>3, <3>5, <4>1
      <3>6. ASSUME NEW i \in 1 .. n + 1
            PROVE  configs'.units[i] = seen'[after[i]].unit
        <4>1. CASE i \in 1 .. n
          BY <2>3, <2>4, <3>1, <3>3, <4>1
        <4>2. CASE i = n + 1
          BY <1>1, <3>1, <3>3, <4>2
        <4> QED
          BY <2>1, <4>1, <4>2
      <3>7. UnitsFrom(after)'
        BY <3>1, <3>4, <3>5, <3>6 DEF UnitsFrom
      <3>8. after \in [DOMAIN configs'.units -> Read']
        BY <3>1, <3>2
      <3> QED
        BY <3>7, <3>8 DEF UnitsInv
    <2> QED
      BY <2>5, <2>6
  <1>4. DevicesInv'
    <2>0. PICK n, m : n = Len(configs.devices) /\ m = Len(content.devices)
      OBVIOUS
    <2>1. /\ n \in Nat /\ DOMAIN configs.devices = 1 .. n
          /\ m \in Nat /\ DOMAIN content.devices = 1 .. m
      BY <1>2, <2>0 DEF Configs, Content
    <2>2. /\ DOMAIN configs'.devices = 1 .. n + m
          /\ \A i \in 1 .. n : configs'.devices[i] = configs.devices[i]
          /\ \A i \in n + 1 .. n + m : configs'.devices[i] = content.devices[i - n]
      <3>1. configs'.devices = configs.devices \o content.devices
        BY DEF Update, content
      <3>2. configs.devices \in Seq(Device) /\ content.devices \in Seq(Device)
        BY <1>2 DEF Configs, Content
      <3> DEFINE s == configs.devices
                 t == content.devices
      <3>3. /\ Len(s \o t) = Len(s) + Len(t) /\ s \o t \in Seq(Device)
            /\ \A i \in 1 .. Len(s) + Len(t) :
                  (s \o t)[i] = IF i <= Len(s) THEN s[i] ELSE t[i - Len(s)]
        BY <3>2, ConcatProperties
      <3>4. DOMAIN (s \o t) = 1 .. n + m
        BY <2>0, <3>3
      <3> HIDE DEF s, t
      <3>5. /\ \A i \in 1 .. n : (s \o t)[i] = s[i]
            /\ \A i \in n + 1 .. n + m : (s \o t)[i] = t[i - n]
        <4>1. n = Len(s) /\ m = Len(t)
          BY <2>0 DEF s, t
        <4> QED
          BY <2>1, <3>3, <4>1
      <3> QED
        BY <3>1, <3>4, <3>5 DEF s, t
    <2>3. PICK file \in [1 .. n -> Read], place \in [1 .. n -> Nat] : DevicesFrom(file, place)
      BY <2>1 DEF Ordered, DevicesInv
    <2>4. /\ \A i \in 1 .. n : /\ place[i] \in DOMAIN seen[file[i]].devices
                               /\ configs.devices[i] = seen[file[i]].devices[place[i]]
          /\ \A g \in Read : \A p \in DOMAIN seen[g].devices :
                \E i \in 1 .. n : file[i] = g /\ place[i] = p
          /\ \A i, j \in 1 .. n :
                i < j => file[i] < file[j] \/ (file[i] = file[j] /\ place[i] < place[j])
      <3>1. \A i \in 1 .. n : /\ place[i] \in DOMAIN seen[file[i]].devices
                               /\ configs.devices[i] = seen[file[i]].devices[place[i]]
        BY <2>1, <2>3 DEF DevicesFrom
      <3>2. \A g \in Read : \A p \in DOMAIN seen[g].devices :
                \E i \in 1 .. n : file[i] = g /\ place[i] = p
        BY <2>1, <2>3 DEF DevicesFrom
      <3>3. \A i, j \in 1 .. n :
                i < j => file[i] < file[j] \/ (file[i] = file[j] /\ place[i] < place[j])
        BY <2>1, <2>3 DEF DevicesFrom
      <3> QED
        BY <3>1, <3>2, <3>3
    <2>5. \A i \in 1 .. n : file[i] \in Read /\ seen'[file[i]] = seen[file[i]] /\ file[i] < f
      BY <1>1, <2>3
    <2> DEFINE after == [i \in 1 .. n + m |-> IF i <= n THEN file[i] ELSE f]
               at == [i \in 1 .. n + m |-> IF i <= n THEN place[i] ELSE i - n]
    <2>6. after \in [1 .. n + m -> Read'] /\ at \in [1 .. n + m -> Nat]
      BY <1>1, <2>1, <2>3
    <2>7. /\ \A i \in 1 .. n : after[i] = file[i] /\ at[i] = place[i]
          /\ \A i \in n + 1 .. n + m : after[i] = f /\ at[i] = i - n
      BY <2>1
    <2> HIDE DEF after, at
    <2>8. ASSUME NEW i \in 1 .. n + m
          PROVE  /\ at[i] \in DOMAIN seen'[after[i]].devices
                 /\ configs'.devices[i] = seen'[after[i]].devices[at[i]]
      <3>1. CASE i \in 1 .. n
        BY <2>2, <2>4, <2>5, <2>7, <3>1
      <3>2. CASE i \in n + 1 .. n + m
        <4>1. i - n \in 1 .. m
          BY <2>1, <3>2
        <4> QED
          BY <1>1, <2>1, <2>2, <2>7, <3>2, <4>1
      <3> QED
        BY <2>1, <3>1, <3>2
    <2>9. ASSUME NEW g \in Read', NEW p \in DOMAIN seen'[g].devices
          PROVE  \E i \in 1 .. n + m : after[i] = g /\ at[i] = p
      <3>1. CASE g \in Read
        <4>1. PICK i \in 1 .. n : file[i] = g /\ place[i] = p
          BY <1>1, <2>4, <3>1
        <4>2. i \in 1 .. n + m
          BY <2>1
        <4> QED
          BY <2>7, <4>1, <4>2
      <3>2. CASE g = f
        <4>1. p \in 1 .. m /\ n + p \in n + 1 .. n + m /\ (n + p) - n = p /\ n + p \in 1 .. n + m
          BY <1>1, <2>1, <3>2
        <4> QED
          BY <2>7, <3>2, <4>1
      <3> QED
        BY <1>1, <3>1, <3>2
    <2>10. ASSUME NEW i \in 1 .. n + m, NEW j \in 1 .. n + m, i < j
           PROVE  after[i] < after[j] \/ (after[i] = after[j] /\ at[i] < at[j])
      <3>1. CASE j \in 1 .. n
        <4>1. i \in 1 .. n
          BY <2>1, <2>10, <3>1
        <4> QED
          BY <2>4, <2>7, <2>10, <3>1, <4>1
      <3>2. CASE j \in n + 1 .. n + m /\ i \in 1 .. n
        BY <2>5, <2>7, <3>2
      <3>3. CASE j \in n + 1 .. n + m /\ i \in n + 1 .. n + m
        <4>1. i - n < j - n
          BY <2>1, <2>10
        <4> QED
          BY <2>7, <3>3, <4>1
      <3> QED
        BY <2>1, <3>1, <3>2, <3>3
    <2>11. DevicesFrom(after, at)'
      BY <2>2, <2>8, <2>9, <2>10 DEF DevicesFrom
    <2>12. after \in [DOMAIN configs'.devices -> Read'] /\ at \in [DOMAIN configs'.devices -> Nat]
      BY <2>2, <2>6
    <2> QED
      BY <2>11, <2>12 DEF DevicesInv
  <1>5. TargetsInv'
    <2>1. enabled' = 0 /\ targets' = targets /\ enabled = 0
      BY DEF FindInv
    <2> QED
      BY <2>1 DEF Ordered, TargetsInv
  <1> QED
    BY <1>3, <1>4, <1>5 DEF Ordered

\* A device that is added is the last one so far.
LEMMA OrderEnable ==
    ASSUME TypeOK, Ordered, EnableTarget
    PROVE  Ordered'
  <1>1. UnitsInv' /\ DevicesInv'
    <2>1. UNCHANGED <<configs, seen>> /\ Read' = Read
      BY DEF EnableTarget, Read
    <2> QED
      BY <2>1 DEF Ordered, UnitsInv, UnitsFrom, DevicesInv, DevicesFrom
  <1>2. TargetsInv'
    <2> DEFINE device == configs.devices[enabled + 1]
    <2>1. enabled \in Nat /\ enabled' = enabled + 1 /\ configs' = configs
          /\ targets' = [targets EXCEPT ![device.address] = device.name]
      BY DEF TypeOK, EnableTarget, AddTarget
    <2>2. DOMAIN targets = Addresses
      BY DEF TypeOK
    <2> SUFFICES ASSUME NEW a \in Addresses
                 PROVE  \/ /\ targets'[a] = None
                           /\ \A i \in 1 .. enabled + 1 : configs.devices[i].address # a
                        \/ \E i \in 1 .. enabled + 1 :
                             /\ configs.devices[i].address = a
                             /\ configs.devices[i].name = targets'[a]
                             /\ \A j \in 1 .. enabled + 1 :
                                   j > i => configs.devices[j].address # a
      BY <2>1 DEF TargetsInv
    <2>3. CASE device.address = a
      <3>1. targets'[a] = device.name
        BY <2>1, <2>2, <2>3
      <3> QED
        BY <2>1, <2>3, <3>1
    <2>4. CASE device.address # a
      <3>1. targets'[a] = targets[a]
        BY <2>1, <2>4
      <3>2. \A i \in 1 .. enabled + 1 : i \in 1 .. enabled \/ i = enabled + 1
        BY <2>1
      <3>3. CASE targets[a] = None /\ \A i \in 1 .. enabled : configs.devices[i].address # a
        BY <2>4, <3>1, <3>2, <3>3
      <3>4. ASSUME NEW i \in 1 .. enabled,
                   configs.devices[i].address = a, configs.devices[i].name = targets[a],
                   \A j \in 1 .. enabled : j > i => configs.devices[j].address # a
            PROVE  /\ i \in 1 .. enabled + 1
                   /\ \A j \in 1 .. enabled + 1 : j > i => configs.devices[j].address # a
        BY <2>1, <2>4, <3>2, <3>4
      <3> QED
        BY <3>1, <3>3, <3>4 DEF Ordered, TargetsInv
    <2> QED
      BY <2>3, <2>4
  <1> QED
    BY <1>1, <1>2 DEF Ordered

LEMMA OrderStep == TypeOK /\ FindInv /\ Ordered /\ [Next]_vars => Ordered'
  <1> SUFFICES ASSUME TypeOK, FindInv, Ordered, [Next]_vars PROVE Ordered'
    OBVIOUS
  <1>1. CASE Exit \/ Find \/ Unpublish \/ FindFails
    BY <1>1, FreshOrder DEF Exit, Find, Unpublish, FindFails
  <1>2. CASE Edit \/ Start \/ Listed \/ Publish \/ UNCHANGED vars
    BY <1>2, OrderStays DEF Edit, Start, Listed, Publish, vars, findVars
  <1>3. CASE OpenDir \/ ListEntry
    BY <1>1, <1>3, OrderStays DEF OpenDir, ListEntry
  <1>4. CASE ReadFile
    BY <1>1, <1>4, OrderRead DEF ReadFile
  <1>5. CASE EnableTarget
    BY <1>5, OrderEnable
  <1> QED
    BY <1>1, <1>2, <1>3, <1>4, <1>5 DEF Next

-----------------------------------------------------------------------------
\* A fault ends the quiet; what find has seen before it does not matter then.
LEMMA QuietStep == TypeOK /\ Merged /\ QuietInv /\ [Next]_vars => QuietInv'
  <1> SUFFICES ASSUME TypeOK, Merged, QuietInv, [Next]_vars, quiet' PROVE QuietInv'
    BY DEF QuietInv
  <1>1. CASE Exit \/ Find \/ Unpublish \/ FindFails
    <2>1. listed' = {} /\ Read' = {} /\ pc' \in {"down", "idle", "open", "published"}
      BY <1>1 DEF Exit, Find, Unpublish, FindFails, Fresh, PublishObject, Read
    <2> QED
      BY <2>1 DEF QuietInv
  <1>2. CASE Edit \/ Fault
    BY <1>2 DEF Edit, Fault
  <1>3. CASE Start \/ EnableTarget \/ Publish \/ UNCHANGED vars
    <2>1. /\ UNCHANGED <<disk, toh, unlisted, listed, seen, quiet>> /\ Read' = Read
          /\ pc' = pc \/ pc' \in {"idle", "published"}
      BY <1>3 DEF Start, EnableTarget, Publish, PublishObject, vars, findVars, Read
    <2> QED
      BY <2>1 DEF QuietInv, FilesOf
  <1>4. CASE OpenDir
    <2>1. CASE /\ pc' = "list" /\ unlisted' = Files /\ UNCHANGED <<disk, toh, listed, seen, quiet>>
      <3>1. FilesOf(toh) \subseteq Files
        BY FilesAssumption DEF FilesOf
      <3> QED
        BY <2>1, <3>1 DEF QuietInv, FilesOf, Read
    <2> QED
      BY <1>1, <1>2, <1>4, <2>1 DEF OpenDir
  <1>5. CASE ListEntry
    <2>1. ASSUME NEW f \in unlisted,
                 unlisted' = unlisted \ {f},
                 listed' = IF f \in Yaml /\ disk[toh][f] # Missing THEN listed \cup {f} ELSE listed,
                 UNCHANGED <<disk, toh, pc, seen, quiet>>
          PROVE  QuietInv'
      <3>1. quiet /\ pc = "list" /\ Read = {}
        BY <1>5, <2>1 DEF ListEntry, Merged, FindInv
      <3>2. listed' \subseteq FilesOf(toh)
        BY <2>1, <3>1 DEF QuietInv, FilesOf
      <3>3. FilesOf(toh) \subseteq listed' \cup unlisted'
        BY <2>1, <3>1 DEF QuietInv, FilesOf
      <3>4. FilesOf(toh)' = FilesOf(toh) /\ Read' = {}
        BY <2>1, <3>1 DEF FilesOf, Read
      <3> QED
        BY <2>1, <3>1, <3>2, <3>3, <3>4 DEF QuietInv
    <2> QED
      BY <1>1, <1>2, <1>5, <2>1 DEF ListEntry
  <1>6. CASE Listed
    <2>1. pc = "list" /\ unlisted = {} /\ pc' \in {"read", "published"}
          /\ UNCHANGED <<disk, toh, listed, seen, quiet>>
      BY <1>6 DEF Listed, PublishObject
    <2> QED
      BY <2>1 DEF QuietInv, FilesOf, Read
  <1>7. CASE ReadFile
    <2>1. ASSUME NEW f \in todo, NextPath(f), disk[toh][f] \in Contents,
                 seen' = [seen EXCEPT ![f] = disk[toh][f]],
                 pc' = IF todo' = {} THEN "enable" ELSE "read",
                 UNCHANGED <<disk, toh, listed, quiet>>
          PROVE  QuietInv'
      <3>1. quiet /\ pc = "read"
        BY <1>7, <2>1 DEF ReadFile
      <3>2. /\ Read' = Read \cup {f}
            /\ seen'[f] = disk[toh][f] /\ \A g \in Read : seen'[g] = seen[g]
        BY <2>1, <3>1, ReadFacts DEF Merged
      <3>3. \A g \in Read' : seen'[g] = disk[toh][g]
        BY <3>1, <3>2 DEF QuietInv
      <3>4. listed = FilesOf(toh) /\ FilesOf(toh)' = FilesOf(toh)
        BY <2>1, <3>1 DEF QuietInv, FilesOf
      <3> QED
        BY <2>1, <3>3, <3>4 DEF QuietInv
    <2> QED
      BY <1>1, <1>2, <1>7, <2>1 DEF ReadFile
  <1> QED
    BY <1>1, <1>2, <1>3, <1>4, <1>5, <1>6, <1>7 DEF Next

-----------------------------------------------------------------------------
\* The inductive invariant of Configs.
THEOREM Invariance == Spec => []IInv
  <1>1. Init => IInv
    <2> SUFFICES ASSUME Init PROVE IInv
      OBVIOUS
    <2>1. Read = {} /\ listed = {} /\ pc = "down"
      BY DEF Init, Read
    <2>2. Merged
      BY <2>1 DEF Init, Merged, FindInv, AccessInv, LastFileWins, AllFilesOrNone, Default
    <2>3. Ordered
      <3>1. configs = Default /\ enabled = 0 /\ targets = NoTargets
        BY DEF Init
      <3>2. DOMAIN configs.units = {} /\ DOMAIN configs.devices = {}
        BY <3>1 DEF Default
      <3> DEFINE nothing == [i \in {} |-> i]
      <3>3. UnitsInv
        <4>1. nothing \in [DOMAIN configs.units -> Read] /\ UnitsFrom(nothing)
          BY <2>1, <3>2 DEF UnitsFrom
        <4> QED
          BY <4>1 DEF UnitsInv
      <3>4. DevicesInv
        <4>1. /\ nothing \in [DOMAIN configs.devices -> Read]
              /\ nothing \in [DOMAIN configs.devices -> Nat] /\ DevicesFrom(nothing, nothing)
          BY <2>1, <3>2 DEF DevicesFrom
        <4> QED
          BY <4>1 DEF DevicesInv
      <3>5. TargetsInv
        BY <3>1 DEF TargetsInv, NoTargets
      <3> QED
        BY <3>3, <3>4, <3>5 DEF Ordered
    <2>4. QuietInv
      BY <2>1 DEF QuietInv
    <2> QED
      BY <2>2, <2>3, <2>4, TypeInit DEF IInv, Merged, Ordered
  <1>2. IInv /\ [Next]_vars => IInv'
    BY TypeStep, MergeStep, OrderStep, QuietStep DEF IInv, Merged, Ordered
  <1> QED
    BY <1>1, <1>2, PTL DEF Spec

\* Type correctness, whatever happens to the files.
THEOREM TypeCorrect == Spec => []TypeOK
  BY Invariance, PTL DEF IInv

\* Configs::update over sorted paths: in each member the last file wins.
THEOREM LastWins == Spec => []LastFileWins
  BY Invariance, PTL DEF IInv

\* Configs::find: the permissions and the rest of a configuration come from
\* all the files that were listed, or none of them counts.
THEOREM AllOrNone == Spec => []AllFilesOrNone
  BY Invariance, PTL DEF IInv

-----------------------------------------------------------------------------
LEMMA LastIs ==
    ASSUME NEW S, S \subseteq Nat, NEW n \in S, \A m \in S : m <= n
    PROVE  LastOf(S) = n
  <1>1. LastOf(S) \in S /\ \A m \in S : m <= LastOf(S)
    BY DEF LastOf
  <1>2. LastOf(S) <= n /\ n <= LastOf(S) /\ LastOf(S) \in Nat /\ n \in Nat
    BY <1>1
  <1> QED
    BY <1>2

\* What is published of files that nobody has touched is what they say.
LEMMA PublishedAsWritten ==
    ASSUME IInv, Publish, quiet
    PROVE  /\ FilesOf(toh) # {} /\ \A f \in FilesOf(toh) : disk[toh][f] # Broken
           /\ object'.toh = toh /\ object'.configured
           /\ object'.info = ExpectedInfo(toh)
           /\ object'.access = ExpectedAccess(toh)
           /\ targets = ExpectedTargets(toh)
           /\ UnitsInOrder(toh, object'.units)
  <1> DEFINE files == FilesOf(toh)
  <1>1. /\ TypeOK /\ pc = "enable" /\ enabled = Len(configs.devices)
        /\ object' = Configured(toh, configs)
    BY DEF Publish, PublishObject, IInv
  <1>2. /\ Read = files /\ files # {} /\ files \subseteq Nat /\ files \subseteq Files
        /\ \A f \in files : seen[f] = disk[toh][f] /\ disk[toh][f] \in Contents
    <2>1. listed = files /\ Read = listed /\ listed # {} /\ \A f \in Read : seen[f] = disk[toh][f]
      BY <1>1 DEF IInv, FindInv, QuietInv
    <2>2. files \subseteq Files /\ Files \subseteq Nat
      BY FilesAssumption DEF FilesOf
    <2>3. \A f \in Read : seen[f] \in Contents
      BY DEF IInv, TypeOK, Read
    <2> QED
      BY <2>1, <2>2, <2>3
  <1>3. \A f \in files : disk[toh][f] # Broken
    BY <1>2, ContentsAssumption
  <1>4. \A f \in files : disk[toh][f] \in Content
    BY <1>2, ContentsAssumption
  <1> HIDE DEF files
  <1>5. object'.info = ExpectedInfo(toh)
    <2> DEFINE those(k) == {f \in files : Members(disk[toh][f])[k] # None}
    <2>1. ASSUME NEW k \in Keys
          PROVE  (IF configs.overrides[k] = None THEN Chip[toh][k] ELSE configs.overrides[k])
                   = IF those(k) = {} THEN Chip[toh][k]
                     ELSE Members(disk[toh][LastOf(those(k))])[k]
      <3>1. \/ /\ configs.overrides[k] = None
               /\ \A f \in files : Members(disk[toh][f])[k] = None
            \/ \E f \in files :
                 /\ configs.overrides[k] = Members(disk[toh][f])[k]
                 /\ configs.overrides[k] # None
                 /\ \A g \in files : g > f => Members(disk[toh][g])[k] = None
        BY <1>2 DEF IInv, LastFileWins
      <3>2. CASE /\ configs.overrides[k] = None
                 /\ \A f \in files : Members(disk[toh][f])[k] = None
        BY <3>2
      <3>3. ASSUME NEW f \in files,
                   configs.overrides[k] = Members(disk[toh][f])[k],
                   configs.overrides[k] # None,
                   \A g \in files : g > f => Members(disk[toh][g])[k] = None
            PROVE  those(k) # {} /\ LastOf(those(k)) = f
        <4>1. f \in those(k) /\ those(k) \subseteq Nat
          BY <1>2, <3>3
        <4>2. \A g \in those(k) : g <= f
          BY <1>2, <3>3
        <4> HIDE DEF those
        <4> QED
          BY <4>1, <4>2, LastIs
      <3> HIDE DEF those
      <3>4. CASE those(k) = {}
        BY <3>1, <3>3, <3>4
      <3>5. CASE those(k) # {}
        <4>1. ~(\A f \in files : Members(disk[toh][f])[k] = None)
          BY <3>5 DEF those
        <4> QED
          BY <3>1, <3>3, <3>5, <4>1
      <3> QED
        BY <3>4, <3>5
    <2>2. object'.info =
             [k \in Keys |-> IF configs.overrides[k] = None THEN Chip[toh][k]
                                                            ELSE configs.overrides[k]]
      BY <1>1 DEF Configured, Combine
    <2>3. ExpectedInfo(toh) =
             [k \in Keys |-> IF those(k) = {} THEN Chip[toh][k]
                             ELSE Members(disk[toh][LastOf(those(k))])[k]]
      BY DEF ExpectedInfo, files
    <2> HIDE DEF those
    <2> QED
      BY <2>1, <2>2, <2>3
  <1>6. object'.access = ExpectedAccess(toh)
    <2>1. object'.access = UNION {seen[f].access : f \in files}
      BY <1>1, <1>2 DEF Configured, IInv, AccessInv
    <2>2. {seen[f].access : f \in files} = {disk[toh][f].access : f \in files}
      BY <1>2
    <2> QED
      BY <2>1, <2>2 DEF ExpectedAccess, files
  <1>7. targets = ExpectedTargets(toh)
    <2> DEFINE those(a) == {f \in files : At(a, disk[toh][f]) # {}}
               last(a) == disk[toh][LastOf(those(a))]
               expected(a) == IF those(a) = {} THEN None
                              ELSE last(a).devices[LastOf(At(a, last(a)))].name
    <2>1. DOMAIN configs.devices = 1 .. enabled /\ enabled \in Nat
      BY <1>1 DEF TypeOK, Configs
    <2>2. PICK file \in [1 .. enabled -> files], place \in [1 .. enabled -> Nat] :
             DevicesFrom(file, place)
      BY <1>2, <2>1 DEF IInv, DevicesInv
    <2>3. /\ \A i \in 1 .. enabled :
                /\ place[i] \in DOMAIN disk[toh][file[i]].devices
                /\ configs.devices[i] = disk[toh][file[i]].devices[place[i]]
          /\ \A f \in files : \A p \in DOMAIN disk[toh][f].devices :
                \E i \in 1 .. enabled : file[i] = f /\ place[i] = p
          /\ \A i, j \in 1 .. enabled :
                i < j => file[i] < file[j] \/ (file[i] = file[j] /\ place[i] < place[j])
      <3>1. \A i \in 1 .. enabled : file[i] \in files /\ seen[file[i]] = disk[toh][file[i]]
        BY <1>2, <2>2
      <3>2. \A i \in 1 .. enabled :
                /\ place[i] \in DOMAIN seen[file[i]].devices
                /\ configs.devices[i] = seen[file[i]].devices[place[i]]
        BY <2>1, <2>2 DEF DevicesFrom
      <3>3. \A f \in files : \A p \in DOMAIN seen[f].devices :
                \E i \in 1 .. enabled : file[i] = f /\ place[i] = p
        BY <1>2, <2>1, <2>2 DEF DevicesFrom
      <3>4. \A i, j \in 1 .. enabled :
                i < j => file[i] < file[j] \/ (file[i] = file[j] /\ place[i] < place[j])
        BY <2>1, <2>2 DEF DevicesFrom
      <3> QED
        BY <1>2, <3>1, <3>2, <3>3, <3>4
    <2>4. ASSUME NEW a \in Addresses PROVE targets[a] = expected(a)
      <3>1. \A f \in files : At(a, disk[toh][f]) \subseteq Nat
        <4>1. \A f \in files : DOMAIN disk[toh][f].devices \subseteq Nat
          BY <1>4 DEF Content
        <4> QED
          BY <4>1 DEF At
      <3>2. CASE /\ targets[a] = None
                 /\ \A i \in 1 .. enabled : configs.devices[i].address # a
        <4>1. those(a) = {}
          BY <2>3, <3>2 DEF At
        <4> QED
          BY <3>2, <4>1
      <3>3. ASSUME NEW i \in 1 .. enabled,
                   configs.devices[i].address = a, configs.devices[i].name = targets[a],
                   \A j \in 1 .. enabled : j > i => configs.devices[j].address # a
            PROVE  targets[a] = expected(a)
        <4>1. file[i] \in files /\ place[i] \in At(a, disk[toh][file[i]])
          BY <2>2, <2>3, <3>3 DEF At
        <4>2. ASSUME NEW g \in files, NEW p \in At(a, disk[toh][g])
              PROVE  g <= file[i] /\ (g = file[i] => p <= place[i])
          <5>1. PICK j \in 1 .. enabled : file[j] = g /\ place[j] = p
            BY <2>3 DEF At
          <5>2. configs.devices[j].address = a
            BY <2>3, <5>1 DEF At
          <5>3. j = i \/ j < i
            BY <2>1, <3>3, <5>2
          <5>4. g \in Nat /\ file[i] \in Nat /\ p \in Nat /\ place[i] \in Nat
            BY <1>2, <2>2, <5>1
          <5>5. j = i \/ g < file[i] \/ (g = file[i] /\ p < place[i])
            BY <2>3, <5>1, <5>3
          <5> QED
            BY <5>1, <5>4, <5>5
        <4>3. LastOf(those(a)) = file[i] /\ those(a) # {}
          <5>1. file[i] \in those(a) /\ those(a) \subseteq Nat
            BY <1>2, <4>1
          <5>2. \A g \in those(a) : g <= file[i]
            BY <4>2
          <5> HIDE DEF those
          <5> QED
            BY <5>1, <5>2, LastIs
        <4>4. LastOf(At(a, disk[toh][file[i]])) = place[i]
          BY <3>1, <4>1, <4>2, LastIs
        <4>5. targets[a] = disk[toh][file[i]].devices[place[i]].name
          BY <2>3, <3>3
        <4> HIDE DEF those
        <4> QED
          BY <4>3, <4>4, <4>5
      <3> HIDE DEF expected
      <3> QED
        BY <3>2, <3>3 DEF IInv, TargetsInv
    <2>5. targets = [a \in Addresses |-> targets[a]]
      BY <1>1 DEF TypeOK
    <2>6. ExpectedTargets(toh) = [a \in Addresses |-> expected(a)]
      BY DEF ExpectedTargets, files
    <2> HIDE DEF expected
    <2> QED
      BY <2>4, <2>5, <2>6
  <1>8. UnitsInOrder(toh, object'.units)
    <2>1. PICK n : n = Len(configs.units)
      OBVIOUS
    <2>2. object'.units = configs.units /\ configs.units \in Seq(Units)
      BY <1>1 DEF Configured, TypeOK, Configs
    <2>3. DOMAIN configs.units = 1 .. n /\ \A i \in 1 .. n : configs.units[i] # None
      BY <2>1, <2>2, NoneAssumption
    <2> DEFINE those == {f \in files : disk[toh][f].unit # None}
    <2>4. PICK file \in [1 .. n -> files] :
             /\ \A i \in 1 .. n : configs.units[i] = seen[file[i]].unit
             /\ \A f \in files : seen[f].unit # None => \E i \in 1 .. n : file[i] = f
             /\ \A i, j \in 1 .. n : i < j => file[i] < file[j]
      BY <1>2, <2>3 DEF IInv, UnitsInv, UnitsFrom
    <2>5. \A i \in 1 .. n : configs.units[i] = disk[toh][file[i]].unit /\ file[i] \in those
      BY <1>2, <2>3, <2>4
    <2>6. \A f \in those : \E i \in 1 .. n : file[i] = f
      BY <1>2, <2>4
    <2>7. file \in [1 .. n -> those]
      BY <2>5
    <2> HIDE DEF those
    <2>8. \E x \in [DOMAIN configs.units -> those] :
             /\ \A f \in those : \E i \in DOMAIN configs.units : x[i] = f
             /\ \A i, j \in DOMAIN configs.units : i < j => x[i] < x[j]
             /\ \A i \in DOMAIN configs.units : configs.units[i] = disk[toh][x[i]].unit
      <3>1. file \in [DOMAIN configs.units -> those]
        BY <2>3, <2>7
      <3>2. /\ \A f \in those : \E i \in DOMAIN configs.units : file[i] = f
            /\ \A i, j \in DOMAIN configs.units : i < j => file[i] < file[j]
            /\ \A i \in DOMAIN configs.units : configs.units[i] = disk[toh][file[i]].unit
        BY <2>3, <2>4, <2>5, <2>6
      <3> QED
        BY <3>1, <3>2
    <2> QED
      BY <2>2, <2>8 DEF UnitsInOrder, those, files
  <1> QED
    BY <1>1, <1>2, <1>3, <1>5, <1>6, <1>7, <1>8 DEF Configured, files

\* A TOH without its configuration has none, or a file of it cannot be read.
LEMMA UnconfiguredAsWritten ==
    ASSUME IInv, [Next]_vars, ~Publish,
           object' # object, object' # NoObject, quiet'
    PROVE  /\ object' = Unconfigured(toh')
           /\ FilesOf(toh') = {} \/ \E f \in FilesOf(toh') : disk[toh'][f] = Broken
  <1>1. \/ Find
        \/ FindFails /\ (OpenDir \/ ListEntry \/ ReadFile)
        \/ Listed
    BY DEF Next, Edit, Start, Exit, Find, OpenDir, ListEntry, Listed, ReadFile, EnableTarget,
           Publish, Unpublish, vars
  <1>2. ~Fault
    BY DEF Fault
  <1>3. \A t \in Tohs : ~IsDir(t) => FilesOf(t) = {}
    BY FilesAssumption DEF IsDir, FilesOf
  <1>4. CASE Find
    <2>1. toh' \in Tohs /\ ~IsDir(toh') /\ object' = Unconfigured(toh')
      BY <1>4 DEF Find, PublishObject
    <2> QED
      BY <1>3, <2>1
  <1>5. CASE FindFails /\ (OpenDir \/ ListEntry \/ ReadFile)
    <2>1. object' = Unconfigured(toh') /\ toh' = toh /\ toh \in Tohs
      BY <1>5 DEF FindFails, PublishObject, IInv, TypeOK
    <2>2. CASE OpenDir
      BY <1>2, <1>3, <2>1, <2>2 DEF OpenDir
    <2>3. CASE ListEntry
      BY <1>2, <2>3 DEF ListEntry
    <2>4. CASE ReadFile
      <3>1. PICK f \in todo : disk[toh][f] \in {Broken, Missing} /\ quiet /\ pc = "read"
        BY <1>2, <2>4 DEF ReadFile
      <3>2. f \in FilesOf(toh)
        BY <3>1 DEF IInv, FindInv, QuietInv
      <3> QED
        BY <2>1, <3>1, <3>2 DEF FilesOf
    <2> QED
      BY <1>5, <2>2, <2>3, <2>4
  <1>6. CASE Listed
    <2>1. /\ pc = "list" /\ unlisted = {} /\ listed = {} /\ quiet
          /\ object' = Unconfigured(toh) /\ toh' = toh
      BY <1>6 DEF Listed, PublishObject
    <2> QED
      BY <2>1 DEF IInv, QuietInv
  <1> QED
    BY <1>1, <1>4, <1>5, <1>6

\* main: when nobody touches the files of a TOH while they are found and read,
\* the TOH is published with exactly what they say - for each member the last
\* file, the permissions of all, the units in the order of the files - and with
\* the devices of all files on its bus, the last one at each address.
THEOREM QuietPublication == Spec => QuietDiskPublished
  <1> DEFINE Step ==
        object' # object /\ object' # NoObject /\ quiet' =>
          LET t == toh' IN
          IF FilesOf(t) = {} \/ \E f \in FilesOf(t) : disk[t][f] = Broken
            THEN object' = Unconfigured(t)
            ELSE /\ object'.toh = t /\ object'.configured
                 /\ object'.info = ExpectedInfo(t)
                 /\ object'.access = ExpectedAccess(t)
                 /\ targets = ExpectedTargets(t)
                 /\ UnitsInOrder(t, object'.units)
  <1>1. IInv /\ [Next]_vars => [Step]_vars
    <2> SUFFICES ASSUME IInv, [Next]_vars, object' # object, object' # NoObject, quiet'
                 PROVE  Step
      OBVIOUS
    <2>1. CASE Publish
      <3>1. quiet /\ toh' = toh
        BY <2>1 DEF Publish, findVars
      <3> QED
        BY <2>1, <3>1, PublishedAsWritten
    <2>2. CASE ~Publish
      BY <2>2, UnconfiguredAsWritten
    <2> QED
      BY <2>1, <2>2
  <1>2. Spec => [][Step]_vars
    <2> HIDE DEF Step
    <2> QED
      BY <1>1, Invariance, PTL DEF Spec
  <1> QED
    BY <1>2 DEF QuietDiskPublished
=============================================================================
