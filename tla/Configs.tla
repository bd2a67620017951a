------------------------------ MODULE Configs ------------------------------
(***************************************************************************)
(* From the configuration files of a TOH to the object that tohd           *)
(* publishes: Configs::find, the merge of the files, and what main does    *)
(* with it (src/toh/config, src/main.rs), while a package manager installs,*)
(* replaces and removes files.                                             *)
(*                                                                         *)
(* Find does not await anything, but every system call in it is a step:    *)
(* the files are other processes' to change between any two of them.  What *)
(* happens between detection and publication otherwise is in Daemon.       *)
(***************************************************************************)
EXTENDS Integers, SequencesExt

CONSTANTS
    Tohs,       \* the TOHs, by vendor and product ID: each has its directory
    Chip,       \* TOH -> its Info as read from the memory chip
    Files,      \* the paths in a directory, numbered in the order of sort()
    Yaml,       \* those with the extension "yaml"
    Known,      \* the members of "override" that stand for a field of Info
    Extra,      \* any other member: extra data
    Values,     \* what a member can be
    Null,       \* YAML's null
    None,       \* Option::None: no such member or field
    Exes,       \* executables in access lists
    Addresses, Names, \* I2C target devices; one without a name has the name "none"
    Units,      \* systemd units
    Contents,   \* what can be in a file that parses
    Installed,  \* the directories as they may be when the device boots
    Broken,     \* a file that does not
    Missing,    \* no such file
    NoObject,   \* nothing is published
    MaxEdits,   \* bound: changes to the files
    MaxFaults   \* bound: I/O errors while the files are read

Keys == Known \cup Extra
Info == [Keys -> Values \cup {None}]
Device == [address : Addresses, name : Names]
Content == [override : Info, access : SUBSET Exes, devices : Seq(Device),
            unit : Units \cup {None}]

ASSUME FilesAssumption == Files \subseteq Nat /\ Yaml \subseteq Files
ASSUME KeysAssumption == Known \cap Extra = {} /\ None \notin Values /\ Null \in Values
ASSUME ChipAssumption == Chip \in [Tohs -> Info]
ASSUME ContentsAssumption ==
    /\ Contents \subseteq Content
    /\ Broken \notin Contents /\ Missing \notin Contents /\ Broken # Missing
ASSUME InstalledAssumption ==
    Installed \subseteq [Tohs -> [Files -> Contents \cup {Broken, Missing}]]
ASSUME EditsAssumption == MaxEdits \in Nat /\ MaxFaults \in Nat
ASSUME NoneAssumption == None \notin Units \cup Names

\* Configs: what has been merged so far.
Configs == [overrides : Info, access : SUBSET Exes, devices : Seq(Device), units : Seq(Units)]

\* The published Toh, with the units that main takes care of.
Object == [toh : Tohs, configured : BOOLEAN, info : Info, access : SUBSET Exes,
           units : Seq(Units)]

VARIABLES
    disk,     \* TOH -> file -> its content
    pc,       \* where main stands
    toh,      \* the TOH that was detected last
    unlisted, \* the files that read_dir has not come to yet
    todo,     \* the listed paths that are still to be read
    configs,  \* the local variable of find
    enabled,  \* how many of its devices have been added to the bus
    targets,  \* address -> name of the device that this TOH got there last
    object,   \* the published object
    listed,   \* history: all paths that were listed
    seen,     \* history: file -> what it held when it was read
    quiet,    \* history: no change and no error since find began
    edits, faults

findVars == <<toh, unlisted, todo, configs, enabled, targets, listed, seen>>
vars == <<disk, pc, findVars, object, quiet, edits, faults>>

Default == [overrides |-> [k \in Keys |-> None], access |-> {}, devices |-> <<>>,
            units |-> <<>>]
\* None of the TOH's devices has been added yet.
NoTargets == [a \in Addresses |-> None]

TypeOK ==
    /\ disk \in [Tohs -> [Files -> Contents \cup {Broken, Missing}]]
    /\ pc \in {"down", "idle", "open", "list", "read", "enable", "published"}
    /\ toh \in Tohs
    /\ unlisted \subseteq Files /\ todo \subseteq Yaml /\ listed \subseteq Yaml
    /\ configs \in Configs /\ enabled \in 0 .. Len(configs.devices)
    /\ targets \in [Addresses -> Names \cup {None}]
    /\ object \in Object \cup {NoObject}
    /\ seen \in [Files -> Contents \cup {Missing}]
    /\ quiet \in BOOLEAN
    /\ edits \in 0 .. MaxEdits /\ faults \in 0 .. MaxFaults

Init ==
    /\ disk \in Installed
    /\ pc = "down" /\ toh \in Tohs
    /\ unlisted = {} /\ todo = {} /\ listed = {}
    /\ configs = Default /\ enabled = 0 /\ targets = NoTargets /\ object = NoObject
    /\ seen = [f \in Files |-> Missing] /\ quiet = TRUE
    /\ edits = 0 /\ faults = 0

-----------------------------------------------------------------------------
(* The files *)

\* A package manager or a person writes or removes a file.
Edit ==
    /\ edits < MaxEdits /\ edits' = edits + 1
    /\ \E t \in Tohs, f \in Files, c \in Contents \cup {Broken, Missing} :
          disk' = [disk EXCEPT ![t][f] = c]
    /\ quiet' = FALSE
    /\ UNCHANGED <<findVars, pc, object, faults>>

\* The directory of a TOH goes with its last file.
IsDir(t) == \E f \in Files : disk[t][f] # Missing

Fault == faults < MaxFaults /\ faults' = faults + 1 /\ quiet' = FALSE

-----------------------------------------------------------------------------
(* Parsing and merging *)

\* Override as parsed: a null field of Info is None like one that is not
\* there, but a null in the flattened map of the others is a value.
Members(content) ==
    [k \in Keys |-> IF k \in Known /\ content.override[k] = Null THEN None
                                                               ELSE content.override[k]]

\* combine! for the fields, extend for the extra data: what b defines wins.
Combine(a, b) == [k \in Keys |-> IF b[k] = None THEN a[k] ELSE b[k]]

\* Configs::update.  System and user units are two lists treated alike.
Update(c, content) ==
    [overrides |-> Combine(c.overrides, Members(content)),
     access |-> c.access \cup content.access,
     devices |-> c.devices \o content.devices,
     units |-> IF content.unit = None THEN c.units ELSE Append(c.units, content.unit)]

\* Without its configuration a TOH is what its chip says.
Unconfigured(t) ==
    [toh |-> t, configured |-> FALSE, info |-> Chip[t], access |-> {}, units |-> <<>>]

\* split and apply_overrides
Configured(t, c) ==
    [toh |-> t, configured |-> TRUE, info |-> Combine(Chip[t], c.overrides),
     access |-> c.access, units |-> c.units]

-----------------------------------------------------------------------------
(* main *)

Start ==
    /\ pc = "down" /\ pc' = "idle"
    /\ UNCHANGED <<disk, findVars, object, quiet, edits, faults>>

\* The local variables of find at its beginning.
Fresh ==
    /\ unlisted' = {} /\ todo' = {} /\ listed' = {} /\ configs' = Default
    /\ enabled' = 0 /\ targets' = NoTargets
    /\ seen' = [f \in Files |-> Missing]

\* The process ends anywhere, with its object.  (What stays on the bus then is
\* the matter of Daemon; AddTarget replaces it or finds it right.)
Exit ==
    /\ pc # "down" /\ pc' = "down" /\ object' = NoObject
    /\ Fresh
    /\ UNCHANGED <<disk, toh, quiet, edits, faults>>

PublishObject(o) == pc' = "published" /\ object' = o

\* detect returns the Info of a TOH; find looks for its directory.
Find ==
    /\ pc = "idle"
    /\ \E t \in Tohs :
         /\ toh' = t
         /\ \/ IsDir(t) /\ pc' = "open" /\ UNCHANGED object
            \/ ~IsDir(t) /\ PublishObject(Unconfigured(t))
    /\ Fresh /\ quiet' = TRUE
    /\ UNCHANGED <<disk, edits, faults>>

\* find returns an error: main publishes the TOH without its configuration.
FindFails == PublishObject(Unconfigured(toh)) /\ Fresh /\ UNCHANGED toh

\* read_dir; the directory "could have been deleted between the check and this".
OpenDir ==
    /\ pc = "open"
    /\ \/ /\ IsDir(toh) /\ pc' = "list" /\ unlisted' = Files
          /\ UNCHANGED <<toh, todo, configs, enabled, targets, listed, seen, object, quiet, faults>>
       \/ /\ ~IsDir(toh)
          /\ FindFails /\ UNCHANGED <<quiet, faults>>
       \/ Fault /\ FindFails
    /\ UNCHANGED <<disk, edits>>

\* Mutant of ListEntry: every file of the directory counts.
ListAnyEntry ==
    /\ pc = "list" /\ unlisted # {}
    /\ \E f \in unlisted :
         /\ unlisted' = unlisted \ {f}
         /\ listed' = IF disk[toh][f] # Missing THEN listed \cup {f} ELSE listed
    /\ UNCHANGED <<disk, pc, toh, todo, configs, enabled, targets, seen, object, quiet,
                   edits, faults>>

\* The entries come in any order, each as the directory is at that moment.
ListEntry ==
    /\ pc = "list" /\ unlisted # {}
    /\ \/ /\ \E f \in unlisted :
               /\ unlisted' = unlisted \ {f}
               /\ listed' = IF f \in Yaml /\ disk[toh][f] # Missing THEN listed \cup {f}
                                                                  ELSE listed
          /\ UNCHANGED <<pc, toh, todo, configs, enabled, targets, seen, object, quiet, faults>>
       \/ Fault /\ FindFails
    /\ UNCHANGED <<disk, edits>>

\* All entries are there: Ok(None) if none of them counts, or paths.sort().
Listed ==
    /\ pc = "list" /\ unlisted = {}
    /\ \/ /\ listed = {}
          /\ PublishObject(Unconfigured(toh)) /\ UNCHANGED todo
       \/ /\ listed # {}
          /\ pc' = "read" /\ todo' = listed /\ UNCHANGED object
    /\ UNCHANGED <<disk, toh, unlisted, configs, enabled, targets, listed, seen, quiet, edits,
                   faults>>

\* Mutant of NextPath: the paths are not sorted.
AnyPath(f) == f \in todo

NextPath(f) == f \in todo /\ \A g \in todo : f <= g

\* Mutant of ReadFile: a file that cannot be read is skipped.
ReadFileSkips ==
    /\ pc = "read"
    /\ \E f \in todo :
         /\ NextPath(f)
         /\ todo' = todo \ {f}
         /\ IF disk[toh][f] \in Contents
              THEN /\ configs' = Update(configs, disk[toh][f])
                   /\ seen' = [seen EXCEPT ![f] = disk[toh][f]]
              ELSE UNCHANGED <<configs, seen>>
         /\ pc' = IF todo' = {} THEN "enable" ELSE "read"
         /\ UNCHANGED <<toh, unlisted, enabled, targets, listed, object, quiet, faults>>
    /\ UNCHANGED <<disk, edits>>

\* The next file is opened, parsed and merged.  One that is gone or does not
\* parse makes an error of the whole configuration.
ReadFile ==
    /\ pc = "read"
    /\ \E f \in todo :
         /\ NextPath(f)
         /\ \/ /\ disk[toh][f] \in Contents
               /\ configs' = Update(configs, disk[toh][f])
               /\ seen' = [seen EXCEPT ![f] = disk[toh][f]]
               /\ todo' = todo \ {f}
               /\ pc' = IF todo' = {} THEN "enable" ELSE "read"
               /\ UNCHANGED <<toh, unlisted, enabled, targets, listed, object, quiet, faults>>
            \/ /\ disk[toh][f] \in {Broken, Missing}
               /\ FindFails /\ UNCHANGED <<quiet, faults>>
            \/ Fault /\ FindFails
    /\ UNCHANGED <<disk, edits>>

\* Mutant of AddTarget: a device at the address is left alone.
AddTargetOnce(device) ==
    targets' = IF targets[device.address] = None
                 THEN [targets EXCEPT ![device.address] = device.name] ELSE targets

\* A device replaces another one at its address (AddTarget in Daemon).
AddTarget(device) == targets' = [targets EXCEPT ![device.address] = device.name]

\* enable_target_devices adds one device after the other; with an error main
\* exits.
EnableTarget ==
    /\ pc = "enable" /\ enabled < Len(configs.devices)
    /\ enabled' = enabled + 1 /\ AddTarget(configs.devices[enabled + 1])
    /\ UNCHANGED <<disk, pc, toh, unlisted, todo, configs, object, listed, seen, quiet, edits,
                   faults>>

Publish ==
    /\ pc = "enable" /\ enabled = Len(configs.devices)
    /\ PublishObject(Configured(toh, configs))
    /\ UNCHANGED <<disk, findVars, quiet, edits, faults>>

\* The TOH was detached, and main has removed the object.
Unpublish ==
    /\ pc = "published" /\ pc' = "idle" /\ object' = NoObject
    /\ Fresh
    /\ UNCHANGED <<disk, toh, quiet, edits, faults>>

Next ==
    \/ Edit \/ Start \/ Exit \/ Find \/ OpenDir \/ ListEntry \/ Listed \/ ReadFile
    \/ EnableTarget \/ Publish \/ Unpublish

Spec == Init /\ [][Next]_vars

-----------------------------------------------------------------------------
(* Safety *)

Read == {f \in Files : seen[f] # Missing}

\* Each override is that of the last file, in the order of the paths, that
\* has one when it is read, whatever order the directory lists them in.
LastFileWins ==
    \A k \in Keys :
        \/ /\ configs.overrides[k] = None
           /\ \A f \in Read : Members(seen[f])[k] = None
        \/ \E f \in Read :
             /\ configs.overrides[k] = Members(seen[f])[k]
             /\ configs.overrides[k] # None
             /\ \A g \in Read : g > f => Members(seen[g])[k] = None

\* A published TOH has the permissions of all the files that were listed or,
\* if one of them could not be read, of none, and then nothing else of them.
AllFilesOrNone ==
    object # NoObject =>
        \/ /\ object.configured /\ Read = listed
           /\ object.access = UNION {seen[f].access : f \in listed}
        \/ object = Unconfigured(toh)

\* What the files of a TOH say, for each thing by the last file that says it.
FilesOf(t) == {f \in Yaml : disk[t][f] # Missing}
LastOf(numbers) == CHOOSE n \in numbers : \A m \in numbers : m <= n

ExpectedInfo(t) ==
    [k \in Keys |->
        LET those == {f \in FilesOf(t) : Members(disk[t][f])[k] # None}
        IN IF those = {} THEN Chip[t][k] ELSE Members(disk[t][LastOf(those)])[k]]

ExpectedAccess(t) == UNION {disk[t][f].access : f \in FilesOf(t)}

\* The places of a file's devices with an address.
At(a, content) == {i \in DOMAIN content.devices : content.devices[i].address = a}

ExpectedTargets(t) ==
    [a \in Addresses |->
        LET those == {f \in FilesOf(t) : At(a, disk[t][f]) # {}}
            last == disk[t][LastOf(those)]
        IN IF those = {} THEN None ELSE last.devices[LastOf(At(a, last))].name]

\* One unit of each file that has one, in the order of the files.
UnitsInOrder(t, units) ==
    LET those == {f \in FilesOf(t) : disk[t][f].unit # None} IN
    \E file \in [DOMAIN units -> those] :
        /\ \A f \in those : \E i \in DOMAIN units : file[i] = f
        /\ \A i, j \in DOMAIN units : i < j => file[i] < file[j]
        /\ \A i \in DOMAIN units : units[i] = disk[t][file[i]].unit

\* When nobody touches the files and nothing fails in the meantime, the TOH is
\* published with exactly what they say, and its devices are on the bus.
QuietDiskPublished ==
    [][ object' # object /\ object' # NoObject /\ quiet' =>
          LET t == toh' IN
          IF FilesOf(t) = {} \/ \E f \in FilesOf(t) : disk[t][f] = Broken
            THEN object' = Unconfigured(t)
            ELSE /\ object'.toh = t /\ object'.configured
                 /\ object'.info = ExpectedInfo(t)
                 /\ object'.access = ExpectedAccess(t)
                 /\ targets = ExpectedTargets(t)
                 /\ UnitsInOrder(t, object'.units) ]_vars
=============================================================================
