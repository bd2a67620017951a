--------------------------- MODULE Daemon_proofs ---------------------------
(***************************************************************************)
(* For any set of back covers, any configuration of them and any number of *)
(* errors and kills: the types of Daemon are respected, a published TOH    *)
(* has its devices on the bus, and no running unit is forgotten.           *)
(***************************************************************************)
EXTENDS Daemon, TLAPS

-----------------------------------------------------------------------------
(* The inductive invariant *)

\* An object is on D-Bus exactly between publication and removal.
PubInv == info # NoToh <=> pc \in {"published", "stopping"}

\* Units are handled, and the disconnect is waited for, only meanwhile.
WaitInv ==
    /\ pc # "published" => units = "idle"
    /\ units = "starting" => configured
    /\ pc \notin {"published", "stopping", "removed"} => watch = "on"
    /\ pc \in {"stopping", "removed"} => watch # "on"

\* No unit runs on behalf of the published TOH alone once stop_units is through,
\* or where it will not be called.
AskedInv ==
    pc # "published" \/ ~configured => running \subseteq stopping \cup left

IInv ==
    /\ TypeOK /\ PubInv /\ WaitInv /\ AskedInv
    /\ DevicesExposed /\ NoUnitForgotten

-----------------------------------------------------------------------------
(* The bus *)

Buses == [Addresses -> Names \cup {Nameless, Absent}]

\* What AddAll and PartlyAdded return are buses.
LEMMA BusTypes ==
    ASSUME NEW b \in Buses, NEW t \in Tohs
    PROVE  AddAll(b, Devices[t]) \in Buses /\ PartlyAdded(b, Devices[t]) \subseteq Buses
<1>1. \A a \in DOMAIN Devices[t] : Devices[t][a] \in Names
  BY DEF Names
<1>2. AddAll(b, Devices[t]) \in Buses
  BY <1>1 DEF AddAll, Buses
<1>3. PartlyAdded(b, Devices[t]) \subseteq Buses
  BY <1>1 DEF PartlyAdded, Buses
<1> QED
  BY <1>2, <1>3

\* So is what reading the chip leaves, wherever it stops.
LEMMA ReadTypes ==
    ASSUME TypeOK, NEW i, NEW target \in Names \cup {Nameless, Absent}
    PROVE  ReadUpTo(i, target) \in Buses
BY DEF TypeOK, ReadUpTo, Buses

\* Whatever the chip is, reading it fails with a bus.
LEMMA FailTypes ==
    ASSUME TypeOK, ReadFails, cover \in Tohs
    PROVE  bus' \in Buses
<1>1. PICK i \in 1 .. Tried[cover] :
           \E target \in {Absent, Nameless, bus[Eeprom[i]]} : bus' = ReadUpTo(i, target)
  BY DEF ReadFails
<1>2. i \in 1 .. Len(Eeprom)
  BY TohAssumption
<1>3. Eeprom[i] \in Addresses
  BY <1>2, TohAssumption
<1>4. {Absent, Nameless, bus[Eeprom[i]]} \subseteq Names \cup {Nameless, Absent}
  BY <1>3 DEF TypeOK
<1>5. PICK target \in Names \cup {Nameless, Absent} : bus' = ReadUpTo(i, target)
  BY <1>1, <1>4
<1> QED
  BY <1>5, ReadTypes

\* What detection finds is one of the TOHs, and it leaves a bus.
LEMMA DetectedTypes ==
    ASSUME TypeOK, StillThere
    PROVE  /\ cover \in Tohs /\ Detected \in Tohs /\ Detected # NoToh
           /\ BusesAfterRead \subseteq Buses
<1>1. cover \in Tohs
  BY DEF TypeOK, StillThere, IntLow
<1>2. BusesAfterRead \subseteq Buses
  BY ReadTypes DEF BusesAfterRead, TypeOK, Buses
<1> QED
  BY <1>1, <1>2, TohAssumption DEF Detected

-----------------------------------------------------------------------------
(* Type correctness *)

\* Every step of the daemon and of its environment respects the types; that
\* units belong to a TOH takes the invariants on publication.
LEMMA TypeStep ==
    ASSUME TypeOK, PubInv, WaitInv, [Next]_vars
    PROVE  TypeOK'
<1>f. Fault => faults' \in 0 .. MaxFaults
  BY BoundAssumption DEF TypeOK, Fault
<1> USE BoundAssumption, <1>f DEF TypeOK, Pcs, Exit, unitVars
<1>1. CASE UNCHANGED vars
  BY <1>1 DEF vars
<1>2. CASE MoveCover
  <2>1. /\ contact' \in {"away", "loose", "firm", "interrupt"} /\ cover' \in Tohs \cup {NoToh}
        /\ cover' = NoToh <=> contact' = "away"
        /\ fresh' \in BOOLEAN
    BY <1>2, TohAssumption DEF MoveCover
  <2> QED
    BY <1>2, <2>1 DEF MoveCover, Measuring, objVars
<1>3. CASE Interrupt
  BY <1>3 DEF Interrupt, Measuring, objVars
<1>4. CASE Start \/ Retry \/ Pause
  <2>1. /\ already' \in BOOLEAN /\ gone' \in BOOLEAN /\ fresh' \in BOOLEAN /\ pc' \in Pcs
        /\ UNCHANGED <<contact, cover, moved, variant, power, bus, objVars, unitVars,
                       faults, kills>>
    BY <1>4 DEF Start, Retry, Pause, envVars
  <2> QED
    BY <2>1 DEF objVars
<1>5. CASE Kill
  <2>1. LeaveUnits =>
            running' \subseteq Tohs /\ stopping' \subseteq running' /\ left' \subseteq running'
    BY DEF LeaveUnits
  <2>2. kills' \in 0 .. MaxKills
    BY <1>5 DEF Kill
  <2>3. /\ pc' = "down" /\ info' = NoToh /\ configured' = TRUE /\ units' = "idle" /\ watch' = "on"
        /\ moved' = FALSE /\ LeaveUnits
        /\ UNCHANGED <<contact, cover, gone, fresh, already, variant, power, bus, faults>>
    BY <1>5 DEF Kill
  <2> QED
    BY <2>1, <2>2, <2>3
<1>6. CASE NewCover
  <2>1. /\ faults' \in 0 .. MaxFaults /\ kills' \in 0 .. MaxKills
        /\ power' \in BOOLEAN /\ already' \in BOOLEAN /\ moved' \in BOOLEAN
        /\ configured' \in BOOLEAN
    BY <1>6 DEF NewCover, envVars, objVars
  <2>2. bus' \in [Addresses -> Names \cup {Nameless, Absent}]
    BY <1>6 DEF NewCover
  <2>3. /\ pc' \in Pcs /\ variant' \in {"memory", "bare"} /\ info' \in Tohs \cup {NoToh}
        /\ watch' \in {"on", "done", "failed"}
        /\ units' \in {"idle", "starting", "started", "unconnected"}
    BY <1>6 DEF NewCover, objVars
  <2>4. UNCHANGED <<contact, cover, gone, fresh, unitVars>>
    BY <1>6 DEF NewCover, envVars
  <2> QED
    BY <2>1, <2>2, <2>3, <2>4
<1>7. CASE IsPresent
  <2>1. /\ faults' \in 0 .. MaxFaults /\ kills' \in 0 .. MaxKills
        /\ power' \in BOOLEAN /\ already' \in BOOLEAN /\ moved' \in BOOLEAN
        /\ configured' \in BOOLEAN
    BY <1>7 DEF IsPresent, envVars, objVars
  <2>2. bus' \in [Addresses -> Names \cup {Nameless, Absent}]
    BY <1>7 DEF IsPresent
  <2>3. /\ pc' \in Pcs /\ variant' \in {"memory", "bare"} /\ info' \in Tohs \cup {NoToh}
        /\ watch' \in {"on", "done", "failed"}
        /\ units' \in {"idle", "starting", "started", "unconnected"}
    BY <1>7 DEF IsPresent, objVars
  <2>4. UNCHANGED <<contact, cover, gone, fresh, unitVars>>
    BY <1>7 DEF IsPresent, envVars
  <2> QED
    BY <2>1, <2>2, <2>3, <2>4
<1>8. CASE Connect
  <2>1. /\ faults' \in 0 .. MaxFaults /\ kills' \in 0 .. MaxKills
        /\ power' \in BOOLEAN /\ already' \in BOOLEAN /\ moved' \in BOOLEAN
        /\ configured' \in BOOLEAN
    BY <1>8 DEF Connect, envVars, objVars
  <2>2. bus' \in [Addresses -> Names \cup {Nameless, Absent}]
    BY <1>8 DEF Connect
  <2>3. /\ pc' \in Pcs /\ variant' \in {"memory", "bare"} /\ info' \in Tohs \cup {NoToh}
        /\ watch' \in {"on", "done", "failed"}
        /\ units' \in {"idle", "starting", "started", "unconnected"}
    BY <1>8 DEF Connect, objVars
  <2>4. UNCHANGED <<contact, cover, gone, fresh, unitVars>>
    BY <1>8 DEF Connect, envVars
  <2> QED
    BY <2>1, <2>2, <2>3, <2>4
<1>9. CASE Identify
  <2>1. /\ faults' \in 0 .. MaxFaults /\ kills' \in 0 .. MaxKills
        /\ power' \in BOOLEAN /\ already' \in BOOLEAN /\ moved' \in BOOLEAN
        /\ configured' \in BOOLEAN
    BY <1>9 DEF Identify, envVars, objVars
  <2>2. bus' \in [Addresses -> Names \cup {Nameless, Absent}]
    BY <1>9 DEF Identify
  <2>3. /\ pc' \in Pcs /\ variant' \in {"memory", "bare"} /\ info' \in Tohs \cup {NoToh}
        /\ watch' \in {"on", "done", "failed"}
        /\ units' \in {"idle", "starting", "started", "unconnected"}
    BY <1>9 DEF Identify, objVars
  <2>4. UNCHANGED <<contact, cover, gone, fresh, unitVars>>
    BY <1>9 DEF Identify, envVars
  <2> QED
    BY <2>1, <2>2, <2>3, <2>4
<1>10. CASE Unsupported
  <2>1. /\ faults' \in 0 .. MaxFaults /\ kills' \in 0 .. MaxKills
        /\ power' \in BOOLEAN /\ already' \in BOOLEAN /\ moved' \in BOOLEAN
        /\ configured' \in BOOLEAN
    BY <1>10 DEF Unsupported, envVars, objVars
  <2>2. bus' \in [Addresses -> Names \cup {Nameless, Absent}]
    BY <1>10 DEF Unsupported
  <2>3. /\ pc' \in Pcs /\ variant' \in {"memory", "bare"} /\ info' \in Tohs \cup {NoToh}
        /\ watch' \in {"on", "done", "failed"}
        /\ units' \in {"idle", "starting", "started", "unconnected"}
    BY <1>10 DEF Unsupported, objVars
  <2>4. UNCHANGED <<contact, cover, gone, fresh, unitVars>>
    BY <1>10 DEF Unsupported, envVars
  <2> QED
    BY <2>1, <2>2, <2>3, <2>4
<1>11. CASE DetectFails
  <2>1. /\ faults' \in 0 .. MaxFaults /\ kills' \in 0 .. MaxKills
        /\ power' \in BOOLEAN /\ already' \in BOOLEAN /\ moved' \in BOOLEAN
        /\ configured' \in BOOLEAN
    BY <1>11 DEF DetectFails, ReadFails, envVars, objVars
  <2>2. bus' \in [Addresses -> Names \cup {Nameless, Absent}]
    BY <1>11, FailTypes, DetectedTypes DEF DetectFails, Buses
  <2>3. /\ pc' \in Pcs /\ variant' \in {"memory", "bare"} /\ info' \in Tohs \cup {NoToh}
        /\ watch' \in {"on", "done", "failed"}
        /\ units' \in {"idle", "starting", "started", "unconnected"}
    BY <1>11 DEF DetectFails, ReadFails, objVars
  <2>4. UNCHANGED <<contact, cover, gone, fresh, unitVars>>
    BY <1>11 DEF DetectFails, ReadFails, envVars
  <2> QED
    BY <2>1, <2>2, <2>3, <2>4
<1>12. CASE Publish
  <2>1. Detected \in Tohs /\ LeaveOn[Detected] \in BOOLEAN
    BY <1>12, DetectedTypes, TohAssumption DEF Publish
  <2>2. PICK b \in Buses : bus' = AddAll(b, Devices[Detected])
    BY <1>12, DetectedTypes DEF Publish
  <2>3. bus' \in [Addresses -> Names \cup {Nameless, Absent}]
    BY <2>1, <2>2, BusTypes DEF Buses
  <2>4. /\ power' \in BOOLEAN /\ pc' \in Pcs /\ info' \in Tohs \cup {NoToh} /\ watch' = "on"
        /\ configured' = TRUE /\ units' \in {"starting", "started"}
    BY <1>12, <2>1 DEF Publish, Expose
  <2>5. running' \subseteq Tohs /\ stopping' \subseteq running' /\ left' \subseteq running'
    BY <1>12 DEF Publish
  <2>6. UNCHANGED <<envVars, already, variant, faults, kills>>
    BY <1>12 DEF Publish
  <2> QED
    BY <2>3, <2>4, <2>5, <2>6 DEF envVars
<1>13. CASE PublishUnconfigured
  <2>1. Detected \in Tohs /\ ChipLeaveOn[Detected] \in BOOLEAN
    BY <1>13, DetectedTypes, TohAssumption DEF PublishUnconfigured
  <2>2. bus' \in [Addresses -> Names \cup {Nameless, Absent}]
    BY <1>13, DetectedTypes DEF PublishUnconfigured, Buses
  <2>3. /\ power' \in BOOLEAN /\ pc' \in Pcs /\ info' \in Tohs \cup {NoToh} /\ watch' = "on"
        /\ configured' = FALSE /\ units' = "started" /\ faults' \in 0 .. MaxFaults
    BY <1>13, <2>1 DEF PublishUnconfigured, Expose
  <2>4. UNCHANGED <<envVars, already, variant, unitVars, kills>>
    BY <1>13 DEF PublishUnconfigured
  <2> QED
    BY <2>2, <2>3, <2>4 DEF envVars
<1>14. CASE PublishFails
  <2>1. Detected \in Tohs /\ LeaveOn[Detected] \in BOOLEAN
    BY <1>14, DetectedTypes, TohAssumption DEF PublishFails
  <2>2. PICK b \in Buses : bus' \in PartlyAdded(b, Devices[Detected])
    BY <1>14, DetectedTypes DEF PublishFails
  <2>3. bus' \in [Addresses -> Names \cup {Nameless, Absent}]
    BY <2>1, <2>2, BusTypes DEF Buses
  <2>4. power' \in BOOLEAN /\ faults' \in 0 .. MaxFaults
    BY <1>14, <2>1 DEF PublishFails
  <2> QED
    BY <1>14, <2>3, <2>4 DEF PublishFails, envVars
<1>15. CASE UnitStarts
  <2>1. info \in Tohs
    BY <1>15 DEF UnitStarts, PubInv, WaitInv
  <2> QED
    BY <1>15, <2>1 DEF UnitStarts, envVars, objVars
<1>16. CASE StartUnitsDone
  BY <1>16 DEF StartUnitsDone, envVars
<1>17. ASSUME NEW t \in Tohs, UnitsEnd(t)
       PROVE  TypeOK'
  BY <1>17 DEF UnitsEnd, envVars, objVars
<1>18. CASE WatchDisconnect
  <2>1. watch' \in {"done", "failed"} /\ faults' \in 0 .. MaxFaults
    BY <1>18 DEF WatchDisconnect
  <2> QED
    BY <1>18, <2>1 DEF WatchDisconnect, envVars
<1>19. CASE StopUnits
  <2>1. /\ running' \subseteq Tohs /\ stopping' \subseteq running' /\ left' \subseteq running'
        /\ faults' \in 0 .. MaxFaults
    BY <1>19 DEF StopUnits, AskToStop
  <2>2. /\ pc' \in Pcs /\ units' = "idle"
        /\ UNCHANGED <<envVars, already, variant, power, bus, info, configured, watch, kills>>
    BY <1>19 DEF StopUnits
  <2> QED
    BY <2>1, <2>2 DEF envVars
<1>20. CASE StopUnitsPanics
  <2>1. running' \subseteq Tohs /\ stopping' \subseteq running' /\ left' \subseteq running'
    BY <1>20 DEF StopUnitsPanics
  <2> QED
    BY <1>20, <2>1 DEF StopUnitsPanics, envVars
<1>21. CASE Remove
  BY <1>21 DEF Remove
<1>22. CASE AbortWatcher
  <2>1. power' \in BOOLEAN /\ pc' \in Pcs /\ watch' = "on"
    BY <1>22 DEF AbortWatcher
  <2> QED
    BY <1>22, <2>1 DEF AbortWatcher, envVars
<1> QED
  BY <1>1, <1>2, <1>3, <1>4, <1>5, <1>6, <1>7, <1>8, <1>9, <1>10, <1>11, <1>12,
     <1>13, <1>14, <1>15, <1>16, <1>17, <1>18, <1>19, <1>20, <1>21, <1>22
  DEF Next, DaemonStep, Environment

-----------------------------------------------------------------------------
(* The steps keep the invariant *)

\* The initial states satisfy the invariant.
LEMMA InitInv == Init => IInv
<1> SUFFICES ASSUME Init
             PROVE  IInv
  OBVIOUS
<1>1. TypeOK
  <2>1. 0 \in 0 .. MaxFaults /\ 0 \in 0 .. MaxKills
    BY BoundAssumption
  <2>2. bus \in [Addresses -> Names \cup {Nameless, Absent}]
    BY DEF Init
  <2>3. /\ contact \in {"away", "loose", "firm", "interrupt"}
        /\ cover \in Tohs \cup {NoToh} /\ (cover = NoToh <=> contact = "away")
    BY TohAssumption DEF Init
  <2> QED
    BY <2>1, <2>2, <2>3 DEF Init, TypeOK, Pcs
<1>2. PubInv /\ WaitInv /\ AskedInv
  BY DEF Init, PubInv, WaitInv, AskedInv
<1>3. DevicesExposed /\ NoUnitForgotten
  BY DEF Init, DevicesExposed, NoUnitForgotten
<1> QED
  BY <1>1, <1>2, <1>3 DEF IInv

\* A step between two publications that leaves the units alone.
LEMMA BetweenStep ==
    ASSUME IInv, TypeOK', info' = NoToh, pc \notin {"published", "stopping"},
           pc' \notin {"published", "stopping", "removed"},
           units' = "idle", watch' = "on", UNCHANGED unitVars
    PROVE  IInv'
<1>1. PubInv' /\ WaitInv'
  BY DEF IInv, PubInv, WaitInv
<1>2. AskedInv' /\ NoUnitForgotten'
  BY DEF IInv, AskedInv, NoUnitForgotten, unitVars
<1> QED
  BY <1>1, <1>2 DEF IInv, DevicesExposed

\* A step that leaves main where it is, its object, its bus and the units alone.
LEMMA AsideStep ==
    ASSUME IInv, TypeOK', UNCHANGED <<pc, bus, info, configured, watch>>,
           pc # "published" => UNCHANGED units,
           units' \in {units, "started", "unconnected"}, UNCHANGED unitVars
    PROVE  IInv'
<1>1. PubInv' /\ WaitInv'
  BY DEF IInv, PubInv, WaitInv
<1>2. AskedInv' /\ NoUnitForgotten'
  BY DEF IInv, AskedInv, NoUnitForgotten, unitVars
<1> QED
  BY <1>1, <1>2 DEF IInv, DevicesExposed

\* The process ends while it has an object or none: the units of the object are
\* left to run, or are being stopped.
LEMMA ExitStep ==
    ASSUME IInv, TypeOK', Exit, UNCHANGED running, stopping \subseteq stopping',
           left' = left \cup ({info} \cap running)
    PROVE  IInv'
<1>1. PubInv' /\ WaitInv' /\ DevicesExposed'
  BY DEF Exit, PubInv, WaitInv, DevicesExposed
<1>2. AskedInv' /\ NoUnitForgotten'
  BY DEF IInv, AskedInv, NoUnitForgotten
<1> QED
  BY <1>1, <1>2 DEF IInv

\* Publication: all units that run have stop jobs or are left over, and those of
\* this TOH are answered for again.
LEMMA PublishStep ==
    ASSUME IInv, TypeOK', Publish
    PROVE  IInv'
<1>1. Detected \in Tohs /\ Detected # NoToh
  BY DetectedTypes DEF IInv, Publish
<1>2. \A a \in DOMAIN Devices[Detected] : a \in Addresses
  BY <1>1, TohAssumption
<1>3. DevicesExposed'
  BY <1>2 DEF Publish, Expose, DevicesExposed, AddAll
<1>4. PubInv' /\ WaitInv' /\ AskedInv'
  BY <1>1 DEF Publish, Expose, PubInv, WaitInv, AskedInv
<1>5. NoUnitForgotten'
  BY DEF IInv, AskedInv, Publish, Expose, NoUnitForgotten
<1> QED
  BY <1>3, <1>4, <1>5 DEF IInv

\* The same without its configuration.
LEMMA UnconfiguredStep ==
    ASSUME IInv, TypeOK', PublishUnconfigured
    PROVE  IInv'
<1>1. Detected # NoToh
  BY DetectedTypes DEF IInv, PublishUnconfigured
<1>2. /\ pc = "settle" /\ pc' = "published" /\ info' = Detected /\ ~configured' /\ watch' = "on"
      /\ units' = "started" /\ UNCHANGED unitVars
  BY DEF PublishUnconfigured, Expose
<1>3. PubInv' /\ WaitInv' /\ DevicesExposed'
  BY <1>1, <1>2 DEF PubInv, WaitInv, DevicesExposed
<1>4. AskedInv' /\ NoUnitForgotten'
  BY <1>2 DEF IInv, AskedInv, NoUnitForgotten, unitVars
<1> QED
  BY <1>3, <1>4 DEF IInv

\* Stopping asks for stop jobs, and keeps record of each failure and refusal.
LEMMA StopStep ==
    ASSUME IInv, TypeOK', StopUnits
    PROVE  IInv'
<1>1. /\ pc = "published" /\ pc' = "stopping" /\ watch # "on" /\ units' = "idle"
      /\ UNCHANGED <<bus, info, configured, watch>>
  BY DEF StopUnits, Joined
<1>2. CASE configured
  <2>1. UNCHANGED running /\ running \cap {info} \subseteq stopping' \cup left'
    BY <1>2 DEF StopUnits, AskToStop
  <2>2. stopping \subseteq stopping' /\ left \subseteq left'
    BY <1>2 DEF StopUnits, AskToStop
  <2>3. running' \subseteq stopping' \cup left'
    BY <2>1, <2>2 DEF IInv, NoUnitForgotten
  <2> QED
    BY <1>1, <2>3 DEF IInv, PubInv, WaitInv, AskedInv, DevicesExposed, NoUnitForgotten
<1>3. CASE ~configured
  <2>1. UNCHANGED unitVars
    BY <1>3 DEF StopUnits, unitVars
  <2>2. AskedInv' /\ NoUnitForgotten'
    BY <1>1, <1>3, <2>1 DEF IInv, AskedInv, NoUnitForgotten, unitVars
  <2> QED
    BY <1>1, <2>2 DEF IInv, PubInv, WaitInv, DevicesExposed
<1> QED
  BY <1>2, <1>3

\* Every step keeps the invariant.
LEMMA StepInv ==
    ASSUME IInv, [Next]_vars
    PROVE  IInv'
<1>1. TypeOK'
  BY TypeStep DEF IInv
<1>2. CASE UNCHANGED vars
  BY <1>2, <1>1, AsideStep DEF vars, unitVars
<1> SUFFICES ASSUME Next
             PROVE  IInv'
  BY <1>2
<1>4. pc \notin {"published", "stopping", "removed"} =>
        info = NoToh /\ units = "idle" /\ watch = "on"
  BY DEF IInv, PubInv, WaitInv
<1>5. CASE MoveCover \/ Interrupt \/ StartUnitsDone
  <2>1. CASE MoveCover \/ Interrupt
    BY <1>1, <2>1, AsideStep DEF MoveCover, Interrupt, objVars
  <2>2. CASE StartUnitsDone
    BY <1>1, <2>2, AsideStep DEF StartUnitsDone, envVars, IInv, WaitInv
  <2> QED
    BY <1>5, <2>1, <2>2
<1>6. CASE Start \/ NewCover \/ IsPresent \/ Connect \/ Identify \/ Retry \/ Unsupported \/ Pause
  <2>1. /\ pc \notin {"published", "stopping", "removed"}
        /\ pc' \notin {"published", "stopping", "removed"}
        /\ UNCHANGED unitVars
    BY <1>6
    DEF Start, NewCover, IsPresent, Connect, Identify, Retry, Unsupported, Pause, Exit
  <2>2. info' = NoToh /\ units' = "idle" /\ watch' = "on"
    BY <1>4, <1>6, <2>1
    DEF Start, NewCover, IsPresent, Connect, Identify, Retry, Unsupported, Pause, Exit, objVars
  <2> QED
    BY <1>1, <2>1, <2>2, BetweenStep
<1>7. CASE DetectFails \/ PublishFails
  <2>1. /\ pc = "settle" /\ pc' \in {"pause", "down"} /\ UNCHANGED unitVars
        /\ info' = NoToh /\ units' = "idle" /\ watch' = "on"
    BY <1>4, <1>7 DEF DetectFails, PublishFails, Exit, objVars
  <2> QED
    BY <1>1, <2>1, BetweenStep
<1>8. CASE Publish \/ PublishUnconfigured
  BY <1>1, <1>8, PublishStep, UnconfiguredStep
<1>9. CASE Kill
  BY <1>1, <1>9, ExitStep DEF Kill, LeaveUnits
<1>10. CASE StopUnitsPanics
  BY <1>1, <1>10, ExitStep DEF StopUnitsPanics
<1>11. CASE UnitStarts
  <2>1. /\ pc = "published" /\ configured
        /\ running' = running \cup {info} /\ stopping' = stopping \ {info}
        /\ UNCHANGED <<pc, bus, info, configured, watch, units, left>>
    BY <1>11 DEF UnitStarts, objVars, IInv, WaitInv
  <2>2. AskedInv' /\ NoUnitForgotten'
    BY <2>1 DEF IInv, AskedInv, NoUnitForgotten
  <2> QED
    BY <1>1, <2>1, <2>2 DEF IInv, PubInv, WaitInv, DevicesExposed
<1>12. ASSUME NEW t \in Tohs, UnitsEnd(t)
       PROVE  IInv'
  <2>1. /\ running' = running \ {t} /\ stopping' = stopping \ {t} /\ left' = left \ {t}
        /\ UNCHANGED <<pc, bus, info, configured, watch, units>>
    BY <1>12 DEF UnitsEnd, objVars
  <2>2. AskedInv' /\ NoUnitForgotten'
    BY <2>1 DEF IInv, AskedInv, NoUnitForgotten
  <2> QED
    BY <1>1, <2>1, <2>2 DEF IInv, PubInv, WaitInv, DevicesExposed
<1>13. CASE WatchDisconnect
  <2>1. /\ pc = "published" /\ UNCHANGED <<pc, bus, info, configured, units, unitVars>>
        /\ watch' \in {"done", "failed"}
    BY <1>13 DEF WatchDisconnect, envVars
  <2>2. AskedInv' /\ NoUnitForgotten'
    BY <2>1 DEF IInv, AskedInv, NoUnitForgotten, unitVars
  <2> QED
    BY <1>1, <2>1, <2>2 DEF IInv, PubInv, WaitInv, DevicesExposed
<1>14. CASE StopUnits
  BY <1>1, <1>14, StopStep
<1>15. CASE Remove
  <2>1. /\ pc = "stopping" /\ pc' = "removed" /\ info' = NoToh /\ configured' = TRUE
        /\ UNCHANGED <<units, unitVars>> /\ watch' \in {watch, "failed"}
    BY <1>15 DEF Remove
  <2>2. PubInv' /\ WaitInv' /\ DevicesExposed'
    BY <2>1 DEF IInv, PubInv, WaitInv, DevicesExposed
  <2>3. AskedInv' /\ NoUnitForgotten'
    BY <2>1 DEF IInv, AskedInv, NoUnitForgotten, unitVars
  <2> QED
    BY <1>1, <2>2, <2>3 DEF IInv
<1>16. CASE AbortWatcher
  <2>1. /\ pc = "removed" /\ pc' \in {"down", "pause"} /\ watch' = "on"
        /\ UNCHANGED <<info, units, unitVars>>
    BY <1>16 DEF AbortWatcher
  <2>2. info = NoToh /\ units = "idle"
    BY <2>1 DEF IInv, PubInv, WaitInv
  <2> QED
    BY <1>1, <2>1, <2>2, BetweenStep
<1> QED
  BY <1>5, <1>6, <1>7, <1>8, <1>9, <1>10, <1>11, <1>12, <1>13, <1>14, <1>15, <1>16
  DEF Next, DaemonStep, Environment

-----------------------------------------------------------------------------
(* The theorems *)

\* The invariant holds in every reachable state.
THEOREM Invariance == Spec => []IInv
<1>1. IInv /\ [Next]_vars => IInv'
  BY StepInv
<1> QED
  BY InitInv, <1>1, PTL DEF Spec

\* The daemon's variables keep their types whatever fails.
THEOREM TypeCorrect == Spec => []TypeOK
<1>1. IInv => TypeOK
  BY DEF IInv
<1> QED
  BY Invariance, <1>1, PTL

\* A published TOH has its devices under their names (add_target replaces what
\* an earlier cover or process left at their addresses).
THEOREM Exposed == Spec => []DevicesExposed
<1>1. IInv => DevicesExposed
  BY DEF IInv
<1> QED
  BY Invariance, <1>1, PTL

\* Whatever error ends a publication, a unit that still runs has a stop job,
\* unless its stop failed or was refused or its process ended before.
THEOREM NoneForgotten == Spec => []NoUnitForgotten
<1>1. IInv => NoUnitForgotten
  BY DEF IInv
<1> QED
  BY Invariance, <1>1, PTL

-----------------------------------------------------------------------------
(* Refinement: the rounds of the loop *)

\* Every step of Daemon is a step of MainLoop, a restart of it, or none.
LEMMA LoopStep == TypeOK /\ [Next]_vars => [Loop!Next]_(Loop!vars)
<1> SUFFICES ASSUME TypeOK, [Next]_vars
             PROVE  [Loop!Next]_(Loop!vars)
  OBVIOUS
<1> USE DEF loopPhase
<1>a. pc' = "down" => loopPhase' = "between"
  OBVIOUS
<1>1. CASE \/ MoveCover \/ Interrupt \/ UnitStarts \/ StartUnitsDone \/ WatchDisconnect
           \/ (\E t \in Tohs : UnitsEnd(t)) \/ UNCHANGED vars
  <2>1. UNCHANGED <<pc, power>>
    BY <1>1 DEF MoveCover, Interrupt, UnitStarts, StartUnitsDone, WatchDisconnect, UnitsEnd, vars
  <2> QED
    BY <2>1 DEF Loop!vars
<1>2. CASE Start \/ Retry \/ Unsupported \/ Pause \/ StopUnits
  <2>1. UNCHANGED <<loopPhase, power>>
    BY <1>2 DEF Start, Retry, Unsupported, Pause, StopUnits, Joined, Exit
  <2> QED
    BY <2>1 DEF Loop!vars
<1>3. CASE Kill \/ StopUnitsPanics
  BY <1>3, <1>a DEF Kill, StopUnitsPanics, Exit, Loop!Next, Loop!Restart
<1>4. CASE NewCover
  <2>1. pc = "new" /\ loopPhase = "between"
    BY <1>4 DEF NewCover
  <2>2. CASE pc' = "down" /\ power' \in {power, FALSE}
    BY <2>1, <2>2 DEF Loop!Next, Loop!Restart
  <2>3. CASE pc' \in {"present", "waiting"} /\ power' = FALSE
    BY <2>1, <2>3 DEF Loop!Next, Loop!NewCover
  <2> QED
    BY <1>4, <2>2, <2>3 DEF NewCover, Exit
<1>5. CASE IsPresent
  <2>1. power' = power /\ (pc' = "down" \/ loopPhase' = loopPhase)
    BY <1>5 DEF IsPresent, Exit
  <2> QED
    BY <2>1, <1>a DEF Loop!Next, Loop!Restart, Loop!vars
<1>6. CASE Connect
  <2>1. loopPhase = "searching"
    BY <1>6 DEF Connect
  <2>2. \/ loopPhase' = "detecting" /\ power' = TRUE
        \/ loopPhase' = "between" /\ power' = power
    BY <1>6 DEF Connect, Exit
  <2> QED
    BY <2>1, <2>2 DEF Loop!Next, Loop!PowerUp
<1>7. CASE Identify
  <2>1. loopPhase = "detecting"
    BY <1>7 DEF Identify
  <2>2. \/ loopPhase' = "detecting" /\ power' = power
        \/ loopPhase' = "between" /\ power' \in {power, FALSE}
    BY <1>7 DEF Identify
  <2> QED
    BY <2>1, <2>2 DEF Loop!Next, Loop!DetectFails, Loop!LeaveOrCut, Loop!vars
<1>8. CASE DetectFails
  <2>1. loopPhase = "detecting" /\ loopPhase' = "between" /\ power' = power
    BY <1>8 DEF DetectFails
  <2> QED
    BY <2>1 DEF Loop!Next, Loop!DetectFails, Loop!LeaveOrCut
<1>9. CASE Publish \/ PublishUnconfigured \/ PublishFails
  <2>1. pc = "settle" /\ loopPhase = "detecting"
    BY <1>9 DEF Publish, PublishUnconfigured, PublishFails
  <2>2. power' \in {power, FALSE}
    BY <1>9 DEF Publish, PublishUnconfigured, PublishFails, TypeOK
  <2>3. pc' \in {"published", "down"}
    BY <1>9 DEF Publish, PublishUnconfigured, PublishFails, Expose, Exit
  <2> QED
    BY <2>1, <2>2, <2>3 DEF Loop!Next, Loop!Publish, Loop!LeaveOrCut, Loop!Restart
<1>10. CASE Remove
  BY <1>10 DEF Remove, Loop!Next, Loop!Remove
<1>11. CASE AbortWatcher
  BY <1>11 DEF AbortWatcher, Loop!Next, Loop!AbortWatcher, Loop!LeaveOrCut
<1> QED
  BY <1>1, <1>2, <1>3, <1>4, <1>5, <1>6, <1>7, <1>8, <1>9, <1>10, <1>11
  DEF Next, DaemonStep, Environment

\* Whatever covers do and whatever fails, the loop publishes, removes and sweeps
\* in order and begins every round with the power off.
THEOREM Rounds == Spec => MainLoopSpec
<1>1. Init => Loop!Init
  BY DEF Init, Loop!Init, loopPhase
<1>2. TypeOK /\ [Next]_vars => [Loop!Next]_(Loop!vars)
  BY LoopStep
<1> QED
  BY <1>1, <1>2, TypeCorrect, PTL DEF Spec, MainLoopSpec, Loop!Spec
=============================================================================
