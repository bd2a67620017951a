------------------------------- MODULE Daemon -------------------------------
(***************************************************************************)
(* The main loop of tohd (src/main.rs) over the back cover                 *)
(* (src/back_cover.rs): watch the connector, identify and read the TOH,    *)
(* add its I2C devices, publish it, start its units, and take everything   *)
(* back when it is detached, while people move the cover, reads fail, the  *)
(* process exits with an error or is killed, and systemd starts it again.  *)
(*                                                                         *)
(* A step of the daemon is what runs between two awaits.  The methods of   *)
(* the published object are the subject of TohLoan; here it only exists.   *)
(***************************************************************************)
EXTENDS Integers, Sequences

CONSTANTS
    Tohs,       \* the back covers with electronics
    BareToh,    \* the one without memory chip (6k2), which identifies as 0:0
    Resistor,   \* TOH -> "memory" (10k or 15k), "bare" (6k2) or "unknown"
    Chip,       \* TOH -> "good", "silent" (no answer at 0x50), "short", "garbage"
    Tried,      \* TOH -> how many addresses reading its chip goes over
    ChipLeaveOn, \* TOH -> leave_power_on of its memory chip
    LeaveOn,    \* TOH -> leave_power_on after the overrides of its configuration
    Devices,    \* TOH -> address -> name of the devices in its configuration
    HasUnits,   \* the TOHs whose configuration has units
    UserUnits,  \* those of them with units of the user session
    RunOnStart, \* those of them that are also run when the daemon starts
    Refusing,   \* those of them with a unit that systemd does not stop by hand
    Addresses,  \* I2C target addresses
    Eeprom,     \* those of memory chips in the order of reading, 0x50 to 0x5f
    MaxFaults,  \* bound: I/O and bus errors
    MaxKills,   \* bound: times the process is killed
    NoToh       \* no TOH at the connector, or none published

Names == UNION {{Devices[t][a] : a \in DOMAIN Devices[t]} : t \in Tohs}
Absent == "absent"       \* there is no target device at the address
Nameless == "none"       \* the name that add_target gives when there is none

ASSUME TohAssumption ==
    /\ NoToh \notin Tohs /\ BareToh \in Tohs
    /\ Eeprom \in Seq(Addresses)
    /\ RunOnStart \cup UserUnits \cup Refusing \subseteq HasUnits /\ HasUnits \subseteq Tohs
    /\ \A t \in Tohs :
         /\ Resistor[t] \in {"memory", "bare", "unknown"}
         /\ Resistor[t] = "bare" <=> t = BareToh
         /\ Chip[t] \in {"good", "silent", "short", "garbage"}
         /\ Tried[t] \in 1 .. Len(Eeprom) /\ (Chip[t] = "silent" => Tried[t] = 1)
         /\ LeaveOn[t] \in BOOLEAN /\ ChipLeaveOn[t] \in BOOLEAN
         /\ DOMAIN Devices[t] \subseteq Addresses
         /\ \A a \in DOMAIN Devices[t] : Devices[t][a] # Absent
ASSUME BoundAssumption == MaxFaults \in Nat /\ MaxKills \in Nat

VARIABLES
    contact,  \* the connector: away, loose (being seated), firm, or firm with
              \* its microcontroller raising an interrupt
    cover,    \* the TOH at the connector
    moved,    \* the connector moved while the ADC was being read
    gone,     \* this process has seen the TOH go that it found present
    fresh,    \* the TOH at the connector was attached after that
    pc,       \* the await at which main stands
    already,  \* toh_already_present
    variant,  \* the type that power_up found: memory or bare
    power,    \* the 5 V output
    bus,      \* address -> name of its target device
    info,     \* the TOH that is published
    configured, \* its configuration could be read
    watch,    \* wait_disconnect of the published TOH: on, done or failed, which
              \* also stands for the error of the removal of its object
    units,    \* start_units: idle, starting, started, or started without a
              \* connection to the user session
    running,  \* the TOHs whose units systemd runs or has been asked to start
    stopping, \* those of them whose units have stop jobs
    left,     \* history: those of them with a unit that a failed or refused stop
              \* or the end of the process has left running
    faults, kills

envVars == <<contact, cover, moved, gone, fresh>>
objVars == <<info, configured, watch, units>>
unitVars == <<running, stopping, left>>
vars == <<contact, cover, moved, gone, fresh, pc, already, variant, power, bus, info,
          configured, watch, units, running, stopping, left, faults, kills>>

Pcs == {"down", "new", "present", "waiting", "identify", "unsupported", "retry",
        "settle", "published", "stopping", "removed", "pause"}

TypeOK ==
    /\ contact \in {"away", "loose", "firm", "interrupt"}
    /\ cover \in Tohs \cup {NoToh} /\ (cover = NoToh <=> contact = "away")
    /\ info \in Tohs \cup {NoToh}
    /\ running \subseteq Tohs /\ stopping \subseteq running /\ left \subseteq running
    /\ pc \in Pcs /\ variant \in {"memory", "bare"}
    /\ moved \in BOOLEAN /\ gone \in BOOLEAN /\ fresh \in BOOLEAN
    /\ already \in BOOLEAN /\ power \in BOOLEAN /\ configured \in BOOLEAN
    /\ bus \in [Addresses -> Names \cup {Nameless, Absent}]
    /\ watch \in {"on", "done", "failed"}
    /\ units \in {"idle", "starting", "started", "unconnected"}
    /\ faults \in 0 .. MaxFaults /\ kills \in 0 .. MaxKills

\* The device boots, with or without a TOH.
Init ==
    /\ \/ contact = "away" /\ cover = NoToh
       \/ contact \in {"loose", "firm"} /\ cover \in Tohs
    /\ moved = FALSE /\ gone = FALSE /\ fresh = FALSE
    /\ pc = "down" /\ already = TRUE /\ variant = "memory" /\ power = FALSE
    /\ bus = [a \in Addresses |-> Absent]
    /\ info = NoToh /\ configured = TRUE /\ watch = "on" /\ units = "idle"
    /\ running = {} /\ stopping = {} /\ left = {}
    /\ faults = 0 /\ kills = 0

Fault == faults < MaxFaults /\ faults' = faults + 1

-----------------------------------------------------------------------------
(* The connector: INT and ID pins *)

IntLow == contact \in {"loose", "firm"}

\* One reading of the ADC, below 1750 or not.
IdPresent(present) ==
    CASE contact = "away" -> ~present
      [] contact = "loose" -> present \in BOOLEAN
      [] OTHER -> present

\* Five readings in 500 ms that have to agree within 0.5 %: if the connector
\* moved, they may not; if they do, they tell what is there at the last one.
AdcReads(value) ==
    \/ contact = "away" /\ value = "absent"
    \/ contact \in {"firm", "interrupt"} /\ value = Resistor[cover]
    \/ contact = "loose" /\ value \in {"absent", "unknown", "inconsistent"}
    \/ moved /\ value = "inconsistent"

Measuring == pc \in {"present", "identify"}

\* A person attaches, seats, or removes a cover.
MoveCover ==
    /\ \/ /\ contact = "away" /\ contact' \in {"loose", "firm"}
          /\ cover' \in Tohs /\ fresh' = gone
       \/ contact = "loose" /\ contact' = "firm" /\ UNCHANGED <<cover, fresh>>
       \/ contact \in {"firm", "interrupt"} /\ contact' = "loose" /\ UNCHANGED <<cover, fresh>>
       \/ contact # "away" /\ contact' = "away" /\ cover' = NoToh /\ UNCHANGED fresh
    /\ moved' = Measuring
    /\ UNCHANGED <<gone, pc, already, variant, power, bus, objVars, unitVars, faults, kills>>

\* The TOH's microcontroller drives INT.
Interrupt ==
    /\ \/ contact = "firm" /\ contact' = "interrupt"
       \/ contact = "interrupt" /\ contact' = "firm"
    /\ moved' = Measuring
    /\ UNCHANGED <<cover, gone, fresh, pc, already, variant, power, bus, objVars, unitVars,
                   faults, kills>>

-----------------------------------------------------------------------------
(* Target devices *)

\* Mutants of AddAll: any device stays; the bus forgets what it had.
AddAllKeeps(b, devices) ==
    [a \in Addresses |-> IF a \in DOMAIN devices /\ b[a] = Absent THEN devices[a] ELSE b[a]]
AddAllForgets(b, devices) == devices

\* add_target for each: a device of that name stays, any other is replaced.
AddAll(b, devices) ==
    [a \in Addresses |-> IF a \in DOMAIN devices THEN devices[a] ELSE b[a]]

\* What is left when adding the devices fails on the way.
PartlyAdded(b, devices) ==
    {[a \in Addresses |->
        IF a \in added THEN devices[a] ELSE IF a \in removed THEN Absent ELSE b[a]] :
        added, removed \in SUBSET DOMAIN devices}

-----------------------------------------------------------------------------
(* The process *)

\* systemd starts the process; the GPIO and the bus are as they were.
Start ==
    /\ pc = "down" /\ pc' = "new"
    /\ already' = TRUE /\ gone' = FALSE /\ fresh' = FALSE
    /\ UNCHANGED <<contact, cover, moved, variant, power, bus, objVars, unitVars, faults, kills>>

\* An error leaves main: the object goes with the process.
Exit ==
    pc' = "down" /\ info' = NoToh /\ configured' = TRUE /\ units' = "idle" /\ watch' = "on"

\* The process ends while it has a TOH: its units are left running.
LeaveUnits == left' = left \cup ({info} \cap running) /\ UNCHANGED <<running, stopping>>

\* Killed at any await: the units, the devices and the power stay behind.
Kill ==
    /\ pc # "down" /\ kills < MaxKills /\ kills' = kills + 1
    /\ Exit /\ LeaveUnits /\ moved' = FALSE
    /\ UNCHANGED <<contact, cover, gone, fresh, already, variant, power, bus, faults>>

\* BackCover::new, of no type yet; then is_present looks at INT once and starts
\* reading the ADC.
NewCover ==
    /\ pc = "new"
    /\ \/ /\ Fault /\ Exit
          /\ power' \in {power, FALSE}
          /\ UNCHANGED already
       \/ /\ power' = FALSE
          /\ IF already /\ IntLow
               THEN pc' = "present" /\ UNCHANGED already
               ELSE pc' = "waiting" /\ already' = FALSE
          /\ UNCHANGED <<objVars, faults>>
    /\ variant' = "memory"
    /\ UNCHANGED <<envVars, bus, unitVars, kills>>

\* The ADC is read: an error, also from a badly seated cover, ends the process.
IsPresent ==
    /\ pc = "present"
    /\ \/ /\ Fault \/ (AdcReads("inconsistent") /\ UNCHANGED faults)
          /\ Exit /\ UNCHANGED already
       \/ /\ \E value \in {"memory", "bare", "unknown", "absent"} :
               AdcReads(value) /\ already' = (value # "absent" /\ IntLow)
          /\ pc' = "waiting" /\ UNCHANGED <<objVars, faults>>
    /\ moved' = FALSE
    /\ UNCHANGED <<contact, cover, gone, fresh, variant, power, bus, unitVars, kills>>

\* wait_connect sees INT low; power_up switches the power on and starts
\* reading the ADC.  INT cannot be read: an exit; the power: a retry.
Connect ==
    /\ pc = "waiting" /\ IntLow
    /\ \/ pc' = "identify" /\ power' = TRUE /\ UNCHANGED <<objVars, faults>>
       \/ pc' = "retry" /\ Fault /\ UNCHANGED <<power, objVars>>
       \/ Exit /\ Fault /\ UNCHANGED power
    /\ UNCHANGED <<envVars, already, variant, bus, unitVars, kills>>

\* power_up after the ADC was read.  A failed or inconsistent reading leaves
\* the power on.
Identify ==
    /\ pc = "identify"
    /\ \/ pc' = "retry" /\ Fault /\ UNCHANGED <<power, variant>>
       \/ /\ AdcReads("inconsistent") /\ pc' = "retry"
          /\ UNCHANGED <<power, variant, faults>>
       \/ /\ IntLow
          /\ \E type \in {"memory", "bare"} : AdcReads(type) /\ variant' = type
          /\ pc' = "settle" /\ UNCHANGED <<power, faults>>
       \/ /\ \/ IntLow /\ AdcReads("unknown") /\ pc' = "unsupported"
             \/ IntLow /\ AdcReads("absent") /\ pc' = "retry"
             \/ ~IntLow /\ pc' = "retry"
          /\ power' = FALSE /\ UNCHANGED <<variant, faults>>
    /\ moved' = FALSE
    /\ UNCHANGED <<contact, cover, gone, fresh, already, bus, objVars, unitVars, kills>>

\* Mutant of Retry: the next round keeps the power as power_up has left it.
RetryWaits ==
    /\ pc = "retry" /\ pc' = "waiting" /\ already' = FALSE
    /\ UNCHANGED <<envVars, variant, power, bus, objVars, unitVars, faults, kills>>

\* The sleep after a failed power_up, 1 s or 10 s.
Retry ==
    /\ pc = "retry" /\ pc' = "new"
    /\ UNCHANGED <<envVars, already, variant, power, bus, objVars, unitVars, faults, kills>>

\* Mutant of Unsupported: the wait for the disconnect has no limit.
UnsupportedWaits ==
    /\ pc = "unsupported" /\ ~IntLow /\ IdPresent(FALSE)
    /\ pc' = "new"
    /\ UNCHANGED <<envVars, already, variant, power, bus, objVars, unitVars, faults, kills>>

\* An unsupported TOH: wait_disconnect, but no longer than 10 s, so whatever
\* that sees.  (What it does to the bus is nothing, see WatchDisconnect.)
Unsupported ==
    /\ pc = "unsupported"
    /\ \/ pc' = "new" /\ UNCHANGED <<objVars, faults>>
       \/ Fault /\ Exit
    /\ UNCHANGED <<envVars, already, variant, power, bus, unitVars, kills>>

-----------------------------------------------------------------------------
(* Detection and publication.  The only await between the two is that of   *)
(* object_server.at, and nothing after the chip looks at the cover again:  *)
(* what moves in the meantime has moved after it as well.                  *)

\* INT is low and the ADC reads a resistor "one more time".
StillThere == IntLow /\ IdPresent(TRUE)

\* read_chip and parse_from_bytes succeed.
Readable == variant = "bare" \/ Chip[cover] = "good"
Detected == IF variant = "bare" THEN BareToh ELSE cover

\* Reading the chip has added and removed a nameless target at each address
\* before the i-th, and something is left at that one.
ReadUpTo(i, target) ==
    [a \in Addresses |->
        IF a = Eeprom[i] THEN target
        ELSE IF a \in {Eeprom[j] : j \in 1 .. (i - 1)} THEN Absent ELSE bus[a]]

\* The last address it tries is the one where nothing answers, or the last of
\* all.  A bad contact looks like the former; what was read may still do.
BusesAfterRead ==
    IF variant = "bare" THEN {bus}
    ELSE {ReadUpTo(i, Absent) :
            i \in (IF contact = "loose" THEN 2 .. Tried[cover] ELSE {}) \cup {Tried[cover]}}

\* The chip cannot be read or parsed.  No answer from the chip removes its
\* target, but an error in the middle of a block, as when the cover is badly
\* seated, leaves it on the bus; so may an error of the bus.
ReadFails ==
    /\ variant = "memory"
    /\ \E i \in 1 .. Tried[cover] : \E target \in {Absent, Nameless, bus[Eeprom[i]]} :
         /\ bus' = ReadUpTo(i, target)
         /\ \/ Fault
            \/ /\ contact = "loose" /\ target \in {Absent, Nameless} /\ UNCHANGED faults
            \/ /\ Chip[cover] \in {"silent", "garbage"} /\ target = Absent
               /\ i = Tried[cover] /\ UNCHANGED faults
            \/ /\ Chip[cover] = "short" /\ target = Nameless /\ UNCHANGED faults

DetectFails ==
    /\ pc = "settle" /\ pc' = "pause"
    /\ \/ (~IntLow \/ IdPresent(FALSE)) /\ UNCHANGED <<bus, faults>>
       \/ StillThere /\ ReadFails
    /\ UNCHANGED <<envVars, already, variant, power, objVars, unitVars, kills>>

\* The object is published, and main begins to wait for the disconnect.
Expose == pc' = "published" /\ info' = Detected /\ watch' = "on"

\* Detected: add the configured devices, power down unless leave_power_on,
\* publish, and begin to start the units, if there are any.
Publish ==
    /\ pc = "settle" /\ StillThere /\ Readable
    /\ Expose /\ configured' = TRUE
    /\ \E b \in BusesAfterRead : bus' = AddAll(b, Devices[Detected])
    /\ power' = (power /\ LeaveOn[Detected])
    /\ units' = IF Detected \in HasUnits THEN "starting" ELSE "started"
    /\ left' = left \ {Detected}
    /\ UNCHANGED <<envVars, already, variant, running, stopping, faults, kills>>

\* The configuration cannot be read: publish what the chip says, without
\* devices, units and permissions.
PublishUnconfigured ==
    /\ pc = "settle" /\ StillThere /\ Readable /\ Fault
    /\ Expose /\ configured' = FALSE
    /\ bus' \in BusesAfterRead
    /\ power' = (power /\ ChipLeaveOn[Detected])
    /\ units' = "started"
    /\ UNCHANGED <<envVars, already, variant, unitVars, kills>>

\* Adding a device, powering down or publishing fails: main exits and leaves
\* what it did on the bus, perhaps with a device it removed but could not add.
PublishFails ==
    /\ pc = "settle" /\ StillThere /\ Readable /\ Fault
    /\ \E b \in BusesAfterRead : bus' \in PartlyAdded(b, Devices[Detected])
    /\ power' \in {power, power /\ LeaveOn[Detected]}
    /\ Exit
    /\ UNCHANGED <<envVars, already, variant, unitVars, kills>>

-----------------------------------------------------------------------------
(* The published TOH *)

\* start_units asks for one of the units; a pending stop job is replaced.
UnitStarts ==
    /\ units = "starting" /\ ~(already /\ info \notin RunOnStart)
    /\ running' = running \cup {info} /\ stopping' = stopping \ {info}
    /\ UNCHANGED <<envVars, pc, already, variant, power, bus, objVars, left, faults, kills>>

\* All jobs that start_units waits for are done, or failed.  The user session
\* may be out of reach, which is only logged.
StartUnitsDone ==
    /\ units = "starting"
    /\ \/ units' = "started" /\ UNCHANGED faults
       \/ units' = "unconnected" /\ info \in UserUnits /\ Fault
    /\ UNCHANGED <<envVars, pc, already, variant, power, bus, info, configured, watch, unitVars,
                   kills>>

\* The units of a TOH are gone: their stop jobs are done, or they have ended by
\* themselves.
UnitsEnd(t) ==
    /\ t \in running
    /\ running' = running \ {t} /\ stopping' = stopping \ {t} /\ left' = left \ {t}
    /\ UNCHANGED <<envVars, pc, already, variant, power, bus, objVars, faults, kills>>

\* Mutant of WatchDisconnect: INT alone tells whether the TOH is there.
WatchIntOnly ==
    /\ pc = "published" /\ watch = "on" /\ ~IntLow
    /\ watch' = "done"
    /\ UNCHANGED <<envVars, pc, already, variant, power, bus, info, configured, units, unitVars,
                   faults, kills>>

\* wait_disconnect: INT is high and the ADC reads no resistor.  It then calls
\* remove_all_targets, which looks for the devices in the directory above the
\* one in which they appear, and removes none.
WatchDisconnect ==
    /\ pc = "published" /\ watch = "on"
    /\ \/ ~IntLow /\ IdPresent(FALSE) /\ watch' = "done" /\ UNCHANGED faults
       \/ watch' = "failed" /\ Fault
    /\ UNCHANGED <<envVars, pc, already, variant, power, bus, info, configured, units, unitVars,
                   kills>>

\* Both the wait and start_units are over.
Joined == pc = "published" /\ watch # "on" /\ units = "started"

\* stop_unit for each unit: systemd is asked for stop jobs, which nobody waits
\* for.  A unit that does not allow it is left, and so is, with a warning, one
\* for which the request fails.
AskToStop(t) ==
    /\ \/ /\ stopping' = stopping \cup ({t} \cap running)
          /\ left' = left \cup ({t} \cap running \cap Refusing)
          /\ UNCHANGED faults
       \/ /\ stopping' \in {stopping, stopping \cup ({t} \cap running)}
          /\ left' = left \cup ({t} \cap running)
          /\ Fault
    /\ UNCHANGED running

\* Mutant of StopUnits: a failed wait skips the units.
StopUnitsIfDone ==
    /\ Joined /\ pc' = "stopping" /\ units' = "idle"
    /\ IF watch = "done" /\ configured THEN AskToStop(info) ELSE UNCHANGED <<unitVars, faults>>
    /\ UNCHANGED <<envVars, already, variant, power, bus, info, configured, watch, kills>>

\* Mutant of StopUnits: only units that were selected for starting are stopped.
StopUnitsSelected ==
    /\ Joined /\ pc' = "stopping" /\ units' = "idle"
    /\ IF configured /\ ~(already /\ info \notin RunOnStart)
         THEN AskToStop(info) ELSE UNCHANGED <<unitVars, faults>>
    /\ UNCHANGED <<envVars, already, variant, power, bus, info, configured, watch, kills>>

\* Mutant of StopUnits: a failed wait is waited for again.
StopUnitsWhenDone ==
    /\ Joined /\ watch = "done" /\ pc' = "stopping" /\ units' = "idle"
    /\ IF configured THEN AskToStop(info) ELSE UNCHANGED <<unitVars, faults>>
    /\ UNCHANGED <<envVars, already, variant, power, bus, info, configured, watch, kills>>

\* stop_units, whatever the wait has returned.
StopUnits ==
    /\ Joined /\ pc' = "stopping" /\ units' = "idle"
    /\ IF configured THEN AskToStop(info) ELSE UNCHANGED <<unitVars, faults>>
    /\ UNCHANGED <<envVars, already, variant, power, bus, info, configured, watch, kills>>

\* Without a connection to the user session stop_units panics at the first of
\* its units, after those of the system.
StopUnitsPanics ==
    /\ pc = "published" /\ watch # "on" /\ units = "unconnected"
    /\ Exit /\ left' = left \cup ({info} \cap running)
    /\ stopping' \in {stopping, stopping \cup ({info} \cap running)}
    /\ UNCHANGED <<envVars, already, variant, power, bus, running, faults, kills>>

\* The object is taken off its path; what that returns is kept for later.
Remove ==
    /\ pc = "stopping" /\ pc' = "removed"
    /\ info' = NoToh /\ configured' = TRUE /\ gone' = already
    /\ \/ UNCHANGED <<watch, faults>>
       \/ watch' = "failed" /\ Fault
    /\ UNCHANGED <<contact, cover, moved, fresh, already, variant, power, bus, units, unitVars,
                   kills>>

\* abort_watcher ends the loan and may cut the power (see TohLoan); only now an
\* error of the wait or of the removal ends the process.
AbortWatcher ==
    /\ pc = "removed" /\ watch' = "on"
    /\ pc' = (IF watch = "failed" THEN "down" ELSE "pause")
    /\ power' \in {power, FALSE}
    /\ UNCHANGED <<envVars, already, variant, bus, info, configured, units, unitVars, faults,
                   kills>>

\* The second at the end of the loop.
Pause ==
    /\ pc = "pause" /\ pc' = "new"
    /\ UNCHANGED <<envVars, already, variant, power, bus, objVars, unitVars, faults, kills>>

-----------------------------------------------------------------------------
DaemonStep ==
    \/ Start \/ NewCover \/ IsPresent \/ Connect \/ Identify \/ Retry \/ Unsupported
    \/ DetectFails \/ Publish \/ PublishUnconfigured \/ PublishFails
    \/ WatchDisconnect \/ StopUnits \/ StopUnitsPanics \/ Remove \/ AbortWatcher \/ Pause

Environment ==
    \/ MoveCover \/ Interrupt \/ Kill \/ UnitStarts \/ StartUnitsDone
    \/ \E t \in Tohs : UnitsEnd(t)

Next == DaemonStep \/ Environment

Spec == Init /\ [][Next]_vars

\* The runtime keeps polling main, and systemd starts it again when it fails.
\* Nothing obliges systemd's jobs or a user's login to come to an end:
\* start_units has no timeout.
\* Stop jobs end: systemd kills what does not stop in time.
FairSpec ==
    /\ Spec /\ WF_vars(DaemonStep)
    /\ \A t \in Tohs : WF_vars(t \in stopping \ left /\ UnitsEnd(t))

\* The jobs that start_units waits for finish.
FairUnitsSpec == FairSpec /\ WF_vars(StartUnitsDone)

-----------------------------------------------------------------------------
(* Safety *)

\* While a TOH is published with its configuration and attached, each of its
\* devices is on the bus under its configured name, whatever was there before.
DevicesExposed ==
    info # NoToh /\ configured /\ watch = "on" =>
        \A a \in DOMAIN Devices[info] : bus[a] = Devices[info][a]

\* The end of a publication forgets no unit.  One that runs belongs to the TOH
\* that is published, or has a stop job, or is one that nobody can answer for:
\* its stop failed or was refused, or its process ended and the TOH has not come
\* back since.  That holds also when the daemon gives up with an error, and for
\* the units of an earlier process that this one did not start again.
NoUnitForgotten == running \subseteq {info} \cup stopping \cup left

\* main.rs:191: "toh_already_present <=> service is starting + TOH is connected"
AlreadyPresentAtStart == units = "starting" /\ already => ~fresh

-----------------------------------------------------------------------------
(* Refinement: the rounds of the loop *)

loopPhase ==
    CASE pc \in {"down", "new", "retry", "unsupported", "pause"} -> "between"
      [] pc \in {"present", "waiting"} -> "searching"
      [] pc \in {"identify", "settle"} -> "detecting"
      [] pc \in {"published", "stopping"} -> "published"
      [] pc = "removed" -> "removed"

Loop == INSTANCE MainLoop WITH phase <- loopPhase

\* Whatever fails, and however often systemd starts the process again, the loop
\* goes through its rounds, and each begins with the power off.
MainLoopSpec == Loop!Spec

-----------------------------------------------------------------------------
(* Liveness *)

Good(t) == Resistor[t] = "bare" \/ (Resistor[t] = "memory" /\ Chip[t] = "good")

\* A readable TOH that stays in place is published for good in the end, whatever
\* happened before.
GoodTohPublished ==
    <>[](contact = "firm" /\ Good(cover)) => <>[](info # NoToh)

\* A microcontroller that drives INT does not look like a disconnect: a TOH
\* whose ID resistor stays in contact stays published, as long as nothing fails.
SteadyTohStays ==
    []( info # NoToh /\ watch = "on"
        /\ [](contact \in {"firm", "interrupt"} /\ faults = 0 /\ kills = 0)
          => [](info # NoToh) )

\* A TOH that stays away disappears from D-Bus.
RemovedTohUnpublished == <>[](contact = "away") => <>[](info = NoToh)

\* And its units end, except for those that nobody can answer for.
RemovedTohUnitsEnd == <>[](contact = "away") => <>[](running \subseteq left)

\* doc/dbus_interface.md:41: a service controlled by symbiosis "will be stopped
\* on TOH disconnect".
UnitsStoppedOnDisconnect == <>[](contact = "away") => <>[](running = {})
=============================================================================
