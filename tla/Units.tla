------------------------------- MODULE Units --------------------------------
(***************************************************************************)
(* Starting and stopping the systemd units of a TOH: start_units and       *)
(* stop_units (src/toh/config/configs.rs) on Manager (src/systemd.rs), for *)
(* a TOH that is attached and detached several times.  systemd itself, the *)
(* login session and the services are the environment.                     *)
(***************************************************************************)
EXTENDS Integers, Sequences

CONSTANTS
    SystemUnits, UserUnits,  \* sequences: the units of the configuration
    Transient,    \* the transient services among them; the others are installed
    RunOnStart,   \* the units with run-on-start
    Refusing,     \* the installed services with can_stop false
    MaxCycles,    \* bound: times the TOH is attached
    MaxFaults     \* bound: D-Bus errors and failed start jobs

UnitsOf(list) == {list[i] : i \in 1 .. Len(list)}
Units == UnitsOf(SystemUnits) \cup UnitsOf(UserUnits)

ASSUME UnitsAssumption ==
    /\ SystemUnits \in Seq(Units) /\ UserUnits \in Seq(Units)
    /\ UnitsOf(SystemUnits) \cap UnitsOf(UserUnits) = {}
    /\ Transient \subseteq Units /\ RunOnStart \subseteq Units
    /\ Refusing \subseteq Units \ Transient
ASSUME BoundsAssumption == MaxCycles \in Nat /\ MaxFaults \in Nat

VARIABLES
    at,         \* the await at which start_units or stop_units stands
    manager,    \* the manager whose units are handled: system or user
    pos,        \* the position of the current unit among them, or 0
    onStart,    \* the argument on_service_start
    connected,  \* user_bus_connection is there
    retried,    \* the current unit had UnitExists and was reset
    removed,    \* the job_removed stream of the current start_unit
    state,      \* unit -> inactive, active or failed
    job,        \* unit -> its job: none, start or stop
    session,    \* seat0 has an active session
    begun,      \* history: the units that came up since start_units was called
    cycles, faults

vars == <<at, manager, pos, onStart, connected, retried, removed, state, job,
          session, begun, cycles, faults>>
progVars == <<at, manager, pos, onStart, connected, retried, cycles>>
systemdVars == <<state, job, begun>>

\* The units of a manager.
Listed(m) == IF m = "system" THEN SystemUnits ELSE UserUnits

\* The awaits at which there is a current unit.
InHand == {"subscribe", "call", "asked", "wait", "stop"}

Ats == {"idle", "manager", "subscribe", "call", "asked", "wait",
        "started", "stop manager", "stop", "stopped", "panicked"}

TypeOK ==
    /\ at \in Ats /\ manager \in {"system", "user"}
    /\ pos \in IF at \in InHand THEN 1 .. Len(Listed(manager)) ELSE {0}
    /\ onStart \in BOOLEAN /\ connected \in BOOLEAN /\ retried \in BOOLEAN
    /\ removed \subseteq Units \X {"start", "stop"}
    /\ state \in [Units -> {"inactive", "active", "failed"}]
    /\ job \in [Units -> {"none", "start", "stop"}]
    /\ session \in BOOLEAN /\ begun \subseteq Units
    /\ cycles \in 0 .. MaxCycles /\ faults \in 0 .. MaxFaults

Init ==
    /\ at = "idle" /\ manager = "system" /\ pos = 0
    /\ onStart = FALSE /\ connected = FALSE /\ retried = FALSE
    /\ removed = {}
    /\ state \in [Units -> {"inactive"}]
    /\ job = [u \in Units |-> "none"]
    /\ session \in BOOLEAN /\ begun = {}
    /\ cycles = 0 /\ faults = 0

Fault == faults < MaxFaults /\ faults' = faults + 1

\* Mutant of Listening: start_unit subscribes once it has the job.
ListeningLate == at = "wait"

Listening == at \in {"call", "asked", "wait"}

-----------------------------------------------------------------------------
(* systemd (external) *)

\* A job leaves the queue; the stream has it from the moment it was subscribed.
JobRemoved(jobs) == removed' = IF Listening THEN removed \cup jobs ELSE removed

JobDone(u) ==
    /\ job[u] # "none"
    /\ job' = [job EXCEPT ![u] = "none"]
    /\ \/ /\ job[u] = "start" /\ state' = [state EXCEPT ![u] = "active"]
          /\ begun' = begun \cup {u} /\ UNCHANGED faults
       \/ /\ job[u] = "start" /\ state' = [state EXCEPT ![u] = "failed"] /\ Fault
          /\ UNCHANGED begun
       \/ /\ job[u] = "stop"
          /\ state' = IF state[u] = "active" THEN [state EXCEPT ![u] = "inactive"] ELSE state
          /\ UNCHANGED <<begun, faults>>
    /\ JobRemoved({<<u, job[u]>>})
    /\ UNCHANGED <<progVars, session>>

\* A service ends by itself.
ServiceExits(u) ==
    /\ state[u] = "active" /\ job[u] = "none"
    /\ \E s \in {"inactive", "failed"} : state' = [state EXCEPT ![u] = s]
    /\ UNCHANGED <<progVars, removed, job, begun, session, faults>>

SessionStarts ==
    /\ ~session /\ session' = TRUE
    /\ UNCHANGED <<progVars, removed, systemdVars, faults>>

\* "replace": an opposite job of the unit is canceled.  What the stream holds of
\* an older job of this kind has another path.
Enqueue(u, kind) ==
    /\ job' = [job EXCEPT ![u] = kind]
    /\ removed' = IF Listening /\ job[u] \notin {"none", kind}
                  THEN (removed \cup {<<u, job[u]>>}) \ {<<u, kind>>}
                  ELSE removed \ {<<u, kind>>}
    /\ UNCHANGED <<state, begun>>

\* A unit that is up, has failed or has a job is known to systemd, any other one
\* only if it is installed, and even that may be unloaded.
Exists(u) == state[u] # "inactive" \/ job[u] # "none"

-----------------------------------------------------------------------------
(* start_units *)

Current == Listed(manager)[pos]

\* The filter on the units, for the argument of start_units.
Wanted(u, start) == start => u \in RunOnStart

\* main calls start_units when a TOH is published.
StartUnits ==
    /\ at \in {"idle", "stopped"} /\ cycles < MaxCycles /\ cycles' = cycles + 1
    /\ at' = "manager" /\ manager' = "system"
    /\ onStart' \in BOOLEAN /\ connected' = FALSE /\ begun' = {}
    /\ UNCHANGED <<pos, retried, removed, state, job, session, faults>>

\* The units of one manager are done: on to the user's, or all are started.
NextManager ==
    /\ pos' = 0
    /\ IF manager = "system" THEN at' = "manager" /\ manager' = "user"
                             ELSE at' = "started" /\ UNCHANGED manager

\* On to the first wanted unit after a position, if there is one.
Advance(from) ==
    LET rest == from + 1 .. Len(Listed(manager))
        Skipped(i) == ~Wanted(Listed(manager)[i], onStart)
    IN
    \/ /\ \A i \in rest : Skipped(i)
       /\ NextManager
    \/ /\ pos' \in rest /\ ~Skipped(pos') /\ \A i \in from + 1 .. pos' - 1 : Skipped(i)
       /\ at' = "subscribe" /\ UNCHANGED manager

\* Mutant of NextUnit: the end of the list is missed by one.
NextUnitBeyond ==
    /\ IF pos <= Len(Listed(manager))
         THEN pos' = pos + 1 /\ at' = "subscribe" /\ UNCHANGED manager ELSE NextManager
    /\ retried' = FALSE /\ removed' = {}
    /\ UNCHANGED <<onStart, connected, cycles>>

\* The current unit is done, however it went.
NextUnit ==
    /\ Advance(pos)
    /\ retried' = FALSE /\ removed' = {}
    /\ UNCHANGED <<onStart, connected, cycles>>

\* No units of this kind, an error, or Manager::system() and ::session(), the
\* latter once a session is active.
GetManager ==
    /\ at = "manager"
    /\ \/ /\ Listed(manager) = <<>> /\ NextManager
          /\ UNCHANGED <<connected, faults>>
       \/ /\ Listed(manager) # <<>> /\ Fault /\ NextManager
          /\ UNCHANGED connected
       \/ /\ Listed(manager) # <<>> /\ (manager = "user" => session)
          /\ connected' = (connected \/ manager = "user")
          /\ Advance(0)
          /\ UNCHANGED faults
    /\ UNCHANGED <<onStart, retried, removed, systemdVars, session, cycles>>

\* start_unit subscribes to job_removed before it asks for the job.
Subscribe ==
    /\ at = "subscribe"
    /\ \/ /\ at' = "call" /\ removed' = {}
          /\ UNCHANGED <<manager, pos, onStart, connected, retried, cycles, faults>>
       \/ Fault /\ NextUnit
    /\ UNCHANGED <<systemdVars, session>>

\* Mutant of CallStart: an installed service that systemd still knows is taken to
\* be running.
CallStartIfNew ==
    LET u == Current IN
    /\ at = "call"
    /\ IF Exists(u) THEN NextUnit /\ UNCHANGED systemdVars
       ELSE /\ Enqueue(u, "start") /\ at' = "asked"
            /\ UNCHANGED <<manager, pos, onStart, connected, retried, cycles>>
    /\ UNCHANGED <<session, faults>>

\* StartUnit, or StartTransientUnit and, once, ResetFailedUnit when the unit
\* exists: that unloads a failed unit but no other.
CallStart ==
    LET u == Current
        blocked == u \in Transient /\ Exists(u)
    IN
    /\ at = "call"
    /\ \/ /\ ~blocked /\ Enqueue(u, "start") /\ at' = "asked"
          /\ UNCHANGED <<manager, pos, onStart, connected, retried, cycles, faults>>
       \/ /\ blocked /\ ~retried /\ retried' = TRUE
          /\ state' = IF state[u] = "failed" THEN [state EXCEPT ![u] = "inactive"] ELSE state
          /\ UNCHANGED <<at, manager, pos, onStart, connected, cycles, removed, job, begun, faults>>
       \/ /\ blocked /\ retried /\ NextUnit
          /\ UNCHANGED <<systemdVars, faults>>
       \/ /\ Fault /\ NextUnit
          /\ UNCHANGED systemdVars
    /\ UNCHANGED session

\* The answer arrives, with the path of the job, or is lost.
JobPath ==
    /\ at = "asked"
    /\ \/ /\ at' = "wait"
          /\ UNCHANGED <<manager, pos, onStart, connected, retried, cycles, removed, faults>>
       \/ Fault /\ NextUnit
    /\ UNCHANGED <<systemdVars, session>>

\* Mutant of WaitForJob: the first job that is removed is taken for ours.
WaitForAnyJob ==
    /\ at = "wait" /\ removed # {}
    /\ NextUnit
    /\ UNCHANGED <<systemdVars, session, faults>>

\* The stream brings our job (others are skipped), or fails.
WaitForJob ==
    /\ at = "wait"
    /\ \/ <<Current, "start">> \in removed /\ NextUnit /\ UNCHANGED faults
       \/ Fault /\ NextUnit
    /\ UNCHANGED <<systemdVars, session>>

-----------------------------------------------------------------------------
(* stop_units *)

\* The TOH is detached and start_units is over.
StopUnits ==
    /\ at = "started" /\ at' = "stop manager" /\ manager' = "system"
    /\ UNCHANGED <<pos, onStart, connected, retried, cycles, removed, systemdVars, session, faults>>

AfterStop ==
    /\ pos' = 0
    /\ IF manager = "system" THEN at' = "stop manager" /\ manager' = "user"
                             ELSE at' = "stopped" /\ UNCHANGED manager

\* Mutant of GetStopManager: the units of the user are forgotten.
GetStopManagerSystem ==
    /\ at = "stop manager"
    /\ IF Listed(manager) = <<>> \/ manager = "user" THEN AfterStop
       ELSE pos' = 1 /\ at' = "stop" /\ UNCHANGED manager
    /\ UNCHANGED <<onStart, connected, retried, cycles, removed, systemdVars, session, faults>>

\* All units are stopped, whether they were started or not.  The user's manager
\* is reached over the connection that start_units has left.
GetStopManager ==
    /\ at = "stop manager"
    /\ \/ Listed(manager) = <<>> /\ AfterStop /\ UNCHANGED faults
       \/ /\ Listed(manager) # <<>> /\ (manager = "user" => connected)
          /\ Fault /\ AfterStop
       \/ /\ Listed(manager) # <<>> /\ (manager = "user" => connected)
          /\ pos' = 1 /\ at' = "stop" /\ UNCHANGED <<manager, faults>>
       \/ /\ Listed(manager) # <<>> /\ manager = "user" /\ ~connected
          /\ at' = "panicked" /\ UNCHANGED <<manager, pos, faults>>
    /\ UNCHANGED <<onStart, connected, retried, cycles, removed, systemdVars, session>>

\* stop_unit: an error, which is logged; a unit that systemd does not know, which
\* is fine; one that does not allow it; or a stop job, which is not waited for.
StopUnit ==
    LET u == Current IN
    /\ at = "stop"
    /\ \/ Fault /\ UNCHANGED <<systemdVars, removed>>
       \/ ~Exists(u) /\ UNCHANGED <<systemdVars, removed, faults>>
       \/ u \in Refusing /\ UNCHANGED <<systemdVars, removed, faults>>
       \/ /\ u \notin Refusing /\ (u \in Transient => Exists(u))
          /\ Enqueue(u, "stop") /\ UNCHANGED faults
    /\ IF pos < Len(Listed(manager)) THEN pos' = pos + 1 /\ UNCHANGED <<at, manager>>
                                     ELSE AfterStop
    /\ UNCHANGED <<onStart, connected, retried, cycles, session>>

-----------------------------------------------------------------------------
ProgramStep ==
    GetManager \/ Subscribe \/ CallStart \/ JobPath \/ WaitForJob \/ GetStopManager \/ StopUnit

Next ==
    \/ StartUnits \/ StopUnits \/ ProgramStep \/ SessionStarts
    \/ \E u \in Units : JobDone(u) \/ ServiceExits(u)

Spec == Init /\ [][Next]_vars

\* The program is polled; systemd finishes its jobs and a user logs in.
FairSpec ==
    /\ Spec /\ WF_vars(ProgramStep) /\ WF_vars(SessionStarts)
    /\ \A u \in Units : WF_vars(JobDone(u))

-----------------------------------------------------------------------------
(* Safety *)

\* A start that waits for its job has the job ahead of it or its removal in the
\* stream: it cannot have missed it.
JobNotMissed ==
    at \in {"asked", "wait"} => job[Current] = "start" \/ <<Current, "start">> \in removed

\* Units are started one after the other: while nothing went wrong, only the unit
\* in hand has a start job, the earlier ones have finished theirs.
OneStartAtATime ==
    faults = 0 => \A u \in Units :
        job[u] = "start" => at \in {"asked", "wait"} /\ u = Current

\* When start_units is over without an error, every installed service it had to
\* start has come up since it was called, also one that was still being stopped:
\* neither the end of another job nor what is left of an earlier attachment was
\* taken for its start.
InstalledServicesStarted ==
    at = "started" /\ faults = 0 =>
        \A u \in Units \ Transient : Wanted(u, onStart) => u \in begun

-----------------------------------------------------------------------------
(* A claim that the code does not keep *)

\* configs.rs:293: "There are user units so there must be a connection too"
ConnectionForUserUnits == at # "panicked"

-----------------------------------------------------------------------------
(* Liveness *)

\* start_units and stop_units come to an end, if only by the panic above.
UnitsHandled ==
    (at \in {"manager", "subscribe", "call", "asked", "wait"} ~> at = "started")
    /\ (at \in {"stop manager", "stop"} ~> at \in {"stopped", "panicked"})

\* Units of a TOH that stays detached end, when no error keeps them from it and
\* they can be stopped at all.
DetachedUnitsEnd ==
    <>[](at = "stopped" /\ faults = 0) => <>[](\A u \in Units \ Refusing : state[u] # "active")
=============================================================================
