---------------------------- MODULE Units_proofs ----------------------------
(***************************************************************************)
(* For any configuration of units, any number of attachments and errors:   *)
(* start_units misses no job, starts one unit at a time, and starts every  *)
(* installed service it has to.                                            *)
(***************************************************************************)
EXTENDS Units, TLAPS

-----------------------------------------------------------------------------
(* The inductive invariant *)

\* The job of a start that was asked for is either in the queue or its removal
\* is in the stream, never both.
JobInv ==
    at \in {"asked", "wait"} =>
        (job[Current] = "start" <=> <<Current, "start">> \notin removed)

\* Nothing is kept in a stream that nobody listens to.
StreamInv == ~Listening => removed = {}

\* The units that start_units is done with.
Done(u) ==
    \/ at = "started"
    \/ manager = "user" /\ u \in UnitsOf(SystemUnits)
    \/ at \in InHand /\ \E i \in 1 .. Len(Listed(manager)) : i < pos /\ u = Listed(manager)[i]

Starting == {"manager", "subscribe", "call", "asked", "wait", "started"}

\* As long as nothing fails, a start job that is over has brought its unit up,
\* and so have those of the installed services that start_units is done with.
DoneInv ==
    faults = 0 /\ at \in Starting =>
        /\ \A u \in Units : <<u, "start">> \in removed => u \in begun
        /\ \A u \in Units \ Transient : Wanted(u, onStart) /\ Done(u) => u \in begun

IInv == TypeOK /\ JobInv /\ OneStartAtATime /\ StreamInv /\ DoneInv

-----------------------------------------------------------------------------
(* Lemmas about the lists *)

\* Both lists hold units, and every unit is on one of them.
LEMMA Lists ==
    /\ \A m : /\ Len(Listed(m)) \in Nat
              /\ \A i \in 1 .. Len(Listed(m)) : Listed(m)[i] \in Units
    /\ \A u \in Units : u \in UnitsOf(SystemUnits) \/ u \in UnitsOf(UserUnits)
BY UnitsAssumption DEF Listed, Units, UnitsOf

\* The current unit is a unit.
LEMMA CurrentIsUnit ==
    ASSUME TypeOK, at \in InHand
    PROVE  Current \in Units /\ pos \in 1 .. Len(Listed(manager))
BY Lists DEF TypeOK, Current

\* Advancing finds a unit of the same manager, or goes on to the next one.
LEMMA AdvanceType ==
    ASSUME TypeOK, NEW p \in Nat, Advance(p)
    PROVE  /\ at' \in Ats /\ manager' \in {"system", "user"}
           /\ pos' \in IF at' \in InHand THEN 1 .. Len(Listed(manager')) ELSE {0}
           /\ at' \in {"subscribe", "manager", "started"}
<1>1. Len(Listed(manager)) \in Nat
  BY Lists
<1>2. CASE NextManager
  BY <1>2 DEF NextManager, Ats, InHand, TypeOK
<1>3. CASE /\ pos' \in p + 1 .. Len(Listed(manager))
           /\ at' = "subscribe" /\ UNCHANGED manager
  <2>1. pos' \in 1 .. Len(Listed(manager'))
    BY <1>1, <1>3
  <2>2. at' \in InHand /\ at' \in Ats /\ manager' \in {"system", "user"}
    BY <1>3 DEF Ats, InHand, TypeOK
  <2> QED BY <1>3, <2>1, <2>2
<1> QED BY <1>2, <1>3 DEF Advance

\* A fault counts.
LEMMA FaultType ==
    ASSUME TypeOK, Fault
    PROVE  faults' \in 0 .. MaxFaults /\ faults' # 0
BY BoundsAssumption DEF TypeOK, Fault

\* What advancing adds to the units that are done: those up to the position it
\* starts from, and units that are not wanted.
LEMMA AdvanceDone ==
    ASSUME TypeOK, NEW p \in Nat, Advance(p), at \notin {"started"}, UNCHANGED onStart,
           NEW u \in Units, Wanted(u, onStart), Done(u)'
    PROVE  \/ manager = "user" /\ u \in UnitsOf(SystemUnits)
           \/ \E i \in 1 .. Len(Listed(manager)) : i <= p /\ u = Listed(manager)[i]
<1>0. Len(Listed(manager)) \in Nat
  BY Lists
<1>1. CASE NextManager /\ \A i \in p + 1 .. Len(Listed(manager)) : ~Wanted(Listed(manager)[i], onStart)
  <2>1. CASE manager = "system"
    <3>1. at' = "manager" /\ manager' = "user"
      BY <1>1, <2>1 DEF NextManager
    <3>2. u \in UnitsOf(SystemUnits)
      BY <3>1 DEF Done, InHand
    <3>3. PICK i \in 1 .. Len(Listed(manager)) : u = Listed(manager)[i]
      BY <2>1, <3>2 DEF UnitsOf, Listed
    <3>4. i <= p
      BY <1>0, <1>1, <3>3
    <3> QED BY <3>3, <3>4
  <2>2. CASE manager = "user"
    <3>1. CASE u \in UnitsOf(SystemUnits)
      BY <2>2, <3>1
    <3>2. CASE u \in UnitsOf(UserUnits)
      <4>1. PICK i \in 1 .. Len(Listed(manager)) : u = Listed(manager)[i]
        BY <2>2, <3>2 DEF UnitsOf, Listed
      <4>2. i <= p
        BY <1>0, <1>1, <4>1
      <4> QED BY <4>1, <4>2
    <3> QED BY <3>1, <3>2, Lists
  <2> QED BY <2>1, <2>2 DEF TypeOK
<1>2. CASE /\ pos' \in p + 1 .. Len(Listed(manager))
           /\ \A i \in p + 1 .. pos' - 1 : ~Wanted(Listed(manager)[i], onStart)
           /\ at' = "subscribe" /\ UNCHANGED manager
  <2>1. CASE manager' = "user" /\ u \in UnitsOf(SystemUnits)
    BY <1>2, <2>1
  <2>2. CASE \E i \in 1 .. Len(Listed(manager)) : i < pos' /\ u = Listed(manager)[i]
    <3>1. PICK i \in 1 .. Len(Listed(manager)) : i < pos' /\ u = Listed(manager)[i]
      BY <2>2
    <3>2. i \in Int /\ p \in Int
      BY <1>0
    <3>3. pos' \in Int
      BY <1>0, <1>2, <3>2
    <3>4. SUFFICES ASSUME i > p PROVE FALSE
      BY <3>1, <3>2
    <3>5. i \in p + 1 .. pos' - 1
      <4> DEFINE q == pos'
      <4>1. q \in Int /\ i < q
        BY <3>1, <3>3
      <4> HIDE DEF q
      <4>2. i \in p + 1 .. q - 1
        BY <3>2, <3>4, <4>1
      <4> QED BY <4>2 DEF q
    <3>6. ~Wanted(Listed(manager)[i], onStart)
      BY <1>2, <3>5
    <3> QED BY <3>1, <3>6
  <2> QED BY <1>2, <2>1, <2>2 DEF Done
<1> QED BY <1>1, <1>2 DEF Advance

-----------------------------------------------------------------------------
(* The steps *)

\* Leaving a unit: no start job is left behind, and an installed service that was
\* wanted is up, unless something went wrong.
LEMMA NextUnitStep ==
    ASSUME IInv, at \in {"subscribe", "call", "asked", "wait"}, NextUnit,
           faults' \in 0 .. MaxFaults, faults' = 0 => faults = 0,
           UNCHANGED <<state, job, begun, session>>,
           faults' = 0 => \A u \in Units : job[u] # "start",
           faults' = 0 /\ Current \notin Transient /\ Wanted(Current, onStart) =>
               Current \in begun
    PROVE  IInv'
<1> USE DEF IInv, NextUnit
<1>0. pos \in Nat /\ pos \in 1 .. Len(Listed(manager)) /\ at \in InHand
  BY CurrentIsUnit, Lists DEF InHand
<1>1. TypeOK'
  BY <1>0, AdvanceType DEF TypeOK
<1>2. at' \in {"subscribe", "manager", "started"}
  BY <1>0, AdvanceType
<1>3. JobInv' /\ OneStartAtATime' /\ StreamInv'
  BY <1>2 DEF JobInv, OneStartAtATime, StreamInv
<1>4. DoneInv'
  <2> SUFFICES ASSUME faults' = 0, NEW u \in Units \ Transient, Wanted(u, onStart), Done(u)'
               PROVE  u \in begun
    BY DEF DoneInv, Wanted
  <2>1. \/ manager = "user" /\ u \in UnitsOf(SystemUnits)
        \/ \E i \in 1 .. Len(Listed(manager)) : i <= pos /\ u = Listed(manager)[i]
    BY <1>0, AdvanceDone
  <2>2. Done(u) \/ u = Current
    BY <1>0, <2>1, Lists DEF Done, Current
  <2> QED BY <2>2 DEF DoneInv, Starting
<1> QED BY <1>1, <1>3, <1>4

\* Steps of start_units and stop_units that move no unit on.
LEMMA GetManagerStep ==
    ASSUME IInv, GetManager
    PROVE  IInv'
<1> USE DEF IInv, GetManager, systemdVars
<1>1. TypeOK'
  <2>1. /\ at' \in Ats /\ manager' \in {"system", "user"}
        /\ pos' \in IF at' \in InHand THEN 1 .. Len(Listed(manager')) ELSE {0}
    <3>1. CASE NextManager
      BY <3>1 DEF NextManager, Ats, InHand, TypeOK
    <3>2. CASE Advance(0)
      BY <3>2, AdvanceType
    <3> QED BY <3>1, <3>2
  <2>2. faults' \in 0 .. MaxFaults /\ connected' \in BOOLEAN
    BY FaultType DEF TypeOK
  <2> QED BY <2>1, <2>2 DEF TypeOK
<1>2. at' \in {"subscribe", "manager", "started"}
  BY AdvanceType DEF NextManager
<1>3. JobInv' /\ StreamInv' /\ removed = {}
  BY <1>2 DEF JobInv, StreamInv, Listening
<1>4. faults' = 0 => faults = 0 /\ (NextManager => Listed(manager) = <<>> \/ Advance(0))
  BY FaultType
<1>5. OneStartAtATime'
  BY <1>4 DEF OneStartAtATime
<1>6. DoneInv'
  <2> SUFFICES ASSUME faults' = 0, NEW u \in Units \ Transient, Wanted(u, onStart), Done(u)'
               PROVE  u \in begun
    BY <1>3 DEF DoneInv, Wanted
  <2>1. Advance(0)
    <3>1. CASE Listed(manager) = <<>> /\ NextManager
      BY <3>1 DEF Advance
    <3> QED BY <3>1, FaultType
  <2>2. manager = "user" /\ u \in UnitsOf(SystemUnits)
    BY <2>1, AdvanceDone
  <2> QED BY <1>4, <2>2 DEF DoneInv, Done, Starting
<1> QED BY <1>1, <1>3, <1>5, <1>6

\* Asking for the job: it is in the queue, and what the stream had is older.
LEMMA CallStartStep ==
    ASSUME IInv, CallStart
    PROVE  IInv'
<1> DEFINE u == Current
<1> USE DEF CallStart, IInv
<1>0. u \in Units /\ pos \in 1 .. Len(Listed(manager)) /\ at = "call"
  BY CurrentIsUnit DEF InHand
<1>a. faults = 0 => \A v \in Units : job[v] # "start"
  BY <1>0 DEF OneStartAtATime
<1>1. CASE /\ Enqueue(u, "start") /\ at' = "asked"
           /\ UNCHANGED <<manager, pos, onStart, connected, retried, cycles, faults, session>>
  <2>1. Current' = u
    BY <1>1 DEF Current
  <2>2. /\ job' = [job EXCEPT ![u] = "start"] /\ UNCHANGED <<state, begun>>
        /\ removed' \subseteq Units \X {"start", "stop"} /\ <<u, "start">> \notin removed'
        /\ \A v \in Units : <<v, "start">> \in removed' => <<v, "start">> \in removed
    BY <1>0, <1>1 DEF Enqueue, TypeOK
  <2>3. TypeOK'
    BY <1>0, <1>1, <2>2 DEF TypeOK, Ats, InHand
  <2>4. JobInv'
    BY <1>0, <2>1, <2>2 DEF JobInv, TypeOK
  <2>5. OneStartAtATime'
    BY <1>0, <1>1, <1>a, <2>1, <2>2 DEF OneStartAtATime, TypeOK
  <2>6. DoneInv'
    <3> SUFFICES ASSUME faults = 0, NEW v \in Units \ Transient, Wanted(v, onStart), Done(v)'
                 PROVE  v \in begun
      BY <1>0, <1>1, <2>2 DEF DoneInv, Wanted, Starting
    <3>1. Done(v)
      BY <1>0, <1>1, <2>1 DEF Done, InHand
    <3> QED BY <1>0, <3>1 DEF DoneInv, Starting
  <2>7. StreamInv'
    BY <1>1 DEF StreamInv, Listening
  <2> QED BY <2>3, <2>4, <2>5, <2>6, <2>7
<1>2. CASE /\ u \in Transient /\ retried' = TRUE
           /\ state' \in {state, [state EXCEPT ![u] = "inactive"]}
           /\ UNCHANGED <<at, manager, pos, onStart, connected, cycles, removed, job, begun,
                          faults, session>>
  <2>1. TypeOK'
    BY <1>0, <1>2 DEF TypeOK
  <2>2. Current' = Current
    BY <1>2 DEF Current
  <2> QED BY <1>2, <2>1, <2>2
          DEF JobInv, OneStartAtATime, StreamInv, Listening, DoneInv, Done
<1>3. CASE u \in Transient /\ NextUnit /\ UNCHANGED <<state, job, begun, faults, session>>
  BY <1>0, <1>3, <1>a, NextUnitStep DEF TypeOK
<1>4. CASE Fault /\ NextUnit /\ UNCHANGED <<state, job, begun, session>>
  BY <1>0, <1>4, FaultType, NextUnitStep
<1> QED BY <1>1, <1>2, <1>3, <1>4 DEF systemdVars

\* Waiting: the answer changes nothing; the removal of the job shows that it is no
\* longer in the queue.
LEMMA WaitStep ==
    ASSUME IInv, Subscribe \/ JobPath \/ WaitForJob
    PROVE  IInv'
<1> USE DEF IInv, systemdVars
<1>0. at \in {"subscribe", "asked", "wait"} /\ at \in InHand /\ Current \in Units
  BY CurrentIsUnit DEF Subscribe, JobPath, WaitForJob, InHand
<1>1. CASE Fault /\ NextUnit /\ UNCHANGED <<state, job, begun, session>>
  BY <1>0, <1>1, FaultType, NextUnitStep
<1>2. CASE /\ at = "subscribe" /\ at' = "call" /\ removed' = {}
           /\ UNCHANGED <<manager, pos, onStart, connected, retried, cycles, faults, systemdVars, session>>
  <2>1. TypeOK'
    BY <1>2 DEF TypeOK, Ats, InHand
  <2>2. DoneInv'
    BY <1>2 DEF DoneInv, Done, InHand, Starting
  <2> QED BY <1>2, <2>1, <2>2 DEF JobInv, OneStartAtATime, StreamInv
<1>3. CASE /\ at = "asked" /\ at' = "wait"
           /\ UNCHANGED <<manager, pos, onStart, connected, retried, cycles, removed, faults,
                          systemdVars, session>>
  <2>1. TypeOK' /\ Current' = Current
    BY <1>3 DEF TypeOK, Ats, InHand, Current
  <2>2. DoneInv'
    BY <1>3, <2>1 DEF DoneInv, Done, InHand, Starting
  <2> QED BY <1>3, <2>1, <2>2 DEF JobInv, OneStartAtATime, StreamInv, Listening
<1>4. CASE /\ at = "wait" /\ <<Current, "start">> \in removed
           /\ NextUnit /\ UNCHANGED <<faults, systemdVars, session>>
  <2>1. job[Current] # "start"
    BY <1>4 DEF JobInv
  <2>2. faults = 0 => \A u \in Units : job[u] # "start"
    BY <2>1 DEF OneStartAtATime
  <2>3. faults = 0 => Current \in begun
    BY <1>0, <1>4 DEF DoneInv, Starting
  <2>4. faults' \in 0 .. MaxFaults
    BY <1>4 DEF TypeOK
  <2> QED BY <1>4, <2>2, <2>3, <2>4, NextUnitStep
<1> QED BY <1>1, <1>2, <1>3, <1>4 DEF Subscribe, JobPath, WaitForJob

\* main and stop_units: nothing is started, so only the types are at stake.
LEMMA OutsideStep ==
    ASSUME IInv, StartUnits \/ StopUnits \/ GetStopManager \/ StopUnit
    PROVE  IInv'
<1> USE DEF IInv, systemdVars
<1>0. \A u \in Units : faults = 0 => job[u] # "start"
  BY DEF OneStartAtATime, StartUnits, StopUnits, GetStopManager, StopUnit
<1>1. CASE StartUnits
  <2>1. TypeOK'
    <3>1. cycles' \in 0 .. MaxCycles
      BY <1>1, BoundsAssumption DEF StartUnits, TypeOK
    <3>2. pos' = 0 /\ at' \notin InHand /\ at' \in Ats
      BY <1>1 DEF StartUnits, TypeOK, Ats, InHand
    <3> QED BY <1>1, <3>1, <3>2 DEF StartUnits, TypeOK
  <2>2. removed = {} /\ removed' = {}
    BY <1>1 DEF StartUnits, StreamInv, Listening
  <2>3. DoneInv'
    BY <1>1, <2>2 DEF StartUnits, DoneInv, Done, InHand
  <2> QED BY <1>0, <1>1, <2>1, <2>2, <2>3 DEF StartUnits, JobInv, OneStartAtATime, StreamInv
<1>2. CASE StopUnits
  <2>1. TypeOK'
    BY <1>2 DEF StopUnits, TypeOK, Ats, InHand
  <2> QED BY <1>0, <1>2, <2>1
          DEF StopUnits, JobInv, OneStartAtATime, StreamInv, Listening, DoneInv, Starting
<1>3. CASE GetStopManager
  <2>1. /\ at' \in {"stop manager", "stop", "stopped", "panicked"}
        /\ manager' \in {"system", "user"}
        /\ pos' \in IF at' \in InHand THEN 1 .. Len(Listed(manager')) ELSE {0}
    <3>1. CASE AfterStop
      BY <3>1 DEF AfterStop, InHand, TypeOK
    <3>2. CASE Listed(manager) # <<>> /\ pos' = 1 /\ at' = "stop" /\ UNCHANGED manager
      <4>1. 1 \in 1 .. Len(Listed(manager))
        BY <3>2, UnitsAssumption DEF Listed
      <4> QED BY <3>2, <4>1 DEF InHand, TypeOK
    <3>3. CASE at' = "panicked" /\ UNCHANGED <<manager, pos>>
      BY <1>3, <3>3 DEF GetStopManager, InHand, TypeOK
    <3> QED BY <1>3, <3>1, <3>2, <3>3 DEF GetStopManager
  <2>2. faults' \in 0 .. MaxFaults /\ (faults' = 0 => faults = 0)
    BY <1>3, FaultType DEF GetStopManager, TypeOK
  <2>3. UNCHANGED <<onStart, connected, retried, cycles, removed, state, job, begun, session>>
    BY <1>3 DEF GetStopManager
  <2>5. removed = {}
    BY <1>3 DEF GetStopManager, StreamInv, Listening
  <2>4. TypeOK'
    BY <2>1, <2>2, <2>3 DEF TypeOK, Ats
  <2> QED BY <1>0, <2>1, <2>2, <2>3, <2>4, <2>5
          DEF JobInv, OneStartAtATime, StreamInv, DoneInv, Starting
<1>4. CASE StopUnit
  <2>0. Current \in Units /\ pos \in 1 .. Len(Listed(manager)) /\ at = "stop"
    BY <1>4, CurrentIsUnit DEF StopUnit, InHand
  <2>1. /\ at' \in {"stop manager", "stop", "stopped"} /\ manager' \in {"system", "user"}
        /\ pos' \in IF at' \in InHand THEN 1 .. Len(Listed(manager')) ELSE {0}
    <3>1. CASE AfterStop
      BY <3>1 DEF AfterStop, InHand, TypeOK
    <3>2. CASE pos < Len(Listed(manager)) /\ pos' = pos + 1 /\ UNCHANGED <<at, manager>>
      BY <2>0, <3>2, Lists DEF InHand, TypeOK
    <3> QED BY <1>4, <3>1, <3>2 DEF StopUnit
  <2>2. faults' \in 0 .. MaxFaults /\ (faults' = 0 => faults = 0)
    BY <1>4, FaultType DEF StopUnit, TypeOK
  <2>3. /\ UNCHANGED <<onStart, connected, retried, cycles, state, begun, session>>
        /\ job' \in {job, [job EXCEPT ![Current] = "stop"]}
        /\ removed' = {}
    BY <1>4, <2>0 DEF StopUnit, Enqueue, StreamInv, Listening
  <2>4. TypeOK'
    BY <2>0, <2>1, <2>2, <2>3 DEF TypeOK, Ats
  <2>5. faults' = 0 => \A u \in Units : job'[u] # "start"
    BY <1>0, <2>0, <2>2, <2>3 DEF TypeOK
  <2> QED BY <2>1, <2>3, <2>4, <2>5 DEF JobInv, OneStartAtATime, StreamInv, DoneInv, Starting
<1> QED BY <1>1, <1>2, <1>3, <1>4

\* systemd, services and the session: a job that leaves the queue is in the stream
\* of whoever waits for it.
LEMMA EnvironmentStep ==
    ASSUME IInv, SessionStarts \/ \E u \in Units : JobDone(u) \/ ServiceExits(u)
    PROVE  IInv'
<1> USE DEF IInv, progVars, systemdVars
<1>1. CASE SessionStarts
  <2>1. TypeOK'
    BY <1>1 DEF SessionStarts, TypeOK
  <2> QED BY <1>1, <2>1
          DEF SessionStarts, JobInv, OneStartAtATime, StreamInv, Listening, DoneInv, Done, Current
<1>2. ASSUME NEW u \in Units, ServiceExits(u)
      PROVE  IInv'
  <2>1. TypeOK'
    BY <1>2 DEF ServiceExits, TypeOK
  <2> QED BY <1>2, <2>1
          DEF ServiceExits, JobInv, OneStartAtATime, StreamInv, Listening, DoneInv, Done, Current
<1>3. ASSUME NEW u \in Units, JobDone(u)
      PROVE  IInv'
  <2>1. /\ UNCHANGED <<at, manager, pos, onStart, connected, retried, cycles, session>>
        /\ job' = [job EXCEPT ![u] = "none"] /\ job[u] # "none"
        /\ removed' = IF Listening THEN removed \cup {<<u, job[u]>>} ELSE removed
        /\ Current' = Current
    BY <1>3 DEF JobDone, JobRemoved, Current
  <2>2. faults' \in 0 .. MaxFaults /\ (faults' = 0 => faults = 0)
    BY <1>3, FaultType DEF JobDone, TypeOK
  <2>3. /\ state' \in [Units -> {"inactive", "active", "failed"}]
        /\ begun' \subseteq Units /\ begun \subseteq begun'
        /\ faults' = 0 /\ job[u] = "start" => u \in begun'
    BY <1>3, FaultType DEF JobDone, TypeOK
  <2>4. job[u] \in {"start", "stop"}
    BY <2>1 DEF TypeOK
  <2>5. TypeOK'
    <3>1. job' \in [Units -> {"none", "start", "stop"}]
      BY <2>1 DEF TypeOK
    <3>2. removed' \subseteq Units \X {"start", "stop"}
      BY <2>1, <2>4 DEF TypeOK
    <3> QED BY <2>1, <2>2, <2>3, <3>1, <3>2 DEF TypeOK
  <2>6. JobInv'
    BY <2>1, <2>4, CurrentIsUnit DEF JobInv, Listening, TypeOK, InHand
  <2>7. OneStartAtATime' /\ StreamInv'
    BY <2>1, <2>2 DEF OneStartAtATime, StreamInv, Listening, TypeOK
  <2>8. DoneInv'
    BY <2>1, <2>2, <2>3 DEF DoneInv, Done, Wanted
  <2> QED BY <2>5, <2>6, <2>7, <2>8
<1> QED BY <1>1, <1>2, <1>3

-----------------------------------------------------------------------------
(* The theorems *)

LEMMA InvInit == Init => IInv
<1> SUFFICES ASSUME Init PROVE IInv
  OBVIOUS
<1>1. at = "idle" /\ at \in Ats /\ at \notin InHand /\ at \notin Starting /\ at \notin {"asked", "wait"}
  BY DEF Init, Ats, InHand, Starting
<1>2. \A u \in Units : job[u] = "none"
  BY DEF Init
<1>3. /\ cycles \in 0 .. MaxCycles /\ faults \in 0 .. MaxFaults
      /\ state \in [Units -> {"inactive", "active", "failed"}]
      /\ job \in [Units -> {"none", "start", "stop"}]
  BY BoundsAssumption DEF Init
<1>4. TypeOK
  BY <1>1, <1>3 DEF Init, TypeOK
<1> QED BY <1>1, <1>2, <1>4 DEF Init, IInv, JobInv, OneStartAtATime, StreamInv, DoneInv

LEMMA InvStep == IInv /\ [Next]_vars => IInv'
<1> SUFFICES ASSUME IInv, [Next]_vars PROVE IInv'
  OBVIOUS
<1>1. CASE UNCHANGED vars
  BY <1>1 DEF vars, IInv, TypeOK, JobInv, OneStartAtATime, StreamInv, Listening, DoneInv, Done,
     Current
<1> QED
  BY <1>1, GetManagerStep, CallStartStep, WaitStep, OutsideStep, EnvironmentStep
  DEF Next, ProgramStep

\* The inductive invariant holds in every reachable state.
THEOREM Invariance == Spec => []IInv
<1>1. IInv /\ [Next]_vars => IInv'
  BY InvStep
<1> QED BY InvInit, <1>1, PTL DEF Spec

\* Every variable keeps its type; in particular there is a current unit whenever
\* the program uses one.
THEOREM TypeCorrect == Spec => []TypeOK
<1>1. IInv => TypeOK
  BY DEF IInv
<1> QED BY <1>1, Invariance, PTL

\* Whoever waits for a start job finds it in the queue or in the stream: the end
\* of a job that precedes the answer with its path is not missed.
THEOREM NotMissed == Spec => []JobNotMissed
<1>1. IInv => JobNotMissed
  BY DEF IInv, JobInv, JobNotMissed
<1> QED BY <1>1, Invariance, PTL

\* Units are started one after the other, across both managers and all errors of
\* earlier attachments that were none.
THEOREM OneAtATime == Spec => []OneStartAtATime
<1>1. IInv => OneStartAtATime
  BY DEF IInv
<1> QED BY <1>1, Invariance, PTL

\* Every installed service that start_units has to start comes up before it is
\* over, unless something fails.
THEOREM ServicesStarted == Spec => []InstalledServicesStarted
<1>1. IInv => InstalledServicesStarted
  BY DEF IInv, DoneInv, Done, Starting, InstalledServicesStarted
<1> QED BY <1>1, Invariance, PTL
=============================================================================
