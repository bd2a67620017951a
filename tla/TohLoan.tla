------------------------------ MODULE TohLoan ------------------------------
(***************************************************************************)
(* How tohd lends the i2c-dev device over D-Bus (src/dbus/server.rs),      *)
(* together with the part of main.rs that publishes and removes the Toh    *)
(* object and the clients that call it.                                    *)
(*                                                                         *)
(* Every TOH that is published gets an object of its own, numbered in      *)
(* order of publication.  All are published at the same D-Bus path, but a  *)
(* call that was dispatched while object o was published keeps a reference *)
(* to o and runs on it even after o was removed from the path.             *)
(*                                                                         *)
(* A step is what runs between two awaits: the D-Bus methods, the loan     *)
(* watcher tasks and main interleave at every await.                       *)
(***************************************************************************)
EXTENDS Naturals

CONSTANTS
    Clients,    \* the connections on the system bus (unique names: never reused)
    Allowed,    \* those that are root or allowed by the TOH's configuration
    MaxToh,     \* bound: how many times a TOH is published
    MaxFaults,  \* bound: D-Bus errors, I/O errors and exits of the daemon
    NoClient,   \* Option<UniqueName>::None
    NoLoan      \* Option<Loan>::None

Loan == [owner : Clients, powerDown : BOOLEAN]

ASSUME AllowedAssumption == Allowed \subseteq Clients
ASSUME BoundsAssumption == MaxToh \in Nat /\ MaxFaults \in Nat
ASSUME SentinelAssumption == NoClient \notin Clients /\ NoLoan \notin Loan

Objects == 1 .. MaxToh

\* The task spawned by LoanWatcher::new.  "none" is Toh.watcher = None;
\* lost is a NameOwnerChanged signal that waits in the task's stream.
WatcherStates == {"none", "subscribing", "checking", "streaming", "finished"}
Watcher == [state : WatcherStates, sender : Clients \cup {NoClient}, lost : BOOLEAN]
NoWatcher == [state |-> "none", sender |-> NoClient, lost |-> FALSE]

\* A method call in progress: the await it stands at, the object it runs on,
\* its argument, and the local variables of lend_i2c_dev.
CallStates == {"idle", "borrowing", "returning", "owner", "creds", "warmup"}
Call == [at : CallStates, obj : 0 .. MaxToh, powerDown : BOOLEAN,
         owner : Clients \cup {NoClient}, previous : Loan \cup {NoLoan}]
NoCall == [at |-> "idle", obj |-> 0, powerDown |-> FALSE,
           owner |-> NoClient, previous |-> NoLoan]

VARIABLES
    phase,    \* where main's loop stands
    cur,      \* the number of TOHs published so far, and the last object
    power,    \* the 5 V output
    loan,     \* object -> the loan under its mutex
    watcher,  \* object -> its watcher task
    call,     \* client -> its method call
    onBus,    \* client -> its connection is on the bus
    held,     \* client -> the object whose file descriptor it uses, or 0
    faults    \* faults so far

vars == <<phase, cur, power, loan, watcher, call, onBus, held, faults>>
mainVars == <<phase, cur>>
clientVars == <<onBus, held>>

Phases == {"between", "searching", "detecting", "published", "removed"}

TypeOK ==
    /\ phase \in Phases
    /\ cur \in 0 .. MaxToh
    /\ power \in BOOLEAN
    /\ loan \in [Objects -> Loan \cup {NoLoan}]
    /\ watcher \in [Objects -> Watcher]
    /\ call \in [Clients -> Call]
    /\ onBus \in [Clients -> BOOLEAN]
    /\ held \in [Clients -> 0 .. MaxToh]
    /\ faults \in 0 .. MaxFaults

Init ==
    /\ phase = "between"
    /\ cur = 0
    /\ power \in BOOLEAN            \* whatever an earlier process left
    /\ loan = [o \in Objects |-> NoLoan]
    /\ watcher = [o \in Objects |-> NoWatcher]
    /\ call = [c \in Clients |-> NoCall]
    /\ onBus = [c \in Clients |-> TRUE]
    /\ held = [c \in Clients |-> 0]
    /\ faults = 0

-----------------------------------------------------------------------------
(* Helpers *)

\* The awaits inside lend_i2c_dev.
Inside == {"owner", "creds", "warmup"}

\* A method has &mut self: a call inside it holds the write lock of its object.
LockFree(o) == \A c \in Clients : ~(call[c].at \in Inside /\ call[c].obj = o)

\* Loan::end.  The method logs or forwards an error of set_power, and the
\* loan is gone either way.
PowerAfter(l) == IF l # NoLoan /\ l.powerDown THEN FALSE ELSE power
EndLoan(l) ==
    \/ power' = PowerAfter(l) /\ UNCHANGED faults
    \/ /\ l # NoLoan /\ l.powerDown /\ faults < MaxFaults
       /\ faults' = faults + 1
       /\ UNCHANGED power

Fault == faults < MaxFaults /\ faults' = faults + 1

\* The reply (or the error) reaches the client: the call is over.
Finish(c) == call' = [call EXCEPT ![c] = NoCall]

Active == {"subscribing", "checking", "streaming"}

-----------------------------------------------------------------------------
(* Clients *)

\* borrow_i2c_dev_access and borrow_i2c_dev_access_with_power are dispatched on
\* the published object.  The configured leave_power_on is either of the
\* values the argument can have, so both methods are one action here.
CallBorrow(c) ==
    /\ phase = "published" /\ onBus[c] /\ call[c].at = "idle"
    /\ \E down \in BOOLEAN :
          call' = [call EXCEPT ![c] =
                      [NoCall EXCEPT !.at = "borrowing", !.obj = cur, !.powerDown = down]]
    /\ UNCHANGED <<mainVars, power, loan, watcher, clientVars, faults>>

\* A client stops using its file descriptor before it returns it.
CallReturn(c) ==
    /\ phase = "published" /\ onBus[c] /\ call[c].at = "idle"
    /\ call' = [call EXCEPT ![c] = [NoCall EXCEPT !.at = "returning", !.obj = cur]]
    /\ held' = [held EXCEPT ![c] = 0]
    /\ UNCHANGED <<mainVars, power, loan, watcher, onBus, faults>>

\* A client gives up its descriptor without returning the access: I2cDev::from_fd
\* fails in access_i2c_dev, or the future of the access is dropped.
DropAccess(c) ==
    /\ onBus[c] /\ held[c] # 0
    /\ held' = [held EXCEPT ![c] = 0]
    /\ UNCHANGED <<mainVars, power, loan, watcher, call, onBus, faults>>

\* A client's process ends, perhaps in the middle of a call.  The bus sends
\* NameOwnerChanged to the watchers that have subscribed to it.
LeaveBus(c) ==
    /\ onBus[c]
    /\ onBus' = [onBus EXCEPT ![c] = FALSE]
    /\ held' = [held EXCEPT ![c] = 0]
    /\ watcher' = [o \in Objects |->
          IF watcher[o].sender = c /\ watcher[o].state \in {"checking", "streaming"}
            THEN [watcher[o] EXCEPT !.lost = TRUE]
            ELSE watcher[o]]
    /\ UNCHANGED <<mainVars, power, loan, call, faults>>

-----------------------------------------------------------------------------
(* lend_i2c_dev *)

\* self.watcher.take() and take_loan_and_abort: the loan moves to the local
\* variable previous_loan and the watcher task is gone.
TakePrevious(c, o) ==
    /\ call' = [call EXCEPT ![c].at = "creds", ![c].owner = NoClient,
                            ![c].previous = loan[o]]
    /\ loan' = [loan EXCEPT ![o] = NoLoan]
    /\ watcher' = [watcher EXCEPT ![o] = NoWatcher]

\* Mutant of BeginLend: the check of the current owner is left out.
BeginLendUnchecked(c) ==
    /\ call[c].at = "borrowing" /\ LockFree(call[c].obj)
    /\ TakePrevious(c, call[c].obj)
    /\ UNCHANGED <<mainVars, power, clientVars, faults>>

\* Mutant of BeginLend: the loan is taken for its owner.
BeginLendConfused(c) ==
    /\ call[c].at = "borrowing" /\ LockFree(call[c].obj)
    /\ IF loan[call[c].obj] # NoLoan
         THEN /\ call' = [call EXCEPT ![c].at = "owner", ![c].owner = loan[call[c].obj]]
              /\ UNCHANGED <<loan, watcher>>
         ELSE TakePrevious(c, call[c].obj)
    /\ UNCHANGED <<mainVars, power, clientVars, faults>>

\* The call gets the write lock and reads the owner of the loan, if any.
BeginLend(c) ==
    LET o == call[c].obj IN
    /\ call[c].at = "borrowing"
    /\ LockFree(o)
    /\ \/ /\ watcher[o].state # "none" /\ loan[o] # NoLoan
          /\ call' = [call EXCEPT ![c].at = "owner", ![c].owner = loan[o].owner]
          /\ UNCHANGED <<loan, watcher>>
       \/ /\ watcher[o].state = "none" \/ loan[o] = NoLoan
          /\ TakePrevious(c, o)
    /\ UNCHANGED <<mainVars, power, clientVars, faults>>

\* Mutant of AlreadyBorrowed: instead of an error, the call waits for its turn.
BorrowRetries(c) ==
    /\ call[c].at = "owner" /\ onBus[call[c].owner]
    /\ call' = [call EXCEPT ![c].at = "borrowing", ![c].owner = NoClient]
    /\ UNCHANGED <<mainVars, power, loan, watcher, clientVars, faults>>

\* NameHasOwner says that the borrower is still there: AlreadyBorrowed.
AlreadyBorrowed(c) ==
    /\ call[c].at = "owner" /\ onBus[call[c].owner]
    /\ Finish(c)
    /\ UNCHANGED <<mainVars, power, loan, watcher, clientVars, faults>>

\* The borrower is gone but its watcher was not quick enough.
OwnerGone(c) ==
    /\ call[c].at = "owner" /\ ~onBus[call[c].owner]
    /\ TakePrevious(c, call[c].obj)
    /\ UNCHANGED <<mainVars, power, clientVars, faults>>

\* The D-Bus proxy or the NameHasOwner call fails before anything is changed.
OwnerCheckFails(c) ==
    /\ call[c].at = "owner" /\ Fault
    /\ Finish(c)
    /\ UNCHANGED <<mainVars, power, loan, watcher, clientVars>>

\* One of the `?` after previous_loan was taken: credentials (which fail as
\* soon as the caller has left the bus), /proc, the device or the power GPIO.
\* previous_loan is dropped, and Loan has no Drop.
LendFails(c) ==
    /\ call[c].at = "creds"
    /\ \/ ~onBus[c] /\ UNCHANGED faults
       \/ Fault
    /\ Finish(c)
    /\ UNCHANGED <<mainVars, power, loan, watcher, clientVars>>

Denied(c) ==
    /\ call[c].at = "creds" /\ onBus[c] /\ c \notin Allowed
    /\ EndLoan(call[c].previous)
    /\ Finish(c)
    /\ UNCHANGED <<mainVars, loan, watcher, clientVars>>

\* Permitted: Loan::new switches the power on and sleeps for 100 ms.
PowerOn(c) ==
    /\ call[c].at = "creds" /\ onBus[c] /\ c \in Allowed
    /\ power' = TRUE
    /\ call' = [call EXCEPT ![c].at = "warmup"]
    /\ UNCHANGED <<mainVars, loan, watcher, clientVars, faults>>

\* Mutant of Lend: the previous loan is ended after the new one was made.
LendEndsPrevious(c) ==
    /\ call[c].at = "warmup"
    /\ power' = PowerAfter(call[c].previous)
    /\ loan' = [loan EXCEPT ![call[c].obj] =
                   [owner |-> c, powerDown |-> call[c].powerDown]]
    /\ watcher' = [watcher EXCEPT ![call[c].obj] =
          [state |-> "subscribing", sender |-> c, lost |-> FALSE]]
    /\ held' = IF onBus[c] THEN [held EXCEPT ![c] = call[c].obj] ELSE held
    /\ Finish(c)
    /\ UNCHANGED <<mainVars, onBus, faults>>

\* The loan exists, its watcher is spawned and the caller gets the file
\* descriptor, if it is still there to get it.
Lend(c) ==
    LET o == call[c].obj IN
    /\ call[c].at = "warmup"
    /\ loan' = [loan EXCEPT ![o] = [owner |-> c, powerDown |-> call[c].powerDown]]
    /\ watcher' = [watcher EXCEPT ![o] =
          [state |-> "subscribing", sender |-> c, lost |-> FALSE]]
    /\ held' = IF onBus[c] THEN [held EXCEPT ![c] = o] ELSE held
    /\ Finish(c)
    /\ UNCHANGED <<mainVars, power, onBus, faults>>

\* Mutant of ReturnLoan: the power goes off whoever calls it.
ReturnPowersDown(c) ==
    LET o == call[c].obj
        match == watcher[o].state # "none" /\ loan[o] # NoLoan /\ loan[o].owner = c
    IN
    /\ call[c].at = "returning" /\ LockFree(o)
    /\ power' = FALSE
    /\ loan' = IF match THEN [loan EXCEPT ![o] = NoLoan] ELSE loan
    /\ watcher' = IF match THEN [watcher EXCEPT ![o] = NoWatcher] ELSE watcher
    /\ Finish(c)
    /\ UNCHANGED <<mainVars, clientVars, faults>>

\* return_i2c_dev_access, with the write lock: end_loan_on_match and abort,
\* or NoLoan.
ReturnLoan(c) ==
    LET o == call[c].obj
        match == watcher[o].state # "none" /\ loan[o] # NoLoan /\ loan[o].owner = c
    IN
    /\ call[c].at = "returning"
    /\ LockFree(o)
    /\ \/ /\ match
          /\ EndLoan(loan[o])
          /\ loan' = [loan EXCEPT ![o] = NoLoan]
          /\ watcher' = [watcher EXCEPT ![o] = NoWatcher]
       \/ /\ ~match
          /\ UNCHANGED <<power, loan, watcher, faults>>
    /\ Finish(c)
    /\ UNCHANGED <<mainVars, clientVars>>

-----------------------------------------------------------------------------
(* The watcher task of a loan *)

\* Mutant of WatcherSubscribes: no NameHasOwner check after subscribing.
WatcherSkipsCheck(o) ==
    /\ watcher[o].state = "subscribing"
    /\ watcher' = [watcher EXCEPT ![o].state = "streaming"]
    /\ UNCHANGED <<mainVars, power, loan, call, clientVars, faults>>

WatcherSubscribes(o) ==
    /\ watcher[o].state = "subscribing"
    /\ watcher' = [watcher EXCEPT ![o].state = "checking"]
    /\ UNCHANGED <<mainVars, power, loan, call, clientVars, faults>>

\* end_loan of the task, under the mutex of the loan.
WatcherEndsLoan(o) ==
    /\ EndLoan(loan[o])
    /\ loan' = [loan EXCEPT ![o] = NoLoan]
    /\ watcher' = [watcher EXCEPT ![o].state = "finished"]

WatcherChecks(o) ==
    /\ watcher[o].state = "checking"
    /\ \/ /\ onBus[watcher[o].sender]
          /\ watcher' = [watcher EXCEPT ![o].state = "streaming"]
          /\ UNCHANGED <<power, loan, faults>>
       \/ /\ ~onBus[watcher[o].sender]
          /\ WatcherEndsLoan(o)
    /\ UNCHANGED <<mainVars, call, clientVars>>

WatcherSeesLoss(o) ==
    /\ watcher[o].state = "streaming" /\ watcher[o].lost
    /\ WatcherEndsLoan(o)
    /\ UNCHANGED <<mainVars, call, clientVars>>

\* Subscribing or checking fails: the task ends and the loan stays.
WatcherFails(o) ==
    /\ watcher[o].state \in {"subscribing", "checking"} /\ Fault
    /\ watcher' = [watcher EXCEPT ![o].state = "finished"]
    /\ UNCHANGED <<mainVars, power, loan, call, clientVars>>

-----------------------------------------------------------------------------
(* main *)

\* Mutant of NewCover: the power stays as the last round has left it.
NewCoverKeepsPower ==
    /\ phase = "between" /\ phase' = "searching"
    /\ UNCHANGED <<cur, power, loan, watcher, call, clientVars, faults>>

\* BackCover::new: every round of the loop begins with the power off.
NewCover ==
    /\ phase = "between" /\ phase' = "searching"
    /\ power' = FALSE
    /\ UNCHANGED <<cur, loan, watcher, call, clientVars, faults>>

\* wait_connect returns and power_up switches the power on.
PowerUp ==
    /\ phase = "searching" /\ phase' = "detecting"
    /\ power' = TRUE
    /\ UNCHANGED <<cur, loan, watcher, call, clientVars, faults>>

\* power_up cannot switch the power on: main loops.
PowerUpFails ==
    /\ phase = "searching" /\ phase' = "between" /\ Fault
    /\ UNCHANGED <<cur, power, loan, watcher, call, clientVars>>

\* Identification or detection fails: main loops, with the power as it is or,
\* when the TOH is gone or of an unknown type, off.
DetectFails ==
    /\ phase = "detecting" /\ phase' = "between"
    /\ power' \in {power, FALSE}
    /\ UNCHANGED <<cur, loan, watcher, call, clientVars, faults>>

\* Power down unless leave_power_on, then put a new Toh at TOH_PATH.
Publish ==
    /\ phase = "detecting" /\ cur < MaxToh
    /\ phase' = "published"
    /\ cur' = cur + 1
    /\ \/ UNCHANGED power
       \/ power' = FALSE
    /\ UNCHANGED <<loan, watcher, call, clientVars, faults>>

\* The TOH is gone and its units are stopped: take the object off its path.
Remove ==
    /\ phase = "published" /\ phase' = "removed"
    /\ UNCHANGED <<cur, power, loan, watcher, call, clientVars, faults>>

\* Mutant of AbortWatcher: the loan is dropped instead of ended.
AbortDropsLoan ==
    /\ phase = "removed" /\ LockFree(cur)
    /\ phase' = "between"
    /\ loan' = [loan EXCEPT ![cur] = NoLoan]
    /\ watcher' = [watcher EXCEPT ![cur] = NoWatcher]
    /\ UNCHANGED <<cur, power, faults, call, clientVars>>

\* Mutant of AbortWatcher: main waits until the borrower returns the access.
AbortAwaitsReturn ==
    /\ phase = "removed" /\ LockFree(cur) /\ loan[cur] = NoLoan
    /\ phase' = "between"
    /\ watcher' = [watcher EXCEPT ![cur] = NoWatcher]
    /\ UNCHANGED <<cur, power, loan, faults, call, clientVars>>

\* toh.get_mut().await.abort_watcher().await: with the write lock of the
\* object, take the loan and end it (its result is thrown away).
AbortWatcher ==
    /\ phase = "removed" /\ LockFree(cur)
    /\ phase' = "between"
    /\ EndLoan(loan[cur])
    /\ loan' = [loan EXCEPT ![cur] = NoLoan]
    /\ watcher' = [watcher EXCEPT ![cur] = NoWatcher]
    /\ UNCHANGED <<cur, call, clientVars>>

\* main returns an error or the process is killed.  systemd starts it again
\* with no objects; the clients stay, and so does the power, unless main had
\* just cut it when BackCover::new or the publication failed.
Restart ==
    /\ Fault
    /\ phase' = "between"
    /\ \/ UNCHANGED power
       \/ phase \in {"between", "detecting"} /\ power' = FALSE
    /\ loan' = [o \in Objects |-> NoLoan]
    /\ watcher' = [o \in Objects |-> NoWatcher]
    /\ call' = [c \in Clients |-> NoCall]
    /\ UNCHANGED <<cur, clientVars>>

-----------------------------------------------------------------------------
ClientStep(c) == CallBorrow(c) \/ CallReturn(c) \/ DropAccess(c) \/ LeaveBus(c)

LendStep(c) ==
    \/ AlreadyBorrowed(c) \/ OwnerGone(c) \/ OwnerCheckFails(c)
    \/ LendFails(c) \/ Denied(c) \/ PowerOn(c) \/ Lend(c)

LockStep(c) == BeginLend(c) \/ ReturnLoan(c)

WatcherStep(o) ==
    WatcherSubscribes(o) \/ WatcherChecks(o) \/ WatcherSeesLoss(o) \/ WatcherFails(o)

MainStep ==
    \/ NewCover \/ PowerUp \/ PowerUpFails \/ DetectFails \/ Publish \/ Remove
    \/ AbortWatcher \/ Restart

Next ==
    \/ \E c \in Clients : ClientStep(c) \/ LockStep(c) \/ LendStep(c)
    \/ \E o \in Objects : WatcherStep(o)
    \/ MainStep

Spec == Init /\ [][Next]_vars

\* The runtime polls every task that can go on.  The lock of an object is fair
\* (first come, first served), so whoever waits for it gets it in the end.
\* Clients, and the TOH coming and going, are under nobody's control.
Fairness ==
    /\ \A c \in Clients : SF_vars(LockStep(c)) /\ WF_vars(LendStep(c))
    /\ \A o \in Objects : WF_vars(WatcherStep(o))
    /\ SF_vars(AbortWatcher)

FairSpec == Spec /\ Fairness

-----------------------------------------------------------------------------
(* Safety *)

\* While an object is alive, whoever uses its file descriptor is the owner of
\* its loan: one process at a time, and one that the daemon knows of.
HolderOwnsLoan ==
    phase \in {"published", "removed"} =>
        \A c \in Clients : held[c] # 0 /\ held[c] = cur =>
            loan[cur] # NoLoan /\ loan[cur].owner = c

\* As long as nothing fails, a loan is guarded by a task that will learn of
\* its owner's departure: it will check, or the signal is already there.
LoanGuarded ==
    faults = 0 =>
        \A o \in Objects : loan[o] # NoLoan =>
            /\ watcher[o].state \in Active
            /\ watcher[o].sender = loan[o].owner
            /\ watcher[o].state = "streaming" /\ ~onBus[loan[o].owner] => watcher[o].lost

\* The work on objects that main has removed.
StaleWork ==
    \/ \E o \in Objects \ {cur} : loan[o] # NoLoan /\ loan'[o] = NoLoan
    \/ \E c \in Clients : call[c].at = "creds" /\ call'[c].at = "idle" /\ call[c].obj # cur

\* Nothing switches the power off under the borrower of the published TOH,
\* except what is left over from objects that main has removed.
PowerStaysForLoan ==
    [][ phase = "published" /\ phase' = "published" /\ loan[cur] # NoLoan
        /\ loan'[cur] = loan[cur] /\ power /\ ~power' => StaleWork ]_vars

\* A borrowed TOH has power.  With one TOH there are no left-overs.
BorrowedHasPower ==
    phase = "published" /\ loan[cur] # NoLoan => power

\* A loan that asked for power-down leaves the mutex only with the power cut,
\* or into the hands of the call that takes its place.
LoanEndSettled ==
    [][ faults' = faults =>
        \A o \in Objects : loan[o] # NoLoan /\ loan[o].powerDown /\ loan'[o] # loan[o] =>
            ~power' \/ \E c \in Clients : call'[c].previous = loan[o] ]_vars

-----------------------------------------------------------------------------
(* Refinement: the published object keeps the contract of the interface *)

contractAvailable == phase = "published"

contractBorrower ==
    IF phase = "published" /\ loan[cur] # NoLoan THEN loan[cur].owner ELSE NoClient

contractUsers ==
    {c \in Clients : phase = "published" /\ held[c] = cur}

Contract == INSTANCE LoanContract WITH
    available <- contractAvailable,
    borrower <- contractBorrower,
    users <- contractUsers

\* Calls, watchers, removals and restarts are steps of the contract or leave
\* it alone; in particular the access is never taken from or lent over a client
\* that still uses it.
ContractSpec == Contract!Spec

Loop == INSTANCE MainLoop

\* main goes through its rounds, and whatever else switches the power is the
\* loan of a client.
MainLoopSpec == Loop!Spec

-----------------------------------------------------------------------------
(* Claims of the comments and the documentation that the code does not keep *)

\* doc/dbus_interface.md:35: "only one process can get it at a time".
OneProcessAtATime ==
    \A o, p \in Objects : loan[o] # NoLoan /\ loan[p] # NoLoan =>
        loan[o].owner = loan[p].owner

\* server.rs:214: "This needs to take care of the possible previous loan in
\* case we are not lending again."
PreviousLoanSettled ==
    [][ \A c \in Clients :
          call[c].at = "creds" /\ call'[c].at = "idle" /\ phase' = phase
          /\ call[c].previous # NoLoan /\ call[c].previous.powerDown
            => ~power' ]_vars

-----------------------------------------------------------------------------
(* Liveness (as long as nothing fails) *)

\* A loan whose owner has left the bus ends, on whatever object it is.
DepartedOwnerLosesLoan ==
    \A o \in Objects : \A c \in Clients :
        (loan[o] # NoLoan /\ loan[o].owner = c /\ ~onBus[c]) ~>
            (loan[o] = NoLoan \/ loan[o].owner # c)

\* Every call is answered.
CallsComplete == \A c \in Clients : call[c].at # "idle" ~> call[c].at = "idle"

\* main comes round: the object that was removed is swept, so the next TOH can
\* be looked for.
RemovalCompletes == phase = "removed" ~> phase # "removed"
=============================================================================
