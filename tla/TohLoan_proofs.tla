--------------------------- MODULE TohLoan_proofs ---------------------------
(***************************************************************************)
(* Proofs about TohLoan, for every set of clients, every number of TOHs    *)
(* and every number of faults.                                             *)
(***************************************************************************)
EXTENDS TohLoan, TLAPS

-----------------------------------------------------------------------------
(* The inductive invariant *)

\* The write lock: at most one call is inside a method of an object.
OneInside ==
    \A c, d \in Clients :
        call[c].at \in Inside /\ call[d].at \in Inside /\ call[c].obj = call[d].obj
            => c = d

\* What a call knows at each await: it runs on an object that was published and
\* its client holds no later one, a client that is returning holds nothing, and
\* the loan of an object does not appear or change while a call holds its lock.
CallInv ==
    \A c \in Clients :
        /\ call[c].at # "idle" => call[c].obj \in 1 .. cur /\ held[c] <= call[c].obj
        /\ call[c].at = "returning" => held[c] = 0
        /\ call[c].at = "owner" =>
             /\ call[c].owner \in Clients
             /\ loan[call[c].obj] # NoLoan => loan[call[c].obj].owner = call[c].owner
        /\ call[c].at \in {"creds", "warmup"} =>
             loan[call[c].obj] = NoLoan /\ watcher[call[c].obj] = NoWatcher

\* The watcher of an object was made for the loan that the object has.
OwnLoanInv ==
    \A o \in Objects : watcher[o].state \in Active =>
        loan[o] # NoLoan /\ loan[o].owner = watcher[o].sender

\* A loan came with a watcher; a watcher that was told of a loss was told the
\* truth.
WatcherInv ==
    \A o \in Objects :
        /\ watcher[o].state = "none" => loan[o] = NoLoan
        /\ watcher[o].state \in Active => watcher[o].sender \in Clients
        /\ watcher[o].lost => watcher[o].sender \in Clients /\ ~onBus[watcher[o].sender]

ClientInv ==
    \A c \in Clients : (~onBus[c] => held[c] = 0) /\ held[c] <= cur

\* Objects that are yet to be published are untouched.
FreshInv ==
    /\ phase \in {"published", "removed"} => cur > 0
    /\ \A o \in Objects : o > cur => loan[o] = NoLoan /\ watcher[o] = NoWatcher

IInv ==
    /\ TypeOK
    /\ OneInside
    /\ CallInv
    /\ OwnLoanInv
    /\ WatcherInv
    /\ ClientInv
    /\ FreshInv
    /\ HolderOwnsLoan
    /\ LoanGuarded

-----------------------------------------------------------------------------
(* Lemmas about the helpers *)

\* Ending a loan leaves the types alone and never takes a fault back.
LEMMA EndLoanType ==
    ASSUME TypeOK, NEW l, EndLoan(l)
    PROVE  power' \in BOOLEAN /\ faults' \in 0 .. MaxFaults /\ faults' >= faults
<1>1. PowerAfter(l) \in BOOLEAN
  <2>1. CASE l # NoLoan /\ l.powerDown
    BY <2>1 DEF PowerAfter
  <2>2. CASE ~(l # NoLoan /\ l.powerDown)
    BY <2>2 DEF PowerAfter, TypeOK
  <2> QED BY <2>1, <2>2
<1>2. power' \in BOOLEAN
  BY <1>1, Zenon DEF EndLoan, TypeOK
<1>3. faults' \in 0 .. MaxFaults /\ faults' >= faults
  BY BoundsAssumption DEF TypeOK, EndLoan
<1> QED BY <1>2, <1>3

\* A fault counts.
LEMMA FaultType ==
    ASSUME TypeOK, Fault
    PROVE  faults' \in 0 .. MaxFaults /\ faults' # 0
BY BoundsAssumption DEF TypeOK, Fault

\* A call runs on an object that was published.
LEMMA CallObject ==
    ASSUME TypeOK, CallInv, NEW c \in Clients, call[c].at # "idle"
    PROVE  call[c].obj \in Objects /\ call[c].obj <= cur
BY BoundsAssumption DEF TypeOK, CallInv, Objects

-----------------------------------------------------------------------------
(* Clients preserve the invariant *)

\* A new borrow call runs on the published object and holds no lock yet.
LEMMA CallBorrowStep ==
    ASSUME IInv, NEW c \in Clients, CallBorrow(c)
    PROVE  IInv'
<1> USE DEF CallBorrow, mainVars, clientVars, IInv
<1>0. cur \in 1 .. MaxToh
  BY BoundsAssumption DEF FreshInv, TypeOK
<1>a. PICK down \in BOOLEAN : call' = [call EXCEPT ![c] =
              [NoCall EXCEPT !.at = "borrowing", !.obj = cur, !.powerDown = down]]
  OBVIOUS
<1>b. call'[c] = [NoCall EXCEPT !.at = "borrowing", !.obj = cur, !.powerDown = down]
      /\ \A d \in Clients \ {c} : call'[d] = call[d]
  BY <1>a DEF TypeOK
<1>1. TypeOK'
  BY <1>0, <1>a DEF TypeOK, Call, NoCall, CallStates
<1>2. OneInside'
  BY <1>b DEF OneInside, Inside, NoCall
<1>3. CallInv'
  BY <1>b, <1>0 DEF CallInv, ClientInv, NoCall
<1>4. OwnLoanInv' /\ WatcherInv' /\ ClientInv' /\ FreshInv' /\ HolderOwnsLoan' /\ LoanGuarded'
  BY DEF OwnLoanInv, WatcherInv, ClientInv, FreshInv, HolderOwnsLoan, LoanGuarded
<1> QED BY <1>1, <1>2, <1>3, <1>4

\* A return call gives up the device before it asks for the lock.
LEMMA CallReturnStep ==
    ASSUME IInv, NEW c \in Clients, CallReturn(c)
    PROVE  IInv'
<1> USE DEF CallReturn, mainVars, IInv
<1>0. cur \in 1 .. MaxToh
  BY BoundsAssumption DEF FreshInv, TypeOK
<1>a. call'[c] = [NoCall EXCEPT !.at = "returning", !.obj = cur]
      /\ \A d \in Clients \ {c} : call'[d] = call[d]
  BY DEF TypeOK
<1>b. held'[c] = 0 /\ \A d \in Clients \ {c} : held'[d] = held[d]
  BY DEF TypeOK
<1>1. TypeOK'
  <2>1. [NoCall EXCEPT !.at = "returning", !.obj = cur] \in Call
    BY <1>0, SentinelAssumption DEF Call, NoCall, CallStates, TypeOK
  <2>2. call' \in [Clients -> Call]
    BY <2>1 DEF TypeOK
  <2>3. held' \in [Clients -> 0 .. MaxToh]
    BY BoundsAssumption DEF TypeOK
  <2> QED BY <2>2, <2>3 DEF TypeOK
<1>2. OneInside'
  BY <1>a DEF OneInside, Inside, NoCall
<1>3. CallInv'
  BY <1>a, <1>b, <1>0 DEF CallInv, NoCall
<1>4. OwnLoanInv' /\ WatcherInv' /\ FreshInv' /\ LoanGuarded'
  BY DEF OwnLoanInv, WatcherInv, FreshInv, LoanGuarded
<1>5. ClientInv' /\ HolderOwnsLoan'
  BY <1>b, <1>0 DEF ClientInv, HolderOwnsLoan, TypeOK
<1> QED BY <1>1, <1>2, <1>3, <1>4, <1>5

\* A client that leaves the bus loses its descriptor with its process; the
\* watchers that stream learn of it, so that its loan stays guarded.
LEMMA LeaveBusStep ==
    ASSUME IInv, NEW c \in Clients, LeaveBus(c)
    PROVE  IInv'
<1> USE DEF LeaveBus, mainVars, IInv
<1>a. \A o \in Objects :
        /\ watcher'[o].state = watcher[o].state /\ watcher'[o].sender = watcher[o].sender
        /\ watcher'[o] = watcher[o] \/ watcher[o].sender = c
        /\ watcher'[o] = watcher[o] \/ watcher'[o].lost
        /\ watcher[o].sender = c /\ watcher[o].state = "streaming" => watcher'[o].lost
        /\ watcher[o].state = "none" => watcher'[o] = watcher[o]
        /\ watcher'[o] \in Watcher
  BY DEF TypeOK, Watcher
<1>b. onBus'[c] = FALSE /\ held'[c] = 0
      /\ \A d \in Clients \ {c} : onBus'[d] = onBus[d] /\ held'[d] = held[d]
  BY DEF TypeOK
<1>1. TypeOK'
  BY <1>a, BoundsAssumption DEF TypeOK
<1>2. OneInside'
  BY DEF OneInside
<1>3. CallInv'
  <2>1. ASSUME NEW d \in Clients, call[d].at \in {"creds", "warmup"}
        PROVE  watcher'[call[d].obj] = NoWatcher
    <3>1. call[d].obj \in Objects
      BY <2>1, CallObject
    <3>2. watcher[call[d].obj] = NoWatcher
      BY <2>1 DEF CallInv
    <3>3. watcher[call[d].obj].state = "none"
      BY <3>2 DEF NoWatcher
    <3> QED BY <3>1, <3>2, <3>3, <1>a
  <2> QED BY <2>1, <1>b DEF CallInv
<1>4. OwnLoanInv'
  BY <1>a DEF OwnLoanInv
<1>5. WatcherInv'
  BY <1>a, <1>b DEF WatcherInv
<1>6. ClientInv' /\ HolderOwnsLoan'
  BY <1>b DEF ClientInv, HolderOwnsLoan, TypeOK
<1>7. FreshInv'
  <2>1. \A o \in Objects : watcher[o] = NoWatcher => watcher'[o] = NoWatcher
    BY <1>a DEF NoWatcher
  <2> QED BY <2>1 DEF FreshInv
<1>8. LoanGuarded'
  BY <1>a, <1>b DEF LoanGuarded, TypeOK, Loan
<1> QED BY <1>1, <1>2, <1>3, <1>4, <1>5, <1>6, <1>7, <1>8

\* Dropping the descriptor without a return leaves the loan with its watcher.
LEMMA DropAccessStep ==
    ASSUME IInv, NEW c \in Clients, DropAccess(c)
    PROVE  IInv'
<1> USE DEF DropAccess, mainVars, IInv
<1>a. held'[c] = 0 /\ \A d \in Clients \ {c} : held'[d] = held[d]
  BY DEF TypeOK
<1>1. TypeOK'
  BY BoundsAssumption DEF TypeOK
<1>2. OneInside' /\ OwnLoanInv' /\ WatcherInv' /\ FreshInv' /\ LoanGuarded'
  BY DEF OneInside, OwnLoanInv, WatcherInv, FreshInv, LoanGuarded
<1>3. CallInv'
  <2>1. \A d \in Clients : held'[d] <= held[d]
    BY <1>a, BoundsAssumption DEF TypeOK
  <2>2. ASSUME NEW d \in Clients, call[d].at # "idle"
        PROVE  call[d].obj \in 1 .. cur /\ held'[d] <= call[d].obj
    BY <2>2, <1>a, BoundsAssumption DEF CallInv, TypeOK
  <2>3. ASSUME NEW d \in Clients, call[d].at = "returning"
        PROVE  held'[d] = 0
    BY <2>3, <1>a DEF CallInv
  <2> QED BY <2>2, <2>3 DEF CallInv
<1>4. ClientInv' /\ HolderOwnsLoan'
  BY <1>a, BoundsAssumption DEF ClientInv, HolderOwnsLoan, TypeOK
<1> QED BY <1>1, <1>2, <1>3, <1>4

-----------------------------------------------------------------------------
(* The steps of a call.  Several actions do the same thing to the invariant: *)
(* they answer a call, take a loan into a call, or end a loan.               *)

\* Answering a call touches the call of its client only.
LEMMA FinishType ==
    ASSUME TypeOK, NEW c \in Clients, Finish(c)
    PROVE  /\ call' \in [Clients -> Call]
           /\ call'[c] = NoCall
           /\ \A d \in Clients \ {c} : call'[d] = call[d]
<1>1. NoCall \in Call
  BY BoundsAssumption DEF NoCall, Call, CallStates
<1> QED BY <1>1 DEF TypeOK, Finish

\* A call is answered; power and the count of faults may change with it.
LEMMA AnswerStep ==
    ASSUME IInv, NEW c \in Clients, Finish(c),
           power' \in BOOLEAN, faults' \in 0 .. MaxFaults, faults' >= faults,
           UNCHANGED <<phase, cur, loan, watcher, onBus, held>>
    PROVE  IInv'
<1> USE DEF IInv
<1>a. call'[c] = NoCall /\ \A d \in Clients \ {c} : call'[d] = call[d]
  BY FinishType
<1>1. TypeOK'
  BY FinishType DEF TypeOK
<1>2. OneInside'
  BY <1>a DEF OneInside, Inside, NoCall
<1>3. CallInv'
  BY <1>a DEF CallInv, NoCall
<1>4. OwnLoanInv' /\ WatcherInv' /\ ClientInv' /\ FreshInv' /\ HolderOwnsLoan'
  BY DEF OwnLoanInv, WatcherInv, ClientInv, FreshInv, HolderOwnsLoan
<1>5. LoanGuarded'
  BY BoundsAssumption DEF LoanGuarded, TypeOK
<1> QED BY <1>1, <1>2, <1>3, <1>4, <1>5

\* A call that holds the lock takes the loan of its object, of which nobody
\* uses the file descriptor any more.
LEMMA TakePreviousStep ==
    ASSUME IInv, NEW c \in Clients, NEW o, o = call[c].obj, call[c].at # "idle",
           \A d \in Clients \ {c} : ~(call[d].at \in Inside /\ call[d].obj = o),
           loan[o] # NoLoan => held[loan[o].owner] = 0,
           TakePrevious(c, o),
           UNCHANGED <<phase, cur, power, onBus, held, faults>>
    PROVE  IInv'
<1> USE DEF IInv
<1>0. o \in Objects /\ o <= cur
  BY CallObject
<1>a. /\ call'[c] = [call[c] EXCEPT !.at = "creds", !.owner = NoClient, !.previous = loan[o]]
      /\ \A d \in Clients \ {c} : call'[d] = call[d]
  BY DEF TakePrevious, TypeOK
<1>b. loan'[o] = NoLoan /\ \A p \in Objects \ {o} : loan'[p] = loan[p]
  BY <1>0 DEF TakePrevious, TypeOK
<1>c. watcher'[o] = NoWatcher /\ \A p \in Objects \ {o} : watcher'[p] = watcher[p]
  BY <1>0 DEF TakePrevious, TypeOK
<1>1. TypeOK'
  <2>1. call'[c] \in Call
    BY <1>0, <1>a DEF TypeOK, Call, CallStates
  <2>2. call' \in [Clients -> Call]
    BY <2>1 DEF TakePrevious, TypeOK
  <2>3. loan' \in [Objects -> Loan \cup {NoLoan}]
    BY DEF TakePrevious, TypeOK
  <2>4. watcher' \in [Objects -> Watcher]
    BY DEF TakePrevious, TypeOK, NoWatcher, Watcher, WatcherStates
  <2> QED BY <2>2, <2>3, <2>4 DEF TypeOK
<1>2. OneInside'
  <2>1. call'[c].obj = o
    BY <1>a DEF TypeOK, Call
  <2> QED BY <2>1, <1>a DEF OneInside
<1>3. CallInv'
  <2>1. call'[c].at = "creds" /\ call'[c].obj = o
    BY <1>a DEF TypeOK, Call
  <2>2. ASSUME NEW d \in Clients \ {c}, call[d].at \in Inside
        PROVE  call[d].obj \in Objects \ {o}
    BY <2>2, CallObject DEF Inside
  <2>3. call[c].obj \in 1 .. cur /\ held[c] <= call[c].obj
    BY DEF CallInv
  <2> SUFFICES ASSUME NEW d \in Clients
               PROVE  CallInv!(d)'
    BY DEF CallInv
  <2>4. CASE d = c
    BY <2>1, <2>3, <2>4, <1>b, <1>c
  <2>5. CASE d # c
    <3>1. call'[d] = call[d] /\ CallInv!(d)
      BY <2>5, <1>a DEF CallInv
    <3> QED BY <2>2, <2>5, <3>1, <1>b, <1>c DEF Inside
  <2> QED BY <2>4, <2>5
<1>4. OwnLoanInv' /\ WatcherInv' /\ LoanGuarded'
  BY <1>b, <1>c DEF OwnLoanInv, WatcherInv, LoanGuarded, NoWatcher, Active
<1>5. ClientInv' /\ FreshInv'
  BY <1>b, <1>c DEF ClientInv, FreshInv
<1>6. HolderOwnsLoan'
  <2> SUFFICES ASSUME phase \in {"published", "removed"}, NEW d \in Clients,
                      held[d] # 0, held[d] = cur
               PROVE  loan'[cur] # NoLoan /\ loan'[cur].owner = d
    BY DEF HolderOwnsLoan
  <2>1. loan[cur] # NoLoan /\ loan[cur].owner = d
    BY DEF HolderOwnsLoan
  <2>2. cur \in Objects /\ cur # o
    BY <2>1, BoundsAssumption DEF FreshInv, TypeOK, Objects
  <2> QED BY <2>1, <2>2, <1>b
<1> QED BY <1>1, <1>2, <1>3, <1>4, <1>5, <1>6

\* The loan of o ends while nobody uses its file descriptor, and its watcher
\* is over with it.
LEMMA LoanEndsStep ==
    ASSUME IInv, NEW o \in Objects, NEW w \in Watcher, o <= cur,
           loan' = [loan EXCEPT ![o] = NoLoan],
           watcher' = [watcher EXCEPT ![o] = w],
           w.state \notin Active,
           w.lost => w.sender \in Clients /\ ~onBus[w.sender],
           \A d \in Clients : call[d].at \in {"creds", "warmup"} => call[d].obj # o,
           phase' \in Phases,
           phase' \in {"published", "removed"} =>
               phase' = phase /\ (o = cur => \A d \in Clients : held[d] # cur),
           power' \in BOOLEAN, faults' \in 0 .. MaxFaults, faults' >= faults,
           call' \in [Clients -> Call],
           \A d \in Clients : call'[d] = call[d] \/ call'[d] = NoCall,
           UNCHANGED <<cur, onBus, held>>
    PROVE  IInv'
<1> USE DEF IInv
<1>b. loan'[o] = NoLoan /\ \A p \in Objects \ {o} : loan'[p] = loan[p]
  BY DEF TypeOK
<1>c. watcher'[o] = w /\ \A p \in Objects \ {o} : watcher'[p] = watcher[p]
  BY DEF TypeOK
<1>d. \A d \in Clients : call'[d].at # "idle" => call'[d] = call[d]
  BY DEF NoCall
<1>1. TypeOK'
  BY DEF TypeOK
<1>2. OneInside'
  BY <1>d DEF OneInside, Inside
<1>3. CallInv'
  <2> SUFFICES ASSUME NEW d \in Clients, call'[d].at # "idle"
               PROVE  CallInv!(d)'
    BY DEF CallInv
  <2>1. call'[d] = call[d] /\ call[d].obj \in Objects
    BY <1>d, CallObject
  <2> QED BY <2>1, <1>b, <1>c DEF CallInv
<1>4. OwnLoanInv' /\ WatcherInv'
  BY <1>b, <1>c DEF OwnLoanInv, WatcherInv
<1>5. ClientInv' /\ FreshInv'
  <2>1. ClientInv'
    BY DEF ClientInv
  <2>2. phase' \in {"published", "removed"} => cur > 0
    BY DEF FreshInv
  <2>3. ASSUME NEW p \in Objects, p > cur
        PROVE  loan'[p] = NoLoan /\ watcher'[p] = NoWatcher
    <3>1. p # o
      BY <2>3, BoundsAssumption DEF Objects, TypeOK
    <3> QED BY <2>3, <3>1, <1>b, <1>c DEF FreshInv
  <2> QED BY <2>1, <2>2, <2>3 DEF FreshInv
<1>6. HolderOwnsLoan'
  <2> SUFFICES ASSUME phase' \in {"published", "removed"}, NEW d \in Clients,
                      held[d] # 0, held[d] = cur
               PROVE  loan'[cur] # NoLoan /\ loan'[cur].owner = d
    BY DEF HolderOwnsLoan
  <2>1. loan[cur] # NoLoan /\ loan[cur].owner = d
    BY DEF HolderOwnsLoan
  <2>2. cur \in Objects /\ cur # o
    BY <2>1, BoundsAssumption DEF FreshInv, TypeOK, Objects
  <2> QED BY <2>1, <2>2, <1>b
<1>7. LoanGuarded'
  BY <1>b, <1>c, BoundsAssumption DEF LoanGuarded, TypeOK
<1> QED BY <1>1, <1>2, <1>3, <1>4, <1>5, <1>6, <1>7

-----------------------------------------------------------------------------
(* The actions of lend_i2c_dev and return_i2c_dev_access *)

\* Taking the lock: no other call is inside, and the loan whose owner is
\* looked up is the present one.
LEMMA BeginLendStep ==
    ASSUME IInv, NEW c \in Clients, BeginLend(c)
    PROVE  IInv'
<1> DEFINE o == call[c].obj
<1> USE DEF BeginLend, mainVars, clientVars
<1>0. TypeOK /\ o \in Objects /\ o <= cur
  BY CallObject DEF IInv
<1>1. CASE loan[o] # NoLoan /\ watcher[o].state # "none"
  <2> USE DEF IInv
  <2>0. call' = [call EXCEPT ![c].at = "owner", ![c].owner = loan[o].owner]
        /\ UNCHANGED <<loan, watcher>>
    BY <1>1
  <2>1. loan[o] \in Loan
    BY <1>0, <1>1 DEF TypeOK
  <2>2. call'[c] = [call[c] EXCEPT !.at = "owner", !.owner = loan[o].owner]
        /\ \A d \in Clients \ {c} : call'[d] = call[d]
    BY <2>0 DEF TypeOK
  <2>3. /\ call'[c] \in Call
        /\ call'[c].at = "owner" /\ call'[c].obj = o /\ call'[c].owner = loan[o].owner
    BY <2>1, <2>2 DEF TypeOK, Call, CallStates, Loan
  <2>4. TypeOK'
    BY <2>0, <2>3 DEF TypeOK
  <2>5. OneInside'
    <3>1. \A d \in Clients \ {c} : ~(call[d].at \in Inside /\ call[d].obj = o)
      BY DEF LockFree
    <3>2. \A d \in Clients \ {c} : ~(call'[d].at \in Inside /\ call'[d].obj = o)
      BY <2>2, <3>1
    <3>3. ASSUME NEW d \in Clients, NEW e \in Clients,
                 call'[d].at \in Inside, call'[e].at \in Inside, call'[d].obj = call'[e].obj
          PROVE  d = e
      <4>1. CASE d = c \/ e = c
        BY <2>3, <3>2, <3>3, <4>1
      <4>2. CASE d # c /\ e # c
        BY <2>2, <3>3, <4>2 DEF OneInside
      <4> QED BY <4>1, <4>2
    <3> QED BY <3>3 DEF OneInside
  <2>6. CallInv'
    <3>1. o \in 1 .. cur /\ held[c] <= o /\ loan[o].owner \in Clients
      BY <2>1 DEF CallInv, Loan
    <3> SUFFICES ASSUME NEW d \in Clients
                 PROVE  CallInv!(d)'
      BY DEF CallInv
    <3>2. CASE d = c
      BY <2>0, <2>3, <3>1, <3>2
    <3>3. CASE d # c
      <4>1. call'[d] = call[d] /\ CallInv!(d)
        BY <2>2, <3>3 DEF CallInv
      <4> QED BY <2>0, <4>1
    <3> QED BY <3>2, <3>3
  <2>7. OwnLoanInv' /\ WatcherInv' /\ ClientInv' /\ FreshInv' /\ HolderOwnsLoan' /\ LoanGuarded'
    BY <2>0 DEF OwnLoanInv, WatcherInv, ClientInv, FreshInv, HolderOwnsLoan, LoanGuarded
  <2> QED BY <2>4, <2>5, <2>6, <2>7
<1>2. CASE watcher[o].state = "none" \/ loan[o] = NoLoan
  <2>1. TakePrevious(c, o)
    BY <1>2
  <2>2. loan[o] = NoLoan
    BY <1>0, <1>2 DEF IInv, WatcherInv
  <2>3. /\ call[c].at # "idle"
        /\ \A d \in Clients \ {c} : ~(call[d].at \in Inside /\ call[d].obj = o)
    BY DEF LockFree
  <2> QED BY <2>1, <2>2, <2>3, TakePreviousStep
<1> QED BY <1>1, <1>2

\* Finding the previous owner gone aborts its watcher and takes its loan, both
\* under the lock of the call.
LEMMA OwnerGoneStep ==
    ASSUME IInv, NEW c \in Clients, OwnerGone(c)
    PROVE  IInv'
<1> USE DEF OwnerGone, mainVars, clientVars, IInv
<1> DEFINE o == call[c].obj
<1>1. \A d \in Clients \ {c} : ~(call[d].at \in Inside /\ call[d].obj = o)
  BY DEF OneInside, Inside
<1>2. loan[o] # NoLoan => held[loan[o].owner] = 0
  BY DEF CallInv, ClientInv
<1> QED BY <1>1, <1>2, TakePreviousStep

\* Calls that end without granting leave loans and watchers alone.
LEMMA AnswersStep ==
    ASSUME IInv, NEW c \in Clients,
           \/ AlreadyBorrowed(c) \/ OwnerCheckFails(c) \/ LendFails(c) \/ Denied(c)
    PROVE  IInv'
<1>0. TypeOK
  BY DEF IInv
<1>1. Finish(c) /\ UNCHANGED <<phase, cur, loan, watcher, onBus, held>>
  BY DEF AlreadyBorrowed, OwnerCheckFails, LendFails, Denied, mainVars, clientVars
<1>2. power' \in BOOLEAN /\ faults' \in 0 .. MaxFaults /\ faults' >= faults
  <2>1. CASE Denied(c)
    BY <1>0, <2>1, EndLoanType DEF Denied
  <2>2. CASE AlreadyBorrowed(c) \/ OwnerCheckFails(c) \/ LendFails(c)
    <3>1. power' = power
      BY <2>2 DEF AlreadyBorrowed, OwnerCheckFails, LendFails
    <3>2. UNCHANGED faults \/ Fault
      BY <2>2 DEF AlreadyBorrowed, OwnerCheckFails, LendFails
    <3> QED BY <1>0, <3>1, <3>2, BoundsAssumption DEF TypeOK, Fault
  <2> QED BY <2>1, <2>2
<1> QED BY <1>1, <1>2, AnswerStep

\* The power comes up while the lock is held; no loan changes.
LEMMA PowerOnStep ==
    ASSUME IInv, NEW c \in Clients, PowerOn(c)
    PROVE  IInv'
<1> USE DEF PowerOn, mainVars, clientVars, IInv
<1>a. call'[c] = [call[c] EXCEPT !.at = "warmup"]
      /\ \A d \in Clients \ {c} : call'[d] = call[d]
  BY DEF TypeOK
<1>b. call'[c] \in Call /\ call'[c].at = "warmup" /\ call'[c].obj = call[c].obj
  BY <1>a DEF TypeOK, Call, CallStates
<1>1. TypeOK'
  BY <1>b DEF TypeOK
<1>2. OneInside'
  BY <1>a, <1>b DEF OneInside, Inside
<1>3. CallInv'
  BY <1>a, <1>b DEF CallInv
<1>4. OwnLoanInv' /\ WatcherInv' /\ ClientInv' /\ FreshInv' /\ HolderOwnsLoan' /\ LoanGuarded'
  BY DEF OwnLoanInv, WatcherInv, ClientInv, FreshInv, HolderOwnsLoan, LoanGuarded
<1> QED BY <1>1, <1>2, <1>3, <1>4

\* Granting: there was no loan, so the client that gets the device becomes the
\* only one that uses it, and its loan comes with a watcher.
LEMMA LendStepInv ==
    ASSUME IInv, NEW c \in Clients, Lend(c)
    PROVE  IInv'
<1> DEFINE o == call[c].obj
           l == [owner |-> c, powerDown |-> call[c].powerDown]
           w == [state |-> "subscribing", sender |-> c, lost |-> FALSE]
<1> USE DEF Lend, mainVars, IInv
<1>0. /\ o \in Objects /\ o <= cur /\ o # 0 /\ o \in 0 .. MaxToh
      /\ loan[o] = NoLoan
      /\ \A d \in Clients \ {c} : ~(call[d].at \in Inside /\ call[d].obj = o)
  BY CallObject DEF CallInv, OneInside, Inside, Objects, TypeOK, Call
<1>1. l \in Loan /\ w \in Watcher /\ l # NoLoan
  BY SentinelAssumption DEF Loan, Watcher, WatcherStates, TypeOK, Call
<1>a. call'[c] = NoCall /\ (\A d \in Clients \ {c} : call'[d] = call[d])
      /\ call' \in [Clients -> Call]
  BY FinishType
<1>b. loan'[o] = l /\ \A p \in Objects \ {o} : loan'[p] = loan[p]
  BY <1>0 DEF TypeOK
<1>c. watcher'[o] = w /\ \A p \in Objects \ {o} : watcher'[p] = watcher[p]
  BY <1>0 DEF TypeOK
<1>h. /\ held'[c] = held[c] \/ (held'[c] = o /\ onBus[c])
      /\ \A d \in Clients \ {c} : held'[d] = held[d]
  BY DEF TypeOK
<1>2. TypeOK'
  BY <1>0, <1>1, <1>a DEF TypeOK
<1>3. OneInside'
  BY <1>a DEF OneInside, Inside, NoCall
<1>4. CallInv'
  <2> SUFFICES ASSUME NEW d \in Clients, call'[d].at # "idle"
               PROVE  CallInv!(d)'
    BY DEF CallInv
  <2>1. d # c /\ call'[d] = call[d]
    BY <1>a DEF NoCall
  <2>2. call[d].obj \in Objects
    BY <2>1, CallObject
  <2>3. call[d].at \in Inside => call[d].obj # o
    BY <2>1, <1>0
  <2> QED BY <2>1, <2>2, <2>3, <1>b, <1>c, <1>h DEF CallInv, Inside
<1>5. OwnLoanInv' /\ WatcherInv' /\ LoanGuarded'
  BY <1>1, <1>b, <1>c DEF OwnLoanInv, WatcherInv, LoanGuarded, Active
<1>6. ClientInv'
  BY <1>0, <1>h DEF ClientInv
<1>7. FreshInv'
  <2>1. \A p \in Objects : p > cur => p # o
    BY <1>0, BoundsAssumption DEF Objects, TypeOK
  <2> QED BY <2>1, <1>b, <1>c DEF FreshInv
<1>8. HolderOwnsLoan'
  <2> SUFFICES ASSUME phase \in {"published", "removed"}, NEW d \in Clients,
                      held'[d] # 0, held'[d] = cur
               PROVE  loan'[cur] # NoLoan /\ loan'[cur].owner = d
    BY DEF HolderOwnsLoan
  <2>1. cur \in Objects
    BY BoundsAssumption DEF FreshInv, TypeOK, Objects
  <2>2. CASE held[d] = cur
    <3>1. loan[cur] # NoLoan /\ loan[cur].owner = d
      BY <2>2 DEF HolderOwnsLoan
    <3> QED BY <3>1, <2>1, <1>0, <1>b
  <2>3. CASE held[d] # cur
    BY <2>3, <1>b, <1>1, <1>h
  <2> QED BY <2>2, <2>3
<1> QED BY <1>2, <1>3, <1>4, <1>5, <1>6, <1>7, <1>8

\* Returning under the lock ends the caller's own loan and its watcher only.
LEMMA ReturnLoanStep ==
    ASSUME IInv, NEW c \in Clients, ReturnLoan(c)
    PROVE  IInv'
<1> DEFINE o == call[c].obj
<1> USE DEF ReturnLoan, mainVars, clientVars
<1>0. TypeOK /\ o \in Objects /\ o <= cur
  BY CallObject DEF IInv
<1>1. CASE UNCHANGED <<power, loan, watcher, faults>>
  BY <1>0, <1>1, AnswerStep, BoundsAssumption DEF TypeOK
<1>2. CASE /\ loan[o] # NoLoan /\ loan[o].owner = c
           /\ EndLoan(loan[o])
           /\ loan' = [loan EXCEPT ![o] = NoLoan]
           /\ watcher' = [watcher EXCEPT ![o] = NoWatcher]
  <2>1. power' \in BOOLEAN /\ faults' \in 0 .. MaxFaults /\ faults' >= faults
    BY <1>0, <1>2, EndLoanType
  <2>2. \A d \in Clients : call[d].at \in {"creds", "warmup"} => call[d].obj # o
    BY DEF LockFree, Inside
  <2>3. phase \in {"published", "removed"} /\ o = cur => \A d \in Clients : held[d] # cur
    BY <1>0, <1>2 DEF IInv, HolderOwnsLoan, CallInv, FreshInv, TypeOK, Objects
  <2>4. call' \in [Clients -> Call] /\ \A d \in Clients : call'[d] = call[d] \/ call'[d] = NoCall
    BY <1>0, FinishType
  <2>5. NoWatcher \in Watcher /\ NoWatcher.state \notin Active /\ ~NoWatcher.lost
    BY DEF NoWatcher, Watcher, WatcherStates, Active
  <2>6. phase' \in Phases /\ phase' = phase
    BY <1>0 DEF TypeOK
  <2> QED BY <1>0, <1>2, <2>1, <2>2, <2>3, <2>4, <2>5, <2>6, LoanEndsStep
<1> QED BY <1>1, <1>2

-----------------------------------------------------------------------------
(* The watcher tasks *)

\* A watcher that goes on without ending the loan; it stops only after a fault
\* or keeps on looking because its sender is there or its loss is known.
LEMMA WatcherMovesStep ==
    ASSUME IInv, NEW o \in Objects, NEW s \in {"checking", "streaming", "finished"},
           watcher[o].state \in Active,
           s = "streaming" => onBus[watcher[o].sender] \/ watcher[o].lost,
           s = "finished" => faults' # 0,
           watcher' = [watcher EXCEPT ![o].state = s],
           faults' \in 0 .. MaxFaults, faults' = faults \/ faults' # 0,
           UNCHANGED <<mainVars, power, loan, call, clientVars>>
    PROVE  IInv'
<1> USE DEF mainVars, clientVars, IInv
<1>a. /\ watcher'[o] = [watcher[o] EXCEPT !.state = s]
      /\ \A p \in Objects \ {o} : watcher'[p] = watcher[p]
  BY DEF TypeOK
<1>b. /\ watcher'[o] \in Watcher /\ watcher'[o].state = s
      /\ watcher'[o].sender = watcher[o].sender /\ watcher'[o].lost = watcher[o].lost
  BY <1>a DEF TypeOK, Watcher, WatcherStates
<1>c. \A p \in Objects : watcher[p] = NoWatcher => p # o
  BY DEF NoWatcher, Active
<1>1. TypeOK'
  BY <1>b DEF TypeOK
<1>2. OneInside' /\ ClientInv' /\ HolderOwnsLoan'
  BY DEF OneInside, ClientInv, HolderOwnsLoan
<1>3. CallInv'
  <2> SUFFICES ASSUME NEW d \in Clients, call[d].at # "idle"
               PROVE  CallInv!(d)'
    BY DEF CallInv
  <2>1. call[d].obj \in Objects
    BY CallObject
  <2> QED BY <2>1, <1>a, <1>c DEF CallInv
<1>4. OwnLoanInv' /\ WatcherInv'
  BY <1>a, <1>b DEF OwnLoanInv, WatcherInv, Active
<1>5. FreshInv'
  BY <1>a, <1>c DEF FreshInv
<1>6. LoanGuarded'
  BY <1>a, <1>b DEF LoanGuarded, OwnLoanInv, Active
<1> QED BY <1>1, <1>2, <1>3, <1>4, <1>5, <1>6

\* A watcher ends the loan of an owner that is off the bus, and so uses nothing.
LEMMA WatcherEndsStep ==
    ASSUME IInv, NEW o \in Objects, watcher[o].state \in Active,
           ~onBus[watcher[o].sender],
           WatcherEndsLoan(o),
           UNCHANGED <<mainVars, call, clientVars>>
    PROVE  IInv'
<1> DEFINE w == [watcher[o] EXCEPT !.state = "finished"]
<1> USE DEF mainVars, clientVars, WatcherEndsLoan
<1>0. TypeOK
  BY DEF IInv
<1>1. w \in Watcher /\ w.state \notin Active /\ w.sender = watcher[o].sender
      /\ watcher' = [watcher EXCEPT ![o] = w]
  BY <1>0 DEF TypeOK, Watcher, WatcherStates, Active
<1>2. w.sender \in Clients /\ ~onBus[w.sender]
  BY <1>1 DEF IInv, WatcherInv
<1>3. power' \in BOOLEAN /\ faults' \in 0 .. MaxFaults /\ faults' >= faults
  BY <1>0, EndLoanType
<1>4. o <= cur
  BY <1>0, BoundsAssumption DEF IInv, FreshInv, NoWatcher, Active, TypeOK, Objects
<1>5. \A d \in Clients : call[d].at \in {"creds", "warmup"} => call[d].obj # o
  BY DEF IInv, CallInv, NoWatcher, Active
<1>6. o = cur /\ phase \in {"published", "removed"} => \A d \in Clients : held[d] # cur
  BY <1>0, BoundsAssumption
     DEF IInv, OwnLoanInv, HolderOwnsLoan, ClientInv, TypeOK, Objects
<1>7. phase' \in Phases /\ call' \in [Clients -> Call]
  BY <1>0 DEF TypeOK
<1>8. loan' = [loan EXCEPT ![o] = NoLoan]
  OBVIOUS
<1> QED BY <1>1, <1>2, <1>3, <1>4, <1>5, <1>6, <1>7, <1>8, LoanEndsStep

\* Every step of a watcher is one of the two kinds above.
LEMMA WatcherStepInv ==
    ASSUME IInv, NEW o \in Objects, WatcherStep(o)
    PROVE  IInv'
<1>0. TypeOK
  BY DEF IInv
<1>1. CASE WatcherSubscribes(o)
  BY <1>0, <1>1, WatcherMovesStep DEF WatcherSubscribes, Active, TypeOK
<1>2. CASE WatcherChecks(o)
  <2>1. watcher[o].state = "checking" /\ UNCHANGED <<mainVars, call, clientVars>>
    BY <1>2 DEF WatcherChecks
  <2>2. CASE WatcherEndsLoan(o) /\ ~onBus[watcher[o].sender]
    BY <2>1, <2>2, WatcherEndsStep DEF Active
  <2>3. CASE /\ onBus[watcher[o].sender]
             /\ watcher' = [watcher EXCEPT ![o].state = "streaming"]
             /\ UNCHANGED <<power, loan, faults>>
    BY <1>0, <2>1, <2>3, WatcherMovesStep DEF Active, TypeOK
  <2> QED BY <1>2, <2>2, <2>3 DEF WatcherChecks
<1>3. CASE WatcherSeesLoss(o)
  <2>1. ~onBus[watcher[o].sender]
    BY <1>3 DEF WatcherSeesLoss, IInv, WatcherInv
  <2> QED BY <1>3, <2>1, WatcherEndsStep DEF WatcherSeesLoss, Active
<1>4. CASE WatcherFails(o)
  BY <1>0, <1>4, FaultType, WatcherMovesStep DEF WatcherFails, Active
<1> QED BY <1>1, <1>2, <1>3, <1>4 DEF WatcherStep

-----------------------------------------------------------------------------
(* main *)

\* The phase and the power change, and Publish counts an object.
LEMMA MainMovesStep ==
    ASSUME IInv, phase' \in Phases, power' \in BOOLEAN,
           cur' \in {cur, cur + 1}, cur' <= MaxToh,
           phase' \in {"published", "removed"} =>
               cur' > cur \/ (phase \in {"published", "removed"} /\ cur' = cur),
           faults' \in 0 .. MaxFaults, faults' >= faults,
           UNCHANGED <<loan, watcher, call, clientVars>>
    PROVE  IInv'
<1> USE DEF clientVars, IInv
<1>0. cur \in 0 .. MaxToh /\ cur' \in 0 .. MaxToh /\ cur' >= cur
  BY BoundsAssumption DEF TypeOK
<1>1. TypeOK'
  BY <1>0 DEF TypeOK
<1>2. OneInside' /\ OwnLoanInv' /\ WatcherInv' /\ LoanGuarded'
  BY BoundsAssumption DEF OneInside, OwnLoanInv, WatcherInv, LoanGuarded, TypeOK
<1>3. CallInv' /\ ClientInv'
  BY <1>0, BoundsAssumption DEF CallInv, ClientInv, TypeOK, Call
<1>4. FreshInv'
  BY <1>0, BoundsAssumption DEF FreshInv, Objects
<1>5. HolderOwnsLoan'
  BY <1>0, BoundsAssumption DEF HolderOwnsLoan, ClientInv, TypeOK
<1> QED BY <1>1, <1>2, <1>3, <1>4, <1>5

\* The removal aborts the watcher under the lock and ends the loan.
LEMMA AbortWatcherStep ==
    ASSUME IInv, AbortWatcher
    PROVE  IInv'
<1> USE DEF AbortWatcher, clientVars
<1>0. TypeOK /\ cur \in Objects
  BY BoundsAssumption DEF IInv, FreshInv, TypeOK, Objects
<1>1. power' \in BOOLEAN /\ faults' \in 0 .. MaxFaults /\ faults' >= faults
  BY <1>0, EndLoanType
<1>2. \A d \in Clients : call[d].at \in {"creds", "warmup"} => call[d].obj # cur
  BY DEF LockFree, Inside
<1>3. NoWatcher \in Watcher /\ NoWatcher.state \notin Active /\ ~NoWatcher.lost
  BY DEF NoWatcher, Watcher, WatcherStates, Active
<1>4. phase' \in Phases /\ phase' \notin {"published", "removed"}
  BY DEF Phases
<1>5. call' \in [Clients -> Call] /\ cur <= cur
  BY <1>0 DEF TypeOK, Objects
<1> QED BY <1>0, <1>1, <1>2, <1>3, <1>4, <1>5, LoanEndsStep

\* A restart forgets objects and calls; no TOH is published until a fresh object is.
LEMMA RestartStep ==
    ASSUME IInv, Restart
    PROVE  IInv'
<1> USE DEF Restart, clientVars, IInv
<1>0. TypeOK
  OBVIOUS
<1>1. faults' \in 0 .. MaxFaults /\ faults' # 0
  BY <1>0, FaultType
<1>2. NoWatcher \in Watcher /\ NoCall \in Call
  BY BoundsAssumption DEF NoWatcher, Watcher, WatcherStates, NoCall, Call, CallStates
<1>3. TypeOK'
  BY <1>1, <1>2 DEF TypeOK, Phases
<1>4. OneInside' /\ CallInv'
  BY DEF OneInside, CallInv, NoCall, Inside
<1>5. OwnLoanInv' /\ WatcherInv'
  BY DEF OwnLoanInv, WatcherInv, NoWatcher, Active
<1>6. ClientInv' /\ FreshInv' /\ HolderOwnsLoan'
  BY DEF ClientInv, FreshInv, HolderOwnsLoan
<1>7. LoanGuarded'
  BY <1>1 DEF LoanGuarded
<1> QED BY <1>3, <1>4, <1>5, <1>6, <1>7

\* Every step of main keeps the invariant.
LEMMA MainStepInv ==
    ASSUME IInv, MainStep
    PROVE  IInv'
<1>0. /\ TypeOK
      /\ cur' = cur => cur' <= MaxToh
      /\ faults' = faults => faults' \in 0 .. MaxFaults /\ faults' >= faults
  BY BoundsAssumption DEF IInv, TypeOK
<1>1. CASE NewCover
  <2>1. phase' \in Phases /\ phase' \notin {"published", "removed"} /\ power' \in BOOLEAN
    BY <1>1 DEF NewCover, Phases
  <2> QED BY <1>0, <1>1, <2>1, MainMovesStep DEF NewCover
<1>2. CASE PowerUp \/ PowerUpFails
  <2>1. faults' \in 0 .. MaxFaults /\ faults' >= faults
    BY <1>0, <1>2, BoundsAssumption DEF PowerUp, PowerUpFails, Fault, TypeOK
  <2>2. power' \in BOOLEAN /\ cur' = cur
    <3>1. CASE PowerUp
      BY <3>1 DEF PowerUp
    <3>2. CASE PowerUpFails
      BY <1>0, <3>2 DEF PowerUpFails, TypeOK
    <3> QED BY <1>2, <3>1, <3>2
  <2>3. phase' \in Phases /\ phase' \notin {"published", "removed"}
    BY <1>2 DEF PowerUp, PowerUpFails, Phases
  <2> QED BY <1>0, <1>2, <2>1, <2>2, <2>3, MainMovesStep DEF PowerUp, PowerUpFails
<1>3. CASE DetectFails
  <2>1. power' \in BOOLEAN /\ phase' \in Phases
    BY <1>0, <1>3 DEF DetectFails, TypeOK, Phases
  <2> QED BY <1>0, <1>3, <2>1, MainMovesStep DEF DetectFails
<1>4. CASE Publish
  <2>1. power' \in BOOLEAN
    BY <1>0, <1>4 DEF Publish, TypeOK
  <2>2. cur' = cur + 1 /\ cur' <= MaxToh /\ cur' > cur
    BY <1>0, <1>4, BoundsAssumption DEF Publish, TypeOK
  <2> QED BY <1>0, <1>4, <2>1, <2>2, MainMovesStep DEF Publish, Phases
<1>5. CASE Remove
  BY <1>0, <1>5, MainMovesStep DEF Remove, TypeOK, Phases
<1>6. CASE AbortWatcher
  BY <1>6, AbortWatcherStep
<1>7. CASE Restart
  BY <1>7, RestartStep
<1> QED BY <1>1, <1>2, <1>3, <1>4, <1>5, <1>6, <1>7 DEF MainStep

-----------------------------------------------------------------------------
(* The theorems *)

\* The initial states satisfy the invariant.
LEMMA InvInit == Init => IInv
<1> SUFFICES ASSUME Init PROVE IInv
  OBVIOUS
<1> USE DEF Init
<1>1. TypeOK
  BY BoundsAssumption
     DEF TypeOK, Phases, NoWatcher, Watcher, WatcherStates, NoCall, Call, CallStates
<1>2. OneInside /\ CallInv
  BY DEF OneInside, CallInv, NoCall, Inside
<1>3. OwnLoanInv /\ WatcherInv /\ LoanGuarded
  BY DEF OwnLoanInv, WatcherInv, LoanGuarded, NoWatcher, Active
<1>4. ClientInv /\ FreshInv /\ HolderOwnsLoan
  BY DEF ClientInv, FreshInv, HolderOwnsLoan
<1> QED BY <1>1, <1>2, <1>3, <1>4 DEF IInv

\* Every step keeps the invariant: those of clients, calls, watchers and main.
LEMMA InvStep == IInv /\ [Next]_vars => IInv'
<1> SUFFICES ASSUME IInv, [Next]_vars PROVE IInv'
  OBVIOUS
<1>1. ASSUME NEW c \in Clients, ClientStep(c)
      PROVE  IInv'
  BY <1>1, CallBorrowStep, CallReturnStep, DropAccessStep, LeaveBusStep DEF ClientStep
<1>2. ASSUME NEW c \in Clients, LockStep(c)
      PROVE  IInv'
  BY <1>2, BeginLendStep, ReturnLoanStep DEF LockStep
<1>3. ASSUME NEW c \in Clients, LendStep(c)
      PROVE  IInv'
  BY <1>3, AnswersStep, OwnerGoneStep, PowerOnStep, LendStepInv DEF LendStep
<1>4. ASSUME NEW o \in Objects, WatcherStep(o)
      PROVE  IInv'
  BY <1>4, WatcherStepInv
<1>5. CASE MainStep
  BY <1>5, MainStepInv
<1>6. CASE UNCHANGED vars
  BY <1>6 DEF vars, IInv, TypeOK, OneInside, CallInv, OwnLoanInv,
              WatcherInv, ClientInv, FreshInv, HolderOwnsLoan, LoanGuarded
<1> QED BY <1>1, <1>2, <1>3, <1>4, <1>5, <1>6 DEF Next

\* The inductive invariant holds in every reachable state.
THEOREM Invariance == Spec => []IInv
<1>1. IInv /\ [Next]_vars => IInv'
  BY InvStep
<1> QED BY InvInit, <1>1, PTL DEF Spec

\* Every variable keeps its type.
THEOREM TypeCorrect == Spec => []TypeOK
<1>1. IInv => TypeOK
  BY DEF IInv
<1> QED BY <1>1, Invariance, PTL

\* One process at a time uses the descriptor of the TOH that is attached, and
\* the daemon knows which one, however calls, watchers, departures, removals
\* and restarts interleave.
THEOREM Exclusive == Spec => []HolderOwnsLoan
<1>1. IInv => HolderOwnsLoan
  BY DEF IInv
<1> QED BY <1>1, Invariance, PTL

\* As long as nothing fails, no loan is left without a task that will notice
\* that its owner is gone.
THEOREM Guarded == Spec => []LoanGuarded
<1>1. IInv => LoanGuarded
  BY DEF IInv
<1> QED BY <1>1, Invariance, PTL

-----------------------------------------------------------------------------
(* Power and loans *)

\* A loan that is ended without a fault has its power cut if it asked for it.
LEMMA LoanEndCuts ==
    ASSUME NEW l, EndLoan(l), TypeOK
    PROVE  /\ power /\ ~power' => l # NoLoan
           /\ l # NoLoan /\ l.powerDown /\ faults' = faults => ~power'
<1>1. l # NoLoan /\ l.powerDown => PowerAfter(l) = FALSE
  BY DEF PowerAfter
<1>2. l = NoLoan => PowerAfter(l) = power
  BY DEF PowerAfter
<1>3. faults + 1 # faults
  BY DEF TypeOK
<1>4. power /\ ~power' => l # NoLoan
  <2> SUFFICES ASSUME l = NoLoan, power, ~power' PROVE FALSE
    OBVIOUS
  <2>1. power' = PowerAfter(l)
    BY Zenon DEF EndLoan
  <2> QED BY <2>1, <1>2
<1>5. l # NoLoan /\ l.powerDown /\ faults' = faults => ~power'
  <2> SUFFICES ASSUME l # NoLoan, l.powerDown, faults' = faults PROVE ~power'
    OBVIOUS
  <2>1. power' = PowerAfter(l)
    BY <1>3, Zenon DEF EndLoan
  <2> QED BY <2>1, <1>1
<1> QED BY <1>4, <1>5

\* The steps that can end a loan or switch the power off while the TOH stays
\* published: a call that is refused, one that returns, and a watcher's end.
LEMMA PowerSteps ==
    ASSUME IInv, [Next]_vars, phase = "published", phase' = "published"
    PROVE  \/ power => power'
           \/ \E c \in Clients : Denied(c)
           \/ \E o \in Objects : EndLoan(loan[o]) /\ loan' = [loan EXCEPT ![o] = NoLoan]
<1>1. ASSUME NEW c \in Clients, ClientStep(c) PROVE power => power'
  BY <1>1, Zenon DEF ClientStep, CallBorrow, CallReturn, DropAccess, LeaveBus
<1>2. ASSUME NEW c \in Clients, LockStep(c)
      PROVE  \/ power => power'
             \/ \E o \in Objects : EndLoan(loan[o]) /\ loan' = [loan EXCEPT ![o] = NoLoan]
  <2>1. CASE BeginLend(c)
    BY <2>1, Zenon DEF BeginLend
  <2>2. CASE ReturnLoan(c)
    <3>1. call[c].obj \in Objects
      BY <2>2, CallObject DEF ReturnLoan, IInv
    <3>2. \/ EndLoan(loan[call[c].obj]) /\ loan' = [loan EXCEPT ![call[c].obj] = NoLoan]
          \/ UNCHANGED power
      BY <2>2, Zenon DEF ReturnLoan
    <3> QED BY <3>1, <3>2, Zenon
  <2> QED BY <1>2, <2>1, <2>2 DEF LockStep
<1>3. ASSUME NEW c \in Clients, LendStep(c) PROVE (power => power') \/ Denied(c)
  BY <1>3, Zenon DEF LendStep, AlreadyBorrowed, OwnerGone, OwnerCheckFails, LendFails, PowerOn, Lend
<1>4. ASSUME NEW o \in Objects, WatcherStep(o)
      PROVE  \/ power => power'
             \/ EndLoan(loan[o]) /\ loan' = [loan EXCEPT ![o] = NoLoan]
  BY <1>4, Zenon
  DEF WatcherStep, WatcherSubscribes, WatcherChecks, WatcherSeesLoss, WatcherFails, WatcherEndsLoan
<1>5. ~MainStep
  BY DEF MainStep, NewCover, PowerUp, PowerUpFails, DetectFails, Publish, Remove, AbortWatcher,
         Restart
<1>6. CASE UNCHANGED vars
  BY <1>6, Zenon DEF vars
<1> QED BY <1>1, <1>2, <1>3, <1>4, <1>5, <1>6, Zenon DEF Next

\* Nothing takes the power from the borrower of the TOH that is published but the
\* work that is left over on TOHs that were removed.
THEOREM PowerStays == Spec => PowerStaysForLoan
<1>1. ASSUME IInv, [Next]_vars, phase = "published", phase' = "published", loan[cur] # NoLoan,
             loan'[cur] = loan[cur], power, ~power'
      PROVE  StaleWork
  <2>1. CASE \E c \in Clients : Denied(c)
    <3>1. PICK c \in Clients : Denied(c)
      BY <2>1
    <3>2. call[c].at = "creds" /\ call'[c].at = "idle"
      BY <1>1, <3>1, FinishType DEF Denied, IInv, NoCall
    <3>3. call[c].obj # cur
      BY <1>1, <3>2 DEF IInv, CallInv
    <3> QED BY <3>2, <3>3 DEF StaleWork
  <2>2. CASE \E o \in Objects : EndLoan(loan[o]) /\ loan' = [loan EXCEPT ![o] = NoLoan]
    <3>1. PICK o \in Objects : EndLoan(loan[o]) /\ loan' = [loan EXCEPT ![o] = NoLoan]
      BY <2>2
    <3>2. loan[o] # NoLoan /\ loan'[o] = NoLoan
      BY <1>1, <3>1, LoanEndCuts DEF IInv, TypeOK
    <3>3. o # cur
      BY <1>1, <3>2
    <3> QED BY <3>2, <3>3 DEF StaleWork
  <2> QED BY <1>1, <2>1, <2>2, PowerSteps
<1>2. IInv /\ [Next]_vars =>
          [ phase = "published" /\ phase' = "published" /\ loan[cur] # NoLoan
            /\ loan'[cur] = loan[cur] /\ power /\ ~power' => StaleWork ]_vars
  BY <1>1
<1> QED BY <1>2, Invariance, PTL DEF Spec, PowerStaysForLoan

\* A loan that asked for power-down goes with the power cut, or to the call that
\* takes its place.
THEOREM LoanEndsSettled == Spec => LoanEndSettled
<1>1. ASSUME IInv, [Next]_vars, faults' = faults, NEW o \in Objects,
             loan[o] # NoLoan, loan[o].powerDown, loan'[o] # loan[o]
      PROVE  ~power' \/ \E c \in Clients : call'[c].previous = loan[o]
  <2>a. TypeOK /\ faults + 1 # faults
    BY <1>1 DEF IInv, TypeOK
  <2>b. ASSUME NEW p \in Objects, EndLoan(loan[p]), loan' = [loan EXCEPT ![p] = NoLoan]
        PROVE  ~power'
    <3>1. p = o
      BY <1>1, <2>a, <2>b DEF TypeOK
    <3> QED BY <1>1, <2>a, <2>b, <3>1, LoanEndCuts
  <2>c. ASSUME NEW c \in Clients, call[c].at # "idle", TakePrevious(c, call[c].obj)
        PROVE  call'[c].previous = loan[o]
    <3>1. call[c].obj = o
      BY <1>1, <2>a, <2>c DEF TakePrevious, TypeOK
    <3> QED BY <2>a, <2>c, <3>1 DEF TakePrevious, TypeOK, Call
  <2>1. ASSUME NEW c \in Clients, ClientStep(c) PROVE UNCHANGED loan
    BY <2>1, Zenon DEF ClientStep, CallBorrow, CallReturn, DropAccess, LeaveBus
  <2>2. ASSUME NEW c \in Clients, LockStep(c)
        PROVE  ~power' \/ call'[c].previous = loan[o]
    <3>1. CASE BeginLend(c)
      BY <1>1, <2>c, <3>1 DEF BeginLend
    <3>2. CASE ReturnLoan(c)
      <4>1. call[c].obj \in Objects
        BY <2>a, <3>2, <1>1, CallObject DEF ReturnLoan, IInv
      <4> QED BY <1>1, <2>b, <3>2, <4>1 DEF ReturnLoan
    <3> QED BY <2>2, <3>1, <3>2 DEF LockStep
  <2>3. ASSUME NEW c \in Clients, LendStep(c)
        PROVE  call'[c].previous = loan[o]
    <3>1. CASE OwnerGone(c)
      BY <2>c, <3>1 DEF OwnerGone
    <3>2. CASE Lend(c)
      <4>1. loan[call[c].obj] = NoLoan
        BY <1>1, <3>2 DEF Lend, IInv, CallInv
      <4>2. call[c].obj # o
        BY <1>1, <4>1
      <4> QED BY <1>1, <2>a, <3>2, <4>2 DEF Lend, TypeOK
    <3>3. CASE \/ AlreadyBorrowed(c) \/ OwnerCheckFails(c)
               \/ LendFails(c) \/ Denied(c) \/ PowerOn(c)
      <4>1. UNCHANGED loan
        BY <3>3, Zenon DEF AlreadyBorrowed, OwnerCheckFails, LendFails, Denied, PowerOn
      <4> QED BY <1>1, <4>1
    <3> QED BY <2>3, <3>1, <3>2, <3>3 DEF LendStep
  <2>4. ASSUME NEW p \in Objects, WatcherStep(p)
        PROVE  UNCHANGED loan \/ ~power'
    <3>1. UNCHANGED loan \/ (EndLoan(loan[p]) /\ loan' = [loan EXCEPT ![p] = NoLoan])
      BY <2>4, Zenon DEF WatcherStep, WatcherSubscribes, WatcherChecks, WatcherSeesLoss,
                         WatcherFails, WatcherEndsLoan
    <3> QED BY <2>b, <3>1
  <2>5. CASE MainStep
    <3>1. CASE AbortWatcher
      <4>1. cur \in Objects
        BY <1>1, <3>1, BoundsAssumption DEF AbortWatcher, IInv, FreshInv, TypeOK, Objects
      <4> QED BY <2>b, <3>1, <4>1 DEF AbortWatcher
    <3>2. ~Restart
      BY <1>1, <2>a DEF Restart, Fault
    <3>3. UNCHANGED loan \/ AbortWatcher
      BY <2>5, <3>2, Zenon DEF MainStep, NewCover, PowerUp, PowerUpFails, DetectFails, Publish,
                               Remove
    <3> QED BY <1>1, <3>1, <3>3
  <2>6. CASE UNCHANGED vars
    BY <1>1, <2>6 DEF vars
  <2> QED BY <1>1, <2>1, <2>2, <2>3, <2>4, <2>5, <2>6 DEF Next
<1>2. IInv /\ [Next]_vars =>
          [ faults' = faults =>
              \A o \in Objects : loan[o] # NoLoan /\ loan[o].powerDown /\ loan'[o] # loan[o] =>
                  ~power' \/ \E c \in Clients : call'[c].previous = loan[o] ]_vars
  BY <1>1
<1> QED BY <1>2, Invariance, PTL DEF Spec, LoanEndSettled

\* While the TOH stays published, a loan comes from a call that has switched the
\* power on, and such a call has done so.
LEMMA LoanComes ==
    ASSUME TypeOK, [Next]_vars, phase = "published", phase' = "published"
    PROVE  /\ cur' = cur
           /\ \A c \in Clients : call'[c].at = "warmup" => call[c].at = "warmup" \/ power'
           /\ \A o \in Objects : loan'[o] # NoLoan =>
                 loan[o] # NoLoan \/ ((\E c \in Clients : call[c].at = "warmup") /\ UNCHANGED power)
<1>1. ASSUME NEW c \in Clients, CallBorrow(c) \/ CallReturn(c)
      PROVE  /\ \A d \in Clients : call'[d].at = "warmup" => call[d].at = "warmup"
             /\ UNCHANGED <<cur, loan>>
  <2>1. ASSUME NEW r, call' = [call EXCEPT ![c] = r], r.at # "warmup", NEW d \in Clients,
               call'[d].at = "warmup"
        PROVE  call[d].at = "warmup"
    BY <2>1 DEF TypeOK
  <2>2. \E r : call' = [call EXCEPT ![c] = r] /\ r.at # "warmup"
    <3>1. CASE CallBorrow(c)
      <4>1. PICK down \in BOOLEAN : call' = [call EXCEPT ![c] =
                [NoCall EXCEPT !.at = "borrowing", !.obj = cur, !.powerDown = down]]
        BY <3>1 DEF CallBorrow
      <4>2. [NoCall EXCEPT !.at = "borrowing", !.obj = cur, !.powerDown = down].at # "warmup"
        BY DEF NoCall
      <4> QED BY <4>1, <4>2
    <3>2. CASE CallReturn(c)
      <4>1. call' = [call EXCEPT ![c] = [NoCall EXCEPT !.at = "returning", !.obj = cur]]
        BY <3>2 DEF CallReturn
      <4>2. [NoCall EXCEPT !.at = "returning", !.obj = cur].at # "warmup"
        BY DEF NoCall
      <4> QED BY <4>1, <4>2
    <3> QED BY <1>1, <3>1, <3>2
  <2>3. UNCHANGED <<cur, loan>>
    BY <1>1 DEF CallBorrow, CallReturn, mainVars
  <2> QED BY <2>1, <2>2, <2>3
<1>2. ASSUME NEW c \in Clients,
             \/ DropAccess(c) \/ LeaveBus(c)
      PROVE  UNCHANGED <<cur, loan, call>>
  BY <1>2 DEF DropAccess, LeaveBus, mainVars
<1>3. ASSUME NEW c \in Clients,
             \/ BeginLend(c) \/ ReturnLoan(c) \/ AlreadyBorrowed(c) \/ OwnerGone(c)
             \/ OwnerCheckFails(c) \/ LendFails(c) \/ Denied(c)
      PROVE  /\ \A d \in Clients : call'[d].at = "warmup" => call[d].at = "warmup"
             /\ \A o \in Objects : loan'[o] # NoLoan => loan[o] # NoLoan
             /\ UNCHANGED cur
  BY <1>3, FinishType
  DEF BeginLend, ReturnLoan, AlreadyBorrowed, OwnerGone, OwnerCheckFails, LendFails, Denied,
      TakePrevious, NoCall, TypeOK, Call, mainVars
<1>4. ASSUME NEW c \in Clients, PowerOn(c)
      PROVE  power' /\ UNCHANGED <<cur, loan>>
  BY <1>4 DEF PowerOn, mainVars
<1>5. ASSUME NEW c \in Clients, Lend(c)
      PROVE  /\ \A d \in Clients : call'[d].at = "warmup" => call[d].at = "warmup"
             /\ call[c].at = "warmup" /\ UNCHANGED <<cur, power>>
  BY <1>5, FinishType DEF Lend, NoCall, mainVars
<1>6. ASSUME NEW o \in Objects, WatcherStep(o)
      PROVE  /\ \A p \in Objects : loan'[p] # NoLoan => loan[p] # NoLoan
             /\ UNCHANGED <<cur, call>>
  BY <1>6
  DEF WatcherStep, WatcherSubscribes, WatcherChecks, WatcherSeesLoss, WatcherFails,
      WatcherEndsLoan, TypeOK, mainVars
<1>7. ~MainStep
  BY DEF MainStep, NewCover, PowerUp, PowerUpFails, DetectFails, Publish, Remove, AbortWatcher,
         Restart
<1>8. CASE UNCHANGED vars
  BY <1>8 DEF vars
<1> QED BY <1>1, <1>2, <1>3, <1>4, <1>5, <1>6, <1>7, <1>8
        DEF Next, ClientStep, LockStep, LendStep

\* When only one TOH is ever published, a call that has switched the power on finds
\* it on, too.
PoweredInv ==
    phase = "published" =>
        /\ loan[cur] # NoLoan => power
        /\ \A c \in Clients : call[c].at = "warmup" => power

LEMMA PoweredStep ==
    ASSUME MaxToh = 1, IInv, PoweredInv, [Next]_vars
    PROVE  PoweredInv'
<1> SUFFICES ASSUME phase' = "published"
             PROVE  /\ loan'[cur'] # NoLoan => power'
                    /\ \A c \in Clients : call'[c].at = "warmup" => power'
  BY DEF PoweredInv
<1>0. TypeOK /\ CallInv /\ FreshInv /\ OneInside
  BY DEF IInv
<1>1. CASE phase # "published"
  <2>1. Publish
    BY <1>1 DEF Next, ClientStep, CallBorrow, CallReturn, DropAccess, LeaveBus, LockStep,
                BeginLend, ReturnLoan, LendStep, AlreadyBorrowed, OwnerGone, OwnerCheckFails,
                LendFails, Denied, PowerOn, Lend, WatcherStep, WatcherSubscribes,
                WatcherChecks, WatcherSeesLoss, WatcherFails, MainStep, NewCover, PowerUp,
                PowerUpFails, DetectFails, Remove, AbortWatcher, Restart, mainVars, vars
  <2>2. cur = 0 /\ cur' = 1 /\ 1 \in Objects
    BY <2>1, <1>0, MaxToh = 1 DEF Publish, TypeOK, Objects
  <2>3. loan'[1] = NoLoan
    BY <2>1, <2>2, <1>0 DEF Publish, FreshInv
  <2>4. \A c \in Clients : call'[c].at = "idle"
    BY <2>1, <2>2, <1>0 DEF Publish, CallInv
  <2> QED BY <2>2, <2>3, <2>4
<1>2. CASE phase = "published"
  <2>1. cur = 1 /\ 1 \in Objects /\ Objects = {1}
    BY <1>2, <1>0, MaxToh = 1 DEF FreshInv, TypeOK, Objects
  <2>2. cur' = cur
    BY <1>0, <1>2, LoanComes
  <2>3. ASSUME NEW c \in Clients, call[c].at \in {"creds", "warmup"}
        PROVE  call[c].obj = 1 /\ loan[1] = NoLoan
    BY <2>1, <2>3, <1>0 DEF CallInv
  <2>4. CASE power => power'
    BY <1>0, <1>2, <2>1, <2>2, <2>4, LoanComes DEF PoweredInv
  <2>5. CASE \E c \in Clients : Denied(c)
    <3>1. PICK c \in Clients : Denied(c)
      BY <2>5
    <3>2. call[c].at = "creds" /\ UNCHANGED loan
      BY <3>1 DEF Denied
    <3>3. loan'[cur'] = NoLoan
      BY <2>1, <2>2, <2>3, <3>2
    <3>4. ASSUME NEW d \in Clients, call'[d].at = "warmup" PROVE FALSE
      <4>1. call[d].at = "warmup"
        BY <1>0, <3>1, <3>4, FinishType DEF Denied, NoCall
      <4>2. c = d
        BY <1>0, <2>3, <3>2, <4>1 DEF OneInside, Inside
      <4> QED BY <3>2, <4>1, <4>2
    <3> QED BY <3>3, <3>4
  <2>6. CASE \E o \in Objects : EndLoan(loan[o]) /\ loan' = [loan EXCEPT ![o] = NoLoan]
    <3>1. EndLoan(loan[1]) /\ loan' = [loan EXCEPT ![1] = NoLoan]
      BY <2>1, <2>6
    <3>2. loan'[cur'] = NoLoan
      BY <1>0, <2>1, <2>2, <3>1 DEF TypeOK
    <3>3. ASSUME NEW d \in Clients, call'[d].at = "warmup", ~power' PROVE FALSE
      <4>1. call[d].at = "warmup"
        BY <1>0, <1>2, <3>3, LoanComes
      <4>2. power /\ loan[1] = NoLoan
        BY <1>2, <2>3, <4>1 DEF PoweredInv
      <4> QED BY <1>0, <3>1, <3>3, <4>2, LoanEndCuts
    <3> QED BY <3>2, <3>3
  <2> QED BY <1>2, <2>4, <2>5, <2>6, PowerSteps
<1> QED BY <1>1, <1>2

\* With a single TOH, so that nothing is left over from another one, whoever has
\* borrowed it has power.
THEOREM Powered == MaxToh = 1 => (Spec => []BorrowedHasPower)
<1> SUFFICES ASSUME MaxToh = 1 PROVE Spec => []BorrowedHasPower
  OBVIOUS
<1>1. Init => PoweredInv
  BY DEF Init, PoweredInv
<1>2. IInv /\ PoweredInv /\ [Next]_vars => PoweredInv'
  BY PoweredStep
<1>3. PoweredInv => BorrowedHasPower
  BY DEF PoweredInv, BorrowedHasPower
<1> QED BY <1>1, <1>2, <1>3, Invariance, PTL DEF Spec

-----------------------------------------------------------------------------
(* Refinement: what happens to the published object is a step of LoanContract *)

\* Nothing a client of the contract can see has changed.
LEMMA Unseen ==
    ASSUME TypeOK, UNCHANGED <<cur, held>>,
           (phase = "published") = (phase' = "published"),
           phase = "published" => loan'[cur] = loan[cur]
    PROVE  UNCHANGED Contract!vars
<1>1. contractAvailable' = contractAvailable
  BY DEF contractAvailable
<1>2. contractBorrower' = contractBorrower
  BY DEF contractBorrower
<1>3. contractUsers' = contractUsers
  BY DEF contractUsers
<1> QED BY <1>1, <1>2, <1>3 DEF Contract!vars

\* The loan of o goes, and nobody uses the file descriptor of o.
LEMMA LoanEndIsEnd ==
    ASSUME IInv, NEW o \in Objects, loan' = [loan EXCEPT ![o] = NoLoan],
           o = cur /\ phase = "published" => \A c \in Clients : held[c] # cur,
           UNCHANGED <<phase, cur, held>>
    PROVE  [Contract!Next]_(Contract!vars)
<1>0. TypeOK
  BY DEF IInv
<1>1. CASE phase = "published" /\ o = cur /\ loan[cur] # NoLoan
  <2>1. contractBorrower \in Clients /\ contractBorrower # NoClient
    BY <1>0, <1>1, SentinelAssumption DEF contractBorrower, TypeOK, Loan
  <2>2. contractUsers = {} /\ contractUsers' = contractUsers
    BY <1>1 DEF contractUsers
  <2>3. contractBorrower' = NoClient
    BY <1>0, <1>1 DEF contractBorrower, TypeOK
  <2>4. contractAvailable' = contractAvailable
    BY DEF contractAvailable
  <2> QED BY <2>1, <2>2, <2>3, <2>4 DEF Contract!Next, Contract!End
<1>2. CASE ~(phase = "published" /\ o = cur /\ loan[cur] # NoLoan)
  <2>1. phase = "published" => loan'[cur] = loan[cur]
    BY <1>0, <1>2 DEF TypeOK, IInv, FreshInv, Objects
  <2> QED BY <1>0, <2>1, Unseen
<1> QED BY <1>1, <1>2

\* A client stops using whatever it holds.
LEMMA DropIsStop ==
    ASSUME IInv, NEW c \in Clients, held' = [held EXCEPT ![c] = 0],
           UNCHANGED <<phase, cur, loan>>
    PROVE  [Contract!Next]_(Contract!vars)
<1>0. TypeOK /\ (phase = "published" => cur > 0)
  BY DEF IInv, FreshInv
<1>1. held'[c] = 0 /\ \A d \in Clients \ {c} : held'[d] = held[d]
  BY <1>0 DEF TypeOK
<1>2. contractUsers' = contractUsers \ {c}
  BY <1>0, <1>1 DEF contractUsers, TypeOK
<1>3. contractAvailable' = contractAvailable /\ contractBorrower' = contractBorrower
  BY DEF contractAvailable, contractBorrower
<1>4. CASE c \in contractUsers
  BY <1>2, <1>3, <1>4 DEF Contract!Next, Contract!Stop
<1>5. CASE c \notin contractUsers
  BY <1>2, <1>3, <1>5 DEF Contract!vars
<1> QED BY <1>4, <1>5

LEMMA LendIsLend ==
    ASSUME IInv, NEW c \in Clients, Lend(c)
    PROVE  [Contract!Next]_(Contract!vars)
<1> DEFINE o == call[c].obj
           l == [owner |-> c, powerDown |-> call[c].powerDown]
<1>0. TypeOK /\ o \in Objects /\ loan[o] = NoLoan
  BY CallObject DEF Lend, IInv, CallInv
<1>1. l # NoLoan
  BY <1>0, SentinelAssumption DEF Loan, TypeOK, Call
<1>2. /\ UNCHANGED <<phase, cur, onBus>> /\ loan' = [loan EXCEPT ![o] = l]
      /\ held' = IF onBus[c] THEN [held EXCEPT ![c] = o] ELSE held
  BY DEF Lend, mainVars
<1>3. CASE phase = "published" /\ o = cur
  <2>1. contractAvailable /\ contractAvailable' = contractAvailable
    BY <1>2, <1>3 DEF contractAvailable
  <2>2. contractBorrower = NoClient
    BY <1>0, <1>3 DEF contractBorrower
  <2>3. contractBorrower' = c
    BY <1>0, <1>1, <1>2, <1>3 DEF contractBorrower, TypeOK
  <2>4. contractUsers' \in {contractUsers, contractUsers \cup {c}}
    <3>1. CASE onBus[c]
      <4>1. held'[c] = cur /\ \A d \in Clients \ {c} : held'[d] = held[d]
        BY <1>0, <1>2, <1>3, <3>1 DEF TypeOK
      <4>2. contractUsers' = contractUsers \cup {c}
        BY <1>2, <1>3, <4>1 DEF contractUsers
      <4> QED BY <4>2
    <3>2. CASE ~onBus[c]
      BY <1>2, <3>2 DEF contractUsers
    <3> QED BY <3>1, <3>2
  <2> QED BY <2>1, <2>2, <2>3, <2>4 DEF Contract!Next, Contract!Lend
<1>4. CASE ~(phase = "published" /\ o = cur)
  <2>1. phase = "published" => loan'[cur] = loan[cur]
    BY <1>0, <1>2, <1>4, BoundsAssumption DEF TypeOK, IInv, FreshInv, Objects
  <2>2. contractUsers' = contractUsers
    <3>1. phase = "published" => \A d \in Clients : held[d] = cur <=> held'[d] = cur
      <4> SUFFICES ASSUME phase = "published", NEW d \in Clients
                   PROVE  held[d] = cur <=> held'[d] = cur
        OBVIOUS
      <4>1. CASE d # c \/ ~onBus[c]
        BY <1>0, <1>2, <4>1 DEF TypeOK
      <4>2. CASE d = c /\ onBus[c]
        <5>1. held'[c] = o /\ o # cur
          BY <1>0, <1>2, <1>4, <4>2 DEF TypeOK
        <5>2. held[c] # cur
          BY <1>0, <1>4, <4>2, BoundsAssumption
             DEF IInv, CallInv, Lend, TypeOK, Objects
        <5> QED BY <4>2, <5>1, <5>2
      <4> QED BY <4>1, <4>2
    <3> QED BY <1>2, <3>1 DEF contractUsers
  <2> QED BY <1>2, <2>1, <2>2 DEF Contract!vars, contractAvailable, contractBorrower
<1> QED BY <1>3, <1>4

LEMMA ContractInit == Init => Contract!Init
BY DEF Init, Contract!Init, contractAvailable, contractBorrower, contractUsers

LEMMA ContractStep == IInv /\ [Next]_vars => [Contract!Next]_(Contract!vars)
<1> SUFFICES ASSUME IInv, [Next]_vars
             PROVE  [Contract!Next]_(Contract!vars)
  OBVIOUS
<1>0. TypeOK
  BY DEF IInv
<1>1. ASSUME NEW c \in Clients, ClientStep(c)
      PROVE  [Contract!Next]_(Contract!vars)
  <2>1. CASE CallBorrow(c)
    BY <1>0, <2>1, Unseen DEF CallBorrow, mainVars, clientVars
  <2>2. CASE CallReturn(c)
    BY <2>2, DropIsStop DEF CallReturn, mainVars
  <2>3. CASE LeaveBus(c)
    BY <2>3, DropIsStop DEF LeaveBus, mainVars
  <2>4. CASE DropAccess(c)
    BY <2>4, DropIsStop DEF DropAccess, mainVars
  <2> QED BY <1>1, <2>1, <2>2, <2>3, <2>4 DEF ClientStep
<1>2. ASSUME NEW c \in Clients, BeginLend(c) \/ OwnerGone(c)
      PROVE  [Contract!Next]_(Contract!vars)
  <2> DEFINE o == call[c].obj
  <2>0. o \in Objects /\ UNCHANGED <<phase, cur, held>>
    BY <1>0, <1>2, CallObject DEF BeginLend, OwnerGone, IInv, mainVars, clientVars
  <2>1. CASE UNCHANGED loan
    BY <1>0, <2>0, <2>1, Unseen
  <2>2. CASE loan' = [loan EXCEPT ![o] = NoLoan]
    <3>1. loan[o] = NoLoan \/ (loan[o] # NoLoan /\ held[loan[o].owner] = 0)
      BY <1>2, <1>0, <2>0, <2>2
         DEF BeginLend, OwnerGone, IInv, CallInv, ClientInv, WatcherInv, TypeOK
    <3>2. o = cur /\ phase = "published" => \A d \in Clients : held[d] # cur
      BY <1>0, <2>0, <3>1 DEF IInv, HolderOwnsLoan, FreshInv, TypeOK
    <3> QED BY <2>0, <2>2, <3>2, LoanEndIsEnd
  <2> QED BY <1>2, <2>1, <2>2 DEF BeginLend, OwnerGone, TakePrevious
<1>3. ASSUME NEW c \in Clients, ReturnLoan(c)
      PROVE  [Contract!Next]_(Contract!vars)
  <2> DEFINE o == call[c].obj
  <2>0. o \in Objects /\ UNCHANGED <<phase, cur, held>>
    BY <1>0, <1>3, CallObject DEF ReturnLoan, IInv, mainVars, clientVars
  <2>1. CASE UNCHANGED loan
    BY <1>0, <2>0, <2>1, Unseen
  <2>2. CASE loan[o] # NoLoan /\ loan[o].owner = c /\ loan' = [loan EXCEPT ![o] = NoLoan]
    <3>1. o = cur /\ phase = "published" => \A d \in Clients : held[d] # cur
      BY <1>0, <1>3, <2>0, <2>2
         DEF ReturnLoan, IInv, CallInv, HolderOwnsLoan, FreshInv, TypeOK
    <3> QED BY <2>0, <2>2, <3>1, LoanEndIsEnd
  <2> QED BY <1>3, <2>1, <2>2 DEF ReturnLoan
<1>4. ASSUME NEW c \in Clients,
             \/ AlreadyBorrowed(c) \/ OwnerCheckFails(c) \/ LendFails(c)
             \/ Denied(c) \/ PowerOn(c)
      PROVE  [Contract!Next]_(Contract!vars)
  <2>1. UNCHANGED <<phase, cur, loan, held>>
    BY <1>4 DEF AlreadyBorrowed, OwnerCheckFails, LendFails, Denied, PowerOn,
                mainVars, clientVars
  <2> QED BY <1>0, <2>1, Unseen
<1>5. ASSUME NEW c \in Clients, Lend(c)
      PROVE  [Contract!Next]_(Contract!vars)
  BY <1>5, LendIsLend
<1>6. ASSUME NEW o \in Objects, WatcherStep(o)
      PROVE  [Contract!Next]_(Contract!vars)
  <2>0. UNCHANGED <<phase, cur, held>>
    BY <1>6 DEF WatcherStep, WatcherSubscribes, WatcherChecks, WatcherSeesLoss,
                WatcherFails, mainVars, clientVars
  <2>1. CASE UNCHANGED loan
    BY <1>0, <2>0, <2>1, Unseen
  <2>2. CASE WatcherEndsLoan(o) /\ watcher[o].state \in Active /\ ~onBus[watcher[o].sender]
    <3>1. o = cur /\ phase = "published" => \A d \in Clients : held[d] # cur
      BY <1>0, <2>2, BoundsAssumption
         DEF IInv, OwnLoanInv, HolderOwnsLoan, ClientInv, TypeOK, Objects
    <3> QED BY <2>0, <2>2, <3>1, LoanEndIsEnd DEF WatcherEndsLoan
  <2> QED BY <1>6, <2>1, <2>2
        DEF WatcherStep, WatcherSubscribes, WatcherChecks, WatcherSeesLoss,
            WatcherFails, Active, IInv, WatcherInv
<1>7. CASE MainStep
  <2>1. CASE NewCover \/ PowerUp \/ PowerUpFails \/ DetectFails
    <3>1. UNCHANGED <<cur, held, loan>> /\ phase # "published" /\ phase' # "published"
      BY <2>1 DEF NewCover, PowerUp, PowerUpFails, DetectFails, clientVars
    <3> QED BY <1>0, <3>1, Unseen
  <2>2. CASE Publish
    <3>1. cur' = cur + 1 /\ cur' \in Objects /\ cur' > cur
      BY <1>0, <2>2, BoundsAssumption DEF Publish, TypeOK, Objects
    <3>2. ~contractAvailable /\ contractAvailable'
      BY <2>2 DEF Publish, contractAvailable
    <3>3. contractBorrower = NoClient /\ contractUsers = {}
      BY <2>2 DEF Publish, contractBorrower, contractUsers
    <3>4. contractBorrower' = NoClient
      BY <2>2, <3>1 DEF Publish, contractBorrower, IInv, FreshInv
    <3>5. contractUsers' = {}
      BY <1>0, <2>2, <3>1, BoundsAssumption
         DEF Publish, contractUsers, clientVars, IInv, ClientInv, TypeOK
    <3> QED BY <3>2, <3>3, <3>4, <3>5 DEF Contract!Next, Contract!Attach
  <2>3. CASE phase = "published" /\ phase' # "published"
    <3>1. Contract!Revoke
      BY <2>3 DEF Contract!Revoke, contractAvailable, contractBorrower, contractUsers
    <3> QED BY <3>1 DEF Contract!Next
  <2>4. CASE AbortWatcher \/ (Restart /\ phase # "published")
    <3>1. UNCHANGED <<cur, held>> /\ phase # "published" /\ phase' # "published"
      BY <2>4 DEF AbortWatcher, Restart, clientVars
    <3> QED BY <1>0, <3>1, Unseen
  <2> QED BY <1>7, <2>1, <2>2, <2>3, <2>4 DEF MainStep, Remove, Restart
<1>8. CASE UNCHANGED vars
  BY <1>0, <1>8, Unseen DEF vars
<1> QED BY <1>1, <1>2, <1>3, <1>4, <1>5, <1>6, <1>7, <1>8
      DEF Next, LockStep, LendStep

\* The published object keeps the contract of the borrowing interface: calls,
\* watchers, removals and restarts are steps of LoanContract or invisible to it.
THEOREM Refinement == Spec => ContractSpec
<1>1. IInv /\ [Next]_vars => [Contract!Next]_(Contract!vars)
  BY ContractStep
<1> QED BY ContractInit, <1>1, Invariance, PTL DEF Spec, ContractSpec, Contract!Spec

-----------------------------------------------------------------------------
(* Refinement: main goes through the rounds of MainLoop *)

\* Clients, calls and watchers touch the loop by the power only.
LEMMA LoopStep == TypeOK /\ [Next]_vars => [Loop!Next]_(Loop!vars)
<1> SUFFICES ASSUME TypeOK, [Next]_vars
             PROVE  [Loop!Next]_(Loop!vars)
  OBVIOUS
<1>1. CASE UNCHANGED phase /\ power' \in BOOLEAN
  BY <1>1 DEF Loop!Next, Loop!LoanPower
<1>2. ASSUME NEW c \in Clients, ClientStep(c) \/ LockStep(c) \/ LendStep(c)
      PROVE  UNCHANGED phase /\ power' \in BOOLEAN
  <2>1. CASE ClientStep(c)
    BY <2>1 DEF ClientStep, CallBorrow, CallReturn, DropAccess, LeaveBus, mainVars, TypeOK
  <2>2. CASE LockStep(c)
    BY <2>2, EndLoanType
    DEF LockStep, BeginLend, TakePrevious, ReturnLoan, mainVars, TypeOK
  <2>3. CASE Denied(c)
    BY <2>3, EndLoanType DEF Denied, mainVars
  <2>4. CASE \/ AlreadyBorrowed(c) \/ OwnerGone(c) \/ OwnerCheckFails(c)
             \/ LendFails(c) \/ PowerOn(c) \/ Lend(c)
    BY <2>4 DEF AlreadyBorrowed, OwnerGone, OwnerCheckFails, LendFails, PowerOn, Lend,
                mainVars, TypeOK
  <2> QED BY <1>2, <2>1, <2>2, <2>3, <2>4 DEF LendStep
<1>3. ASSUME NEW o \in Objects, WatcherStep(o)
      PROVE  UNCHANGED phase /\ power' \in BOOLEAN
  BY <1>3, EndLoanType
  DEF WatcherStep, WatcherSubscribes, WatcherChecks, WatcherSeesLoss, WatcherFails,
      WatcherEndsLoan, mainVars, TypeOK
<1>4. CASE MainStep
  <2>1. CASE NewCover
    BY <2>1 DEF NewCover, Loop!Next, Loop!NewCover
  <2>2. CASE PowerUp \/ PowerUpFails
    BY <2>2 DEF PowerUp, PowerUpFails, Loop!Next, Loop!PowerUp
  <2>3. CASE DetectFails \/ Publish
    BY <2>3 DEF DetectFails, Publish, Loop!Next, Loop!DetectFails, Loop!Publish,
                Loop!LeaveOrCut
  <2>4. CASE Remove
    BY <2>4 DEF Remove, Loop!Next, Loop!Remove
  <2>5. CASE AbortWatcher
    <3>1. power' \in {power, FALSE}
      BY <2>5 DEF AbortWatcher, EndLoan, PowerAfter
    <3> QED BY <2>5, <3>1 DEF AbortWatcher, Loop!Next, Loop!AbortWatcher, Loop!LeaveOrCut
  <2>6. CASE Restart
    BY <2>6 DEF Restart, Loop!Next, Loop!Restart
  <2> QED BY <1>4, <2>1, <2>2, <2>3, <2>4, <2>5, <2>6 DEF MainStep
<1>5. CASE UNCHANGED vars
  BY <1>5 DEF vars, Loop!vars
<1> QED BY <1>1, <1>2, <1>3, <1>4, <1>5 DEF Next

\* The loop publishes, removes and sweeps in order, and begins every round with
\* the power off, whatever clients and watchers do meanwhile.
THEOREM Rounds == Spec => MainLoopSpec
<1>1. Init => Loop!Init
  BY DEF Init, Loop!Init
<1>2. TypeOK /\ [Next]_vars => [Loop!Next]_(Loop!vars)
  BY LoopStep
<1> QED BY <1>1, <1>2, TypeCorrect, PTL DEF Spec, MainLoopSpec, Loop!Spec
=============================================================================
