---------------------------- MODULE LoanContract ----------------------------
(***************************************************************************)
(* What the borrowing interface promises to well-behaved clients (the      *)
(* section "Borrowing i2c-dev character device" of                         *)
(* doc/dbus_interface.md), for the TOH that is attached now: the access is *)
(* lent to one client, and only when the previous borrower no longer uses  *)
(* it.  There are no calls, locks, watchers or objects here.               *)
(***************************************************************************)
CONSTANTS Clients, NoClient

VARIABLES
    available,  \* a TOH is on D-Bus
    borrower,   \* the client the access is lent to
    users       \* the clients that use its file descriptor

vars == <<available, borrower, users>>

Init == available = FALSE /\ borrower = NoClient /\ users = {}

Attach ==
    /\ ~available /\ available' = TRUE
    /\ UNCHANGED <<borrower, users>>

\* The reply may find that the client has left in the meantime.
Lend(c) ==
    /\ available /\ borrower = NoClient
    /\ borrower' = c
    /\ users' \in {users, users \cup {c}}
    /\ UNCHANGED available

\* A client returns its file descriptor or disappears.
Stop(c) ==
    /\ c \in users /\ users' = users \ {c}
    /\ UNCHANGED <<available, borrower>>

\* The access is considered returned.
End ==
    /\ borrower # NoClient /\ borrower \notin users
    /\ borrower' = NoClient
    /\ UNCHANGED <<available, users>>

\* The TOH is disconnected: every client has to drop the access.
Revoke ==
    /\ available
    /\ available' = FALSE /\ borrower' = NoClient /\ users' = {}

Next == Attach \/ End \/ Revoke \/ \E c \in Clients : Lend(c) \/ Stop(c)

Spec == Init /\ [][Next]_vars

\* What a client relies on: nobody but the borrower uses the device.
OnlyBorrowerUses == users \subseteq {borrower} \cap Clients
=============================================================================
