------------------------------ MODULE MCUnits -------------------------------
(***************************************************************************)
(* Four units for Units: an installed system service and one that systemd  *)
(* does not stop by hand, a transient system service, and a transient user *)
(* service that is not run when the daemon starts.                         *)
(***************************************************************************)
EXTENDS Units

CONSTANTS driver, mount, setup, app

MCSystemUnits == <<driver, mount, setup>>
MCUserUnits == <<app>>
=============================================================================
