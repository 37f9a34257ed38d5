------------------------------ MODULE AccessMC ------------------------------
(***************************************************************************)
(* A throttle at the second wrong password, and a session that outlives    *)
(* the window.  The stranger guesses from the address of the dashboard, as *)
(* behind one proxy, where the right passwords of the one help the other.  *)
(***************************************************************************)
EXTENDS Access

CONSTANTS home, away

OneAddress == {home}
TwoAddresses == {home, away}
=============================================================================
