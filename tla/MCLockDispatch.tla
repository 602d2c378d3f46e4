--------------------------- MODULE MCLockDispatch ---------------------------
(* LockDispatch for TLC; Lock.cfg gives its constants their values. *)
EXTENDS LockDispatch
=============================================================================
