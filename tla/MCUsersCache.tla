----------------------------- MODULE MCUsersCache -----------------------------
(* Instance of UsersCache for TLC. *)
EXTENDS UsersCache, TLC
=============================================================================
