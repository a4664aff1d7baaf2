--------------------------- MODULE MCAvatarUpload ---------------------------
(* Instances of AvatarUpload for TLC. *)
EXTENDS AvatarUpload, TLC
=============================================================================
