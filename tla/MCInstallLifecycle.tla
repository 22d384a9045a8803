------------------------- MODULE MCInstallLifecycle -------------------------
(***************************************************************************)
(* One install and one other operation: the install may be the only        *)
(* receiver of force_stop, one of two, or none at all.                     *)
(***************************************************************************)
EXTENDS InstallLifecycle
=============================================================================
