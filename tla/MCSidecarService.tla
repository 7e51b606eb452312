-------------------------- MODULE MCSidecarService --------------------------
(***************************************************************************)
(* A small instance of SidecarService for TLC.                             *)
(***************************************************************************)
EXTENDS SidecarService
=============================================================================
