-------------------------- MODULE MCSessionRouting --------------------------
(***************************************************************************)
(* A session of each host, which may share a workspace, and an Epic that   *)
(* either may attach to it behind the other's back.                        *)
(***************************************************************************)
EXTENDS SessionRouting

=============================================================================
