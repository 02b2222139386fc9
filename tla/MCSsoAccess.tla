---------------------------- MODULE MCSsoAccess ----------------------------
(* Small instances of SsoAccess for TLC. *)
EXTENDS SsoAccess

CONSTANT u1

\* All connections belong to one user.
OneOwner == [c \in Conn |-> u1]
=============================================================================
