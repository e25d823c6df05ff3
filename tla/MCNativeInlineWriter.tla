------------------------ MODULE MCNativeInlineWriter ------------------------
(* The instances of NativeInlineWriter that TLC checks.                     *)
EXTENDS NativeInlineWriter

MCValues == Writers \cup Clients
=============================================================================
