--------------------------- MODULE MCCaptureDaemon ---------------------------
(* CaptureDaemon with the chord and the panic key, which without the chord is
   a key like any other. *)
EXTENDS CaptureDaemon

=============================================================================
