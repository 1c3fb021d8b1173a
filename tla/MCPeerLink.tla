----------------------------- MODULE MCPeerLink -----------------------------
(* PeerLink with one key, so that it can be pressed, lifted and pressed again,
   and a connection that buffers the prelude. *)
EXTENDS PeerLink

=============================================================================
