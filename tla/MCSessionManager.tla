-------------------------- MODULE MCSessionManager --------------------------
(* Two peers: b may run an older build or the next major version, c the same
   as this device. *)
EXTENDS SessionManager

MCVersion == ProtocolVersion(1, 5)
MCMe      == [id |-> "a", key |-> "a", version |-> MCVersion, caps |-> {"pointer", "keyboard"}]
MCPeers   == {"b", "c"}
MCBuilds  == [p \in MCPeers |->
                IF p = "b" THEN {MCVersion, ProtocolVersion(1, 4), ProtocolVersion(2, 0)}
                ELSE {MCVersion}]
MCPeerCaps  == {"pointer", "keyboard"}
MCOlderCaps == {"pointer"}

(* At first the peers are trusted on both sides, with the capabilities they
   have, or b with those it once had; the one address is that of b. *)
MCInit ==
    /\ Init
    /\ trusted["c"] = PeerCaps /\ theirs = MCPeers
    /\ \/ trusted["b"] = PeerCaps
       \/ trusted["b"] = OlderCaps /\ builds["b"] = MCVersion
    /\ at = [x |-> "b"]

(* Other devices come only while b is as c is and nothing has changed: what
   they do is keep a listener. *)
Quiet == builds["b"] = MCVersion /\ trusted["b"] = PeerCaps /\ "b" \in theirs /\ changes = 0

MCNext == Next /\ (Made(FALSE)' # {} => Quiet')

MCSpec == MCInit /\ [][MCNext]_vars /\ Fairness
=============================================================================
