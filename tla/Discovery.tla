------------------------------ MODULE Discovery ------------------------------
(***************************************************************************)
(* mDNS discovery: the TXT record a device advertises and how another one  *)
(* reads it, the worker thread that folds the library's events into a map  *)
(* and publishes it, and the candidates the daemon builds from the         *)
(* published peers and the trusted ones.  Text is a body as in             *)
(* IdentityDocument; some bodies hold blanks or control characters.        *)
(***************************************************************************)
EXTENDS IdentityDocument, Sequences, SequencesExt

CONSTANTS Fullnames,     \* DNS-SD instance names, in any case
          Lower,         \* to_ascii_lowercase on them
          Spaced,        \* bodies with a blank inside
          Control,       \* bodies with a control character
          Announcements, \* resolved services: TXT entries, host, port, addresses
          MaxEvents,     \* bound on the library's undelivered events
          NONE

ASSUME DiscoveryAssumption ==
    /\ Lower \in [Fullnames -> Fullnames] /\ MaxEvents \in Nat
    /\ "0.1.0" \notin Spaced \cup Control
    /\ NONE \notin Keys /\ NONE \notin {fingerprint_for_public_key(k) : k \in Keys}

Capabilities == {"pointer", "keyboard", "clipboard", "screen-layout"}
PeerCapabilities == {"pointer", "keyboard"}
TxtVersion == 1

----
(* DiscoveryTxtRecord::from_device_identity and build_discovery_txt_record:
   a TXT entry is <<key, value>>. *)
Plain(body) == [body |-> body, padded |-> FALSE]

build_discovery_txt_record(d, caps, build) ==
    LET doc == from_device_identity(d, caps)
    IN {<<"v", TxtVersion>>, <<"id", doc.id>>, <<"caps", doc.caps>>, <<"build", Plain(build)>>,
        <<"name", doc.name>>, <<"pk", doc.key>>, <<"fp", doc.fingerprint>>}

Field(entries, k) == (CHOOSE e \in entries : e[1] = k)[2]
Has(entries, k) == \E e \in entries : e[1] = k

IsToken(t) == Trim(t) # "" /\ Trim(t) \notin Spaced \cup Control

(* parse_capabilities turns away an empty list and an unknown name. *)
IsCapabilityList(names) == names # {} /\ names \subseteq Capabilities \cup {"screen_layout"}
CapabilityFlags(names) ==
    {IF n = "screen_layout" THEN "screen-layout" ELSE n : n \in names}

ParsesTxt(entries) ==
    /\ \A e, f \in entries : e[1] = f[1] => e = f
    /\ \A k \in {"v", "id", "caps", "build"} : Has(entries, k)
    /\ Field(entries, "v") = TxtVersion
    /\ IsToken(Field(entries, "id"))
    /\ IsCapabilityList(Field(entries, "caps"))
    /\ IsToken(Field(entries, "build"))
    /\ Has(entries, "name") => Trim(Field(entries, "name")) \notin Control

Optional(entries, k) == IF Has(entries, k) THEN Field(entries, k) ELSE NONE

parse_discovery_txt_record(entries) ==
    [id |-> Trim(Field(entries, "id")),
     name |-> IF Has(entries, "name") /\ Trim(Field(entries, "name")) # ""
              THEN Trim(Field(entries, "name")) ELSE NONE,
     key |-> Optional(entries, "pk"),
     fingerprint |-> Optional(entries, "fp"),
     caps |-> CapabilityFlags(Field(entries, "caps"))]

IsEndpoint(a) == a.host # "" /\ a.port # 0 /\ a.addresses # {}

IsDiscoverable(a) == ParsesTxt(a.entries) /\ IsEndpoint(a)

(* discovered_peer_from_resolved_service *)
DiscoveredPeer(fullname, a) ==
    [instance |-> fullname, host |-> a.host, port |-> a.port, addresses |-> a.addresses,
     txt |-> parse_discovery_txt_record(a.entries)]

----
(* DiscoveryPeerFilter::accept with the daemon's filter *)

Kept(local, peer) ==
    /\ peer.txt.id # local
    /\ PeerCapabilities \subseteq peer.txt.caps
    /\ IsEndpoint(peer)

CandidateName(peer, trusted) ==
    IF Find(trusted, peer.txt.id) # {} THEN (CHOOSE t \in Find(trusted, peer.txt.id) : TRUE).name
    ELSE IF peer.txt.name # NONE THEN peer.txt.name ELSE peer.instance

(* discovery_pairing_document: only a document that validates is offered. *)
OfferedDocument(peer, trusted) ==
    LET doc == WireDocument(Plain(peer.txt.id), Plain(CandidateName(peer, trusted)),
                            peer.txt.key, peer.txt.fingerprint, peer.txt.caps)
    IN IF Find(trusted, peer.txt.id) = {} /\ peer.txt.key # NONE /\ peer.txt.fingerprint # NONE
          /\ IsValidDocument(doc)
       THEN doc ELSE NONE

discovery_session_candidate(peer, trusted) ==
    LET known == Find(trusted, peer.txt.id)
        doc == OfferedDocument(peer, trusted)
    IN [id |-> peer.txt.id,
        name |-> CandidateName(peer, trusted),
        fingerprint |-> IF known # {} THEN (CHOOSE t \in known : TRUE).fingerprint
                        ELSE IF doc # NONE THEN doc.fingerprint ELSE NONE,
        document |-> doc,
        trusted |-> known # {}]

Candidates(local, shownPeers, trusted) ==
    {discovery_session_candidate(p, trusted) : p \in {q \in shownPeers : Kept(local, q)}}

(* probe_manual_peer_session_candidate: the same for a document that a peer
   at a typed address sent. *)
ManualKept(local, doc) ==
    /\ IsValidDocument(doc)
    /\ Trim(doc.id) # local
    /\ PeerCapabilities \subseteq doc.caps

ManualCandidate(doc, trusted) ==
    LET peer == into_trusted_peer_identity(doc)
        known == Find(trusted, peer.id)
        best == IF known # {} THEN CHOOSE t \in known : TRUE ELSE peer
    IN [id |-> peer.id, name |-> best.name, fingerprint |-> best.fingerprint,
        document |-> IF known = {} THEN doc ELSE NONE, trusted |-> known # {}]

----
VARIABLES events,     \* the library's channel
          peers,      \* MdnsDiscoveryRuntime.peers
          published,  \* SharedDiscoveredPeers
          discovering,\* the worker: "off", "on", "stopping"
          onAir       \* what each service last announced validly, NONE when withdrawn

discoveryVars == <<events, peers, published, discovering, onAir>>

Shown(map) == {map[f] : f \in Fullnames} \ {NONE}

DiscoveryTypeOK ==
    /\ Len(events) <= MaxEvents
    /\ discovering \in {"off", "on", "stopping"}
    /\ \A f \in Fullnames : peers[f] # NONE => peers[f].instance = f /\ IsEndpoint(peers[f])

DiscoveryInit ==
    /\ events = <<>>
    /\ peers = [f \in Fullnames |-> NONE]
    /\ published = {}
    /\ discovering = "off"
    /\ onAir = [f \in Fullnames |-> NONE]

(* The network, through the library: a service is resolved under its name in
   lower case, and removed under the name it was announced with. *)
Announce(f, a) ==
    /\ discovering # "off" /\ Len(events) < MaxEvents
    /\ f = Lower[f]
    /\ events' = Append(events, [kind |-> "resolved", fullname |-> f, service |-> a])
    /\ onAir' = IF IsDiscoverable(a) THEN [onAir EXCEPT ![f] = DiscoveredPeer(f, a)] ELSE onAir
    /\ UNCHANGED <<peers, published, discovering>>

Withdraw(f) ==
    /\ discovering # "off" /\ Len(events) < MaxEvents
    /\ events' = Append(events, [kind |-> "removed", fullname |-> f, service |-> NONE])
    /\ onAir' = [onAir EXCEPT ![Lower[f]] = NONE]
    /\ UNCHANGED <<peers, published, discovering>>

(* Mutant: a removal deletes only the name it carries. *)
ApplyEventExactly(map, e) ==
    IF e.kind = "removed" THEN [map EXCEPT ![e.fullname] = NONE]
    ELSE IF IsDiscoverable(e.service)
    THEN [map EXCEPT ![e.fullname] = DiscoveredPeer(e.fullname, e.service)]
    ELSE map

apply_event(map, e) ==
    IF e.kind = "removed"
    THEN [f \in Fullnames |-> IF f \in {e.fullname, Lower[e.fullname]} THEN NONE ELSE map[f]]
    ELSE IF IsDiscoverable(e.service)
    THEN [map EXCEPT ![e.fullname] = DiscoveredPeer(e.fullname, e.service)]
    ELSE map

StartDiscovery ==
    /\ discovering = "off"
    /\ discovering' = "on"
    /\ UNCHANGED <<events, peers, published, onAir>>

(* poll_snapshot takes the events one by one until the channel is empty; then
   the result replaces the published list, once more when the stop comes
   during the wait.  An event that comes in between is one that comes later. *)
ReadEvent ==
    /\ discovering # "off" /\ events # <<>>
    /\ peers' = apply_event(peers, Head(events))
    /\ events' = Tail(events)
    /\ UNCHANGED <<published, discovering, onAir>>

PublishSnapshot ==
    /\ discovering # "off" /\ events = <<>>
    /\ published' = Shown(peers)
    /\ UNCHANGED <<events, peers, discovering, onAir>>

StopDiscovery ==
    /\ discovering = "on"
    /\ discovering' = "stopping"
    /\ UNCHANGED <<events, peers, published, onAir>>

(* The worker leaves its loop, shuts the library down and clears the list. *)
ClearDiscovery ==
    /\ discovering = "stopping"
    /\ published' = {}
    /\ discovering' = "off"
    /\ events' = <<>>
    /\ peers' = [f \in Fullnames |-> NONE]
    /\ onAir' = [f \in Fullnames |-> NONE]

DiscoveryStep ==
    \/ \E f \in Fullnames, a \in Announcements : Announce(f, a)
    \/ \E f \in Fullnames : Withdraw(f)
    \/ StartDiscovery \/ ReadEvent \/ PublishSnapshot \/ StopDiscovery \/ ClearDiscovery

----
(* Drained: once the worker has read every event, the map holds exactly what
   each service last announced validly.  A later announcement that does not
   parse leaves the older record in place. *)
DrainedFollowsAir == events = <<>> => peers = onAir

(* What discovery offers for pairing, pairing.start takes: the document is
   valid and not this device's own, whatever is trusted meanwhile. *)
OffersArePairable(local, trustedSets) ==
    \A trusted \in trustedSets : \A c \in Candidates(local, published, trusted) :
        c.document # NONE =>
            IsValidDocument(c.document) /\ into_trusted_peer_identity(c.document).id # local

(* What a device makes of itself: an id that is a token, and a key. *)
IsDevice(d) ==
    /\ d.id # "" /\ d.id \notin Spaced \cup Control
    /\ d.key \in Keys /\ d.fingerprint = fingerprint_for_public_key(d.key)

(* Two devices that discover each other show the same code: the record one
   advertises is parsed, filtered, offered as a document and validated by
   the other without changing what the code is made of.  Only a name with a
   control character keeps a device from being discovered. *)
Advertised(d) ==
    [entries |-> build_discovery_txt_record(d, PeerCapabilities, "0.1.0"),
     host |-> "host", port |-> 1, addresses |-> {"ip"}]

SeenBy(me, d) ==
    {into_trusted_peer_identity(c.document) :
        c \in Candidates(me.id, {DiscoveredPeer("any", Advertised(d))}, {})}

CodesAgreeFor(devices) ==
    \A a, b \in devices :
        /\ ParsesTxt(Advertised(a).entries) <=> a.name \notin Control
        /\ a.id # b.id /\ a.key # b.key /\ {a.name, b.name} \cap Control = {} =>
             /\ SeenBy(b, a) # {}
             /\ \A pa \in SeenBy(b, a), pb \in SeenBy(a, b) :
                   pairing_verification_code(a, pb) = pairing_verification_code(b, pa)
=============================================================================
