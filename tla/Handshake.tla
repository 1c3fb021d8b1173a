------------------------------ MODULE Handshake ------------------------------
(***************************************************************************)
(* The authenticated prelude of a peer session: what the initiator writes  *)
(* in one go (it waits for no answer), and what the listener makes of it.  *)
(* A signature is the pair of the key and the transcript it signs: it      *)
(* verifies for exactly these (Ed25519 over the canonical bytes, whose     *)
(* length-prefixed fields keep two transcripts apart).                     *)
(***************************************************************************)
EXTENDS Naturals, Sequences

ProtocolVersion(major, minor) == [major |-> major, minor |-> minor]

IsCompatible(a, b) == a.major = b.major

(* AuthTranscript.  Before TLS the listener contributes no nonce and there is
   no exporter: both are constants of the build and left out. *)
AuthTranscript(localId, remoteId, nonce, version, localCaps, remoteCaps, role) ==
    [local |-> localId, remote |-> remoteId, nonce |-> nonce, protocol |-> version,
     localCaps |-> localCaps, remoteCaps |-> remoteCaps, role |-> role]

InitiatorTranscript(localId, remoteId, nonce, version, localCaps, remoteCaps) ==
    AuthTranscript(localId, remoteId, nonce, version, localCaps, remoteCaps, "Initiator")

Sign(key, transcript) == <<key, transcript>>
Verifies(key, transcript, signature) == signature = <<key, transcript>>

Hello(version, id, peer, nonce, caps) ==
    [kind |-> "hello", protocol |-> version, device |-> id, peer |-> peer,
     nonce |-> nonce, caps |-> caps]
AuthProof(id, role, signature) ==
    [kind |-> "authProof", device |-> id, role |-> role, signature |-> signature]
SessionReady(caps) == [kind |-> "sessionReady", sequenceBase |-> 0, caps |-> caps]

(* connect_authenticated: me is [id, key, version, caps], the record is what
   the store keeps of the peer: [id, key, caps]. *)
Prelude(me, record, nonce) ==
    LET transcript == InitiatorTranscript(me.id, record.id, nonce, me.version, me.caps, record.caps)
    IN <<Hello(me.version, me.id, record.id, nonce, me.caps),
         AuthProof(me.id, "Initiator", Sign(me.key, transcript)),
         SessionReady(me.caps \cap record.caps)>>

----
(* The listener, a device with the records it trusts.  The identity store is
   asked for the sender when the hello has been read. *)
AcceptsHello(device, frame) ==
    /\ frame.kind = "hello"
    /\ IsCompatible(device.version, frame.protocol)

Resolved(frame, records) == {r \in records : r.id = frame.device}

(* Mutant: the listener takes its own id from the hello. *)
TranscriptAsAddressed(device, frame) ==
    InitiatorTranscript(frame.device, frame.peer, frame.nonce, device.version,
                        frame.caps, device.caps)

(* The listener signs over its own id, version and capabilities, and the
   sender's as the hello names them. *)
ListenerTranscript(device, frame) ==
    InitiatorTranscript(frame.device, device.id, frame.nonce, device.version,
                        frame.caps, device.caps)

AcceptsProof(device, hello, proof, record) ==
    LET transcript == ListenerTranscript(device, hello)
    IN /\ proof.kind = "authProof"
       /\ proof.device = record.id
       /\ proof.role = "Initiator" /\ transcript.role = "Initiator"
       /\ Verifies(record.key, transcript, proof.signature)

AcceptsReady(frame) == frame.kind = "sessionReady" /\ frame.sequenceBase = 0

Admits(device, records, prelude) ==
    /\ AcceptsHello(device, prelude[1])
    /\ \E r \in Resolved(prelude[1], records) :
          AcceptsProof(device, prelude[1], prelude[2], r)
    /\ AcceptsReady(prelude[3])
=============================================================================
