-------------------------- MODULE IdentityDocument --------------------------
(***************************************************************************)
(* The public identity of a device in akraz-identity: fingerprints, the    *)
(* pairing document one device shows another, its validation, the code two *)
(* users compare, and the two records of the identity file.  A public key  *)
(* is the natural number its bytes spell; base64 text that is no key is    *)
(* one of BadKeys.  A fingerprint stands for its key; of the hash behind   *)
(* the code only six decimal digits are kept, so different peers may have  *)
(* one code.                                                               *)
(***************************************************************************)
EXTENDS Naturals, FiniteSets

CONSTANTS Keys,      \* public keys that decode to a curve point
          BadKeys,   \* texts that are not base64, have another length, or are no point
          Digest(_)  \* the first four bytes of the blake3 hash of two triples, as a number

ASSUME KeyAssumption == Keys \subseteq Nat /\ Keys \cap BadKeys = {}

DefaultName == "Akraz Device"
DocumentKind == "akraz.peerIdentity"
DocumentVersion == 1

(* Raw text is a body that may be surrounded by blanks. *)
Text(bodies) == [body : bodies, padded : BOOLEAN]
Trim(t) == t.body

normalize_display_name(t) == IF Trim(t) = "" THEN DefaultName ELSE Trim(t)

fingerprint_for_public_key(key) == <<"AKRZ", key>>

(* What a device knows of itself, and what it keeps of a peer. *)
DeviceIdentity(id, name, key) ==
    [id |-> id, name |-> name, key |-> key, fingerprint |-> fingerprint_for_public_key(key)]
TrustedPeerIdentity(id, name, key, caps) ==
    [id |-> id, name |-> name, key |-> key,
     fingerprint |-> fingerprint_for_public_key(key), caps |-> caps]

----
PAIRING_VERIFICATION_CODE_MODULUS == 1000000

(* Six digits of the hash of both triples, the smaller key first. *)
Component(d) == <<d.id, d.key, d.fingerprint>>

pairing_verification_code(local, peer) ==
    Digest(IF local.key <= peer.key THEN <<Component(local), Component(peer)>>
                                    ELSE <<Component(peer), Component(local)>>)
        % PAIRING_VERIFICATION_CODE_MODULUS

----
(* PairingIdentityDocument *)
from_device_identity(d, caps) ==
    [kind |-> DocumentKind, version |-> DocumentVersion, id |-> [body |-> d.id, padded |-> FALSE],
     name |-> [body |-> d.name, padded |-> FALSE], key |-> d.key,
     fingerprint |-> d.fingerprint, caps |-> caps]

IsValidDocument(doc) ==
    /\ doc.kind = DocumentKind /\ doc.version = DocumentVersion
    /\ Trim(doc.id) # ""
    /\ doc.key \in Keys
    /\ doc.fingerprint = fingerprint_for_public_key(doc.key)

into_trusted_peer_identity(doc) ==
    TrustedPeerIdentity(Trim(doc.id), normalize_display_name(doc.name), doc.key, doc.caps)

(* from_public_wire_fields: the document discovery offers for pairing *)
WireDocument(id, name, key, fingerprint, caps) ==
    [kind |-> DocumentKind, version |-> DocumentVersion, id |-> [body |-> Trim(id), padded |-> FALSE],
     name |-> [body |-> normalize_display_name(name), padded |-> FALSE],
     key |-> key, fingerprint |-> fingerprint, caps |-> caps]

----
(* StoredIdentityFile and StoredTrustedPeerFile.  Only load_or_create looks
   at the version and at the local key. *)
IdentityStoreVersion == 1

StoredIdentity(id, key) ==
    [version |-> IdentityStoreVersion, id |-> id, secret |-> key, public |-> key,
     fingerprint |-> fingerprint_for_public_key(key), trusted |-> {}]

(* Mutant: the version is not looked at. *)
StoredIdentityOkAnyVersion(f) ==
    f.public = f.secret /\ f.fingerprint = fingerprint_for_public_key(f.public)

into_stored_identity_ok(f) ==
    /\ f.version = IdentityStoreVersion
    /\ f.public = f.secret
    /\ f.fingerprint = fingerprint_for_public_key(f.public)

into_trusted_peer_ok(p) ==
    p.key \in Keys /\ p.fingerprint = fingerprint_for_public_key(p.key)

Find(trusted, id) == {p \in trusted : p.id = id}

(* Mutant: the record is added beside the one it should replace. *)
AddPeer(trusted, peer) == trusted \cup {peer}

UpsertPeer(trusted, peer) == {p \in trusted : p.id # peer.id} \cup {peer}
=============================================================================
