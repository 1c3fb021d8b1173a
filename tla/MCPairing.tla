----------------------------- MODULE MCPairing -----------------------------
(***************************************************************************)
(* A tool beside the daemon; a peer, its id with another key, another peer *)
(* only the tool trusts, and this device's own document.  The code of one  *)
(* generated identity tells the two keys apart, the other's does not.      *)
(***************************************************************************)
EXTENDS Pairing

CONSTANTS d, t1

MCKeys == {1, 2, 11, 12, 13}
MCBadKeys == {99}
MCProcs == {d, t1}
MCTools == {t1}
MCGenerated == {<<"me", 1>>, <<"me2", 2>>}

(* The hash, with one clash: identity 1 with key 11 and with key 12. *)
MCDigest(triples) ==
    LET keys == {triples[1][2], triples[2][2]}
    IN IF keys = {1, 12} THEN 2000111
       ELSE 3000000 + 100 * triples[1][2] + triples[2][2]

Peer(key) == TrustedPeerIdentity("peer", DefaultName, key, {"pointer"})
Other == TrustedPeerIdentity("other", DefaultName, 13, {"pointer"})
Own == TrustedPeerIdentity("me", DefaultName, 1, {"pointer"})
MCPeerRecords == {Peer(11), Peer(12), Other, Own}
MCToolRecords == {Other}

DocumentOf(r) == from_device_identity(r, r.caps)
Forged == [DocumentOf(Peer(12)) EXCEPT !.fingerprint = fingerprint_for_public_key(11)]
MCDocuments == {DocumentOf(r) : r \in {Peer(11), Peer(12), Own}} \cup {Forged}

NewerFile == [StoredIdentity("me", 1) EXCEPT !.version = 2]
MCLoads == {MISSING, StoredIdentity("me", 1), NewerFile}
=============================================================================
