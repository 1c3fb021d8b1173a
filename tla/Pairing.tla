------------------------------- MODULE Pairing -------------------------------
(***************************************************************************)
(* Pairing in the daemon: pairing.start shows the code of a document and   *)
(* remembers it in memory, pairing.accept saves the peer when the code the *)
(* user confirmed is the remembered one, pairing.reject forgets it.  The   *)
(* daemon answers one request at a time; the desktop application and       *)
(* akrazctl change the identity file behind it.  (The peer listener only   *)
(* reads the file.)                                                        *)
(***************************************************************************)
EXTENDS IdentityStore

CONSTANTS Daemon,     \* the daemon's IPC thread
          Tools,      \* runs of akrazctl and of the desktop application
          ToolRecords,\* the records a tool may be told to trust
          Documents   \* what a user may paste or discovery may offer

ASSUME PairingAssumption ==
    /\ Procs = {Daemon} \cup Tools /\ Daemon \notin Tools
    /\ ToolRecords \subseteq PeerRecords
    /\ \A r \in ToolRecords : into_trusted_peer_ok(r)
    /\ \A doc \in Documents : IsValidDocument(doc) => into_trusted_peer_identity(doc) \in PeerRecords

(* The codes confirmed are counted from the start of the run: the peers that
   an earlier run left in the file pass for records a tool was told to trust. *)
ASSUME EarlierPeersAssumption == \A f \in Loads : Readable(f) => f.trusted \subseteq ToolRecords

VARIABLES pending,    \* pending_pairings: device id to record and code
          asked,      \* the pairing request being answered
          shown,      \* every record shown, with its code, and not rejected in this
                      \* life of the daemon (history)
          confirmed   \* what of it users confirmed (history)

vars == <<storeVars, pending, asked, shown, confirmed>>
pairingVars == <<pending, asked, shown, confirmed>>

PeerIds == {r.id : r \in PeerRecords}
WithId(id) == CHOOSE r \in PeerRecords : r.id = id
CodeFor(me, r) == pairing_verification_code(DeviceIdentity(me[1], DefaultName, me[2]), r)
NotAsked == [request |-> "none", doc |-> NONE, code |-> NONE]

TypeOK ==
    /\ StoreTypeOK
    /\ \A id \in PeerIds : pending[id] # NONE => pending[id].peer.id = id
    /\ asked.request \in {"none", "start", "accept"}

Init ==
    /\ StoreInit
    /\ pending = [id \in PeerIds |-> NONE]
    /\ asked = NotAsked
    /\ shown = {} /\ confirmed = {}

----
(* Requests that only read: session.discoveryCandidates lists the peers,
   session.connect looks one up. *)
DaemonReads ==
    /\ \/ Start(Daemon, [kind |-> "list", load |-> TRUE, peer |-> NONE])
       \/ \E id \in PeerIds : Start(Daemon, [kind |-> "lookup", load |-> TRUE, peer |-> WithId(id)])
    /\ UNCHANGED pairingVars

PairingStart(doc) ==
    /\ Start(Daemon, [kind |-> "pair", load |-> TRUE, peer |-> NONE])
    /\ asked' = [request |-> "start", doc |-> doc, code |-> NONE]
    /\ UNCHANGED <<pending, shown, confirmed>>

(* start_pairing once the local identity is loaded *)
PairingShown ==
    /\ pc[Daemon] = "using" /\ op[Daemon].kind = "pair"
    /\ LET doc == asked.doc
           peer == into_trusted_peer_identity(doc)
           me == CHOOSE d \in identities : TRUE
           entry == [peer |-> peer, code |-> CodeFor(me, peer)]
       IN IF IsValidDocument(doc) /\ peer.id # me[1]
          THEN pending' = [pending EXCEPT ![peer.id] = entry] /\ shown' = shown \cup {entry}
          ELSE UNCHANGED <<pending, shown>>
    /\ Done(Daemon)
    /\ asked' = NotAsked
    /\ UNCHANGED <<file, drawn, identities, overlapped, confirmed>>

(* Mutant: accept_pairing takes whatever is pending for the device. *)
AcceptsAny(id, code) == pending[id] # NONE

Accepts(id, code) == pending[id] # NONE /\ pending[id].code = code

(* The user confirms the code of some document; it need not be the one that
   pairing.start showed last.  It stands for every record of the device that
   was shown with this code. *)
PairingAccept(id, code) ==
    /\ Idle(Daemon)
    /\ confirmed' = confirmed \cup {e \in shown : e.peer.id = id /\ e.code = code}
    /\ IF Accepts(id, code)
         THEN /\ Start(Daemon, [kind |-> "trust", load |-> TRUE, peer |-> pending[id].peer])
              /\ asked' = [request |-> "accept", doc |-> NONE, code |-> code]
         ELSE UNCHANGED <<storeVars, asked>>
    /\ UNCHANGED <<pending, shown>>

PairingReject(id) ==
    /\ Idle(Daemon)
    /\ pending[id] # NONE
    /\ pending' = [pending EXCEPT ![id] = NONE]
    /\ shown' = {e \in shown : e.peer.id # id}
    /\ UNCHANGED <<storeVars, asked, confirmed>>

(* accept_pairing forgets the pending pairing once the peer is saved. *)
RemovePending(id, code) ==
    IF pending[id] # NONE /\ pending[id].code = code
    THEN [pending EXCEPT ![id] = NONE] ELSE pending

(* A step of the request's file operation. *)
DaemonProceeds ==
    /\ Proceed(Daemon)
    /\ asked' = IF pc'[Daemon] = "idle" THEN NotAsked ELSE asked
    /\ UNCHANGED <<pending, shown, confirmed>>

DaemonSaves ==
    /\ Write(Daemon)
    /\ pending' = RemovePending(op[Daemon].peer.id, asked.code)
    /\ asked' = NotAsked
    /\ UNCHANGED <<shown, confirmed>>

----
(* akrazctl lists and forgets without loading the identity; the desktop
   application always loads it first. *)
ToolAsks(t) ==
    /\ \/ Start(t, [kind |-> "show", load |-> TRUE, peer |-> NONE])
       \/ \E load \in BOOLEAN : Start(t, [kind |-> "list", load |-> load, peer |-> NONE])
       \/ \E load \in BOOLEAN, id \in PeerIds :
            Start(t, [kind |-> "forget", load |-> load, peer |-> WithId(id)])
       \/ \E r \in ToolRecords : Start(t, [kind |-> "trust", load |-> TRUE, peer |-> r])
    /\ UNCHANGED pairingVars

ToolProceeds(t) ==
    /\ Proceed(t) \/ Write(t)
    /\ UNCHANGED pairingVars

ToolDies(t) == Killed(t) /\ UNCHANGED pairingVars

(* The daemon's process dies, and the pending pairings with it. *)
DaemonDies ==
    /\ overlapped' = (overlapped \/ pc[Daemon] \in {"filling", "writing"})
    /\ Done(Daemon)
    /\ pending' = [id \in PeerIds |-> NONE]
    /\ asked' = NotAsked
    /\ shown' = {}
    /\ UNCHANGED <<file, drawn, identities, confirmed>>

Next ==
    \/ DaemonReads \/ DaemonProceeds \/ DaemonSaves \/ DaemonDies
    \/ \E doc \in Documents : PairingStart(doc)
    \/ PairingShown
    \/ \E me \in identities, r \in PeerRecords : PairingAccept(r.id, CodeFor(me, r))
    \/ \E id \in PeerIds : PairingReject(id)
    \/ \E t \in Tools : ToolAsks(t) \/ ToolProceeds(t) \/ ToolDies(t)

Spec == Init /\ [][Next]_vars

----
(* Trust is confirmed: a record in the file was given to a tool, or it is
   another device's, pairing.start had shown it with its code, not rejected it
   since, and a user confirmed that very code for its id.  A code identifies a
   record only up to six digits: of the records shown under one id with one
   code, accept saves the one shown last, whichever the user looked at.  The
   record can be read back. *)
Confirmed(r) ==
    \/ r \in ToolRecords
    \/ \E me \in identities :
           r.id # me[1] /\ [peer |-> r, code |-> CodeFor(me, r)] \in confirmed

TrustIsConfirmed == \A r \in TrustedNow : Confirmed(r) /\ into_trusted_peer_ok(r)
=============================================================================
