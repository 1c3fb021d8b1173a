---------------------------- MODULE PairingProofs ----------------------------
(***************************************************************************)
(* Proofs about pairing and the identity file: its types, one identity     *)
(* whatever the processes do, no peer in the file that was not shown with  *)
(* the code somebody confirmed, what is refused stays as it is, and the    *)
(* file implements the atomic store TrustStore until it is disturbed.      *)
(***************************************************************************)
EXTENDS Pairing, FiniteSetTheorems, TLAPS

Labels == {"idle", "loading", "creating", "filling", "reloading",
           "using", "truncating", "writing"}

(* What a process may be asked: who is trusted or forgotten is named, and the
   identity is loaded before a peer is trusted or shown a code. *)
Requests ==
    {o \in Op : /\ o.kind \in {"trust", "forget"} => o.peer \in PeerRecords
                /\ o.kind \in {"trust", "pair"} => o.load}

GoodFile(f) ==
    /\ f \in StoredFiles
    /\ OneRecordEach(f)
    /\ into_stored_identity_ok(f) => Given(f) \in Generated

Holding(p) == pc[p] \in {"filling", "truncating", "writing"}

(* What a process holds and what it does fit together. *)
HoldersFit ==
    \A p \in Procs :
        /\ Holding(p) => GoodFile(buf[p])
        /\ pc[p] = "filling" => into_stored_identity_ok(buf[p])
        /\ Updating(p) => op[p].kind \in {"trust", "forget"}
        /\ pc[p] = "using" => op[p].kind # "show"

StoreTypes ==
    /\ file \in {MISSING, EMPTY, GARBLED} \/ GoodFile(file)
    /\ pc \in [Procs -> Labels]
    /\ op \in [Procs -> Requests]
    /\ buf \in [Procs -> StoredFiles \cup {NONE}]
    /\ HoldersFit
    /\ drawn \subseteq Generated /\ identities \subseteq Generated
    /\ overlapped \in BOOLEAN

(* Where a copy comes from: no update changes these fields. *)
Origin(f) == <<f.version, f.id, f.public>>
Copies ==
    {Origin(f) : f \in {file} \ {MISSING, EMPTY, GARBLED}}
    \cup {Origin(buf[p]) : p \in {q \in Procs : Holding(q)}}
    \cup {<<IdentityStoreVersion, i[1], i[2]>> : i \in identities}

(* The file, every copy of it and every identity given out are one. *)
OneOrigin == \A a, b \in Copies : a = b

(* Nothing was copied or given out before the file exists, and its creator
   is alone with it until it has filled it. *)
CreatedOnce ==
    /\ file = MISSING => identities = {} /\ \A p \in Procs : ~Holding(p)
    /\ \A p \in Procs : pc[p] = "filling" =>
          /\ file = EMPTY /\ identities = {} /\ buf[p].trusted = {}
          /\ \A q \in Procs \ {p} : ~Holding(q)

(* Who loaded the identity first was given one. *)
LoadedFirst ==
    \A p \in Procs :
        op[p].load /\ (pc[p] = "using" \/ Updating(p)) => identities # {}

(* Until the file is disturbed one process updates it at a time, and the copy
   it is about to write is the file with its own change. *)
Undisturbed ==
    ~overlapped =>
        /\ \A p, q \in Procs : Updating(p) /\ Updating(q) => p = q
        /\ \A p \in Procs : pc[p] = "truncating" => Readable(file) /\ buf[p] = Changed(p)
        /\ \A p \in Procs : pc[p] = "writing" => file = EMPTY

(* The daemon's own state: what is pending was computed from a valid document
   and an identity given out, and it was shown. *)
Codes == {CodeFor(me, r) : me \in Generated, r \in PeerRecords}
Pending(e) ==
    /\ e \in shown
    /\ into_trusted_peer_ok(e.peer)
    /\ \E me \in identities : e.peer.id # me[1] /\ e.code = CodeFor(me, e.peer)

PairingTypes ==
    /\ pending \in [PeerIds -> [peer : PeerRecords, code : Codes] \cup {NONE}]
    /\ \A id \in PeerIds : pending[id] # NONE => pending[id].peer.id = id /\ Pending(pending[id])
    /\ asked.request \in {"none", "start", "accept"}
    /\ op[Daemon].kind = "pair" => asked.doc \in Documents

Good(r) == Confirmed(r) /\ into_trusted_peer_ok(r)

(* Every record that is in the file or on its way into it is confirmed. *)
OnlyConfirmed ==
    /\ Readable(file) => \A r \in file.trusted : Good(r)
    /\ \A p \in Procs : Holding(p) => \A r \in buf[p].trusted : Good(r)
    /\ \A p \in Procs : op[p].kind = "trust" => Good(op[p].peer)

IInv ==
    /\ StoreTypes /\ OneOrigin /\ CreatedOnce /\ LoadedFirst /\ Undisturbed
    /\ PairingTypes /\ OnlyConfirmed

----
(***************************************************************************)
(* What a step does to the file and to the process that takes it.          *)
(***************************************************************************)
AskedOps == {o \in Requests : o.kind = "show" => o.load}

Asks(p) == \E o \in AskedOps : Start(p, o) /\ (o.kind = "trust" => Good(o.peer)')

GivenIdentity(p) ==
    /\ pc[p] \in {"loading", "reloading"}
    /\ Readable(file) /\ into_stored_identity_ok(file)
    /\ Loaded(p, Given(file))
    /\ UNCHANGED <<file, drawn, overlapped>>

GoesOn(p) ==
    /\ pc[p] \in {"loading", "creating"}
    /\ \E l \in {"creating", "reloading"} : Goto(p, l)
    /\ UNCHANGED <<file, op, buf, drawn, identities, overlapped>>

Creates(p) ==
    /\ pc[p] = "creating" /\ file = MISSING
    /\ \E g \in Generated \ drawn :
          /\ drawn' = drawn \cup {g}
          /\ buf' = [buf EXCEPT ![p] = StoredIdentity(g[1], g[2])]
    /\ file' = EMPTY
    /\ Goto(p, "filling")
    /\ UNCHANGED <<op, identities, overlapped>>

Edits(p) ==
    /\ pc[p] = "using" /\ Readable(file)
    /\ op[p].kind \in {"trust", "forget"}
    /\ buf' = [buf EXCEPT ![p] = Changed(p)]
    /\ Goto(p, "truncating")
    /\ overlapped' = (overlapped \/ \E q \in Procs \ {p} : Updating(q))
    /\ UNCHANGED <<file, op, drawn, identities>>

Truncates(p) ==
    /\ pc[p] = "truncating" /\ file # MISSING
    /\ file' = EMPTY
    /\ Goto(p, "writing")
    /\ UNCHANGED <<op, buf, drawn, identities, overlapped>>

Leaves(p) ==
    /\ Done(p)
    /\ overlapped' \in {overlapped, TRUE}
    /\ pc[p] \in {"filling", "writing"} => overlapped'
    /\ UNCHANGED <<file, drawn, identities>>

StoreStep(p) ==
    \/ Asks(p) \/ GivenIdentity(p) \/ GoesOn(p) \/ Creates(p) \/ FillNew(p)
    \/ Edits(p) \/ Truncates(p) \/ Write(p) \/ WriteFails(p) \/ Leaves(p)

LEMMA ProceedSteps ==
    ASSUME StoreTypes, NEW p \in Procs, Proceed(p)
    PROVE  StoreStep(p)
<1>1. CASE LoadExisting(p)
  <2>1. CASE Readable(file) /\ into_stored_identity_ok(file)
    <3>1. GivenIdentity(p)
      BY <1>1, <2>1 DEF LoadExisting, GivenIdentity
    <3> QED BY <3>1 DEF StoreStep
  <2>2. CASE ~(Readable(file) /\ into_stored_identity_ok(file))
    <3>1. Leaves(p)
      BY <1>1, <2>2 DEF LoadExisting, Leaves
    <3> QED BY <3>1 DEF StoreStep
  <2> QED BY <2>1, <2>2
<1>2. CASE LoadMissing(p)
  <2>1. GoesOn(p)
    BY <1>2 DEF LoadMissing, GoesOn
  <2> QED BY <2>1 DEF StoreStep
<1>3. CASE CreateNew(p)
  <2>1. CASE file = MISSING
    <3>1. Creates(p)
      BY <1>3, <2>1 DEF CreateNew, WinsCreation, Creates
    <3> QED BY <3>1 DEF StoreStep
  <2>2. CASE file # MISSING
    <3>1. GoesOn(p)
      BY <1>3, <2>2 DEF CreateNew, WinsCreation, GoesOn
    <3> QED BY <3>1 DEF StoreStep
  <2> QED BY <2>1, <2>2
<1>4. CASE FillNew(p)
  BY <1>4 DEF StoreStep
<1>5. CASE Reload(p)
  <2>1. CASE Readable(file) /\ into_stored_identity_ok(file)
    <3>1. GivenIdentity(p)
      BY <1>5, <2>1 DEF Reload, GivenIdentity
    <3> QED BY <3>1 DEF StoreStep
  <2>2. CASE ~(Readable(file) /\ into_stored_identity_ok(file))
    <3>1. Leaves(p)
      BY <1>5, <2>2 DEF Reload, Leaves
    <3> QED BY <3>1 DEF StoreStep
  <2> QED BY <2>1, <2>2
<1>6. CASE Use(p)
  <2>1. CASE Rejected(p) \/ op[p].kind \in {"list", "lookup"}
    <3>1. Done(p) /\ pc[p] = "using" /\ UNCHANGED <<file, drawn, identities>>
      BY <1>6, <2>1 DEF Use
    <3>2. pc'[p] # "truncating"
      BY <3>1 DEF Done, StoreTypes
    <3>3. overlapped' = overlapped
      BY <1>6, <3>2 DEF Use, StoreTypes
    <3>4. Leaves(p)
      BY <3>1, <3>3 DEF Leaves
    <3> QED BY <3>4 DEF StoreStep
  <2>2. CASE ~(Rejected(p) \/ op[p].kind \in {"list", "lookup"})
    <3>1. pc[p] = "using" /\ op[p].kind # "pair" /\ op[p].kind # "show" /\ op[p] \in Requests
      BY <1>6 DEF Use, StoreTypes, HoldersFit
    <3>2. op[p].kind \in {"trust", "forget"} /\ Readable(file)
      BY <2>2, <3>1 DEF Rejected, Requests, Op, Kinds
    <3>3. /\ buf' = [buf EXCEPT ![p] = Changed(p)] /\ Goto(p, "truncating")
          /\ UNCHANGED <<file, op, drawn, identities>>
      BY <1>6, <2>2 DEF Use
    <3>4. pc'[p] = "truncating"
      BY <3>3 DEF Goto, StoreTypes
    <3>5. overlapped' = (overlapped \/ \E q \in Procs \ {p} : Updating(q))
      BY <1>6, <3>4 DEF Use
    <3>6. Edits(p)
      BY <3>1, <3>2, <3>3, <3>5 DEF Edits
    <3> QED BY <3>6 DEF StoreStep
  <2> QED BY <2>1, <2>2
<1>7. CASE Truncate(p)
  <2>1. CASE file = MISSING
    <3>1. Leaves(p)
      BY <1>7, <2>1 DEF Truncate, Leaves
    <3> QED BY <3>1 DEF StoreStep
  <2>2. CASE file # MISSING
    <3>1. Truncates(p)
      BY <1>7, <2>2 DEF Truncate, Truncates
    <3> QED BY <3>1 DEF StoreStep
  <2> QED BY <2>1, <2>2
<1>8. CASE WriteFails(p)
  BY <1>8 DEF StoreStep
<1> QED
  BY <1>1, <1>2, <1>3, <1>4, <1>5, <1>6, <1>7, <1>8 DEF Proceed

LEMMA WithIdIsRecord ==
    ASSUME NEW id \in PeerIds
    PROVE  WithId(id) \in PeerRecords /\ WithId(id).id = id
  BY DEF WithId, PeerIds

LEMMA ConfirmedGrows ==
    ASSUME [Next]_vars
    PROVE  confirmed \subseteq confirmed'
  BY DEF Next, vars, DaemonReads, DaemonProceeds, DaemonSaves, DaemonDies, PairingStart,
         PairingShown, PairingAccept, PairingReject, ToolAsks, ToolProceeds, ToolDies, pairingVars

(* What was confirmed stays confirmed. *)
LEMMA GoodStays ==
    ASSUME NEW r, Good(r), identities \subseteq identities', confirmed \subseteq confirmed'
    PROVE  Good(r)'
  BY DEF Good, Confirmed

(* A request that trusts nobody new is one of the requests. *)
LEMMA ReadsAreAsked ==
    ASSUME NEW o \in Op, o.kind \notin {"trust", "pair"}, o.kind = "show" => o.load,
           o.kind = "forget" => o.peer \in PeerRecords, NEW p \in Procs, Start(p, o)
    PROVE  StoreStep(p)
<1>1. o \in AskedOps
  BY DEF AskedOps, Requests
<1> QED BY <1>1 DEF Asks, StoreStep

LEMMA DaemonSteps ==
    ASSUME StoreTypes, PairingTypes,
           DaemonReads \/ DaemonDies \/ PairingShown \/ \E doc \in Documents : PairingStart(doc)
    PROVE  StoreStep(Daemon)
<1>0. Daemon \in Procs
  BY PairingAssumption
<1>1. CASE DaemonReads
  <2>1. CASE Start(Daemon, [kind |-> "list", load |-> TRUE, peer |-> NONE])
    <3>1. [kind |-> "list", load |-> TRUE, peer |-> NONE] \in Op
      BY DEF Op, Kinds
    <3> QED BY <3>1, <2>1, <1>0, ReadsAreAsked
  <2>2. ASSUME NEW id \in PeerIds,
               Start(Daemon, [kind |-> "lookup", load |-> TRUE, peer |-> WithId(id)])
        PROVE  StoreStep(Daemon)
    <3>1. [kind |-> "lookup", load |-> TRUE, peer |-> WithId(id)] \in Op
      BY WithIdIsRecord DEF Op, Kinds
    <3> QED BY <3>1, <2>2, <1>0, ReadsAreAsked
  <2> QED BY <1>1, <2>1, <2>2 DEF DaemonReads
<1>2. CASE DaemonDies
  <2>1. Leaves(Daemon)
    BY <1>2 DEF DaemonDies, Leaves, StoreTypes
  <2> QED BY <2>1 DEF StoreStep
<1>3. ASSUME NEW doc \in Documents, PairingStart(doc) PROVE StoreStep(Daemon)
  <2>1. PICK o \in AskedOps : o = [kind |-> "pair", load |-> TRUE, peer |-> NONE]
    BY DEF AskedOps, Requests, Op, Kinds
  <2>2. Start(Daemon, o) /\ o.kind # "trust"
    BY <1>3, <2>1 DEF PairingStart
  <2> QED BY <2>2 DEF Asks, StoreStep
<1>4. CASE PairingShown
  <2>1. Leaves(Daemon)
    BY <1>4 DEF PairingShown, Leaves, StoreTypes
  <2> QED BY <2>1 DEF StoreStep
<1> QED BY <1>1, <1>2, <1>3, <1>4

(* A confirmed code lets in a record that was shown with it. *)
LEMMA AcceptSteps ==
    ASSUME PairingTypes, confirmed \subseteq confirmed',
           NEW me, NEW r \in PeerRecords, PairingAccept(r.id, CodeFor(me, r))
    PROVE  UNCHANGED storeVars \/ StoreStep(Daemon)
<1>1. CASE Accepts(r.id, CodeFor(me, r))
  <2>1. PICK peer : peer = pending[r.id].peer
    OBVIOUS
  <2>2. r.id \in PeerIds
    BY DEF PeerIds
  <2>3. /\ peer \in PeerRecords /\ peer.id = r.id /\ Pending(pending[r.id])
        /\ pending[r.id] = [peer |-> peer, code |-> pending[r.id].code]
    BY <1>1, <2>1, <2>2 DEF Accepts, PairingTypes
  <2>4. PICK o \in AskedOps : o = [kind |-> "trust", load |-> TRUE, peer |-> peer]
    BY <2>3 DEF AskedOps, Requests, Op, Kinds
  <2>5. Start(Daemon, o)
    BY <1>1, <2>1, <2>4 DEF PairingAccept
  <2>6. pending[r.id] \in confirmed'
    BY <1>1, <2>1, <2>3 DEF PairingAccept, Accepts, Pending
  <2>7. PICK you \in identities :
           peer.id # you[1] /\ pending[r.id].code = CodeFor(you, peer)
    BY <2>1, <2>3 DEF Pending
  <2>8. you \in identities' /\ [peer |-> peer, code |-> CodeFor(you, peer)] \in confirmed'
    BY <2>3, <2>5, <2>6, <2>7 DEF Start
  <2>9. into_trusted_peer_ok(peer)
    BY <2>1, <2>3 DEF Pending
  <2>10. Good(peer)'
    BY <2>7, <2>8, <2>9 DEF Good, Confirmed
  <2>11. o.peer = peer
    BY <2>4
  <2>12. Good(o.peer)'
    BY <2>10, <2>11
  <2> QED BY <2>5, <2>12 DEF Asks, StoreStep
<1>2. CASE ~Accepts(r.id, CodeFor(me, r))
  BY <1>2 DEF PairingAccept
<1> QED BY <1>1, <1>2

LEMMA ToolSteps ==
    ASSUME StoreTypes, NEW t \in Tools, ToolAsks(t) \/ ToolProceeds(t) \/ ToolDies(t)
    PROVE  StoreStep(t)
<1>0. t \in Procs
  BY PairingAssumption
<1>1. ASSUME NEW load \in BOOLEAN, NEW id \in PeerIds, NEW kind \in {"list", "forget"},
             NEW peer \in {NONE, WithId(id)}, kind = "forget" => peer = WithId(id),
             Start(t, [kind |-> kind, load |-> load, peer |-> peer])
      PROVE  StoreStep(t)
  <2>1. /\ [kind |-> kind, load |-> load, peer |-> peer] \in Op
        /\ kind = "forget" => peer \in PeerRecords
    BY <1>1, WithIdIsRecord DEF Op, Kinds
  <2> QED BY <2>1, <1>0, <1>1, ReadsAreAsked
<1>2. CASE ToolAsks(t)
  <2>1. CASE Start(t, [kind |-> "show", load |-> TRUE, peer |-> NONE])
    <3>1. [kind |-> "show", load |-> TRUE, peer |-> NONE] \in Op
      BY DEF Op, Kinds
    <3> QED BY <3>1, <2>1, <1>0, ReadsAreAsked
  <2>2. ASSUME NEW load \in BOOLEAN, Start(t, [kind |-> "list", load |-> load, peer |-> NONE])
        PROVE  StoreStep(t)
    <3>1. [kind |-> "list", load |-> load, peer |-> NONE] \in Op
      BY DEF Op, Kinds
    <3> QED BY <3>1, <2>2, <1>0, ReadsAreAsked
  <2>3. ASSUME NEW load \in BOOLEAN, NEW id \in PeerIds,
               Start(t, [kind |-> "forget", load |-> load, peer |-> WithId(id)])
        PROVE  StoreStep(t)
    BY <1>1, <2>3
  <2>4. ASSUME NEW r \in ToolRecords, Start(t, [kind |-> "trust", load |-> TRUE, peer |-> r])
        PROVE  StoreStep(t)
    <3>1. PICK o \in AskedOps : o = [kind |-> "trust", load |-> TRUE, peer |-> r]
      BY PairingAssumption DEF AskedOps, Requests, Op, Kinds
    <3>2. Good(r)'
      BY PairingAssumption DEF Good, Confirmed
    <3>3. o.peer = r /\ Start(t, o)
      BY <3>1, <2>4
    <3>4. Good(o.peer)'
      BY <3>2, <3>3
    <3> QED BY <3>3, <3>4 DEF Asks, StoreStep
  <2> QED BY <1>2, <2>1, <2>2, <2>3, <2>4 DEF ToolAsks
<1>3. CASE ToolProceeds(t)
  BY <1>0, <1>3, ProceedSteps DEF ToolProceeds, StoreStep
<1>4. CASE ToolDies(t)
  <2>1. Leaves(t)
    BY <1>4, <1>0 DEF ToolDies, Killed, Leaves, StoreTypes
  <2> QED BY <2>1 DEF StoreStep
<1> QED BY <1>2, <1>3, <1>4

(* Every step leaves the file and the processes alone or is the step of one
   process. *)
LEMMA StoreSteps ==
    ASSUME StoreTypes, PairingTypes, [Next]_vars
    PROVE  UNCHANGED storeVars \/ \E p \in Procs : StoreStep(p)
<1>0. Daemon \in Procs /\ Tools \subseteq Procs
  BY PairingAssumption
<1>1. confirmed \subseteq confirmed'
  BY ConfirmedGrows
<1>2. CASE DaemonProceeds
  BY <1>0, <1>2, ProceedSteps DEF DaemonProceeds
<1>3. CASE DaemonSaves
  BY <1>0, <1>3 DEF DaemonSaves, StoreStep
<1>4. ASSUME NEW t \in Tools, ToolAsks(t) \/ ToolProceeds(t) \/ ToolDies(t)
      PROVE  \E p \in Procs : StoreStep(p)
  BY <1>0, <1>4, ToolSteps
<1>5. ASSUME NEW id \in PeerIds, PairingReject(id)
      PROVE  UNCHANGED storeVars
  BY <1>5 DEF PairingReject
<1>6. CASE UNCHANGED vars
  BY <1>6 DEF vars
<1>7. CASE DaemonReads \/ DaemonDies \/ PairingShown \/ \E doc \in Documents : PairingStart(doc)
  BY <1>0, <1>7, DaemonSteps
<1>8. ASSUME NEW me \in identities, NEW r \in PeerRecords, PairingAccept(r.id, CodeFor(me, r))
      PROVE  UNCHANGED storeVars \/ \E p \in Procs : StoreStep(p)
  BY <1>0, <1>1, <1>8, AcceptSteps
<1> QED
  BY <1>2, <1>3, <1>4, <1>5, <1>6, <1>7, <1>8 DEF Next

----
(***************************************************************************)
(* The store's invariants, kept by every step of a process.                *)
(***************************************************************************)
LEMMA RequestNeedsItsPeer ==
    ASSUME StoreTypes, NEW p \in Procs, op[p].kind \in {"trust", "forget"}
    PROVE  op[p].peer \in PeerRecords
  BY DEF StoreTypes, Requests

LEMMA GoodFileReads ==
    ASSUME NEW f, GoodFile(f)
    PROVE  Readable(f) /\ f \notin {MISSING, EMPTY, GARBLED}
  BY StoreAssumption DEF GoodFile, Readable, NotJson

(* The changed list, and the fields the change leaves alone. *)
LEMMA ChangedIsGood ==
    ASSUME StoreTypes, NEW p \in Procs, Readable(file), op[p].kind \in {"trust", "forget"}
    PROVE  /\ GoodFile(Changed(p))
           /\ Origin(Changed(p)) = Origin(file)
           /\ Changed(p).trusted =
                 IF op[p].kind = "trust" THEN UpsertPeer(file.trusted, op[p].peer)
                                         ELSE file.trusted \ Found(p)
<1> DEFINE list == IF op[p].kind = "trust" THEN UpsertPeer(file.trusted, op[p].peer)
                                           ELSE file.trusted \ Found(p)
<1>1. GoodFile(file)
  BY DEF StoreTypes, Readable, NotJson
<1>2. Changed(p) = [file EXCEPT !.trusted = list]
  BY DEF Changed
<1>3. op[p].peer \in PeerRecords
  BY RequestNeedsItsPeer
<1>4. file.trusted \subseteq PeerRecords /\ OneRecordEach(file)
  BY <1>1 DEF GoodFile, StoredFiles
<1>5. list \subseteq PeerRecords
  BY <1>3, <1>4 DEF UpsertPeer
<1>6. \A a, b \in list : a.id = b.id => a = b
  BY <1>4 DEF UpsertPeer, OneRecordEach
<1> HIDE DEF list
<1>7. /\ Changed(p) \in StoredFiles
      /\ Changed(p).trusted = list
      /\ Changed(p).version = file.version /\ Changed(p).id = file.id
      /\ Changed(p).secret = file.secret /\ Changed(p).public = file.public
      /\ Changed(p).fingerprint = file.fingerprint
  <2> PICK v, i, s, u, f : file = [version |-> v, id |-> i, secret |-> s, public |-> u,
                                   fingerprint |-> f, trusted |-> file.trusted]
    BY <1>1 DEF GoodFile, StoredFiles
  <2> QED BY <1>1, <1>2, <1>5 DEF GoodFile, StoredFiles
<1>8. OneRecordEach(Changed(p))
  BY <1>6, <1>7 DEF OneRecordEach
<1>9. into_stored_identity_ok(Changed(p)) => Given(Changed(p)) \in Generated
  BY <1>1, <1>7 DEF GoodFile, into_stored_identity_ok, Given
<1> QED BY <1>7, <1>8, <1>9 DEF GoodFile, Origin, list

LEMMA NewIsGood ==
    ASSUME NEW g \in Generated
    PROVE  /\ GoodFile(StoredIdentity(g[1], g[2]))
           /\ into_stored_identity_ok(StoredIdentity(g[1], g[2]))
           /\ Origin(StoredIdentity(g[1], g[2])) = <<IdentityStoreVersion, g[1], g[2]>>
           /\ StoredIdentity(g[1], g[2]).trusted = {}
<1>1. g = <<g[1], g[2]>> /\ g[2] \in Keys
  BY StoreAssumption
<1>2. StoredIdentity(g[1], g[2]) \in StoredFiles
  BY <1>1 DEF StoredFiles, StoredIdentity, IdentityStoreVersion
<1>3. Given(StoredIdentity(g[1], g[2])) = g
  BY <1>1 DEF Given, StoredIdentity
<1> QED
  BY <1>1, <1>2, <1>3 DEF GoodFile, OneRecordEach, Origin, StoredIdentity, into_stored_identity_ok

LEMMA OverwriteLeaves ==
    ASSUME NEW old, NEW new, NEW f \in Overwrite(old, new)
    PROVE  f = new \/ f = GARBLED
  BY DEF Overwrite

LEMMA GivenIsGenerated ==
    ASSUME NEW f, GoodFile(f), into_stored_identity_ok(f)
    PROVE  Given(f) \in Generated
  BY DEF GoodFile

(* A process that is done holds no copy and asks for nothing. *)
LEMMA DoneKeepsTypes ==
    ASSUME StoreTypes, NEW p \in Procs, Done(p)
    PROVE  /\ pc' \in [Procs -> Labels] /\ op' \in [Procs -> Requests]
           /\ buf' \in [Procs -> StoredFiles \cup {NONE}]
           /\ HoldersFit'
<1>1. NoOp \in Requests
  BY DEF NoOp, Requests, Op, Kinds
<1>2. pc' \in [Procs -> Labels] /\ op' \in [Procs -> Requests]
  BY <1>1 DEF Done, StoreTypes, Labels
<1>3. buf' \in [Procs -> StoredFiles \cup {NONE}]
  BY DEF Done, StoreTypes
<1>4. pc'[p] = "idle" /\ \A q \in Procs \ {p} :
                           pc'[q] = pc[q] /\ op'[q] = op[q] /\ buf'[q] = buf[q]
  BY DEF Done, StoreTypes
<1> QED BY <1>2, <1>3, <1>4 DEF StoreTypes, HoldersFit, Holding, Updating

LEMMA GotoMoves ==
    ASSUME StoreTypes, NEW p \in Procs, NEW l \in Labels, Goto(p, l)
    PROVE  /\ pc' \in [Procs -> Labels] /\ pc'[p] = l
           /\ \A q \in Procs \ {p} : pc'[q] = pc[q]
  BY DEF Goto, StoreTypes

(* A load that succeeds ends the operation or lets it use the file. *)
LEMMA LoadedKeepsTypes ==
    ASSUME StoreTypes, NEW p \in Procs, NEW id \in Generated, Loaded(p, id)
    PROVE  /\ pc' \in [Procs -> Labels] /\ op' \in [Procs -> Requests]
           /\ buf' \in [Procs -> StoredFiles \cup {NONE}]
           /\ HoldersFit'
           /\ identities' \subseteq Generated
<1>1. identities' \subseteq Generated
  BY DEF Loaded, StoreTypes
<1>2. CASE op[p].kind = "show"
  BY <1>1, <1>2, DoneKeepsTypes DEF Loaded
<1>3. CASE op[p].kind # "show"
  <2>1. Goto(p, "using") /\ UNCHANGED <<op, buf>>
    BY <1>3 DEF Loaded
  <2>2. /\ pc' \in [Procs -> Labels] /\ pc'[p] = "using"
        /\ \A q \in Procs \ {p} : pc'[q] = pc[q]
    BY <2>1, GotoMoves DEF Labels
  <2> QED BY <1>1, <1>3, <2>1, <2>2 DEF StoreTypes, HoldersFit, Holding, Updating
<1> QED BY <1>2, <1>3

LEMMA StoreTypesKept ==
    ASSUME StoreTypes, NEW p \in Procs, StoreStep(p)
    PROVE  StoreTypes'
<1>1. CASE Asks(p)
  <2>1. PICK o \in AskedOps : Start(p, o)
    BY <1>1 DEF Asks
  <2>2. o \in Requests /\ (o.kind = "show" => o.load)
    BY DEF AskedOps
  <2>3. op' \in [Procs -> Requests] /\ op'[p] = o /\ \A q \in Procs \ {p} : op'[q] = op[q]
    BY <2>1, <2>2 DEF Start, StoreTypes
  <2>4. PICK l \in Labels : l = (IF o.load THEN "loading" ELSE "using") /\ Goto(p, l)
    BY <2>1 DEF Start, Labels
  <2>5. /\ pc' \in [Procs -> Labels] /\ pc'[p] = l
        /\ \A q \in Procs \ {p} : pc'[q] = pc[q]
    BY <2>4, GotoMoves
  <2>6. UNCHANGED <<file, buf, drawn, identities, overlapped>>
    BY <2>1 DEF Start
  <2>7. HoldersFit'
    BY <2>2, <2>3, <2>4, <2>5, <2>6 DEF StoreTypes, HoldersFit, Holding, Updating
  <2>10. (file \in {MISSING, EMPTY, GARBLED} \/ GoodFile(file))'
    BY <2>6 DEF StoreTypes
  <2> QED BY <2>3, <2>5, <2>6, <2>7, <2>10 DEF StoreTypes
<1>2. CASE GivenIdentity(p)
  <2>1. Given(file) \in Generated
    BY <1>2, GivenIsGenerated DEF GivenIdentity, StoreTypes, Readable, NotJson
  <2>2. Loaded(p, Given(file)) /\ UNCHANGED <<file, drawn, overlapped>>
    BY <1>2 DEF GivenIdentity
  <2>3. (file \in {MISSING, EMPTY, GARBLED} \/ GoodFile(file))'
    BY <2>2 DEF StoreTypes
  <2> QED BY <2>1, <2>2, <2>3, LoadedKeepsTypes DEF StoreTypes
<1>3. CASE GoesOn(p)
  <2>1. PICK l \in {"creating", "reloading"} : Goto(p, l)
    BY <1>3 DEF GoesOn
  <2>2. /\ pc' \in [Procs -> Labels] /\ pc'[p] = l
        /\ \A q \in Procs \ {p} : pc'[q] = pc[q]
    BY <2>1, GotoMoves DEF Labels
  <2>3. UNCHANGED <<file, op, buf, drawn, identities, overlapped>>
    BY <1>3 DEF GoesOn
  <2>4. (file \in {MISSING, EMPTY, GARBLED} \/ GoodFile(file))'
    BY <2>3 DEF StoreTypes
  <2>5. HoldersFit'
    BY <2>2, <2>3 DEF StoreTypes, HoldersFit, Holding, Updating
  <2> QED BY <2>2, <2>3, <2>4, <2>5 DEF StoreTypes
<1>4. CASE Creates(p)
  <2>1. PICK g \in Generated : /\ drawn' = drawn \cup {g}
                               /\ buf' = [buf EXCEPT ![p] = StoredIdentity(g[1], g[2])]
    BY <1>4 DEF Creates
  <2>2. /\ pc' \in [Procs -> Labels] /\ pc'[p] = "filling"
        /\ \A q \in Procs \ {p} : pc'[q] = pc[q]
    BY <1>4, GotoMoves DEF Creates, Labels
  <2>3. GoodFile(StoredIdentity(g[1], g[2])) /\ into_stored_identity_ok(StoredIdentity(g[1], g[2]))
    BY NewIsGood
  <2>4. /\ buf' \in [Procs -> StoredFiles \cup {NONE}]
        /\ buf'[p] = StoredIdentity(g[1], g[2]) /\ \A q \in Procs \ {p} : buf'[q] = buf[q]
    BY <2>1, <2>3 DEF StoreTypes, GoodFile
  <2>5. file' = EMPTY /\ UNCHANGED <<op, identities, overlapped>> /\ drawn' \subseteq Generated
    BY <1>4, <2>1 DEF Creates, StoreTypes
  <2>6. HoldersFit'
    <3>1. ASSUME NEW q \in Procs \ {p}
          PROVE  (/\ Holding(q) => GoodFile(buf[q])
                  /\ pc[q] = "filling" => into_stored_identity_ok(buf[q])
                  /\ Updating(q) => op[q].kind \in {"trust", "forget"}
                  /\ pc[q] = "using" => op[q].kind # "show")'
      BY <2>2, <2>4, <2>5 DEF StoreTypes, HoldersFit, Holding, Updating
    <3>2. GoodFile(buf'[p]) /\ into_stored_identity_ok(buf'[p])
      BY <2>3, <2>4
    <3> QED BY <2>2, <3>1, <3>2 DEF HoldersFit, Holding, Updating
  <2> QED BY <2>2, <2>4, <2>5, <2>6 DEF StoreTypes
<1>5. CASE FillNew(p)
  <2>1. GoodFile(buf[p]) /\ into_stored_identity_ok(buf[p])
    BY <1>5 DEF FillNew, StoreTypes, HoldersFit, Holding
  <2>2. file' = buf[p] \/ file' = GARBLED
    BY <1>5, OverwriteLeaves DEF FillNew
  <2>3. (file \in {MISSING, EMPTY, GARBLED} \/ GoodFile(file))'
    BY <2>1, <2>2
  <2>4. Given(buf[p]) \in Generated
    BY <2>1, GivenIsGenerated
  <2>5. Loaded(p, Given(buf[p])) /\ UNCHANGED <<drawn, overlapped>>
    BY <1>5 DEF FillNew
  <2> QED BY <2>3, <2>4, <2>5, LoadedKeepsTypes DEF StoreTypes
<1>6. CASE Edits(p)
  <2>1. GoodFile(Changed(p))
    BY <1>6, ChangedIsGood DEF Edits
  <2>2. /\ pc' \in [Procs -> Labels] /\ pc'[p] = "truncating"
        /\ \A q \in Procs \ {p} : pc'[q] = pc[q]
    BY <1>6, GotoMoves DEF Edits, Labels
  <2>3. /\ buf' \in [Procs -> StoredFiles \cup {NONE}]
        /\ buf'[p] = Changed(p) /\ \A q \in Procs \ {p} : buf'[q] = buf[q]
    BY <1>6, <2>1 DEF Edits, StoreTypes, GoodFile
  <2>4. /\ UNCHANGED <<file, op, drawn, identities>> /\ op[p].kind \in {"trust", "forget"}
        /\ overlapped' \in BOOLEAN
    BY <1>6 DEF Edits, StoreTypes
  <2>5. HoldersFit'
    <3>1. ASSUME NEW q \in Procs \ {p}
          PROVE  (/\ Holding(q) => GoodFile(buf[q])
                  /\ pc[q] = "filling" => into_stored_identity_ok(buf[q])
                  /\ Updating(q) => op[q].kind \in {"trust", "forget"}
                  /\ pc[q] = "using" => op[q].kind # "show")'
      BY <2>2, <2>3, <2>4 DEF StoreTypes, HoldersFit, Holding, Updating
    <3>2. GoodFile(buf'[p])
      BY <2>1, <2>3
    <3> QED BY <2>2, <2>4, <3>1, <3>2 DEF HoldersFit, Holding, Updating
  <2>7. (file \in {MISSING, EMPTY, GARBLED} \/ GoodFile(file))'
    BY <2>4 DEF StoreTypes
  <2> QED BY <2>2, <2>3, <2>4, <2>5, <2>7 DEF StoreTypes
<1>7. CASE Truncates(p)
  <2>1. /\ pc' \in [Procs -> Labels] /\ pc'[p] = "writing"
        /\ \A q \in Procs \ {p} : pc'[q] = pc[q]
    BY <1>7, GotoMoves DEF Truncates, Labels
  <2>2. file' = EMPTY /\ UNCHANGED <<op, buf, drawn, identities, overlapped>>
    BY <1>7 DEF Truncates
  <2>3. pc[p] = "truncating"
    BY <1>7 DEF Truncates
  <2>4. HoldersFit'
    BY <2>1, <2>2, <2>3 DEF StoreTypes, HoldersFit, Holding, Updating
  <2> QED BY <2>1, <2>2, <2>4 DEF StoreTypes
<1>8. CASE Write(p)
  <2>1. GoodFile(buf[p])
    BY <1>8 DEF Write, StoreTypes, HoldersFit, Holding
  <2>2. file' = buf[p] \/ file' = GARBLED
    BY <1>8, OverwriteLeaves DEF Write
  <2>3. (file \in {MISSING, EMPTY, GARBLED} \/ GoodFile(file))'
    BY <2>1, <2>2
  <2>4. Done(p) /\ UNCHANGED <<drawn, identities, overlapped>>
    BY <1>8 DEF Write
  <2> QED BY <2>3, <2>4, DoneKeepsTypes DEF StoreTypes
<1>9. CASE WriteFails(p)
  <2>1. (file \in {MISSING, EMPTY, GARBLED} \/ GoodFile(file))'
    BY <1>9 DEF WriteFails, StoreTypes
  <2>2. Done(p) /\ overlapped' \in BOOLEAN /\ UNCHANGED <<drawn, identities>>
    BY <1>9 DEF WriteFails
  <2> QED BY <2>1, <2>2, DoneKeepsTypes DEF StoreTypes
<1>10. CASE Leaves(p)
  <2>1. Done(p) /\ overlapped' \in BOOLEAN /\ UNCHANGED <<file, drawn, identities>>
    BY <1>10 DEF Leaves, StoreTypes
  <2>2. (file \in {MISSING, EMPTY, GARBLED} \/ GoodFile(file))'
    BY <2>1 DEF StoreTypes
  <2> QED BY <2>1, <2>2, DoneKeepsTypes DEF StoreTypes
<1> QED
  BY <1>1, <1>2, <1>3, <1>4, <1>5, <1>6, <1>7, <1>8, <1>9, <1>10 DEF StoreStep

(* A step of one process leaves the others alone; identities stay given out
   and a disturbed file stays disturbed. *)
LEMMA OthersStay ==
    ASSUME StoreTypes, NEW p \in Procs, StoreStep(p)
    PROVE  /\ \A q \in Procs \ {p} : pc'[q] = pc[q] /\ op'[q] = op[q] /\ buf'[q] = buf[q]
           /\ identities \subseteq identities'
           /\ overlapped => overlapped'
<1>1. CASE Asks(p)
  BY <1>1 DEF Asks, Start, Goto, StoreTypes
<1>2. CASE GivenIdentity(p)
  BY <1>2 DEF GivenIdentity, Loaded, Done, Goto, StoreTypes
<1>3. CASE GoesOn(p)
  BY <1>3 DEF GoesOn, Goto, StoreTypes
<1>4. CASE Creates(p)
  BY <1>4 DEF Creates, Goto, StoreTypes
<1>5. CASE FillNew(p)
  BY <1>5 DEF FillNew, Loaded, Done, Goto, StoreTypes
<1>6. CASE Edits(p)
  BY <1>6 DEF Edits, Goto, StoreTypes
<1>7. CASE Truncates(p)
  BY <1>7 DEF Truncates, Goto, StoreTypes
<1>8. CASE Write(p)
  BY <1>8 DEF Write, Done, StoreTypes
<1>9. CASE WriteFails(p)
  BY <1>9 DEF WriteFails, Done, StoreTypes
<1>10. CASE Leaves(p)
  <2>1. overlapped => overlapped'
    BY <1>10 DEF Leaves
  <2>2. Done(p) /\ identities' = identities
    BY <1>10 DEF Leaves
  <2>3. \A q \in Procs \ {p} : pc'[q] = pc[q] /\ op'[q] = op[q] /\ buf'[q] = buf[q]
    BY <2>2 DEF Done, StoreTypes
  <2> QED BY <2>1, <2>2, <2>3
<1> QED
  BY <1>1, <1>2, <1>3, <1>4, <1>5, <1>6, <1>7, <1>8, <1>9, <1>10 DEF StoreStep

(* Who is done, or has loaded the identity, holds no copy. *)
LEMMA LeavesNothing ==
    ASSUME StoreTypes, NEW p \in Procs,
           Done(p) \/ \E id : Loaded(p, id)
    PROVE  /\ ~Holding(p)' /\ ~Updating(p)'
           /\ pc'[p] \in {"idle", "using"}
           /\ pc'[p] = "using" => \E id : id \in identities'
<1>1. CASE Done(p)
  <2>1. pc'[p] = "idle"
    BY <1>1 DEF Done, StoreTypes
  <2> QED BY <2>1 DEF Holding, Updating
<1>2. ASSUME NEW id, Loaded(p, id), ~Done(p)
      PROVE  pc'[p] = "using" /\ id \in identities'
  BY <1>2 DEF Loaded, Goto, StoreTypes
<1> QED BY <1>1, <1>2 DEF Holding, Updating

----
(* One origin *)
LEMMA InCopies ==
    /\ Readable(file) => Origin(file) \in Copies
    /\ \A p \in Procs : Holding(p) => Origin(buf[p]) \in Copies
    /\ \A i \in identities : <<IdentityStoreVersion, i[1], i[2]>> \in Copies
  BY DEF Copies, Readable, NotJson

LEMMA CopiesShrink ==
    ASSUME Readable(file)' => Origin(file)' \in Copies,
           \A p \in Procs : Holding(p)' => Origin(buf[p])' \in Copies,
           \A i \in identities' : <<IdentityStoreVersion, i[1], i[2]>> \in Copies
    PROVE  Copies' \subseteq Copies
<1> SUFFICES ASSUME NEW c \in Copies'
             PROVE  c \in Copies
  OBVIOUS
<1>1. CASE Readable(file)' /\ c = Origin(file)'
  BY <1>1
<1>2. ASSUME NEW p \in Procs, Holding(p)', c = Origin(buf[p])'
      PROVE  c \in Copies
  BY <1>2
<1>3. ASSUME NEW i \in identities', c = <<IdentityStoreVersion, i[1], i[2]>>
      PROVE  c \in Copies
  BY <1>3
<1>4. \/ \E f \in {file'} \ {MISSING, EMPTY, GARBLED} : c = Origin(f)
      \/ \E p \in Procs : Holding(p)' /\ c = Origin(buf'[p])
      \/ \E i \in identities' : c = <<IdentityStoreVersion, i[1], i[2]>>
  BY DEF Copies
<1>5. CASE \E f \in {file'} \ {MISSING, EMPTY, GARBLED} : c = Origin(f)
  BY <1>1, <1>5 DEF Readable, NotJson
<1> QED
  BY <1>2, <1>3, <1>4, <1>5

LEMMA GivenCopies ==
    ASSUME NEW f, into_stored_identity_ok(f)
    PROVE  <<IdentityStoreVersion, Given(f)[1], Given(f)[2]>> = Origin(f)
  BY DEF into_stored_identity_ok, Given, Origin

LEMMA OneOriginKept ==
    ASSUME StoreTypes, OneOrigin, CreatedOnce, NEW p \in Procs, StoreStep(p)
    PROVE  OneOrigin'
<1>0. \A q \in Procs \ {p} : pc'[q] = pc[q] /\ op'[q] = op[q] /\ buf'[q] = buf[q]
  BY OthersStay
<1>a. \A q \in Procs \ {p} : Holding(q)' => Origin(buf'[q]) \in Copies
  BY <1>0, InCopies DEF Holding
<1>b. SUFFICES ASSUME ~Creates(p)
      PROVE  Copies' \subseteq Copies
  <2>1. CASE Creates(p)
    <3>1. PICK g \in Generated : buf' = [buf EXCEPT ![p] = StoredIdentity(g[1], g[2])]
      BY <2>1 DEF Creates
    <3>2. identities' = {} /\ \A q \in Procs \ {p} : ~Holding(q)'
      BY <1>0, <2>1 DEF Creates, CreatedOnce, Holding
    <3>3. ~Readable(file)'
      BY <2>1 DEF Creates, Readable, NotJson
    <3>4. \A c \in Copies' : c = Origin(buf'[p])
      BY <3>2, <3>3 DEF Copies, Readable, NotJson
    <3> QED BY <3>4 DEF OneOrigin
  <2> QED BY <2>1, <1>b DEF OneOrigin
<1>1. CASE Asks(p)
  <2>1. UNCHANGED <<file, buf, identities>> /\ ~Holding(p)'
    BY <1>1 DEF Asks, Start, Goto, StoreTypes, Holding
  <2> QED BY <1>a, <2>1, InCopies, CopiesShrink DEF Readable, Origin
<1>2. CASE GivenIdentity(p)
  <2>1. /\ file' = file /\ Readable(file) /\ into_stored_identity_ok(file)
        /\ identities' = identities \cup {Given(file)}
    BY <1>2 DEF GivenIdentity, Loaded
  <2>2. ~Holding(p)'
    BY <1>2, LeavesNothing DEF GivenIdentity
  <2>3. \A i \in identities' : <<IdentityStoreVersion, i[1], i[2]>> \in Copies
    BY <2>1, InCopies, GivenCopies
  <2> QED BY <1>a, <2>1, <2>2, <2>3, InCopies, CopiesShrink DEF Readable, Origin
<1>3. CASE GoesOn(p)
  <2>1. UNCHANGED <<file, buf, identities>> /\ ~Holding(p)'
    BY <1>3 DEF GoesOn, Goto, StoreTypes, Holding
  <2> QED BY <1>a, <2>1, InCopies, CopiesShrink DEF Readable, Origin
<1>5. CASE FillNew(p)
  <2>1. /\ file' = buf[p] \/ file' = GARBLED
        /\ identities' = identities \cup {Given(buf[p])} /\ Holding(p)
    BY <1>5, OverwriteLeaves DEF FillNew, Loaded, Holding
  <2>2. into_stored_identity_ok(buf[p])
    BY <1>5 DEF FillNew, StoreTypes, HoldersFit
  <2>3. ~Holding(p)'
    BY <1>5, LeavesNothing DEF FillNew
  <2>4. \A i \in identities' : <<IdentityStoreVersion, i[1], i[2]>> \in Copies
    BY <2>1, <2>2, InCopies, GivenCopies
  <2>5. Readable(file)' => Origin(file)' = Origin(buf[p])
    BY <2>1 DEF Readable, NotJson, Origin
  <2> QED BY <1>a, <2>1, <2>3, <2>4, <2>5, InCopies, CopiesShrink
<1>6. CASE Edits(p)
  <2>1. /\ UNCHANGED <<file, identities>> /\ Readable(file)
        /\ buf'[p] = Changed(p)
    BY <1>6 DEF Edits, StoreTypes
  <2>2. Origin(Changed(p)) = Origin(file)
    BY <1>6, ChangedIsGood DEF Edits
  <2>3. Origin(buf'[p]) \in Copies
    BY <2>1, <2>2, InCopies
  <2> QED BY <1>a, <2>1, <2>3, InCopies, CopiesShrink DEF Readable, Origin
<1>7. CASE Truncates(p)
  <2>1. UNCHANGED <<buf, identities>> /\ file' = EMPTY /\ Holding(p)
    BY <1>7 DEF Truncates, Holding
  <2>2. ~Readable(file)'
    BY <2>1 DEF Readable, NotJson
  <2> QED BY <1>a, <2>1, <2>2, InCopies, CopiesShrink DEF Origin
<1>8. CASE Write(p)
  <2>1. /\ file' = buf[p] \/ file' = GARBLED
        /\ identities' = identities /\ Holding(p)
    BY <1>8, OverwriteLeaves DEF Write, Holding
  <2>2. ~Holding(p)'
    BY <1>8, LeavesNothing DEF Write
  <2>3. Readable(file)' => Origin(file)' = Origin(buf[p])
    BY <2>1 DEF Readable, NotJson, Origin
  <2> QED BY <1>a, <2>1, <2>2, <2>3, InCopies, CopiesShrink
<1>9. CASE WriteFails(p)
  <2>1. file' \in {file, GARBLED} /\ identities' = identities
    BY <1>9 DEF WriteFails
  <2>2. ~Holding(p)'
    BY <1>9, LeavesNothing DEF WriteFails
  <2>3. Readable(file)' => file' = file
    BY <2>1 DEF Readable, NotJson
  <2>4. Readable(file)' => Origin(file)' \in Copies
    BY <2>3, InCopies DEF Readable, Origin
  <2> QED BY <1>a, <2>1, <2>2, <2>4, InCopies, CopiesShrink
<1>10. CASE Leaves(p)
  <2>1. UNCHANGED <<file, identities>>
    BY <1>10 DEF Leaves
  <2>2. ~Holding(p)'
    BY <1>10, LeavesNothing DEF Leaves
  <2> QED BY <1>a, <2>1, <2>2, InCopies, CopiesShrink DEF Readable, Origin
<1> QED
  BY <1>b, <1>1, <1>2, <1>3, <1>5, <1>6, <1>7, <1>8, <1>9, <1>10 DEF StoreStep

----
(* The creator is alone, and who loaded was given the identity. *)

(* The processes that may step while a creator fills the file, or while
   there is none, neither hold a copy nor give an identity out. *)
LEMMA QuietSteps ==
    ASSUME StoreTypes, NEW p \in Procs, StoreStep(p), ~Readable(file), ~Holding(p), ~Creates(p)
    PROVE  UNCHANGED <<file, identities>> /\ ~Holding(p)'
<1>1. CASE Asks(p)
  BY <1>1 DEF Asks, Start, Goto, StoreTypes, Holding
<1>2. CASE GoesOn(p)
  BY <1>2 DEF GoesOn, Goto, StoreTypes, Holding
<1>3. CASE Leaves(p)
  BY <1>3, LeavesNothing DEF Leaves
<1>4. ~GivenIdentity(p) /\ ~Edits(p)
  BY DEF GivenIdentity, Edits
<1>5. ~FillNew(p) /\ ~Truncates(p) /\ ~Write(p) /\ ~WriteFails(p)
  BY DEF FillNew, Truncates, Write, WriteFails, Holding
<1> QED
  BY <1>1, <1>2, <1>3, <1>4, <1>5 DEF StoreStep

LEMMA NeverMissingAgain ==
    ASSUME StoreTypes, NEW p \in Procs, StoreStep(p), file' = MISSING
    PROVE  file = MISSING
<1>1. Holding(p) => buf[p] # MISSING
  BY GoodFileReads DEF StoreTypes, HoldersFit
<1>2. ~FillNew(p) /\ ~Write(p)
  BY <1>1, OverwriteLeaves, StoreAssumption DEF FillNew, Write, Holding
<1>3. ~Creates(p) /\ ~Truncates(p)
  BY StoreAssumption DEF Creates, Truncates
<1>4. CASE WriteFails(p)
  BY <1>4, StoreAssumption DEF WriteFails
<1> QED
  BY <1>2, <1>3, <1>4
     DEF StoreStep, Asks, Start, GivenIdentity, GoesOn, Edits, Leaves

LEMMA CreatedOnceKept ==
    ASSUME StoreTypes, CreatedOnce, NEW p \in Procs, StoreStep(p)
    PROVE  CreatedOnce'
<1>0. \A q \in Procs \ {p} : pc'[q] = pc[q] /\ op'[q] = op[q] /\ buf'[q] = buf[q]
  BY OthersStay
<1>1. ASSUME file' = MISSING
      PROVE  identities' = {} /\ \A q \in Procs : ~Holding(q)'
  <2>1. file = MISSING /\ ~Readable(file)
    BY <1>1, NeverMissingAgain DEF Readable
  <2>2. identities = {} /\ \A q \in Procs : ~Holding(q)
    BY <2>1 DEF CreatedOnce
  <2>3. ~Creates(p)
    BY <1>1, StoreAssumption DEF Creates
  <2>4. identities' = identities /\ ~Holding(p)'
    BY <2>1, <2>2, <2>3, QuietSteps
  <2> QED BY <1>0, <2>2, <2>4 DEF Holding
<1>2. CASE Creates(p)
  <2>1. PICK g \in Generated : buf' = [buf EXCEPT ![p] = StoredIdentity(g[1], g[2])]
    BY <1>2 DEF Creates
  <2>2. buf'[p].trusted = {}
    BY <2>1, NewIsGood DEF StoreTypes
  <2>3. file' = EMPTY /\ identities' = {} /\ \A q \in Procs \ {p} : ~Holding(q)'
    BY <1>0, <1>2 DEF Creates, CreatedOnce, Holding
  <2>4. \A q \in Procs \ {p} : pc'[q] # "filling"
    BY <2>3 DEF Holding
  <2> QED BY <1>1, <2>2, <2>3, <2>4 DEF CreatedOnce
<1>3. CASE ~Creates(p)
  <2>1. ASSUME NEW q \in Procs, pc'[q] = "filling"
        PROVE  /\ file' = EMPTY /\ identities' = {} /\ buf'[q].trusted = {}
               /\ \A r \in Procs \ {q} : ~Holding(r)'
    <3>1. q # p
      <4>1. CASE Asks(p)
        BY <2>1, <4>1 DEF Asks, Start, Goto, StoreTypes
      <4>2. CASE GivenIdentity(p) \/ FillNew(p)
        BY <2>1, <4>2, LeavesNothing DEF GivenIdentity, FillNew
      <4>3. CASE GoesOn(p) \/ Edits(p) \/ Truncates(p)
        BY <2>1, <4>3 DEF GoesOn, Edits, Truncates, Goto, StoreTypes
      <4>4. CASE Write(p) \/ WriteFails(p) \/ Leaves(p)
        BY <2>1, <4>4, LeavesNothing DEF Write, WriteFails, Leaves
      <4> QED BY <1>3, <4>1, <4>2, <4>3, <4>4 DEF StoreStep
    <3>2. pc[q] = "filling" /\ buf'[q] = buf[q]
      BY <1>0, <2>1, <3>1
    <3>3. /\ file = EMPTY /\ identities = {} /\ buf[q].trusted = {}
          /\ \A r \in Procs \ {q} : ~Holding(r)
      BY <3>2 DEF CreatedOnce
    <3>4. ~Readable(file) /\ ~Holding(p)
      BY <3>1, <3>3 DEF Readable, NotJson
    <3>5. UNCHANGED <<file, identities>> /\ ~Holding(p)'
      BY <1>3, <3>4, QuietSteps
    <3> QED BY <1>0, <3>2, <3>3, <3>5 DEF Holding
  <2> QED BY <1>1, <2>1 DEF CreatedOnce
<1> QED BY <1>2, <1>3

LEMMA LoadedFirstKept ==
    ASSUME StoreTypes, LoadedFirst, NEW p \in Procs, StoreStep(p)
    PROVE  LoadedFirst'
<1>0. /\ \A q \in Procs \ {p} : pc'[q] = pc[q] /\ op'[q] = op[q] /\ buf'[q] = buf[q]
      /\ identities \subseteq identities'
  BY OthersStay
<1>1. SUFFICES ASSUME op'[p].load, pc'[p] = "using" \/ Updating(p)'
      PROVE  identities' # {}
  BY <1>0 DEF LoadedFirst, Updating
<1>2. ~Asks(p)
  <2> SUFFICES ASSUME NEW o \in AskedOps, Start(p, o)
               PROVE  FALSE
    BY DEF Asks
  <2>1. o \in Requests
    BY DEF AskedOps
  <2>2. op'[p] = o /\ pc'[p] = (IF o.load THEN "loading" ELSE "using")
    BY <2>1 DEF Start, Goto, StoreTypes
  <2> QED BY <1>1, <2>2 DEF Updating
<1>3. CASE GivenIdentity(p) \/ FillNew(p)
  BY <1>3 DEF GivenIdentity, FillNew, Loaded
<1>4. ~GoesOn(p) /\ ~Creates(p)
  BY <1>1 DEF GoesOn, Creates, Goto, StoreTypes, Updating
<1>5. CASE Edits(p) \/ Truncates(p)
  <2>1. op'[p] = op[p] /\ (pc[p] = "using" \/ Updating(p))
    BY <1>5 DEF Edits, Truncates, Updating
  <2>2. identities # {}
    BY <1>1, <2>1 DEF LoadedFirst
  <2> QED BY <1>0, <2>2
<1>6. ~Write(p) /\ ~WriteFails(p) /\ ~Leaves(p)
  <2>1. Done(p) => pc'[p] = "idle"
    BY DEF Done, StoreTypes
  <2> QED BY <1>1, <2>1 DEF Write, WriteFails, Leaves, Updating
<1> QED
  BY <1>2, <1>3, <1>4, <1>5, <1>6 DEF StoreStep

----
(* One update at a time, until the file is disturbed. *)
LEMMA UndisturbedKept ==
    ASSUME StoreTypes, CreatedOnce, Undisturbed, NEW p \in Procs, StoreStep(p)
    PROVE  Undisturbed'
<1> SUFFICES ASSUME ~overlapped'
             PROVE  /\ \A q, r \in Procs : Updating(q)' /\ Updating(r)' => q = r
                    /\ \A q \in Procs : (pc[q] = "truncating" => Readable(file) /\ buf[q] = Changed(q))'
                    /\ \A q \in Procs : (pc[q] = "writing" => file = EMPTY)'
  BY DEF Undisturbed
<1>0. /\ \A q \in Procs \ {p} : pc'[q] = pc[q] /\ op'[q] = op[q] /\ buf'[q] = buf[q]
      /\ ~overlapped
  BY OthersStay
<1>1. /\ \A q, r \in Procs : Updating(q) /\ Updating(r) => q = r
      /\ \A q \in Procs : pc[q] = "truncating" => Readable(file) /\ buf[q] = Changed(q)
      /\ \A q \in Procs : pc[q] = "writing" => file = EMPTY
  BY <1>0 DEF Undisturbed
<1>2. \A q \in Procs \ {p} : Updating(q)' => Updating(q)
  BY <1>0 DEF Updating
(* A step that leaves the file alone and starts no update. *)
<1>3. ASSUME file' = file, ~Updating(p)'
      PROVE  /\ \A q, r \in Procs : Updating(q)' /\ Updating(r)' => q = r
             /\ \A q \in Procs : (pc[q] = "truncating" => Readable(file) /\ buf[q] = Changed(q))'
             /\ \A q \in Procs : (pc[q] = "writing" => file = EMPTY)'
  <2>1. \A q, r \in Procs : Updating(q)' /\ Updating(r)' => q = r
    BY <1>1, <1>2, <1>3
  <2>2. ASSUME NEW q \in Procs, pc'[q] = "truncating"
        PROVE  Readable(file)' /\ (buf[q] = Changed(q))'
    <3>1. q # p
      BY <1>3, <2>2 DEF Updating
    <3>2. Readable(file) /\ buf[q] = Changed(q)
      BY <1>0, <1>1, <2>2, <3>1
    <3> QED BY <1>0, <1>3, <3>1, <3>2 DEF Readable, Changed, Found
  <2>3. ASSUME NEW q \in Procs, pc'[q] = "writing"
        PROVE  file' = EMPTY
    BY <1>0, <1>1, <1>3, <2>3 DEF Updating
  <2> QED BY <2>1, <2>2, <2>3
(* A step of the only process that updates the file ends its update. *)
<1>4. ASSUME \A q \in Procs : ~Updating(q)'
      PROVE  /\ \A q, r \in Procs : Updating(q)' /\ Updating(r)' => q = r
             /\ \A q \in Procs : (pc[q] = "truncating" => Readable(file) /\ buf[q] = Changed(q))'
             /\ \A q \in Procs : (pc[q] = "writing" => file = EMPTY)'
  <2>1. \A q \in Procs : pc'[q] # "truncating" /\ pc'[q] # "writing"
    BY <1>4 DEF Updating
  <2> QED BY <1>4, <2>1
<1>5. CASE Asks(p)
  BY <1>3, <1>5 DEF Asks, Start, Goto, StoreTypes, Updating
<1>6. CASE GivenIdentity(p)
  BY <1>3, <1>6, LeavesNothing DEF GivenIdentity
<1>7. CASE GoesOn(p)
  BY <1>3, <1>7 DEF GoesOn, Goto, StoreTypes, Updating
<1>8. CASE Creates(p)
  <2>1. \A q \in Procs : ~Updating(q)
    BY <1>8 DEF Creates, CreatedOnce, Holding, Updating
  <2>2. ~Updating(p)'
    BY <1>8 DEF Creates, Goto, StoreTypes, Updating
  <2> QED BY <1>2, <1>4, <2>1, <2>2
<1>9. CASE FillNew(p)
  <2>1. \A q \in Procs \ {p} : ~Updating(q)
    BY <1>9 DEF FillNew, CreatedOnce, Holding, Updating
  <2>2. ~Updating(p)'
    BY <1>9, LeavesNothing DEF FillNew
  <2> QED BY <1>2, <1>4, <2>1, <2>2
<1>10. CASE Edits(p)
  <2>1. \A q \in Procs \ {p} : ~Updating(q)'
    BY <1>0, <1>2, <1>10 DEF Edits
  <2>2. /\ pc'[p] = "truncating" /\ buf'[p] = Changed(p)
        /\ UNCHANGED <<file, op>> /\ Readable(file)
    BY <1>10 DEF Edits, Goto, StoreTypes
  <2>3. Changed(p)' = Changed(p) /\ Readable(file)'
    BY <2>2 DEF Changed, Found, Readable
  <2>4. \A q \in Procs : pc'[q] = "truncating" \/ pc'[q] = "writing" => q = p
    BY <2>1 DEF Updating
  <2>5. \A q, r \in Procs : Updating(q)' /\ Updating(r)' => q = r
    BY <2>1
  <2> QED BY <2>2, <2>3, <2>4, <2>5
<1>11. CASE Truncates(p)
  <2>1. \A q \in Procs \ {p} : ~Updating(q)'
    BY <1>1, <1>2, <1>11 DEF Truncates, Updating
  <2>2. pc'[p] = "writing" /\ file' = EMPTY
    BY <1>11 DEF Truncates, Goto, StoreTypes
  <2>3. \A q \in Procs : pc'[q] # "truncating"
    BY <2>1, <2>2 DEF Updating
  <2>4. \A q, r \in Procs : Updating(q)' /\ Updating(r)' => q = r
    BY <2>1
  <2> QED BY <2>2, <2>3, <2>4
<1>12. CASE Write(p)
  <2>1. \A q \in Procs \ {p} : ~Updating(q)'
    BY <1>1, <1>2, <1>12 DEF Write, Updating
  <2>2. ~Updating(p)'
    BY <1>12, LeavesNothing DEF Write
  <2> QED BY <1>4, <2>1, <2>2
<1>13. ~WriteFails(p)
  BY DEF WriteFails
<1>14. CASE Leaves(p)
  BY <1>3, <1>14, LeavesNothing DEF Leaves
<1> QED
  BY <1>5, <1>6, <1>7, <1>8, <1>9, <1>10, <1>11, <1>12, <1>13, <1>14 DEF StoreStep

----
(* Only confirmed peers. *)
LEMMA OnlyConfirmedKept ==
    ASSUME StoreTypes, CreatedOnce, OnlyConfirmed, confirmed \subseteq confirmed',
           NEW p \in Procs, StoreStep(p)
    PROVE  OnlyConfirmed'
<1>0. /\ \A q \in Procs \ {p} : pc'[q] = pc[q] /\ op'[q] = op[q] /\ buf'[q] = buf[q]
      /\ identities \subseteq identities'
  BY OthersStay
<1>1. \A r : Good(r) => Good(r)'
  BY <1>0, GoodStays
<1>a. ASSUME NEW q \in Procs, op'[q] = op[q], op[q].kind = "trust"
      PROVE  Good(op[q].peer)'
  <2>1. PICK r : r = op[q].peer
    OBVIOUS
  <2>2. Good(r)'
    BY <1>1, <1>a, <2>1 DEF OnlyConfirmed
  <2>3. op'[q].peer = r
    BY <1>a, <2>1
  <2> QED BY <2>2, <2>3 DEF Good, Confirmed
<1>2. /\ \A q \in Procs \ {p} : Holding(q)' => \A r \in buf'[q].trusted : Good(r)'
      /\ \A q \in Procs \ {p} : (op[q].kind = "trust" => Good(op[q].peer))'
  BY <1>0, <1>1, <1>a DEF OnlyConfirmed, Holding
<1>3. Readable(file) /\ file' = file => \A r \in file'.trusted : Good(r)'
  BY <1>1 DEF OnlyConfirmed
<1>4. op'[p] = op[p] \/ op'[p] = NoOp => (op[p].kind = "trust" => Good(op[p].peer))'
  BY <1>a DEF NoOp
<1>5. Done(p) => op'[p] = NoOp
  BY DEF Done, StoreTypes
<1>6. CASE Asks(p)
  <2>1. PICK o \in AskedOps : Start(p, o) /\ (o.kind = "trust" => Good(o.peer)')
    BY <1>6 DEF Asks
  <2>2. o \in Requests
    BY DEF AskedOps
  <2>3. op'[p] = o /\ file' = file /\ ~Holding(p)'
    BY <2>1, <2>2 DEF Start, Goto, StoreTypes, Holding
  <2>4. (op[p].kind = "trust" => Good(op[p].peer))'
    BY <2>1, <2>3 DEF Good, Confirmed
  <2> QED BY <1>2, <1>3, <2>3, <2>4 DEF OnlyConfirmed, Readable
<1>7. CASE GivenIdentity(p)
  <2>1. file' = file /\ (op'[p] = op[p] \/ op'[p] = NoOp)
    BY <1>5, <1>7 DEF GivenIdentity, Loaded
  <2>2. ~Holding(p)'
    BY <1>7, LeavesNothing DEF GivenIdentity
  <2> QED BY <1>2, <1>3, <1>4, <2>1, <2>2 DEF OnlyConfirmed, Readable
<1>8. CASE GoesOn(p)
  <2>1. file' = file /\ op'[p] = op[p] /\ ~Holding(p)'
    BY <1>8 DEF GoesOn, Goto, StoreTypes, Holding
  <2> QED BY <1>2, <1>3, <1>4, <2>1 DEF OnlyConfirmed, Readable
<1>9. CASE Creates(p)
  <2>1. PICK g \in Generated : buf' = [buf EXCEPT ![p] = StoredIdentity(g[1], g[2])]
    BY <1>9 DEF Creates
  <2>2. buf'[p].trusted = {}
    BY <2>1, NewIsGood DEF StoreTypes
  <2>3. ~Readable(file)' /\ op'[p] = op[p]
    BY <1>9 DEF Creates, Readable, NotJson
  <2> QED BY <1>2, <1>4, <2>2, <2>3 DEF OnlyConfirmed
<1>10. CASE FillNew(p)
  <2>1. file' = buf[p] \/ file' = GARBLED
    BY <1>10, OverwriteLeaves DEF FillNew
  <2>2. Readable(file)' => \A r \in file'.trusted : Good(r)'
    BY <1>10, <2>1 DEF FillNew, CreatedOnce, Readable, NotJson
  <2>3. ~Holding(p)'
    BY <1>10, LeavesNothing DEF FillNew
  <2>4. op'[p] = op[p] \/ op'[p] = NoOp
    BY <1>5, <1>10 DEF FillNew, Loaded
  <2> QED BY <1>2, <1>4, <2>2, <2>3, <2>4 DEF OnlyConfirmed
<1>11. CASE Edits(p)
  <2>1. /\ file' = file /\ Readable(file) /\ op'[p] = op[p]
        /\ buf'[p] = Changed(p) /\ op[p].kind \in {"trust", "forget"}
    BY <1>11 DEF Edits, StoreTypes
  <2>2. Changed(p).trusted = IF op[p].kind = "trust" THEN UpsertPeer(file.trusted, op[p].peer)
                                                     ELSE file.trusted \ Found(p)
    BY <2>1, ChangedIsGood
  <2>3. \A r \in file.trusted : Good(r)
    BY <2>1 DEF OnlyConfirmed
  <2>4. op[p].kind = "trust" => Good(op[p].peer)
    BY DEF OnlyConfirmed
  <2>5. \A r \in Changed(p).trusted : Good(r)
    BY <2>2, <2>3, <2>4 DEF UpsertPeer
  <2>6. \A r \in buf'[p].trusted : Good(r)'
    BY <1>1, <2>1, <2>5
  <2> QED BY <1>2, <1>3, <1>4, <2>1, <2>6 DEF OnlyConfirmed, Readable
<1>12. CASE Truncates(p)
  <2>1. Holding(p) /\ buf'[p] = buf[p] /\ op'[p] = op[p] /\ ~Readable(file)'
    BY <1>12 DEF Truncates, Holding, Readable, NotJson
  <2>2. \A r \in buf'[p].trusted : Good(r)'
    BY <1>1, <2>1 DEF OnlyConfirmed
  <2> QED BY <1>2, <1>4, <2>1, <2>2 DEF OnlyConfirmed
<1>13. CASE Write(p)
  <2>1. (file' = buf[p] \/ file' = GARBLED) /\ Holding(p)
    BY <1>13, OverwriteLeaves DEF Write, Holding
  <2>2. Readable(file)' => \A r \in file'.trusted : Good(r)'
    BY <1>1, <2>1 DEF OnlyConfirmed, Readable, NotJson
  <2>3. ~Holding(p)' /\ op'[p] = NoOp
    BY <1>5, <1>13, LeavesNothing DEF Write
  <2> QED BY <1>2, <1>4, <2>2, <2>3 DEF OnlyConfirmed
<1>14. CASE WriteFails(p)
  <2>1. file' \in {file, GARBLED} /\ ~Holding(p)' /\ op'[p] = NoOp
    BY <1>5, <1>14, LeavesNothing DEF WriteFails
  <2>2. Readable(file)' => \A r \in file'.trusted : Good(r)'
    BY <1>3, <2>1 DEF Readable, NotJson
  <2> QED BY <1>2, <1>4, <2>1, <2>2 DEF OnlyConfirmed
<1>15. CASE Leaves(p)
  <2>1. file' = file /\ ~Holding(p)' /\ op'[p] = NoOp
    BY <1>5, <1>15, LeavesNothing DEF Leaves
  <2> QED BY <1>2, <1>3, <1>4, <2>1 DEF OnlyConfirmed, Readable
<1> QED
  BY <1>6, <1>7, <1>8, <1>9, <1>10, <1>11, <1>12, <1>13, <1>14, <1>15 DEF StoreStep

----
(***************************************************************************)
(* The daemon's own state.                                                 *)
(***************************************************************************)
LEMMA IdentitiesGrow ==
    ASSUME StoreTypes, PairingTypes, [Next]_vars
    PROVE  identities \subseteq identities'
<1>1. CASE UNCHANGED storeVars
  BY <1>1 DEF storeVars
<1>2. ASSUME NEW p \in Procs, StoreStep(p)
      PROVE  identities \subseteq identities'
  BY <1>2, OthersStay
<1> QED BY <1>1, <1>2, StoreSteps

(* A step of an operation either ends it or leaves it as it was asked. *)
LEMMA ProceedsOrEnds ==
    ASSUME StoreTypes, NEW p \in Procs, Proceed(p)
    PROVE  op'[p] = NoOp \/ (op'[p] = op[p] /\ pc'[p] # "idle")
<1>1. Done(p) => op'[p] = NoOp
  BY DEF Done, StoreTypes
<1>2. \A l \in Labels : Goto(p, l) => pc'[p] = l
  BY DEF Goto, StoreTypes
<1>3. CASE LoadExisting(p) \/ FillNew(p) \/ Reload(p)
  <2>1. Done(p) \/ (Goto(p, "using") /\ UNCHANGED op)
    BY <1>3 DEF LoadExisting, FillNew, Reload, Loaded
  <2> QED BY <1>1, <1>2, <2>1 DEF Labels
<1>4. CASE LoadMissing(p) \/ CreateNew(p)
  <2>1. UNCHANGED op /\ \E l \in {"creating", "filling", "reloading"} : Goto(p, l)
    BY <1>4 DEF LoadMissing, CreateNew
  <2> QED BY <1>2, <2>1 DEF Labels
<1>5. CASE Use(p) \/ Truncate(p)
  <2>1. Done(p) \/ (UNCHANGED op /\ \E l \in {"truncating", "writing"} : Goto(p, l))
    BY <1>5 DEF Use, Truncate
  <2> QED BY <1>1, <1>2, <2>1 DEF Labels
<1>6. CASE WriteFails(p)
  BY <1>1, <1>6 DEF WriteFails
<1> QED
  BY <1>3, <1>4, <1>5, <1>6 DEF Proceed

PendingTypes ==
    /\ pending \in [PeerIds -> [peer : PeerRecords, code : Codes] \cup {NONE}]
    /\ \A id \in PeerIds : pending[id] # NONE => pending[id].peer.id = id /\ Pending(pending[id])

(* Forgetting pending pairings, one or all of them. *)
LEMMA PendingForgotten ==
    ASSUME PendingTypes, identities \subseteq identities',
           pending' \in [PeerIds -> [peer : PeerRecords, code : Codes] \cup {NONE}],
           \A id \in PeerIds : pending'[id] # NONE =>
               pending'[id] = pending[id] /\ pending[id] \in shown'
    PROVE  PendingTypes'
<1>1. ASSUME NEW id \in PeerIds, pending'[id] # NONE
      PROVE  (pending[id].peer.id = id /\ Pending(pending[id]))'
  <2>1. PICK e : e = pending[id]
    OBVIOUS
  <2>2. pending'[id] = e /\ e \in shown' /\ e.peer.id = id /\ Pending(e)
    BY <1>1, <2>1 DEF PendingTypes
  <2> QED BY <2>2 DEF Pending
<1> QED BY <1>1 DEF PendingTypes

LEMMA PendingShown ==
    ASSUME StoreTypes, LoadedFirst, PairingTypes, PendingTypes, PairingShown
    PROVE  PendingTypes'
<1> DEFINE doc == asked.doc
           peer == into_trusted_peer_identity(doc)
           me == CHOOSE d \in identities : TRUE
           entry == [peer |-> peer, code |-> CodeFor(me, peer)]
<1>1. Daemon \in Procs /\ pc[Daemon] = "using" /\ op[Daemon].kind = "pair"
  BY PairingAssumption DEF PairingShown
<1>2. op[Daemon].load
  BY <1>1 DEF StoreTypes, Requests
<1>3. me \in identities /\ me \in Generated
  BY <1>1, <1>2 DEF LoadedFirst, StoreTypes
<1>4. doc \in Documents
  BY <1>1 DEF PairingTypes
<1>5. UNCHANGED <<identities>>
  BY DEF PairingShown
<1>6. CASE IsValidDocument(doc) /\ peer.id # me[1]
  <2>1. pending' = [pending EXCEPT ![peer.id] = entry] /\ shown' = shown \cup {entry}
    BY <1>6 DEF PairingShown
  <2>2. peer \in PeerRecords /\ peer.id \in PeerIds
    BY <1>4, <1>6, PairingAssumption DEF PeerIds
  <2>3. into_trusted_peer_ok(peer)
    BY <1>6 DEF IsValidDocument, into_trusted_peer_identity, TrustedPeerIdentity, into_trusted_peer_ok
  <2> HIDE DEF doc, peer, me
  <2>4. entry \in [peer : PeerRecords, code : Codes] /\ entry.peer.id = peer.id
    BY <1>3, <2>2 DEF Codes
  <2>5. /\ into_trusted_peer_ok(entry.peer)
        /\ \E you \in identities : entry.peer.id # you[1] /\ entry.code = CodeFor(you, entry.peer)
    BY <1>3, <1>6, <2>3
  <2> HIDE DEF entry
  <2>6. /\ pending' \in [PeerIds -> [peer : PeerRecords, code : Codes] \cup {NONE}]
        /\ pending'[peer.id] = entry
        /\ \A id \in PeerIds \ {peer.id} : pending'[id] = pending[id]
    BY <2>1, <2>2, <2>4 DEF PendingTypes
  <2>7. ASSUME NEW id \in PeerIds, pending'[id] # NONE
        PROVE  (pending[id].peer.id = id /\ Pending(pending[id]))'
    <3>1. PICK e : e = pending'[id]
      OBVIOUS
    <3>2. e.peer.id = id /\ e \in shown' /\ into_trusted_peer_ok(e.peer)
      BY <2>1, <2>4, <2>5, <2>6, <2>7, <3>1 DEF PendingTypes, Pending
    <3>3. \E you \in identities : e.peer.id # you[1] /\ e.code = CodeFor(you, e.peer)
      BY <2>5, <2>6, <2>7, <3>1 DEF PendingTypes, Pending
    <3> QED BY <1>5, <3>1, <3>2, <3>3 DEF Pending
  <2> QED BY <2>6, <2>7 DEF PendingTypes
<1>7. CASE ~(IsValidDocument(doc) /\ peer.id # me[1])
  <2>1. pending' = pending /\ shown' = shown
    BY <1>7 DEF PairingShown
  <2> QED BY <1>5, <2>1, PendingForgotten DEF PendingTypes, Pending
<1> QED BY <1>6, <1>7

AskedTypes ==
    /\ asked.request \in {"none", "start", "accept"}
    /\ op[Daemon].kind = "pair" => asked.doc \in Documents

LEMMA PairingTypesKept ==
    ASSUME StoreTypes, LoadedFirst, PairingTypes, [Next]_vars
    PROVE  PairingTypes'
<1>0. Daemon \in Procs /\ identities \subseteq identities' /\ PendingTypes /\ AskedTypes
  BY PairingAssumption, IdentitiesGrow DEF PairingTypes, PendingTypes, AskedTypes
<1>1. SUFFICES PendingTypes' /\ AskedTypes'
  BY DEF PairingTypes, PendingTypes, AskedTypes
<1>2. pending' = pending /\ shown' = shown => PendingTypes'
  BY <1>0, PendingForgotten DEF PendingTypes, Pending
<1>3. Done(Daemon) => op'[Daemon] = NoOp
  BY <1>0 DEF Done, StoreTypes
<1>4. \A o \in Requests : Start(Daemon, o) => op'[Daemon] = o
  BY <1>0 DEF Start, StoreTypes
<1>5. asked' = NotAsked /\ op'[Daemon] = NoOp => AskedTypes'
  BY DEF NotAsked, NoOp, AskedTypes
<1>6. UNCHANGED <<asked, op>> => AskedTypes'
  BY <1>0 DEF AskedTypes
<1>7. CASE DaemonReads
  <2>1. UNCHANGED <<pending, asked, shown>>
    BY <1>7 DEF DaemonReads, pairingVars
  <2>2. op'[Daemon].kind \in {"list", "lookup"}
    BY <1>0, <1>7 DEF DaemonReads, Start, StoreTypes
  <2> QED BY <1>0, <1>2, <2>1, <2>2 DEF AskedTypes
<1>8. ASSUME NEW doc \in Documents, PairingStart(doc)
      PROVE  PendingTypes' /\ AskedTypes'
  BY <1>2, <1>8 DEF PairingStart, AskedTypes
<1>9. CASE PairingShown
  BY <1>0, <1>3, <1>5, <1>9, PendingShown DEF PairingShown
<1>10. ASSUME NEW id, NEW code, PairingAccept(id, code)
       PROVE  PendingTypes' /\ AskedTypes'
  <2>1. pending' = pending /\ shown' = shown
    BY <1>10 DEF PairingAccept
  <2>2. CASE Accepts(id, code)
    <3>1. op'[Daemon].kind = "trust" /\ asked'.request = "accept"
      BY <1>0, <1>10, <2>2 DEF PairingAccept, Start, StoreTypes
    <3> QED BY <1>2, <2>1, <3>1 DEF AskedTypes
  <2>3. CASE ~Accepts(id, code)
    BY <1>2, <1>6, <1>10, <2>1, <2>3 DEF PairingAccept, storeVars
  <2> QED BY <2>2, <2>3
<1>11. ASSUME NEW id \in PeerIds, PairingReject(id)
       PROVE  PendingTypes' /\ AskedTypes'
  <2>1. pending' = [pending EXCEPT ![id] = NONE] /\ UNCHANGED <<asked, op>>
    BY <1>11 DEF PairingReject, storeVars
  <2>2. /\ pending' \in [PeerIds -> [peer : PeerRecords, code : Codes] \cup {NONE}]
        /\ \A i \in PeerIds : pending'[i] # NONE => pending'[i] = pending[i] /\ i # id
    BY <1>0, <2>1 DEF PendingTypes
  <2>3. \A i \in PeerIds \ {id} : pending[i] # NONE => pending[i] \in shown'
    BY <1>0, <1>11 DEF PairingReject, PendingTypes, Pending
  <2>4. \A i \in PeerIds : pending'[i] # NONE => pending'[i] = pending[i] /\ pending[i] \in shown'
    BY <2>2, <2>3
  <2>5. PendingTypes'
    BY <1>0, <2>2, <2>4, PendingForgotten
  <2> QED BY <1>6, <2>1, <2>5
<1>12. CASE DaemonProceeds
  <2>1. /\ pending' = pending /\ shown' = shown /\ Proceed(Daemon)
        /\ asked' = IF pc'[Daemon] = "idle" THEN NotAsked ELSE asked
    BY <1>12 DEF DaemonProceeds
  <2>2. op'[Daemon] = NoOp \/ (op'[Daemon] = op[Daemon] /\ pc'[Daemon] # "idle")
    BY <1>0, <2>1, ProceedsOrEnds
  <2>3. AskedTypes'
    BY <1>0, <2>1, <2>2 DEF AskedTypes, NotAsked, NoOp
  <2> QED BY <1>2, <2>1, <2>3
<1>13. CASE DaemonSaves
  <2>1. /\ pending' = RemovePending(op[Daemon].peer.id, asked.code)
        /\ asked' = NotAsked /\ shown' = shown /\ Done(Daemon)
    BY <1>13 DEF DaemonSaves, Write
  <2>2. PICK id : id = op[Daemon].peer.id
    OBVIOUS
  <2>3. pending' = [pending EXCEPT ![id] = NONE] \/ pending' = pending
    BY <2>1, <2>2 DEF RemovePending
  <2>4. /\ pending' \in [PeerIds -> [peer : PeerRecords, code : Codes] \cup {NONE}]
        /\ \A i \in PeerIds :
              pending'[i] # NONE => pending'[i] = pending[i] /\ pending[i] \in shown'
    BY <1>0, <2>1, <2>3 DEF PendingTypes, Pending
  <2>5. PendingTypes'
    BY <1>0, <2>4, PendingForgotten
  <2> QED BY <1>3, <1>5, <2>1, <2>5
<1>14. CASE DaemonDies
  <2>1. /\ pending' = [id \in PeerIds |-> NONE]
        /\ asked' = NotAsked /\ Done(Daemon)
    BY <1>14 DEF DaemonDies
  <2>2. /\ pending' \in [PeerIds -> [peer : PeerRecords, code : Codes] \cup {NONE}]
        /\ \A i \in PeerIds : pending'[i] = NONE
    BY <2>1
  <2>3. PendingTypes'
    BY <1>0, <2>2, PendingForgotten
  <2> QED BY <1>3, <1>5, <2>1, <2>3
<1>15. ASSUME NEW t \in Tools, ToolAsks(t) \/ ToolProceeds(t) \/ ToolDies(t)
       PROVE  PendingTypes' /\ AskedTypes'
  <2>1. UNCHANGED <<pending, asked, shown>>
    BY <1>15 DEF ToolAsks, ToolProceeds, ToolDies, pairingVars
  <2>2. t \in Procs /\ Daemon # t
    BY PairingAssumption
  <2>3. op'[Daemon] = op[Daemon]
    BY <1>0, <1>15, <2>2, ToolSteps, OthersStay
  <2> QED BY <1>0, <1>2, <2>1, <2>3 DEF AskedTypes
<1>16. CASE UNCHANGED vars
  BY <1>2, <1>6, <1>16 DEF vars, storeVars
<1> QED
  BY <1>7, <1>8, <1>9, <1>10, <1>11, <1>12, <1>13, <1>14, <1>15, <1>16 DEF Next

----
(***************************************************************************)
(* The inductive invariant, and what follows from it.                      *)
(***************************************************************************)
LEMMA InitEstablishes ==
    ASSUME Init
    PROVE  IInv
<1>1. \A p \in Procs : pc[p] = "idle" /\ op[p] = NoOp
  BY DEF Init, StoreInit
<1>2. \A p \in Procs : ~Holding(p) /\ ~Updating(p) /\ pc[p] # "using"
  BY <1>1 DEF Holding, Updating
<1>3. file \in Loads /\ identities = {} /\ drawn = {}
  BY DEF Init, StoreInit
<1>4. StoreTypes
  <2>1. file \in {MISSING, EMPTY, GARBLED} \/ GoodFile(file)
    BY <1>3, StoreAssumption DEF GoodFile, Given
  <2>2. NoOp \in Requests
    BY DEF NoOp, Requests, Op, Kinds
  <2>3. HoldersFit
    BY <1>1, <1>2 DEF HoldersFit, Holding
  <2> QED BY <1>3, <2>1, <2>2, <2>3 DEF Init, StoreInit, StoreTypes, Labels
<1>5. OneOrigin
  BY <1>2, <1>3 DEF OneOrigin, Copies
<1>6. CreatedOnce
  BY <1>1, <1>2, <1>3 DEF CreatedOnce
<1>7. LoadedFirst
  BY <1>2 DEF LoadedFirst
<1>8. Undisturbed
  BY <1>1, <1>2 DEF Undisturbed
<1>9. PairingTypes
  <2>1. /\ pending \in [PeerIds -> [peer : PeerRecords, code : Codes] \cup {NONE}]
        /\ \A id \in PeerIds : pending[id] = NONE
    BY DEF Init
  <2>2. op[Daemon].kind = "show"
    BY <1>1, PairingAssumption DEF NoOp
  <2> QED BY <2>1, <2>2 DEF Init, PairingTypes, NotAsked
<1>10. OnlyConfirmed
  <2>1. Readable(file) => \A r \in file.trusted : Good(r)
    BY <1>3, EarlierPeersAssumption, PairingAssumption DEF Good, Confirmed
  <2> QED BY <1>1, <1>2, <2>1 DEF OnlyConfirmed, NoOp
<1> QED BY <1>4, <1>5, <1>6, <1>7, <1>8, <1>9, <1>10 DEF IInv

LEMMA StutterKeeps ==
    ASSUME IInv, UNCHANGED storeVars, confirmed \subseteq confirmed'
    PROVE  /\ StoreTypes' /\ OneOrigin' /\ CreatedOnce' /\ LoadedFirst' /\ Undisturbed'
           /\ OnlyConfirmed'
<1> USE DEF storeVars
<1>1. StoreTypes'
  BY DEF IInv, StoreTypes, HoldersFit, Holding, Updating
<1>2. OneOrigin'
  BY DEF IInv, OneOrigin, Copies, Holding
<1>3. CreatedOnce' /\ LoadedFirst'
  BY DEF IInv, CreatedOnce, LoadedFirst, Holding, Updating
<1>4. Undisturbed'
  BY DEF IInv, Undisturbed, Updating, Readable, Changed, Found
<1>5. OnlyConfirmed'
  <2>1. \A r : Good(r) => Good(r)'
    BY GoodStays
  <2>2. \A p \in Procs : op[p].kind = "trust" => Good(op[p].peer)'
    BY <2>1 DEF IInv, OnlyConfirmed, Good, Confirmed
  <2> QED BY <2>1, <2>2 DEF IInv, OnlyConfirmed, Readable, Holding
<1> QED BY <1>1, <1>2, <1>3, <1>4, <1>5

(* The conjuncts of IInv hold in every state the program can reach. *)
THEOREM Invariance == Spec => []IInv
<1>1. Init => IInv
  BY InitEstablishes
<1>2. IInv /\ [Next]_vars => IInv'
  <2> SUFFICES ASSUME IInv, [Next]_vars
               PROVE  IInv'
    OBVIOUS
  <2>1. confirmed \subseteq confirmed' /\ PairingTypes'
    BY ConfirmedGrows, PairingTypesKept DEF IInv
  <2>2. CASE UNCHANGED storeVars
    BY <2>1, <2>2, StutterKeeps DEF IInv
  <2>3. ASSUME NEW p \in Procs, StoreStep(p)
        PROVE  IInv'
    BY <2>1, <2>3, StoreTypesKept, OneOriginKept, CreatedOnceKept, LoadedFirstKept,
       UndisturbedKept, OnlyConfirmedKept DEF IInv
  <2> QED BY <2>2, <2>3, StoreSteps DEF IInv
<1> QED BY <1>1, <1>2, PTL DEF Spec

(* Type correctness of the identity file, of the processes that use it and of
   the daemon's pairing state. *)
THEOREM PairingTypesHold == Spec => []TypeOK
<1>1. IInv => TypeOK
  <2> SUFFICES ASSUME IInv PROVE TypeOK
    OBVIOUS
  <2>1. GoodFile(file) => /\ DOMAIN file = {"version", "id", "secret", "public", "fingerprint", "trusted"}
                          /\ file.trusted \subseteq PeerRecords
                          /\ OneRecordEach(file)
    BY DEF GoodFile, StoredFiles
  <2>2. StoreTypeOK
    BY <2>1 DEF IInv, StoreTypes, StoreTypeOK, NotJson, Requests, Labels
  <2> QED BY <2>2 DEF IInv, TypeOK, PairingTypes
<1> QED BY <1>1, Invariance, PTL

(* One identity: every caller of load_or_create, in any process and whoever
   dies on the way, is given the same id and key. *)
THEOREM IdentityIsOne == Spec => []OneIdentity
<1>1. IInv => OneIdentity
  <2> SUFFICES ASSUME IInv PROVE OneIdentity
    OBVIOUS
  <2>1. \A i \in identities : i = <<i[1], i[2]>>
    BY StoreAssumption DEF IInv, StoreTypes
  <2>2. ASSUME NEW i \in identities, NEW j \in identities
        PROVE  i = j
    <3>1. <<IdentityStoreVersion, i[1], i[2]>> = <<IdentityStoreVersion, j[1], j[2]>>
      BY InCopies DEF IInv, OneOrigin
    <3> QED BY <2>1, <3>1
  <2>3. CASE identities = {}
    BY <2>3, FS_EmptySet DEF OneIdentity
  <2>4. CASE identities # {}
    <3>1. PICK i : identities = {i}
      BY <2>2, <2>4
    <3> QED BY <3>1, FS_Singleton DEF OneIdentity
  <2> QED BY <2>3, <2>4
<1> QED BY <1>1, Invariance, PTL

(* Trust is confirmed: a peer in the identity file was given to a tool, or
   pairing.start had shown this very record and a user confirmed, for its id,
   the code it was shown with, which another record may share; it can be read
   back. *)
THEOREM PeersAreConfirmed == Spec => []TrustIsConfirmed
<1>1. IInv => TrustIsConfirmed
  <2> SUFFICES ASSUME IInv, NEW r \in TrustedNow
               PROVE  Good(r)
    BY DEF TrustIsConfirmed, Good
  <2>1. CASE Readable(file)
    BY <2>1 DEF TrustedNow, IInv, OnlyConfirmed
  <2>2. CASE ~Readable(file)
    <3>1. PICK p \in Writers : r \in buf[p].trusted
      BY <2>2 DEF TrustedNow
    <3> QED BY <3>1 DEF Writers, Holding, IInv, OnlyConfirmed
  <2> QED BY <2>1, <2>2
<1> QED BY <1>1, Invariance, PTL

----
(***************************************************************************)
(* What is refused is kept.                                                *)
(***************************************************************************)
(* Whoever updates a file of another version forgets a peer and did not load
   the identity. *)
LEMMA UpdatersOfAnotherVersion ==
    ASSUME IInv, Readable(file), file.version # IdentityStoreVersion,
           NEW p \in Procs, Updating(p)
    PROVE  op[p].kind = "forget" /\ ~op[p].load
<1>1. identities = {}
  <2> SUFFICES ASSUME NEW i \in identities PROVE FALSE
    OBVIOUS
  <2>1. Origin(file) = <<IdentityStoreVersion, i[1], i[2]>>
    BY InCopies DEF IInv, OneOrigin
  <2> QED BY <2>1 DEF Origin
<1>2. ~op[p].load
  BY <1>1 DEF IInv, LoadedFirst
<1>3. op[p].kind \in {"trust", "forget"} /\ op[p] \in Requests
  BY DEF IInv, StoreTypes, HoldersFit
<1> QED BY <1>2, <1>3 DEF Requests

LEMMA FileChanges ==
    ASSUME IInv, NEW p \in Procs, StoreStep(p), file' # file
    PROVE  Creates(p) \/ (pc[p] = "filling" /\ file = EMPTY) \/ Updating(p)
<1>1. CASE FillNew(p)
  BY <1>1 DEF FillNew, IInv, CreatedOnce
<1>2. CASE WriteFails(p)
  BY <1>2 DEF WriteFails, Updating, IInv, CreatedOnce
<1>3. CASE Truncates(p) \/ Write(p)
  BY <1>3 DEF Truncates, Write, Updating
<1>4. ~Asks(p) /\ ~GivenIdentity(p) /\ ~GoesOn(p) /\ ~Edits(p) /\ ~Leaves(p)
  BY DEF Asks, Start, GivenIdentity, GoesOn, Edits, Leaves
<1> QED BY <1>1, <1>2, <1>3, <1>4 DEF StoreStep

(* A damaged file stays damaged, and a file of another version is rewritten
   by nothing but a forget that did not load the identity. *)
THEOREM RefusedFilesAreKept == Spec => RefusedIsKept
<1> DEFINE Kept ==
      /\ Damaged => Damaged'
      /\ Readable(file) /\ file.version # IdentityStoreVersion /\ file' # file => ForgetsUnloaded
<1>1. ASSUME IInv, NEW p \in Procs, StoreStep(p)
      PROVE  Kept
  <2>1. ASSUME Damaged PROVE Damaged'
    <3>1. file \in NotJson /\ ~Readable(file) /\ \A q \in Procs : ~Holding(q)
      BY <2>1 DEF Damaged, Readable, Holding
    <3>2. ~Creates(p)
      BY <3>1, StoreAssumption DEF Creates, NotJson
    <3>3. StoreTypes
      BY <1>1 DEF IInv
    <3>4. file' = file /\ ~Holding(p)'
      BY <1>1, <3>1, <3>2, <3>3, QuietSteps
    <3>5. \A q \in Procs \ {p} : pc'[q] = pc[q]
      BY <1>1, <3>3, OthersStay
    <3>6. \A q \in Procs : ~Holding(q)'
      BY <3>1, <3>4, <3>5 DEF Holding
    <3> QED BY <3>1, <3>4, <3>6 DEF Damaged, Holding
  <2>2. ASSUME Readable(file), file.version # IdentityStoreVersion, file' # file
        PROVE  ForgetsUnloaded
    <3>1. Updating(p)
      BY <1>1, <2>2, FileChanges DEF Creates, Readable, NotJson
    <3> QED BY <1>1, <2>2, <3>1, UpdatersOfAnotherVersion DEF ForgetsUnloaded
  <2> QED BY <2>1, <2>2
<1>2. ASSUME UNCHANGED storeVars PROVE Kept
  BY <1>2 DEF storeVars, Damaged
<1>3. IInv /\ [Next]_vars => [Kept]_storeVars
  <2> HIDE DEF Kept
  <2> QED BY <1>1, <1>2, StoreSteps DEF IInv
<1> QED BY <1>3, Invariance, PTL DEF Spec, RefusedIsKept

----
(***************************************************************************)
(* The file implements TrustStore.                                         *)
(***************************************************************************)
LEMMA TrustedAreRecords ==
    ASSUME StoreTypes
    PROVE  TrustedNow \subseteq PeerRecords
<1>1. \A f : GoodFile(f) => f.trusted \subseteq PeerRecords
  BY DEF GoodFile, StoredFiles
<1>2. CASE Readable(file)
  BY <1>1, <1>2 DEF TrustedNow, StoreTypes, Readable, NotJson
<1>3. CASE ~Readable(file) /\ Writers # {}
  <2>1. PICK p \in Writers : TrustedNow = buf[p].trusted
    BY <1>3 DEF TrustedNow
  <2> QED BY <1>1, <2>1 DEF Writers, Holding, StoreTypes, HoldersFit
<1>4. CASE ~Readable(file) /\ Writers = {}
  BY <1>4 DEF TrustedNow
<1> QED BY <1>2, <1>3, <1>4

(* The file, who writes it and what it holds decide what the list is. *)
LEMMA SameList ==
    ASSUME file' = file, Writers' = Writers, \A q \in Writers : buf'[q] = buf[q]
    PROVE  TrustedNow' = TrustedNow
<1>1. CASE Readable(file)
  BY <1>1 DEF TrustedNow, Readable
<1>2. CASE ~Readable(file) /\ Writers = {}
  BY <1>2 DEF TrustedNow, Readable
<1>3. CASE ~Readable(file) /\ Writers # {}
  <2>1. PICK w \in Writers : w = CHOOSE p \in Writers : TRUE
    BY <1>3
  <2>2. TrustedNow = buf[w].trusted
    BY <1>3, <2>1 DEF TrustedNow
  <2>3. TrustedNow' = buf'[w].trusted
    BY <1>3, <2>1 DEF TrustedNow, Readable
  <2> QED BY <2>2, <2>3
<1> QED BY <1>1, <1>2, <1>3

AtomicVars == <<TrustedNow, overlapped>>

(* A truncation is the moment the change takes effect. *)
LEMMA TruncationCommits ==
    ASSUME IInv, ~overlapped, NEW p \in Procs, Truncates(p)
    PROVE  \E r \in PeerRecords :
              \/ TrustedNow' = {t \in TrustedNow : t.id # r.id} \cup {r}
              \/ TrustedNow' = {t \in TrustedNow : t.id # r.id}
<1>1. pc[p] = "truncating" /\ file' = EMPTY /\ buf' = buf /\ pc'[p] = "writing"
  BY DEF Truncates, Goto, IInv, StoreTypes
<1>2. \A q \in Procs \ {p} : ~Updating(q) /\ pc'[q] = pc[q]
  BY <1>1 DEF Truncates, Goto, IInv, StoreTypes, Undisturbed, Updating
<1>3. Readable(file) /\ buf[p] = Changed(p) /\ op[p].kind \in {"trust", "forget"}
  BY <1>1 DEF IInv, Undisturbed, StoreTypes, HoldersFit, Updating
<1>4. Writers' = {p}
  BY <1>1, <1>2 DEF Writers, Updating
<1>5. ~Readable(file)'
  BY <1>1 DEF Readable, NotJson
<1>6. TrustedNow' = Changed(p).trusted
  BY <1>1, <1>3, <1>4, <1>5 DEF TrustedNow
<1>7. TrustedNow = file.trusted
  BY <1>3 DEF TrustedNow
<1>8. op[p].peer \in PeerRecords
  BY <1>3, RequestNeedsItsPeer DEF IInv
<1>9. Changed(p).trusted = IF op[p].kind = "trust" THEN UpsertPeer(file.trusted, op[p].peer)
                                                   ELSE file.trusted \ Found(p)
  BY <1>3, ChangedIsGood DEF IInv
<1>10. file.trusted \ Found(p) = {t \in file.trusted : t.id # op[p].peer.id}
  BY DEF Found, Find
<1> QED BY <1>6, <1>7, <1>8, <1>9, <1>10 DEF UpsertPeer

(* Any other step shows the reader of the list nothing, unless it disturbs. *)
LEMMA OtherStepsStutter ==
    ASSUME IInv, ~overlapped, ~overlapped', NEW p \in Procs, StoreStep(p), ~Truncates(p)
    PROVE  TrustedNow' = TrustedNow
<1>0. /\ StoreTypes
      /\ \A q \in Procs \ {p} : pc'[q] = pc[q] /\ op'[q] = op[q] /\ buf'[q] = buf[q]
  BY OthersStay DEF IInv
<1>1. ASSUME file' = file, pc[p] # "writing", pc'[p] # "writing"
      PROVE  TrustedNow' = TrustedNow
  <2>1. Writers' = Writers /\ \A q \in Writers : buf'[q] = buf[q]
    BY <1>0, <1>1 DEF Writers
  <2> QED BY <1>1, <2>1, SameList
<1>2. CASE Asks(p)
  BY <1>0, <1>1, <1>2 DEF Asks, Start, Idle, Goto, StoreTypes
<1>3. CASE GivenIdentity(p)
  <2>1. file' = file /\ pc[p] # "writing"
    BY <1>3 DEF GivenIdentity
  <2>2. pc'[p] # "writing"
    BY <1>0, <1>3, LeavesNothing DEF GivenIdentity
  <2> QED BY <1>1, <2>1, <2>2
<1>4. CASE GoesOn(p)
  BY <1>0, <1>1, <1>4 DEF GoesOn, Goto, StoreTypes
<1>5. CASE Creates(p)
  <2>1. \A q \in Procs : ~Holding(q)
    BY <1>5 DEF IInv, CreatedOnce, Creates
  <2>2. Writers = {} /\ Writers' = {}
    BY <1>0, <1>5, <2>1 DEF Writers, Holding, Creates, Goto, StoreTypes
  <2>3. ~Readable(file) /\ ~Readable(file)'
    BY <1>5 DEF Creates, Readable, NotJson
  <2> QED BY <2>2, <2>3 DEF TrustedNow
<1>6. CASE FillNew(p)
  <2>1. file = EMPTY /\ buf[p].trusted = {} /\ \A q \in Procs \ {p} : ~Holding(q)
    BY <1>6 DEF FillNew, IInv, CreatedOnce
  <2>2. file' = buf[p]
    BY <1>6, <2>1 DEF FillNew, Overwrite
  <2>3. GoodFile(buf[p])
    BY <1>6 DEF FillNew, IInv, StoreTypes, HoldersFit, Holding
  <2>4. TrustedNow' = {}
    BY <2>1, <2>2, <2>3, GoodFileReads DEF TrustedNow, Readable
  <2>5. Writers = {} /\ ~Readable(file)
    BY <1>6, <2>1 DEF Writers, Holding, FillNew, Readable, NotJson
  <2> QED BY <2>4, <2>5 DEF TrustedNow
<1>7. CASE Edits(p)
  BY <1>0, <1>1, <1>7 DEF Edits, Goto, StoreTypes
<1>8. CASE Write(p)
  <2>1. file = EMPTY /\ \A q \in Procs \ {p} : ~Updating(q)
    BY <1>8 DEF Write, IInv, Undisturbed, Updating
  <2>2. file' = buf[p]
    BY <1>8, <2>1 DEF Write, Overwrite
  <2>3. GoodFile(buf[p])
    BY <1>8 DEF Write, IInv, StoreTypes, HoldersFit, Holding
  <2>4. TrustedNow' = buf[p].trusted
    BY <2>2, <2>3, GoodFileReads DEF TrustedNow, Readable
  <2>5. Writers = {p} /\ ~Readable(file)
    BY <1>8, <2>1 DEF Writers, Updating, Write, Readable, NotJson
  <2> QED BY <2>4, <2>5 DEF TrustedNow
<1>9. ~WriteFails(p)
  BY DEF WriteFails
<1>10. CASE Leaves(p)
  <2>1. file' = file /\ pc[p] # "writing" /\ pc'[p] = "idle"
    BY <1>0, <1>10 DEF Leaves, Done, StoreTypes
  <2> QED BY <1>1, <2>1
<1> QED
  BY <1>2, <1>3, <1>4, <1>5, <1>6, <1>7, <1>8, <1>9, <1>10 DEF StoreStep

LEMMA StepRefines ==
    ASSUME IInv, IInv', [Next]_vars
    PROVE  [Atomic!Next]_AtomicVars
<1>0. StoreTypes /\ StoreTypes'
  BY DEF IInv
<1>1. TrustedNow' \subseteq PeerRecords
  <2>1. StoreTypes => TrustedNow \subseteq PeerRecords
    BY TrustedAreRecords
  <2>2. \A f : GoodFile(f) => f.trusted \subseteq PeerRecords
    BY DEF GoodFile, StoredFiles
  <2>3. CASE Readable(file)'
    BY <1>0, <2>2, <2>3 DEF TrustedNow, StoreTypes, Readable, NotJson
  <2>4. CASE ~Readable(file)' /\ Writers' # {}
    <3>1. PICK p \in Writers' : TrustedNow' = buf'[p].trusted
      BY <2>4 DEF TrustedNow
    <3> QED BY <1>0, <2>2, <3>1 DEF Writers, Holding, StoreTypes, HoldersFit
  <2>5. CASE ~Readable(file)' /\ Writers' = {}
    BY <2>5 DEF TrustedNow
  <2> QED BY <2>3, <2>4, <2>5
<1>2. ASSUME overlapped'
      PROVE  [Atomic!Next]_AtomicVars
  BY <1>0, <1>1, <1>2 DEF Atomic!Next, StoreTypes
<1>3. ASSUME ~overlapped', UNCHANGED storeVars
      PROVE  UNCHANGED AtomicVars
  <2>1. file' = file /\ Writers' = Writers /\ (\A q \in Writers : buf'[q] = buf[q])
    BY <1>3 DEF storeVars, Writers
  <2> QED BY <1>3, <2>1, SameList DEF AtomicVars, storeVars
<1>4. ASSUME ~overlapped', NEW p \in Procs, StoreStep(p)
      PROVE  [Atomic!Next]_AtomicVars
  <2>1. overlapped = FALSE /\ overlapped' = FALSE
    BY <1>0, <1>4, OthersStay DEF StoreTypes
  <2>2. CASE Truncates(p)
    <3>1. \E r \in PeerRecords :
             \/ TrustedNow' = {t \in TrustedNow : t.id # r.id} \cup {r}
             \/ TrustedNow' = {t \in TrustedNow : t.id # r.id}
      BY <2>1, <2>2, TruncationCommits
    <3> QED BY <2>1, <3>1 DEF Atomic!Next, Atomic!Trust, Atomic!Forget
  <2>3. CASE ~Truncates(p)
    <3>1. TrustedNow' = TrustedNow
      BY <1>4, <2>1, <2>3, OtherStepsStutter
    <3> QED BY <2>1, <3>1 DEF AtomicVars
  <2> QED BY <2>2, <2>3
<1> QED BY <1>2, <1>3, <1>4, StoreSteps DEF IInv

(* Until it is disturbed the file is one list of trusted peers, changed by one
   request at a time: the detailed store implements TrustStore. *)
THEOREM FileImplementsTrustStore == Spec => TrustSpec
<1>1. Init => Atomic!Init
  <2> SUFFICES ASSUME Init PROVE Atomic!Init
    OBVIOUS
  <2>1. StoreTypes
    BY InitEstablishes DEF IInv
  <2> QED BY <2>1, TrustedAreRecords DEF Atomic!Init, StoreTypes
<1>2. IInv /\ IInv' /\ [Next]_vars => [Atomic!Next]_AtomicVars
  BY StepRefines
<1> QED BY <1>1, <1>2, Invariance, PTL DEF Spec, TrustSpec, Atomic!Spec, AtomicVars
=============================================================================
