---------------------------- MODULE IdentityStore ----------------------------
(***************************************************************************)
(* FileIdentityStore: the one file that holds a device's identity and the  *)
(* peers it trusts.  The daemon, the desktop application and akrazctl open *)
(* it at the same time and nothing locks it: an update reads the file,     *)
(* changes the copy, truncates the file and writes the copy back.          *)
(***************************************************************************)
EXTENDS IdentityDocument, TLC

CONSTANTS Procs,      \* processes that use the file
          PeerRecords,\* peers that somebody may ask to trust
          Generated,  \* <<id, key>> pairs the generator may draw
          Loads,      \* the files an earlier run may have left
          MISSING, EMPTY, GARBLED,  \* no file, an empty one, one that does not parse
          NONE

(* A file that parses.  The ids in it are ids some generator drew; its keys
   and fingerprints need not fit together. *)
StoredFiles ==
    [version : Nat, id : {g[1] : g \in Generated}, secret : Keys, public : Keys \cup BadKeys,
     fingerprint : {fingerprint_for_public_key(k) : k \in Keys \cup BadKeys},
     trusted : SUBSET PeerRecords]

OneRecordEach(f) == \A p, q \in f.trusted : p.id = q.id => p = q

ASSUME StoreAssumption ==
    /\ \A g \in Generated : g = <<g[1], g[2]>> /\ g[2] \in Keys
    /\ NONE \notin PeerRecords
    /\ MISSING # EMPTY /\ MISSING # GARBLED /\ EMPTY # GARBLED
    /\ \A m \in {MISSING, EMPTY, GARBLED} : m \notin StoredFiles
    /\ \A f \in Loads \ {MISSING, EMPTY, GARBLED} :
          /\ f \in StoredFiles /\ OneRecordEach(f)
          /\ into_stored_identity_ok(f) => <<f.id, f.public>> \in Generated

VARIABLES file,       \* the stored record, or one of those three
          pc,         \* what each process does next
          op,         \* its operation and argument
          buf,        \* the copy it is about to write
          drawn,      \* generated identities, never drawn twice
          identities, \* the local identities callers were given
          overlapped  \* two updates overlapped, one failed, or a process died in one

storeVars == <<file, pc, op, buf, drawn, identities, overlapped>>

NotJson == {EMPTY, GARBLED}

Readable(f) == f \notin NotJson \cup {MISSING}

(* What a process may be asked: load_or_create comes first unless akrazctl
   lists or forgets. *)
Kinds == {"show", "list", "lookup", "trust", "forget", "pair"}
Op == [kind : Kinds, load : BOOLEAN, peer : PeerRecords \cup {NONE}]
NoOp == [kind |-> "show", load |-> FALSE, peer |-> NONE]

Updating(p) == pc[p] \in {"truncating", "writing"}
Idle(p) == pc[p] = "idle"

StoreTypeOK ==
    /\ \/ file \in NotJson \cup {MISSING}
       \/ DOMAIN file = {"version", "id", "secret", "public", "fingerprint", "trusted"}
          /\ file.trusted \subseteq PeerRecords
          /\ OneRecordEach(file)
    /\ pc \in [Procs -> {"idle", "loading", "creating", "filling", "reloading",
                         "using", "truncating", "writing"}]
    /\ op \in [Procs -> Op]
    /\ drawn \subseteq Generated /\ identities \subseteq Generated
    /\ overlapped \in BOOLEAN

StoreInit ==
    /\ file \in Loads
    /\ pc = [p \in Procs |-> "idle"]
    /\ op = [p \in Procs |-> NoOp]
    /\ buf = [p \in Procs |-> NONE]
    /\ drawn = {} /\ identities = {}
    /\ overlapped = FALSE

----
(* write_all at offset 0 of a file that another writer may have filled
   since this one truncated it: what is longer keeps its tail. *)
Overwrite(old, new) ==
    IF old = EMPTY \/ old = new THEN {new}
    ELSE IF Readable(old) /\ old.trusted \subseteq new.trusted THEN {new}
    ELSE {new, GARBLED}

Goto(p, label) == pc' = [pc EXCEPT ![p] = label]
Done(p) ==
    /\ pc' = [pc EXCEPT ![p] = "idle"]
    /\ op' = [op EXCEPT ![p] = NoOp]
    /\ buf' = [buf EXCEPT ![p] = NONE]

Given(f) == <<f.id, f.public>>

(* load_existing returned: the operation goes on or is over. *)
Loaded(p, id) ==
    /\ identities' = identities \cup {id}
    /\ IF op[p].kind = "show" THEN Done(p)
                              ELSE Goto(p, "using") /\ UNCHANGED <<op, buf>>

Start(p, o) ==
    /\ Idle(p)
    /\ op' = [op EXCEPT ![p] = o]
    /\ Goto(p, IF o.load THEN "loading" ELSE "using")
    /\ UNCHANGED <<file, buf, drawn, identities, overlapped>>

(* load_or_create *)
LoadExisting(p) ==
    /\ pc[p] = "loading"
    /\ file # MISSING
    /\ IF Readable(file) /\ into_stored_identity_ok(file)
         THEN Loaded(p, Given(file))
         ELSE Done(p) /\ UNCHANGED identities
    /\ UNCHANGED <<file, drawn, overlapped>>

LoadMissing(p) ==
    /\ pc[p] = "loading"
    /\ file = MISSING
    /\ Goto(p, "creating")
    /\ UNCHANGED <<file, op, buf, drawn, identities, overlapped>>

(* Mutant: create_new_identity opens with create and truncate. *)
WinsAlways == TRUE

(* It opens with create_new, so one creator wins. *)
WinsCreation == file = MISSING

CreateNew(p) ==
    /\ pc[p] = "creating"
    /\ IF WinsCreation
         THEN \E g \in Generated \ drawn :
                /\ drawn' = drawn \cup {g}
                /\ buf' = [buf EXCEPT ![p] = StoredIdentity(g[1], g[2])]
                /\ file' = EMPTY
                /\ Goto(p, "filling")
         ELSE Goto(p, "reloading") /\ UNCHANGED <<file, buf, drawn>>
    /\ UNCHANGED <<op, identities, overlapped>>

FillNew(p) ==
    /\ pc[p] = "filling"
    /\ file' \in Overwrite(file, buf[p])
    /\ Loaded(p, Given(buf[p]))
    /\ UNCHANGED <<drawn, overlapped>>

Reload(p) ==
    /\ pc[p] = "reloading"
    /\ IF Readable(file) /\ into_stored_identity_ok(file)
         THEN Loaded(p, Given(file))
         ELSE Done(p) /\ UNCHANGED identities
    /\ UNCHANGED <<file, drawn, overlapped>>

----
(* read_stored_file for a listing, a lookup or an update; it does not look
   at the version of the file. *)
Found(p) == Find(file.trusted, op[p].peer.id)

(* Mutant: the new record becomes the whole list. *)
ChangedToOne(p) ==
    IF op[p].kind = "trust"
    THEN [file EXCEPT !.trusted = {op[p].peer}]
    ELSE [file EXCEPT !.trusted = file.trusted \ Found(p)]

Changed(p) ==
    IF op[p].kind = "trust"
    THEN [file EXCEPT !.trusted = UpsertPeer(file.trusted, op[p].peer)]
    ELSE [file EXCEPT !.trusted = file.trusted \ Found(p)]

Rejected(p) ==
    \/ ~Readable(file)
    \/ op[p].kind \in {"lookup", "forget"} /\ Found(p) = {}

Use(p) ==
    /\ pc[p] = "using" /\ op[p].kind # "pair"
    /\ IF Rejected(p) \/ op[p].kind \in {"list", "lookup"}
         THEN Done(p)
         ELSE /\ buf' = [buf EXCEPT ![p] = Changed(p)]
              /\ Goto(p, "truncating")
              /\ UNCHANGED op
    /\ overlapped' = (overlapped \/ (pc'[p] = "truncating" /\ \E q \in Procs \ {p} : Updating(q)))
    /\ UNCHANGED <<file, drawn, identities>>

Truncate(p) ==
    /\ pc[p] = "truncating"
    /\ IF file = MISSING THEN Done(p) /\ UNCHANGED file
                         ELSE file' = EMPTY /\ Goto(p, "writing") /\ UNCHANGED <<op, buf>>
    /\ UNCHANGED <<drawn, identities, overlapped>>

Write(p) ==
    /\ pc[p] = "writing"
    /\ file' \in Overwrite(file, buf[p])
    /\ Done(p)
    /\ UNCHANGED <<drawn, identities, overlapped>>

(* The write fails, or the process is killed anywhere.  A write cut short
   leaves a file that does not parse. *)
WriteFails(p) ==
    /\ pc[p] \in {"filling", "writing"}
    /\ file' \in {file, GARBLED}
    /\ overlapped' = TRUE
    /\ Done(p)
    /\ UNCHANGED <<drawn, identities>>

Killed(p) ==
    /\ ~Idle(p)
    /\ overlapped' = (overlapped \/ pc[p] \in {"filling", "writing"})
    /\ Done(p)
    /\ UNCHANGED <<file, drawn, identities>>

Proceed(p) ==
    \/ LoadExisting(p) \/ LoadMissing(p)
    \/ CreateNew(p) \/ FillNew(p) \/ Reload(p)
    \/ Use(p) \/ Truncate(p) \/ WriteFails(p)

----
(* One identity: whatever the processes do at the same time and wherever
   they die, every caller of load_or_create is given the same identity. *)
OneIdentity == Cardinality(identities) <= 1

(* What load_or_create refuses is kept as it is.  Damage is final: once the
   file does not parse and nobody is about to write it, no operation makes it
   parse again, and none replaces it.  A file of another version is only ever
   rewritten by a forget that does not load the identity first. *)
Damaged ==
    /\ file \in NotJson
    /\ \A p \in Procs : pc[p] \notin {"filling", "truncating", "writing"}
ForgetsUnloaded == \E p \in Procs : op[p].kind = "forget" /\ ~op[p].load
RefusedIsKept ==
    [][/\ Damaged => Damaged'
       /\ Readable(file) /\ file.version # IdentityStoreVersion /\ file' # file =>
            ForgetsUnloaded]_storeVars

(* Refinement: the list of trusted peers changes as one atomic store would,
   until the file is disturbed.  A truncated file stands for the copy its
   writer holds. *)
Writers == {p \in Procs : pc[p] = "writing"}
TrustedNow ==
    IF Readable(file) THEN file.trusted
    ELSE IF Writers # {} THEN buf[CHOOSE p \in Writers : TRUE].trusted ELSE {}
Atomic == INSTANCE TrustStore WITH
            Records <- PeerRecords, trusted <- TrustedNow, disturbed <- overlapped
TrustSpec == Atomic!Spec
=============================================================================
