--------------------------- MODULE SessionManager ---------------------------
(***************************************************************************)
(* ManagedPeerSessionTransport: the one session a daemon routes commands   *)
(* to, connected by an IPC request and detached by a Stop, a disconnect or *)
(* a failed write of either of two threads; the reconnect backoff; and the *)
(* listeners of the peers, each of which serves one connection at a time.  *)
(* What goes over an admitted session is in PeerLink.                      *)
(*                                                                         *)
(* A peer may be reached at an address that another device has taken over, *)
(* either side may change what it trusts at any time, and other devices    *)
(* connect to the same listeners.                                          *)
(***************************************************************************)
EXTENDS Handshake, FiniteSets, FiniteSetsExt

CONSTANTS
    Me,            \* this device: [id, key, version, caps]
    Peers,         \* ids of the other devices
    Addresses,     \* socket addresses of their listeners
    Builds,        \* [id -> the possible versions of the device's build]
    PeerCaps,      \* peer_session_capabilities of every build
    OlderCaps,     \* capabilities a device may have had when it was paired
    InitialDelay,
    MaxDelay,      \* the backoff's delays, in ticks of its clock
    MaxSessions,   \* bound: connections this device makes
    MaxVisits,     \* bound: connections other devices make
    MaxChanges,    \* bound: changes of trust and of addresses
    NONE

ASSUME ManagerAssumption ==
    /\ Me.id \notin Peers
    /\ InitialDelay \in Nat \ {0} /\ MaxDelay \in Nat /\ InitialDelay <= MaxDelay
    /\ MaxSessions \in Nat /\ MaxVisits \in Nat /\ MaxChanges \in Nat

Threads == {"worker", "ipc"}   \* the capture worker, the IPC server

VARIABLES
    builds,    \* [Peers -> version]
    trusted,   \* this device's store: [Peers -> capabilities at pairing, or NONE]
    theirs,    \* the peers whose store holds this device
    at,        \* [Addresses -> the device that listens there, or NONE]
    sessions,  \* connections ever made: [server, made by this device, prelude
               \* not yet read, fate]
    active,    \* active_session: an index of sessions, or NONE
    delay,     \* the delay of the last of consecutive_failures, 0 without one
    wait,      \* what is left until next_allowed_at
    pc,        \* [Threads -> [at, session, command]]
    attempt,   \* the connect request: [peer, address, caps], or NONE
    changes    \* bound counter

storeVars   == <<builds, trusted, theirs, at, changes>>
backoffVars == <<delay, wait>>
vars == <<storeVars, sessions, active, backoffVars, pc, attempt>>

Device(p) == [id |-> p, key |-> p, version |-> builds[p], caps |-> PeerCaps]
RecordOf(p, caps) == [id |-> p, key |-> p, caps |-> caps]

(* The records of the store of p that matter here. *)
RecordsAt(p) ==
    IF p \in theirs THEN {[id |-> Me.id, key |-> Me.key, caps |-> Me.caps]} ELSE {}

Idle == [at |-> "idle", session |-> NONE, command |-> NONE]

Init ==
    /\ builds \in {b \in [Peers -> UNION {Builds[p] : p \in Peers}] :
                       \A p \in Peers : b[p] \in Builds[p]}
    /\ trusted \in [Peers -> {PeerCaps, OlderCaps, NONE}]
    /\ theirs \in SUBSET Peers
    /\ at \in {f \in [Addresses -> Peers \cup {NONE}] :
                  \A x, y \in Addresses : f[x] = f[y] => x = y \/ f[x] = NONE}
    /\ sessions = << >>
    /\ active = NONE
    /\ delay = 0
    /\ wait = 0
    /\ pc = [t \in Threads |-> Idle]
    /\ attempt = NONE
    /\ changes = 0

----
(* PeerSessionReconnectBackoff.  delay_for_failure starts at the initial delay,
   doubles it for each failure after the first and leaves its loop at the
   maximum; so the delay of one more failure follows from the last delay. *)

(* Mutant: the delay is doubled without a look at the maximum. *)
DelayUncapped(last) == IF last = 0 THEN InitialDelay ELSE 2 * last

DelayForFailure(last) ==
    IF last = 0 THEN InitialDelay
    ELSE IF 2 * last >= MaxDelay THEN MaxDelay ELSE 2 * last

RecordFailure == delay' = DelayForFailure(delay) /\ wait' = delay'

Tick == /\ wait > 0
        /\ wait' = wait - 1
        /\ UNCHANGED <<storeVars, sessions, active, delay, pc, attempt>>

----
(* session.connect, by the IPC thread, which holds the state mutex: one at a
   time, but beside the worker.  A session that is active, a backoff that runs
   and a peer that is not trusted refuse it. *)
Made(mine) == {s \in DOMAIN sessions : sessions[s].mine = mine}

MayConnect(p) == active = NONE /\ wait = 0 /\ trusted[p] # NONE

ConnectChecks(p, a) ==
    /\ pc["ipc"].at = "idle"
    /\ MayConnect(p)
    /\ Cardinality(Made(TRUE)) < MaxSessions
    /\ attempt' = [peer |-> p, address |-> a, caps |-> trusted[p]]
    /\ pc' = [pc EXCEPT !["ipc"] = [at |-> "connecting", session |-> NONE, command |-> NONE]]
    /\ UNCHANGED <<storeVars, sessions, active, backoffVars>>

(* TCP reaches whoever listens at the address now, and the prelude is
   written. *)
Connects ==
    /\ pc["ipc"].at = "connecting"
    /\ at[attempt.address] # NONE
    /\ sessions' = Append(sessions,
           [server |-> at[attempt.address], mine |-> TRUE,
            prelude |-> Prelude(Me, RecordOf(attempt.peer, attempt.caps), Len(sessions) + 1),
            fate |-> "queued"])
    /\ pc' = [pc EXCEPT !["ipc"] = [at |-> "attaching", session |-> Len(sessions) + 1,
                                    command |-> NONE]]
    /\ attempt' = NONE
    /\ UNCHANGED <<storeVars, active, backoffVars>>

ConnectFails ==
    /\ pc["ipc"].at = "connecting"
    /\ RecordFailure
    /\ pc' = [pc EXCEPT !["ipc"] = Idle]
    /\ attempt' = NONE
    /\ UNCHANGED <<storeVars, sessions, active>>

(* attach_session refuses when a session is active. *)
Attach ==
    /\ pc["ipc"].at = "attaching"
    /\ IF active = NONE
       THEN /\ active' = pc["ipc"].session
            /\ pc' = [pc EXCEPT !["ipc"] = [at |-> "resetting", session |-> NONE, command |-> NONE]]
       ELSE /\ pc' = [pc EXCEPT !["ipc"] = Idle]
            /\ UNCHANGED active
    /\ UNCHANGED <<storeVars, sessions, backoffVars, attempt>>

(* session.connect is answered from what is active then: connected, whatever
   the listener makes of the prelude. *)
ResetBackoff ==
    /\ pc["ipc"].at = "resetting"
    /\ delay' = 0 /\ wait' = 0
    /\ pc' = [pc EXCEPT !["ipc"] = Idle]
    /\ UNCHANGED <<storeVars, sessions, active, attempt>>

----
(* dispatch_transport_command, by either thread: it clones the active
   session, writes, and detaches whatever is active after a Stop or an
   error.  The IPC thread sends a recovery's commands. *)
Commands(t) == IF t = "worker" THEN {"input", "stop", "startOther"} ELSE {"stop"}

Dispatch(t, c) ==
    /\ pc[t].at = "idle"
    /\ active # NONE
    /\ pc' = [pc EXCEPT ![t] = [at |-> "writing", session |-> active, command |-> c]]
    /\ UNCHANGED <<storeVars, sessions, active, backoffVars, attempt>>

(* Written to a peer that has closed, a command may be buffered and lost; one
   that is queued waits in the listener's backlog. *)
WriteSucceeds(t) ==
    /\ pc[t].at = "writing"
    /\ pc[t].command # "startOther"
    /\ pc' = [pc EXCEPT ![t] = IF pc[t].command = "stop"
                                THEN [at |-> "detaching", session |-> NONE, command |-> NONE]
                                ELSE Idle]
    /\ UNCHANGED <<storeVars, sessions, active, backoffVars, attempt>>

(* The connected peer is not the one a start names, or the connection is
   gone. *)
WriteFails(t) ==
    /\ pc[t].at = "writing"
    /\ \/ pc[t].command = "startOther"
       \/ sessions[pc[t].session].fate \in {"refused", "ended"}
    /\ RecordFailure
    /\ pc' = [pc EXCEPT ![t] = [at |-> "detaching", session |-> NONE, command |-> NONE]]
    /\ UNCHANGED <<storeVars, sessions, active, attempt>>

Detach(t) ==
    /\ pc[t].at = "detaching"
    /\ active' = NONE
    /\ pc' = [pc EXCEPT ![t] = Idle]
    /\ UNCHANGED <<storeVars, sessions, backoffVars, attempt>>

(* session.disconnect and daemon.shutdown, after the recovery's commands. *)
Disconnect ==
    /\ pc["ipc"].at = "idle"
    /\ active # NONE
    /\ active' = NONE
    /\ UNCHANGED <<storeVars, sessions, backoffVars, pc, attempt>>

----
(* Mutant: the heartbeat thread keeps the stream. *)
HeldByHeartbeat(s) ==
    \/ active = s
    \/ \E t \in Threads : pc[t].session = s
    \/ sessions[s].fate = "served"

(* Somebody holds a clone of the session; the last one to go closes the
   connection. *)
Held(s) == active = s \/ \E t \in Threads : pc[t].session = s

Served(d) == {s \in DOMAIN sessions : sessions[s].server = d /\ sessions[s].fate = "served"}
Queued(d) == {s \in DOMAIN sessions : sessions[s].server = d /\ sessions[s].fate = "queued"}

(* Another device connects to the same listener; what it says and how long it
   stays is its own affair. *)
Visits(d) ==
    /\ Cardinality(Made(FALSE)) < MaxVisits
    /\ sessions' = Append(sessions,
           [server |-> d, mine |-> FALSE, prelude |-> << >>, fate |-> "queued"])
    /\ UNCHANGED <<storeVars, active, backoffVars, pc, attempt>>

(* run_peer_session_listener accepts the oldest connection, whoever made it,
   and stays with it until it ends. *)
ListenerTakes(d) ==
    /\ Served(d) = {}
    /\ Queued(d) # {}
    /\ LET s == Min(Queued(d))
       IN \E fate \in {"served", "refused"} :
             /\ sessions[s].mine =>
                   (fate = "served" <=> Admits(Device(d), RecordsAt(d), sessions[s].prelude))
             /\ sessions' = [sessions EXCEPT ![s].prelude = << >>, ![s].fate = fate]
    /\ UNCHANGED <<storeVars, active, backoffVars, pc, attempt>>

SessionCloses(s) ==
    /\ sessions[s].mine /\ sessions[s].fate = "served"
    /\ ~Held(s)
    /\ sessions' = [sessions EXCEPT ![s].fate = "ended"]
    /\ UNCHANGED <<storeVars, active, backoffVars, pc, attempt>>

(* The network drops the connection, the peer ends it (a frame that cannot be
   executed there does), or another device leaves. *)
ConnectionLost(s) ==
    /\ sessions[s].fate \in {"queued", "served"}
    /\ sessions' = [sessions EXCEPT ![s].fate = "ended", ![s].prelude = << >>]
    /\ UNCHANGED <<storeVars, active, backoffVars, pc, attempt>>

----
(* The users and the network. *)
Changes == changes < MaxChanges /\ changes' = changes + 1
Others  == <<sessions, active, backoffVars, pc, attempt, builds>>

TrustHere(p, record) ==
    /\ Changes /\ trusted[p] # record
    /\ trusted' = [trusted EXCEPT ![p] = record]
    /\ UNCHANGED <<theirs, at, Others>>

TrustThere(p) ==
    /\ Changes
    /\ theirs' = IF p \in theirs THEN theirs \ {p} ELSE theirs \cup {p}
    /\ UNCHANGED <<trusted, at, Others>>

Moves(a, p) ==
    /\ Changes /\ at[a] # p
    /\ at' = [b \in Addresses |-> IF b = a THEN p ELSE IF at[b] = p THEN NONE ELSE at[b]]
    /\ UNCHANGED <<trusted, theirs, Others>>

ThreadStep(t) == WriteSucceeds(t) \/ WriteFails(t) \/ Detach(t)
ConnectStep == Connects \/ ConnectFails \/ Attach \/ ResetBackoff

Next ==
    \/ \E p \in Peers, a \in Addresses : ConnectChecks(p, a)
    \/ ConnectStep
    \/ \E t \in Threads : ThreadStep(t) \/ \E c \in Commands(t) : Dispatch(t, c)
    \/ Disconnect
    \/ \E d \in Peers : Visits(d) \/ ListenerTakes(d)
    \/ \E s \in DOMAIN sessions : SessionCloses(s) \/ ConnectionLost(s)
    \/ Tick
    \/ \E p \in Peers, r \in {PeerCaps, OlderCaps, NONE} : TrustHere(p, r)
    \/ \E p \in Peers : TrustThere(p)
    \/ \E a \in Addresses, p \in Peers : Moves(a, p)

Spec == Init /\ [][Next]_vars

Connections == 1..(MaxSessions + MaxVisits)

(* A thread finishes a dispatch it began (each write returns), the listeners
   accept and their read loops see the end of a closed connection.  Whether a
   request comes, a network fails or another device leaves is left open. *)
Fairness ==
    /\ \A t \in Threads : WF_vars(ThreadStep(t))
    /\ WF_vars(ConnectStep)
    /\ \A d \in Peers : WF_vars(ListenerTakes(d))
    /\ \A s \in Connections : WF_vars(s \in DOMAIN sessions /\ SessionCloses(s))

FairSpec == Spec /\ Fairness

----
Fates == {"queued", "served", "refused", "ended"}

(* Types, and the bounds of the backoff: a delay never exceeds the maximum nor
   falls below the initial one, and nothing is waited for without a failure. *)
TypeOK ==
    /\ trusted \in [Peers -> {PeerCaps, OlderCaps, NONE}]
    /\ theirs \subseteq Peers
    /\ at \in [Addresses -> Peers \cup {NONE}]
    /\ \A s \in DOMAIN sessions : /\ sessions[s].server \in Peers /\ sessions[s].fate \in Fates
                                 /\ sessions[s].mine \in BOOLEAN
    /\ active \in DOMAIN sessions \cup {NONE}
    /\ delay \in {0} \cup InitialDelay..MaxDelay
    /\ wait \in 0..delay
    /\ \A t \in Threads : pc[t].session \in DOMAIN sessions \cup {NONE}

(* A session is meant for the listener that takes it: that is the peer the
   session is for (not one that took over its address), it trusts this device
   when it reads the hello, and their versions are ones that can share a
   session. *)
Meant(s) ==
    /\ sessions[s].server = sessions[s].prelude[1].peer
    /\ sessions[s].server \in theirs
    /\ IsCompatible(builds[sessions[s].server], Me.version)

(* More than is_compatible_with asks: the two run one version, minor included,
   and the capabilities this device noted of the peer at pairing are those it
   has.  Both sides sign transcripts of their own version and of their own idea
   of the capabilities, so neither is told why the session is refused. *)
NotedOfPeer(prelude) == prelude[2].signature[2].remoteCaps

InStep(s) ==
    /\ builds[sessions[s].server] = Me.version
    /\ NotedOfPeer(sessions[s].prelude) = PeerCaps

Judged(s) ==
    /\ sessions[s].mine /\ sessions[s].fate = "queued"
    /\ sessions'[s].fate \in {"served", "refused"}

(* A listener serves exactly the sessions that are meant for it and in step
   with it.  The second is the code's own addition, see
   CompatibleVersionsShareSessions. *)
AdmittedAsMeant ==
    [][\A s \in DOMAIN sessions :
          Judged(s) => (sessions'[s].fate = "served" <=> Meant(s) /\ InStep(s))]_vars

(* Versions of one major version share a session, as ProtocolVersion's
   documentation and tests have it: a session meant for the listener, made
   with the peer's present capabilities, is served. *)
CompatibleVersionsShareSessions ==
    [][\A s \in DOMAIN sessions :
          Judged(s) /\ Meant(s) /\ NotedOfPeer(sessions[s].prelude) = PeerCaps
              => sessions'[s].fate = "served"]_vars

(* A session that commands are routed to does not wait for ever behind an
   earlier one of this device: those were detached, the threads that still
   write to them finish, their connections close, and the listener comes to
   it.  Behind another device's it may: a listener stays with whoever sends
   heartbeats, and only if each of these leaves is the session taken up. *)
OthersLeave ==
    \A d \in Peers : []<>(\A s \in Served(d) : sessions[s].mine)

RoutedSessionIsTakenUp ==
    OthersLeave =>
        \A s \in Connections :
            active = s ~> (active # s \/ sessions[s].fate # "queued")
=============================================================================
