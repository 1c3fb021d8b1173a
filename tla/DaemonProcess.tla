---------------------------- MODULE DaemonProcess ----------------------------
(***************************************************************************)
(* akraz-daemon as a process (run_daemon): start-up, the threads beside    *)
(* the IPC loop, tear-down in order, and the crash marker that the panic   *)
(* hook writes and an orderly end removes.  Several processes use the same *)
(* socket path, peer port and marker file.                                 *)
(***************************************************************************)
EXTENDS IpcEndpoint

VARIABLES proc,     \* where main is
          port,     \* the daemon whose listener holds the peer port
          inbound,  \* the peer listener's thread
          listening,\* its running flag
          capture,  \* the capture worker
          panicked, \* threads of living processes that panicked: <<daemon, thread>>
          marker    \* the crash marker: the daemon that wrote it, or NONE

processVars == <<proc, port, inbound, listening, capture, panicked, marker>>
daemonVars == <<ipcVars, processVars>>

Threads == {"main", "capture", "listener", "discovery"}

Alive(d) == proc[d] \notin {"absent", "exited"}

ProcessTypeOK ==
    /\ proc \in [Daemons -> {"absent", "starting", "capturing", "serving", "stoppingCapture",
                             "joining", "clearing", "exited"}]
    /\ port \in Daemons \cup {NONE}
    /\ inbound \in [Daemons -> {"none", "idle", "polling", "session", "ended", "failed"}]
    /\ listening \in [Daemons -> BOOLEAN]
    /\ capture \in [Daemons -> {"none", "running", "failed", "stopped"}]
    /\ panicked \subseteq Daemons \X Threads
    /\ marker \in Daemons \cup {NONE}
    /\ \A d \in Daemons : port = d => inbound[d] \in {"idle", "polling", "session"}

ProcessInit ==
    /\ proc = [d \in Daemons |-> "absent"]
    /\ port = NONE
    /\ inbound = [d \in Daemons |-> "none"]
    /\ listening = [d \in Daemons |-> FALSE]
    /\ capture = [d \in Daemons |-> "none"]
    /\ panicked = {}
    /\ marker = NONE

----
(* The process is over: its listener and its sockets close with it. *)
Ends(d) ==
    /\ proc' = [proc EXCEPT ![d] = "exited"]
    /\ port' = IF port = d THEN NONE ELSE port
    /\ inbound' = [inbound EXCEPT ![d] = "none"]
    /\ listening' = [listening EXCEPT ![d] = FALSE]
    /\ capture' = [capture EXCEPT ![d] = "none"]
    /\ panicked' = {x \in panicked : x[1] # d}
    /\ ServerGone(d)

Killed(d) ==
    /\ Alive(d)
    /\ Ends(d)
    /\ UNCHANGED marker

(* Start-up until the peer port is bound; the identity may not load. *)
BindPeerPort(d) ==
    /\ proc[d] = "starting" /\ port = NONE
    /\ port' = d
    /\ inbound' = [inbound EXCEPT ![d] = "idle"]
    /\ listening' = [listening EXCEPT ![d] = TRUE]
    /\ proc' = [proc EXCEPT ![d] = "capturing"]
    /\ UNCHANGED <<ipcVars, capture, panicked, marker>>

PortTaken(d) ==
    /\ proc[d] = "starting" /\ port # NONE
    /\ Ends(d)
    /\ UNCHANGED marker

StartFails(d) ==
    /\ proc[d] = "starting"
    /\ Ends(d)
    /\ UNCHANGED marker

(* start_configured_input_capture; a failure goes through stopping and
   joining the listener, and then ends the process. *)
StartCapture(d) ==
    /\ proc[d] = "capturing"
    /\ capture' = [capture EXCEPT ![d] = "running"]
    /\ proc' = [proc EXCEPT ![d] = "serving"]
    /\ BeginServing(d)
    /\ UNCHANGED <<port, inbound, listening, panicked, marker>>

CaptureFails(d) ==
    /\ proc[d] = "capturing"
    /\ capture' = [capture EXCEPT ![d] = "failed"]
    /\ listening' = [listening EXCEPT ![d] = FALSE]
    /\ proc' = [proc EXCEPT ![d] = "joining"]
    /\ UNCHANGED <<ipcVars, port, inbound, panicked, marker>>

Serve(d) ==
    /\ proc[d] = "serving"
    /\ ServeStep(d)
    /\ UNCHANGED processVars

----
(* run_peer_session_listener: the flag is read before accept, and not again
   until the session is over. *)

(* Mutant: the loop does not read the flag. *)
PollsAlways(d) == TRUE

Polls(d) == listening[d]

ListenerLoop(d) ==
    /\ inbound[d] = "idle"
    /\ IF Polls(d)
         THEN inbound' = [inbound EXCEPT ![d] = "polling"] /\ UNCHANGED port
         ELSE /\ inbound' = [inbound EXCEPT ![d] = "ended"]
              /\ port' = IF port = d THEN NONE ELSE port
    /\ UNCHANGED <<ipcVars, proc, listening, capture, panicked, marker>>

NobodyCame(d) ==
    /\ inbound[d] = "polling"
    /\ inbound' = [inbound EXCEPT ![d] = "idle"]
    /\ UNCHANGED <<ipcVars, proc, port, listening, capture, panicked, marker>>

PeerConnects(d) ==
    /\ inbound[d] = "polling"
    /\ inbound' = [inbound EXCEPT ![d] = "session"]
    /\ UNCHANGED <<ipcVars, proc, port, listening, capture, panicked, marker>>

(* The peer closes, or an error ends the session; the loop goes on. *)
SessionEnds(d) ==
    /\ inbound[d] = "session"
    /\ inbound' = [inbound EXCEPT ![d] = "idle"]
    /\ UNCHANGED <<ipcVars, proc, port, listening, capture, panicked, marker>>

(* Mutant: the listener outlives its thread. *)
AcceptFailsOpen(d) ==
    /\ inbound[d] = "polling"
    /\ inbound' = [inbound EXCEPT ![d] = "failed"]
    /\ UNCHANGED <<ipcVars, proc, port, listening, capture, panicked, marker>>

(* accept fails: the thread returns an error that nobody reads until the
   daemon stops. *)
AcceptFails(d) ==
    /\ inbound[d] = "polling"
    /\ inbound' = [inbound EXCEPT ![d] = "failed"]
    /\ port' = IF port = d THEN NONE ELSE port
    /\ UNCHANGED <<ipcVars, proc, listening, capture, panicked, marker>>

(* A write error ends the capture worker, which nobody notices either. *)
CaptureDies(d) ==
    /\ capture[d] = "running"
    /\ capture' = [capture EXCEPT ![d] = "failed"]
    /\ UNCHANGED <<ipcVars, proc, port, inbound, listening, panicked, marker>>

----
(* A panic: the hook writes the marker whichever thread it is.  Main's ends
   the process; the capture worker's may poison the runtime state. *)
Panics(d, t) ==
    /\ panicked' = panicked \cup {<<d, t>>}
    /\ marker' = d

MainPanics(d) ==
    /\ Alive(d)
    /\ marker' = d
    /\ Ends(d)

CapturePanics(d) ==
    /\ capture[d] = "running"
    /\ Panics(d, "capture")
    /\ capture' = [capture EXCEPT ![d] = "failed"]
    /\ \E lost \in BOOLEAN : poisoned' = [poisoned EXCEPT ![d] = @ \/ lost]
    /\ UNCHANGED <<path, serve, talking, asked, conn, answer,
                   proc, port, inbound, listening>>

ListenerPanics(d) ==
    /\ inbound[d] = "session"
    /\ Panics(d, "listener")
    /\ inbound' = [inbound EXCEPT ![d] = "failed"]
    /\ port' = IF port = d THEN NONE ELSE port
    /\ UNCHANGED <<ipcVars, proc, listening, capture>>

DiscoveryPanics(d) ==
    /\ proc[d] = "serving"
    /\ <<d, "discovery">> \notin panicked
    /\ Panics(d, "discovery")
    /\ UNCHANGED <<ipcVars, proc, port, inbound, listening, capture>>

----
(* Tear-down: capture, discovery (whose result is only printed), listener. *)
StopServing(d) ==
    /\ proc[d] = "serving" /\ serve[d] \in {"ended", "failed"}
    /\ proc' = [proc EXCEPT ![d] = "stoppingCapture"]
    /\ UNCHANGED <<ipcVars, port, inbound, listening, capture, panicked, marker>>

StopCapture(d) ==
    /\ proc[d] = "stoppingCapture"
    /\ capture' = [capture EXCEPT ![d] = IF @ = "running" THEN "stopped" ELSE @]
    /\ listening' = [listening EXCEPT ![d] = FALSE]
    /\ proc' = [proc EXCEPT ![d] = "joining"]
    /\ UNCHANGED <<ipcVars, port, inbound, panicked, marker>>

(* Mutant: the results of the two workers do not count. *)
OrderlyServing(d) == serve[d] = "ended"

Orderly(d) == serve[d] = "ended" /\ capture[d] = "stopped" /\ inbound[d] = "ended"

JoinListener(d) ==
    /\ proc[d] = "joining" /\ inbound[d] \in {"ended", "failed"}
    /\ IF Orderly(d)
         THEN /\ proc' = [proc EXCEPT ![d] = "clearing"]
              /\ UNCHANGED <<ipcVars, port, inbound, listening, capture, panicked>>
         ELSE Ends(d)
    /\ UNCHANGED marker

(* clear_daemon_crash_marker, whoever wrote it *)
ClearAndExit(d) ==
    /\ proc[d] = "clearing"
    /\ marker' = NONE
    /\ Ends(d)

(* Steps a running process takes by itself. *)
MainStep(d) ==
    \/ BindPeerPort(d) \/ PortTaken(d) \/ StartCapture(d) \/ Serve(d)
    \/ StopServing(d) \/ StopCapture(d) \/ JoinListener(d) \/ ClearAndExit(d)

ListenerStep(d) == ListenerLoop(d) \/ NobodyCame(d)

Mishap(d) ==
    \/ StartFails(d) \/ CaptureFails(d) \/ AcceptFails(d) \/ CaptureDies(d)
    \/ MainPanics(d) \/ CapturePanics(d) \/ ListenerPanics(d) \/ DiscoveryPanics(d)

DaemonStep(d) == MainStep(d) \/ ListenerStep(d) \/ PeerConnects(d) \/ SessionEnds(d)
=============================================================================
