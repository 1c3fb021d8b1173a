------------------------------ MODULE Supervisor ------------------------------
(***************************************************************************)
(* The desktop application's side of the daemon's life: daemon_start,      *)
(* daemon_stop, daemon_crash_acknowledge and the status calls they make,   *)
(* with the handle of the child process the application spawned.  Other    *)
(* requests of the application and akrazctl come from other clients.  The  *)
(* application can be closed at any time; the daemon then goes on.         *)
(***************************************************************************)
EXTENDS DaemonProcess, Naturals

CONSTANTS App,     \* the client that the application's start and stop use
          Callers, \* other clients
          MaxMishaps, \* bound on failures, panics, interrupted clients, restarts
          Kinds    \* how the daemon is spawned: "os", "sidecar" or both

ASSUME SupervisorAssumption ==
    /\ Clients = {App} \cup Callers /\ App \notin Callers
    /\ Heeding = {App}
    /\ Kinds \subseteq {"os", "sidecar"} /\ MaxMishaps \in Nat

VARIABLES child,    \* DaemonProcessState.child
          watched,  \* sidecar children whose end is awaited
          spawned,  \* the process spawned and not stored yet
          at,       \* where the command is
          restarted,\* an earlier application left its daemon running
          mishaps, \* bound counter
          kind

appVars == <<child, watched, spawned, at, restarted, mishaps, kind>>
vars == <<daemonVars, appVars>>

TypeOK ==
    /\ IpcTypeOK /\ ProcessTypeOK
    /\ child \in Daemons \cup {NONE} /\ spawned \in Daemons \cup {NONE}
    /\ watched \subseteq Daemons
    /\ at \in {"idle", "starting", "spawning", "storing", "polling", "polled", "unmanaged",
               "asked", "settling", "settled", "taking", "lost", "ending", "over"}
    /\ restarted \in BOOLEAN /\ mishaps \in 0..MaxMishaps /\ kind \in Kinds

Init ==
    /\ IpcInit /\ ProcessInit
    /\ child = NONE /\ watched = {} /\ spawned = NONE
    /\ at = "idle"
    /\ restarted = FALSE /\ mishaps = 0
    /\ kind \in Kinds

----
(* ManagedDaemonChild::is_running asks the system, except for a sidecar;
   managed_daemon_pid drops a handle whose process is over. *)
IsRunning(d) == d # NONE /\ (kind = "sidecar" \/ Alive(d))
Managed == IF IsRunning(child) THEN child ELSE NONE

Goto(label) == at' = label

(* The command returns a snapshot: running, starting, not running, ... *)
Report(snapshot) == at' = "idle"
AppOnly == UNCHANGED <<processVars, spawned, watched, restarted, mishaps, kind>>

Ask(req, label) == Call(App, req) /\ Goto(label) /\ AppOnly

(* The answer is there, and used. *)
Answered ==
    /\ ~Waiting(App)
    /\ answer' = [answer EXCEPT ![App] = "none"]
    /\ UNCHANGED <<path, serve, talking, asked, poisoned, conn>>

(* daemon_start *)
Start ==
    /\ at = "idle"
    /\ child' = Managed
    /\ Ask("status", "starting")

StartDecides ==
    /\ at = "starting" /\ Answered
    /\ CASE answer[App] = "status" -> Report("running")
         [] answer[App] = "NotRunning" -> Goto("spawning")
         [] OTHER -> Report("unreachable")
    /\ UNCHANGED child /\ AppOnly

Fresh == {d \in Daemons : proc[d] = "absent"}

Spawn ==
    /\ at = "spawning"
    /\ child' = Managed
    /\ IF Managed # NONE THEN Report("starting") /\ UNCHANGED <<spawned, proc>>
       ELSE IF marker # NONE THEN Report("blocked") /\ UNCHANGED <<spawned, proc>>
       ELSE /\ Fresh # {}
            /\ spawned' = CHOOSE d \in Fresh : TRUE
            /\ proc' = [proc EXCEPT ![spawned'] = "starting"]
            /\ Goto("storing")
    /\ UNCHANGED <<ipcVars, port, inbound, listening, capture, panicked, marker,
                   watched, restarted, mishaps, kind>>

(* store_managed_child; the application runs one command at a time, so no
   other child can be running.  A sidecar's end is watched. *)
StoreChild ==
    /\ at = "storing"
    /\ child' = spawned
    /\ spawned' = NONE
    /\ watched' = IF kind = "sidecar" THEN watched \cup {spawned} ELSE watched
    /\ Goto("polling")
    /\ UNCHANGED <<daemonVars, restarted, mishaps, kind>>

(* The polling loop, whose retries may run out. *)
PollStart ==
    /\ at = "polling"
    /\ child' = Managed
    /\ IF Managed = NONE
         THEN Report("failed") /\ UNCHANGED ipcVars /\ AppOnly
         ELSE Ask("status", "polled")

PollDecides ==
    /\ at = "polled" /\ Answered
    /\ IF answer[App] = "status" THEN Report("running")
       ELSE Goto("polling") \/ Report("starting")
    /\ UNCHANGED child /\ AppOnly

----
(* daemon_stop *)
Stop ==
    /\ at = "idle"
    /\ child' = Managed
    /\ IF Managed = NONE THEN Ask("status", "unmanaged") ELSE Ask("shutdown", "asked")

UnmanagedReported ==
    /\ at = "unmanaged" /\ Answered
    /\ Report("unmanaged")
    /\ UNCHANGED child /\ AppOnly

(* Mutant: no answer to daemon.shutdown counts as one. *)
AcceptedAnyway == TRUE

Accepted == answer[App] = "shutdown"

StopDecides ==
    /\ at = "asked" /\ Answered
    /\ Goto(IF Accepted THEN "settling" ELSE "taking")
    /\ UNCHANGED child /\ AppOnly

(* wait_for_stopped_daemon_snapshot *)
Settle ==
    /\ at \in {"settling", "ending"}
    /\ Ask("status", IF at = "settling" THEN "settled" ELSE "over")
    /\ UNCHANGED child

(* An endpoint that is gone counts as a daemon that stopped: the handle is
   dropped without waiting for the process. *)
SettleDecides ==
    /\ at = "settled" /\ Answered
    /\ IF answer[App] = "NotRunning"
         THEN Report("graceful") /\ child' = NONE
         ELSE (Goto("settling") \/ Goto("taking")) /\ UNCHANGED child
    /\ AppOnly

TakeAndKill ==
    /\ at = "taking" /\ IsRunning(child)
    /\ IF Alive(child) THEN Killed(child) ELSE UNCHANGED daemonVars
    /\ child' = NONE
    /\ Goto("ending")
    /\ UNCHANGED <<spawned, watched, restarted, mishaps, kind>>

TakeNothing ==
    /\ at = "taking" /\ ~IsRunning(child)
    /\ child' = NONE
    /\ Ask("status", "lost")

LostDecides ==
    /\ at = "lost" /\ Answered
    /\ Report(IF answer[App] = "NotRunning" THEN "graceful" ELSE "detached")
    /\ UNCHANGED child /\ AppOnly

ForcedDecides ==
    /\ at = "over" /\ Answered
    /\ IF answer[App] = "NotRunning" THEN Report("forced")
       ELSE Goto("ending") \/ Report("forced")
    /\ UNCHANGED child /\ AppOnly

----
(* watch_sidecar_termination *)
SidecarTerminated(d) ==
    /\ d \in watched /\ ~Alive(d)
    /\ watched' = watched \ {d}
    /\ child' = IF child = d THEN NONE ELSE child
    /\ UNCHANGED <<daemonVars, spawned, at, restarted, mishaps, kind>>

(* daemon_crash_acknowledge *)
Acknowledge ==
    /\ at = "idle" /\ marker # NONE
    /\ marker' = NONE
    /\ UNCHANGED <<ipcVars, proc, port, inbound, listening, capture, panicked, appVars>>

(* The application is closed and opened again. *)
AppRestarts ==
    /\ ~restarted /\ mishaps < MaxMishaps
    /\ child # NONE \/ at # "idle"
    /\ IF Waiting(App) THEN HangUp(App) ELSE UNCHANGED ipcVars
    /\ child' = NONE /\ watched' = {} /\ spawned' = NONE
    /\ at' = "idle"
    /\ restarted' = TRUE /\ mishaps' = mishaps + 1
    /\ UNCHANGED <<processVars, kind>>

(* Any other client asks something and may be interrupted. *)
CallerAsks(c) ==
    /\ ~Waiting(c)
    /\ Call(c, "status")
    /\ UNCHANGED <<processVars, appVars>>

Unlucky ==
    /\ mishaps < MaxMishaps
    /\ mishaps' = mishaps + 1
    /\ UNCHANGED <<child, watched, spawned, at, restarted, kind>>

CallerHangsUp(c) == HangUp(c) /\ UNCHANGED processVars /\ Unlucky

Writes(c) == WriteRequest(c) /\ UNCHANGED <<processVars, appVars>>

AppStep ==
    \/ StartDecides \/ Spawn \/ StoreChild \/ PollStart \/ PollDecides
    \/ UnmanagedReported \/ StopDecides \/ Settle \/ SettleDecides
    \/ TakeAndKill \/ TakeNothing \/ LostDecides \/ ForcedDecides

Process(d) ==
    \/ DaemonStep(d) /\ UNCHANGED appVars
    \/ Mishap(d) /\ Unlucky

Next ==
    \/ Start \/ Stop \/ AppStep \/ Acknowledge \/ AppRestarts
    \/ \E d \in Daemons : Process(d) \/ SidecarTerminated(d)
    \/ \E c \in Callers : CallerAsks(c) \/ CallerHangsUp(c)
    \/ \E c \in Clients : Writes(c)

(* A daemon's main and listener threads run; whatever needs a client, a peer
   or a mishap may never come. *)
Fairness ==
    /\ \A d \in Daemons : WF_vars(MainStep(d) /\ UNCHANGED appVars)
    /\ \A d \in Daemons : WF_vars(ListenerStep(d) /\ UNCHANGED appVars)

Spec == Init /\ [][Next]_vars /\ Fairness

----
(* One daemon: as long as no earlier application left one running, a daemon
   that was not asked to shut down is the one whose handle the application
   holds (or is about to store).  So none is started beside another and
   none is lost sight of, although an endpoint between two requests looks
   like a daemon that is not running. *)
OneDaemon ==
    ~restarted => \A d \in Daemons : Alive(d) /\ ~asked[d] => d \in {child, spawned}

(* Crash evidence: a daemon whose main, capture or listener thread panicked
   never removes its own marker, even when it is shut down in order
   afterwards.  (That of its discovery thread it does.) *)
CrashEvidenceKept ==
    [][\A d \in Daemons :
         proc[d] = "clearing" /\ proc'[d] = "exited" /\ marker = d =>
             \A t \in Threads \ {"discovery"} : <<d, t>> \notin panicked]_vars

(* A daemon that carried out daemon.shutdown ends, unless a peer keeps its
   inbound session open: the listener thread is joined first. *)
ShutdownEnds ==
    \A d \in Daemons : asked[d] ~> (proc[d] = "exited" \/ inbound[d] = "session")

(* Nobody waits in vain: a client that waits for an answer is connected to a
   listener whose owner still works on requests, never to one left behind by
   an error, a shutdown or the end of the process. *)
NobodyWaitsInVain ==
    \A c \in Clients : Waiting(c) =>
        /\ conn[c].to # NONE
        /\ serve[conn[c].to] \in Listening
        /\ Alive(conn[c].to) /\ proc[conn[c].to] = "serving"
=============================================================================
