----------------------------- MODULE IpcEndpoint -----------------------------
(***************************************************************************)
(* The local IPC endpoint on Unix.  A daemon removes whatever socket it    *)
(* finds at the path, binds a new one, accepts one client, answers one     *)
(* request and removes the path again, for every request.  Several daemons *)
(* may use the same path.  A client connects, writes one line and waits    *)
(* for one line; it has no timeout and it may be gone at any time.         *)
(***************************************************************************)
EXTENDS FiniteSets

CONSTANTS Daemons, Clients,
          Heeding,  \* the clients whose next step depends on the answer
          NONE

ASSUME EndpointAssumption ==
    /\ NONE \notin Daemons \cup Clients
    /\ "stale" \notin Daemons

VARIABLES path,     \* the daemon whose listener the path names, "stale" or NONE
          serve,    \* where each daemon is in serve_daemon_ipc
          talking,  \* the client it accepted
          asked,    \* shutdown_requested
          poisoned, \* a thread died with the runtime state locked
          conn,     \* each client's connection: whom to and how far it got
          answer    \* what came of its last request

ipcVars == <<path, serve, talking, asked, poisoned, conn, answer>>

Requests == {"status", "shutdown"}

(* A connection: accepted by nobody yet or being served, with the request
   line unwritten or written; the client may have closed its end. *)
NoConn == [to |-> NONE, request |-> NONE, written |-> FALSE, closed |-> FALSE]
Listening == {"accepting", "reading", "writing", "cleaning"}

IpcTypeOK ==
    /\ path \in Daemons \cup {"stale", NONE}
    /\ serve \in [Daemons -> Listening \cup {"off", "preparing", "binding", "ended", "failed"}]
    /\ talking \in [Daemons -> Clients \cup {NONE}]
    /\ asked \in [Daemons -> BOOLEAN] /\ poisoned \in [Daemons -> BOOLEAN]
    /\ conn \in [Clients -> [to : Daemons \cup {NONE}, request : Requests \cup {NONE},
                            written : BOOLEAN, closed : BOOLEAN]]
    /\ answer \in [Clients -> {"none", "waiting", "status", "shutdown", "NotRunning", "Unreachable"}]

IpcInit ==
    /\ path \in {NONE, "stale"}
    /\ serve = [d \in Daemons |-> "off"]
    /\ talking = [d \in Daemons |-> NONE]
    /\ asked = [d \in Daemons |-> FALSE] /\ poisoned = [d \in Daemons |-> FALSE]
    /\ conn = [c \in Clients |-> NoConn]
    /\ answer = [c \in Clients |-> "none"]

----
Answer(cs, a) == [c \in Clients |-> IF c \in cs THEN IF c \in Heeding THEN a ELSE "none"
                                    ELSE answer[c]]

(* Client: send_os_request_line.  A path without a listener refuses the
   connection, which callers read as "not running". *)
Waiting(c) == answer[c] = "waiting"

Call(c, req) ==
    /\ conn[c] = NoConn
    /\ IF path \in Daemons
         THEN /\ conn' = [conn EXCEPT ![c] = [NoConn EXCEPT !.to = path, !.request = req]]
              /\ answer' = [answer EXCEPT ![c] = "waiting"]
         ELSE /\ answer' = Answer({c}, "NotRunning")
              /\ UNCHANGED conn
    /\ UNCHANGED <<path, serve, talking, asked, poisoned>>

WriteRequest(c) ==
    /\ conn[c].to # NONE /\ ~conn[c].written /\ ~conn[c].closed
    /\ conn' = [conn EXCEPT ![c].written = TRUE]
    /\ UNCHANGED <<path, serve, talking, asked, poisoned, answer>>

(* The client's process ends, or its window is closed, before the answer. *)
HangUp(c) ==
    /\ Waiting(c) /\ ~conn[c].closed
    /\ conn' = [conn EXCEPT ![c].closed = TRUE]
    /\ answer' = [answer EXCEPT ![c] = "none"]
    /\ UNCHANGED <<path, serve, talking, asked, poisoned>>

(* d's listener is dropped: the clients it has not answered are reset. *)
Cut(d) == {c \in Clients : conn[c].to = d}
ConnWithout(cs) == [c \in Clients |-> IF c \in cs THEN NoConn ELSE conn[c]]
AnswerReset(cs) == Answer({c \in cs : Waiting(c)}, "Unreachable")

(* Mutant: one listener for all requests, kept until the process ends. *)
ListenerKept(d, next) ==
    /\ serve' = [serve EXCEPT ![d] = next]
    /\ talking' = [talking EXCEPT ![d] = NONE]
    /\ conn' = ConnWithout({talking[d]} \ {NONE})
    /\ answer' = AnswerReset({talking[d]} \ {NONE})

ListenerGone(d, next) ==
    /\ serve' = [serve EXCEPT ![d] = next]
    /\ talking' = [talking EXCEPT ![d] = NONE]
    /\ conn' = ConnWithout(Cut(d))
    /\ answer' = AnswerReset(Cut(d))

----
(* Server: serve_os_request_once, in the loop of serve_daemon_ipc. *)
BeginServing(d) ==
    /\ serve[d] = "off"
    /\ serve' = [serve EXCEPT ![d] = "preparing"]
    /\ UNCHANGED <<path, talking, asked, poisoned, conn, answer>>

(* prepare_unix_socket_path, when d's turn comes *)
Prepare(d) ==
    /\ serve[d] = "preparing"
    /\ path' = NONE
    /\ serve' = [serve EXCEPT ![d] = "binding"]
    /\ UNCHANGED <<talking, asked, poisoned, conn, answer>>

(* Binding fails when another daemon bound the path since. *)
Bind(d) ==
    /\ serve[d] = "binding"
    /\ IF path = NONE
         THEN path' = d /\ serve' = [serve EXCEPT ![d] = "accepting"]
         ELSE serve' = [serve EXCEPT ![d] = "failed"] /\ UNCHANGED path
    /\ UNCHANGED <<talking, asked, poisoned, conn, answer>>

Accept(d) ==
    /\ serve[d] = "accepting"
    /\ \E c \in Cut(d) : talking' = [talking EXCEPT ![d] = c]
    /\ serve' = [serve EXCEPT ![d] = "reading"]
    /\ UNCHANGED <<path, asked, poisoned, conn, answer>>

(* An error returns at once: the path stays, without a listener. *)
ServeFails(d) ==
    /\ path' = IF path = d THEN "stale" ELSE path
    /\ ListenerGone(d, "failed")
    /\ UNCHANGED <<asked, poisoned>>

(* read_request_line and handle_request_line; daemon.shutdown sets the flag. *)
Handle(d) ==
    /\ serve[d] = "reading"
    /\ LET c == talking[d]
       IN /\ conn[c].written \/ conn[c].closed
          /\ IF conn[c].written /\ ~poisoned[d]
               THEN /\ serve' = [serve EXCEPT ![d] = "writing"]
                    /\ asked' = [asked EXCEPT ![d] = @ \/ conn[c].request = "shutdown"]
                    /\ UNCHANGED <<path, talking, poisoned, conn, answer>>
               ELSE ServeFails(d)

WriteResponse(d) ==
    /\ serve[d] = "writing"
    /\ LET c == talking[d]
       IN IF ~conn[c].closed
            THEN /\ serve' = [serve EXCEPT ![d] = "cleaning"]
                 /\ answer' = Answer({c}, conn[c].request)
                 /\ conn' = [conn EXCEPT ![c] = NoConn]
                 /\ talking' = [talking EXCEPT ![d] = NONE]
                 /\ UNCHANGED <<path, asked, poisoned>>
            ELSE ServeFails(d)

(* cleanup_unix_socket_path removes the path whoever bound it; then the
   listener is dropped and the loop looks at shutdown_requested. *)

GoesOn(d) == ~asked[d]

Cleanup(d) ==
    /\ serve[d] = "cleaning"
    /\ path' = NONE
    /\ ListenerGone(d, IF GoesOn(d) THEN "preparing" ELSE "ended")
    /\ UNCHANGED <<asked, poisoned>>

ServeStep(d) ==
    \/ Prepare(d) \/ Bind(d) \/ Accept(d)
    \/ Handle(d) \/ WriteResponse(d) \/ Cleanup(d)

(* The process ends. *)
ServerGone(d) ==
    /\ path' = IF path = d /\ serve[d] \in Listening THEN "stale" ELSE path
    /\ ListenerGone(d, "off")
    /\ asked' = [asked EXCEPT ![d] = FALSE]
    /\ poisoned' = [poisoned EXCEPT ![d] = FALSE]
=============================================================================
