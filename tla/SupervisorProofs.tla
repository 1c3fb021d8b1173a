--------------------------- MODULE SupervisorProofs ---------------------------
(***************************************************************************)
(* Proofs about the life of the daemons, for any number of daemons and     *)
(* clients.  No client waits at a listener that is gone, because dropping  *)
(* a listener resets whoever is connected to it and only a bound path      *)
(* takes connections.  The application loses sight of no daemon, because   *)
(* an answer to daemon.shutdown comes from the child whose handle it       *)
(* holds, or from a daemon that was asked before.                          *)
(*                                                                         *)
(* And about what the programs write for each other, for all settings,     *)
(* arguments, parameters, histories of log entries and lists of samples.   *)
(* What is computed over a list is written as a recursive function on its  *)
(* positions, so a statement about it holds at every position because      *)
(* there is no least one where it fails.                                   *)
(***************************************************************************)
EXTENDS Lifecycle, TLAPS, WellFoundedInduction, FiniteSetTheorems

(* A connection leads to a listener; who waits has one and keeps it open. *)
Linked ==
    \A c \in Clients :
        /\ conn[c].to = NONE => conn[c] = NoConn
        /\ conn[c].to # NONE =>
              /\ serve[conn[c].to] \in Listening
              /\ conn[c].request \in Requests
              /\ conn[c].request = "shutdown" => c = App
        /\ Waiting(c) => conn[c].to # NONE /\ ~conn[c].closed

PathListens == \A d \in Daemons : path = d => serve[d] \in Listening

(* A daemon that reads or writes talks to a client of its own, and takes
   daemon.shutdown only on its way to answering it. *)
Talks ==
    \A d \in Daemons :
        /\ serve[d] \in {"reading", "writing"} => talking[d] \in Clients /\ conn[talking[d]].to = d
        /\ asked[d] => serve[d] \in {"writing", "cleaning", "ended", "failed"}
        /\ serve[d] = "writing" => (asked[d] <=> conn[talking[d]].request = "shutdown")

IpcInv == IpcTypeOK /\ Linked /\ PathListens /\ Talks

(* Which threads a process has started, and which it has stopped. *)
Stages ==
    \A d \in Daemons :
        /\ proc[d] \in {"absent", "starting"} => inbound[d] = "none"
        /\ proc[d] \in {"absent", "starting", "capturing"} => capture[d] = "none"
        /\ serve[d] # "off" => proc[d] \in {"serving", "stoppingCapture", "joining", "clearing"}
        /\ serve[d] \notin {"off", "ended", "failed"} => proc[d] = "serving"
        /\ proc[d] = "clearing" => capture[d] = "stopped" /\ inbound[d] = "ended"

(* A thread that panicked leaves a result that joining it shows. *)
PanicsShow ==
    \A d \in Daemons :
        /\ <<d, "main">> \notin panicked
        /\ <<d, "capture">> \in panicked => capture[d] = "failed"
        /\ <<d, "listener">> \in panicked => inbound[d] = "failed"

ProcInv == ProcessTypeOK /\ Stages /\ PanicsShow

AppTypes ==
    /\ child \in Daemons \cup {NONE} /\ spawned \in Daemons \cup {NONE}
    /\ watched \subseteq Daemons
    /\ at \in {"idle", "starting", "spawning", "storing", "polling", "polled", "unmanaged",
               "asked", "settling", "settled", "taking", "lost", "ending", "over"}
    /\ restarted \in BOOLEAN /\ mishaps \in 0 .. MaxMishaps /\ kind \in Kinds

(* The application has one child at a time. *)
Handles ==
    /\ at = "storing" <=> spawned # NONE
    /\ at = "storing" => child = NONE

(* The child is over or was asked to shut down. *)
Going == \A d \in Daemons : d = child /\ Alive(d) => asked[d]

(* Only the child, or a daemon asked before, answers daemon.shutdown; after
   the answer the child has been asked. *)
Stopping ==
    ~restarted =>
        /\ at = "asked" =>
              \A d \in Daemons : conn[App].to = d => d = child \/ (asked[d] /\ serve[d] = "cleaning")
        /\ at = "asked" /\ answer[App] = "shutdown" => Going
        /\ at \in {"settling", "settled"} => Going

AppInv == AppTypes /\ Handles /\ Stopping /\ OneDaemon

IInv == IpcInv /\ ProcInv /\ AppInv

----
(* The endpoint and its clients. *)

LEMMA Names ==
    /\ App \in Clients /\ App \in Heeding
    /\ \A d \in Daemons : d # NONE /\ d # "stale"
    /\ \A c \in Clients : c # NONE
    /\ \A c \in Callers : c \in Clients /\ c # App
  BY EndpointAssumption, SupervisorAssumption

LEMMA NoConnTyped ==
    /\ NoConn \in [to : Daemons \cup {NONE}, request : Requests \cup {NONE},
                   written : BOOLEAN, closed : BOOLEAN]
    /\ NoConn.to = NONE
  BY DEF NoConn

LEMMA AnswerProps ==
    ASSUME NEW cs, NEW a, IpcTypeOK,
           a \in {"status", "shutdown", "NotRunning", "Unreachable"}
    PROVE  /\ Answer(cs, a) \in [Clients -> {"none", "waiting", "status", "shutdown",
                                             "NotRunning", "Unreachable"}]
           /\ \A c \in cs \cap Clients : Answer(cs, a)[c] \in {a, "none"}
           /\ \A c \in Clients \ cs : Answer(cs, a)[c] = answer[c]
  BY DEF Answer, IpcTypeOK

(* Who is cut off waits no longer; nobody else notices. *)
LEMMA CutOff ==
    ASSUME IpcTypeOK, NEW d \in Daemons, NEW next, ListenerGone(d, next)
    PROVE  /\ conn' \in [Clients -> [to : Daemons \cup {NONE}, request : Requests \cup {NONE},
                                     written : BOOLEAN, closed : BOOLEAN]]
           /\ answer' \in [Clients -> {"none", "waiting", "status", "shutdown",
                                       "NotRunning", "Unreachable"}]
           /\ \A c \in Clients :
                 /\ conn[c].to = d => conn'[c] = NoConn /\ ~Waiting(c)'
                 /\ conn[c].to # d => conn'[c] = conn[c] /\ answer'[c] = answer[c]
                 /\ answer'[c] \in {answer[c], "none", "Unreachable"}
  <1> DEFINE cut == {c \in Cut(d) : Waiting(c)}
  <1>1. conn' = [c \in Clients |-> IF c \in Cut(d) THEN NoConn ELSE conn[c]]
    BY DEF ListenerGone, ConnWithout
  <1>2. answer' = Answer(cut, "Unreachable")
    BY DEF ListenerGone, AnswerReset
  <1>3. /\ Answer(cut, "Unreachable") \in [Clients -> {"none", "waiting", "status", "shutdown",
                                                       "NotRunning", "Unreachable"}]
        /\ \A c \in cut \cap Clients : Answer(cut, "Unreachable")[c] \in {"Unreachable", "none"}
        /\ \A c \in Clients \ cut : Answer(cut, "Unreachable")[c] = answer[c]
    BY AnswerProps
  <1>4. \A c \in Clients : c \in Cut(d) <=> conn[c].to = d
    BY DEF Cut
  <1>5. \A c \in Clients : c \in cut <=> conn[c].to = d /\ Waiting(c)
    BY <1>4
  <1> HIDE DEF cut
  <1>6. ASSUME NEW c \in Clients
        PROVE  /\ conn[c].to = d => conn'[c] = NoConn /\ ~Waiting(c)'
               /\ conn[c].to # d => conn'[c] = conn[c] /\ answer'[c] = answer[c]
               /\ answer'[c] \in {answer[c], "none", "Unreachable"}
    BY <1>1, <1>2, <1>3, <1>4, <1>5 DEF Waiting
  <1>7. conn' \in [Clients -> [to : Daemons \cup {NONE}, request : Requests \cup {NONE},
                               written : BOOLEAN, closed : BOOLEAN]]
    BY <1>1, NoConnTyped DEF IpcTypeOK
  <1> QED
    BY <1>2, <1>3, <1>6, <1>7

(* However a listener is dropped, the path no longer leads to it and every
   other connection stays what it was. *)
LEMMA ListenerDropped ==
    ASSUME IpcInv, NEW d \in Daemons, NEW next \in {"off", "preparing", "ended", "failed"},
           ListenerGone(d, next),
           path' # d, path' \in {path, "stale", NONE},
           asked' \in [Daemons -> BOOLEAN], poisoned' \in [Daemons -> BOOLEAN],
           \A e \in Daemons \ {d} : asked'[e] = asked[e],
           asked'[d] => next \in {"ended", "failed"}
    PROVE  IpcInv'
  <1>1. /\ conn' \in [Clients -> [to : Daemons \cup {NONE}, request : Requests \cup {NONE},
                                     written : BOOLEAN, closed : BOOLEAN]]
        /\ answer' \in [Clients -> {"none", "waiting", "status", "shutdown",
                                       "NotRunning", "Unreachable"}]
        /\ \A c \in Clients :
              /\ conn[c].to = d => conn'[c] = NoConn /\ ~Waiting(c)'
              /\ conn[c].to # d => conn'[c] = conn[c] /\ answer'[c] = answer[c]
    BY CutOff DEF IpcInv
  <1>2. /\ serve' = [serve EXCEPT ![d] = next] /\ talking' = [talking EXCEPT ![d] = NONE]
        /\ serve'[d] = next /\ \A e \in Daemons \ {d} : serve'[e] = serve[e] /\ talking'[e] = talking[e]
    BY DEF ListenerGone, IpcInv, IpcTypeOK
  <1>3. IpcTypeOK'
    BY <1>1, <1>2 DEF IpcInv, IpcTypeOK, Listening
  <1>4. Linked'
    <2> SUFFICES ASSUME NEW c \in Clients
                 PROVE  /\ conn'[c].to = NONE => conn'[c] = NoConn
                        /\ conn'[c].to # NONE =>
                              /\ serve'[conn'[c].to] \in Listening
                              /\ conn'[c].request \in Requests
                              /\ conn'[c].request = "shutdown" => c = App
                        /\ Waiting(c)' => conn'[c].to # NONE /\ ~conn'[c].closed
      BY DEF Linked
    <2>1. CASE conn[c].to = d
      BY <2>1, <1>1, NoConnTyped
    <2>2. CASE conn[c].to # d
      <3>1. conn'[c] = conn[c] /\ (Waiting(c)' <=> Waiting(c))
        BY <2>2, <1>1 DEF Waiting
      <3>2. conn[c].to # NONE => conn[c].to \in Daemons \ {d}
        BY <2>2 DEF IpcInv, IpcTypeOK
      <3> QED
        BY <3>1, <3>2, <1>2 DEF IpcInv, Linked
    <2> QED
      BY <2>1, <2>2
  <1>5. PathListens'
    BY <1>2, Names DEF IpcInv, PathListens
  <1>6. Talks'
    <2> SUFFICES ASSUME NEW e \in Daemons
                 PROVE  /\ serve'[e] \in {"reading", "writing"}
                              => talking'[e] \in Clients /\ conn'[talking'[e]].to = e
                        /\ asked'[e] => serve'[e] \in {"writing", "cleaning", "ended", "failed"}
                        /\ serve'[e] = "writing"
                              => (asked'[e] <=> conn'[talking'[e]].request = "shutdown")
      BY DEF Talks
    <2>1. CASE e = d
      BY <2>1, <1>2
    <2>2. CASE e # d
      <3>1. serve'[e] = serve[e] /\ talking'[e] = talking[e] /\ asked'[e] = asked[e]
        BY <2>2, <1>2
      <3>2. serve[e] \in {"reading", "writing"} =>
                /\ talking[e] \in Clients /\ conn[talking[e]].to = e
                /\ conn'[talking[e]] = conn[talking[e]]
        BY <2>2, <1>1 DEF IpcInv, Talks
      <3> QED
        BY <3>1, <3>2 DEF IpcInv, Talks
    <2> QED
      BY <2>1, <2>2
  <1> QED
    BY <1>3, <1>4, <1>5, <1>6 DEF IpcInv

(* What a step may do to the endpoint. *)
Dropped(d) ==
    \/ serve[d] \in {"reading", "writing"} /\ ServeFails(d)
    \/ Cleanup(d)
    \/ ServerGone(d)

LEMMA DroppedKept == ASSUME IpcInv, NEW d \in Daemons, Dropped(d) PROVE IpcInv'
  <1>1. CASE ServeFails(d) /\ serve[d] \in {"reading", "writing"}
    BY <1>1, ListenerDropped, Names DEF ServeFails, IpcInv, IpcTypeOK, Talks
  <1>2. CASE Cleanup(d)
    <2>1. path' = NONE /\ UNCHANGED <<asked, poisoned>>
      BY <1>2 DEF Cleanup
    <2>2. CASE asked[d]
      BY <1>2, <2>1, <2>2, ListenerDropped, Names DEF Cleanup, GoesOn, IpcInv, IpcTypeOK
    <2>3. CASE ~asked[d]
      BY <1>2, <2>1, <2>3, ListenerDropped, Names DEF Cleanup, GoesOn, IpcInv, IpcTypeOK
    <2> QED
      BY <2>2, <2>3
  <1>3. CASE ServerGone(d)
    <2>1. path' # d /\ path' \in {path, "stale", NONE}
      BY <1>3, Names DEF ServerGone, IpcInv, PathListens
    <2>2. /\ asked' = [asked EXCEPT ![d] = FALSE] /\ poisoned' = [poisoned EXCEPT ![d] = FALSE]
          /\ ListenerGone(d, "off")
      BY <1>3 DEF ServerGone
    <2>3. /\ asked' \in [Daemons -> BOOLEAN] /\ poisoned' \in [Daemons -> BOOLEAN]
          /\ ~asked'[d] /\ \A e \in Daemons \ {d} : asked'[e] = asked[e]
      BY <2>2 DEF IpcInv, IpcTypeOK
    <2> QED
      BY <2>1, <2>2, <2>3, ListenerDropped
  <1> QED
    BY <1>1, <1>2, <1>3 DEF Dropped

LEMMA CallKept ==
    ASSUME IpcInv, NEW c \in Clients, NEW req \in Requests, Call(c, req),
           req = "shutdown" => c = App
    PROVE  IpcInv'
  <1>1. CASE path \in Daemons
    <2>1. /\ conn' = [conn EXCEPT ![c] = [NoConn EXCEPT !.to = path, !.request = req]]
          /\ answer' = [answer EXCEPT ![c] = "waiting"]
          /\ UNCHANGED <<path, serve, talking, asked, poisoned>>
      BY <1>1 DEF Call
    <2>2. /\ conn'[c].to = path /\ conn'[c].request = req /\ ~conn'[c].closed
          /\ conn'[c] \in [to : Daemons \cup {NONE}, request : Requests \cup {NONE},
                           written : BOOLEAN, closed : BOOLEAN]
          /\ \A b \in Clients \ {c} : conn'[b] = conn[b] /\ answer'[b] = answer[b]
      BY <1>1, <2>1 DEF NoConn, IpcInv, IpcTypeOK
    <2>3. IpcTypeOK'
      BY <1>1, <2>1, <2>2 DEF IpcInv, IpcTypeOK
    <2>4. path # NONE /\ serve[path] \in Listening
      BY <1>1, Names DEF IpcInv, PathListens
    <2>5. Linked'
      BY <2>1, <2>2, <2>4 DEF IpcInv, Linked, Waiting
    <2>6. PathListens'
      BY <2>1 DEF IpcInv, PathListens
    <2>7. \A d \in Daemons : serve[d] \in {"reading", "writing"} => talking[d] # c
      <3>1. conn[c].to = NONE
        BY NoConnTyped DEF Call
      <3> QED
        BY <3>1, Names DEF IpcInv, Talks
    <2>8. Talks'
      <3> SUFFICES ASSUME NEW d \in Daemons
                   PROVE  /\ serve[d] \in {"reading", "writing"}
                                => talking[d] \in Clients /\ conn'[talking[d]] = conn[talking[d]]
        <4>1. UNCHANGED <<serve, talking, asked>>
          BY <2>1
        <4> QED
          BY <4>1 DEF IpcInv, Talks
      <3> QED
        BY <2>2, <2>7 DEF IpcInv, Talks
    <2> QED
      BY <2>3, <2>5, <2>6, <2>8 DEF IpcInv
  <1>2. CASE path \notin Daemons
    <2>1. answer' = Answer({c}, "NotRunning") /\ UNCHANGED <<path, serve, talking, asked, poisoned, conn>>
      BY <1>2 DEF Call
    <2>2. /\ answer' \in [Clients -> {"none", "waiting", "status", "shutdown",
                                      "NotRunning", "Unreachable"}]
          /\ answer'[c] \in {"NotRunning", "none"}
          /\ \A b \in Clients \ {c} : answer'[b] = answer[b]
      BY <2>1, AnswerProps DEF IpcInv
    <2>3. IpcTypeOK'
      BY <2>1, <2>2 DEF IpcInv, IpcTypeOK
    <2>4. \A b \in Clients : Waiting(b)' => Waiting(b)
      BY <2>2 DEF Waiting
    <2>5. Linked'
      BY <2>1, <2>4 DEF IpcInv, Linked
    <2>6. PathListens' /\ Talks'
      BY <2>1 DEF IpcInv, PathListens, Talks
    <2> QED
      BY <2>3, <2>5, <2>6 DEF IpcInv
  <1> QED
    BY <1>1, <1>2

LEMMA ClientKept ==
    ASSUME IpcInv, NEW c \in Clients, WriteRequest(c) \/ HangUp(c)
    PROVE  IpcInv'
  <1>1. /\ conn' \in [Clients -> [to : Daemons \cup {NONE}, request : Requests \cup {NONE},
                                     written : BOOLEAN, closed : BOOLEAN]]
        /\ answer' \in [Clients -> {"none", "waiting", "status", "shutdown",
                                      "NotRunning", "Unreachable"}]
        /\ UNCHANGED <<path, serve, talking, asked, poisoned>>
    <2>1. CASE WriteRequest(c)
      BY <2>1, ZenonT(60) DEF WriteRequest, IpcInv, IpcTypeOK
    <2>2. CASE HangUp(c)
      BY <2>2, ZenonT(60) DEF HangUp, IpcInv, IpcTypeOK
    <2> QED
      BY <2>1, <2>2
  <1>2. /\ conn'[c].to = conn[c].to /\ conn'[c].request = conn[c].request
        /\ \A b \in Clients \ {c} : conn'[b] = conn[b] /\ answer'[b] = answer[b]
        /\ conn[c].to # NONE
        /\ Waiting(c)' => Waiting(c) /\ ~conn'[c].closed
    <2>1. CASE WriteRequest(c)
      BY <2>1 DEF WriteRequest, IpcInv, IpcTypeOK, Linked, Waiting
    <2>2. CASE HangUp(c)
      BY <2>2 DEF HangUp, IpcInv, IpcTypeOK, Linked, Waiting
    <2> QED
      BY <2>1, <2>2
  <1>3. IpcTypeOK'
    BY <1>1 DEF IpcInv, IpcTypeOK
  <1>4. Linked'
    BY <1>1, <1>2 DEF IpcInv, Linked, Waiting
  <1>5. PathListens'
    BY <1>1 DEF IpcInv, PathListens
  <1>6. Talks'
    BY <1>1, <1>2 DEF IpcInv, Talks
  <1> QED
    BY <1>3, <1>4, <1>5, <1>6 DEF IpcInv

LEMMA AnsweredKept == ASSUME IpcInv, Answered PROVE IpcInv'
  <1>1. /\ UNCHANGED <<path, serve, talking, asked, poisoned, conn>>
        /\ answer' = [answer EXCEPT ![App] = "none"]
    BY DEF Answered
  <1> QED
    BY <1>1, Names DEF IpcInv, IpcTypeOK, Linked, PathListens, Talks, Waiting

(* The steps of a server that keep its listener, or have none yet. *)
ServerGoesOn(d) ==
    \/ BeginServing(d) \/ Prepare(d) \/ Bind(d) \/ Accept(d)
    \/ Handle(d) /\ serve'[d] = "writing"
    \/ WriteResponse(d) /\ serve'[d] = "cleaning"

LEMMA GoesOnKept == ASSUME IpcInv, NEW d \in Daemons, ServerGoesOn(d) PROVE IpcInv'
  <1>1. CASE BeginServing(d) \/ Prepare(d)
    <2>1. /\ serve' = [serve EXCEPT ![d] = serve'[d]] /\ serve'[d] \in {"preparing", "binding"}
          /\ serve[d] \in {"off", "preparing"}
          /\ path' \in {path, NONE} /\ UNCHANGED <<talking, asked, poisoned, conn, answer>>
      BY <1>1 DEF BeginServing, Prepare, IpcInv, IpcTypeOK
    <2>2. IpcTypeOK'
      BY <2>1 DEF IpcInv, IpcTypeOK
    <2>3. Linked'
      BY <2>1 DEF IpcInv, IpcTypeOK, Linked, Listening, Waiting
    <2>4. PathListens'
      BY <2>1, Names DEF IpcInv, IpcTypeOK, PathListens, Listening
    <2>5. Talks'
      BY <2>1 DEF IpcInv, IpcTypeOK, Talks
    <2> QED
      BY <2>2, <2>3, <2>4, <2>5 DEF IpcInv
  <1>2. CASE Bind(d)
    <2>1. /\ serve' = [serve EXCEPT ![d] = serve'[d]] /\ serve'[d] \in {"accepting", "failed"}
          /\ serve[d] = "binding"
          /\ (path' = d /\ serve'[d] = "accepting") \/ path' = path
          /\ UNCHANGED <<talking, asked, poisoned, conn, answer>>
      BY <1>2 DEF Bind, IpcInv, IpcTypeOK
    <2>2. IpcTypeOK'
      BY <2>1 DEF IpcInv, IpcTypeOK, Listening
    <2>3. Linked'
      BY <2>1 DEF IpcInv, IpcTypeOK, Linked, Listening, Waiting
    <2>4. PathListens'
      BY <2>1, Names DEF IpcInv, IpcTypeOK, PathListens, Listening
    <2>5. Talks'
      BY <2>1 DEF IpcInv, IpcTypeOK, Talks
    <2> QED
      BY <2>2, <2>3, <2>4, <2>5 DEF IpcInv
  <1>3. CASE Accept(d)
    <2>1. PICK c \in Cut(d) : talking' = [talking EXCEPT ![d] = c]
      BY <1>3 DEF Accept
    <2>2. c \in Clients /\ conn[c].to = d
      BY <2>1 DEF Cut
    <2>3. /\ serve' = [serve EXCEPT ![d] = "reading"] /\ serve[d] = "accepting"
          /\ UNCHANGED <<path, asked, poisoned, conn, answer>>
      BY <1>3 DEF Accept
    <2>4. IpcTypeOK'
      BY <2>1, <2>2, <2>3 DEF IpcInv, IpcTypeOK, Listening
    <2>5. Linked'
      BY <2>3 DEF IpcInv, IpcTypeOK, Linked, Listening, Waiting
    <2>6. PathListens'
      BY <2>3, Names DEF IpcInv, IpcTypeOK, PathListens, Listening
    <2>7. Talks'
      BY <2>1, <2>2, <2>3 DEF IpcInv, IpcTypeOK, Talks
    <2> QED
      BY <2>4, <2>5, <2>6, <2>7 DEF IpcInv
  <1>4. CASE Handle(d) /\ serve'[d] = "writing"
    <2>1. /\ serve[d] = "reading" /\ serve' = [serve EXCEPT ![d] = "writing"]
          /\ asked' = [asked EXCEPT ![d] = @ \/ conn[talking[d]].request = "shutdown"]
          /\ UNCHANGED <<path, talking, poisoned, conn, answer>>
      BY <1>4 DEF Handle, ServeFails, ListenerGone, IpcInv, IpcTypeOK
    <2>2. ~asked[d]
      BY <2>1 DEF IpcInv, Talks
    <2>3. /\ asked' \in [Daemons -> BOOLEAN]
          /\ asked'[d] <=> conn[talking[d]].request = "shutdown"
          /\ \A e \in Daemons \ {d} : asked'[e] = asked[e]
      BY <2>1, <2>2 DEF IpcInv, IpcTypeOK
    <2>4. IpcTypeOK'
      BY <2>1, <2>3 DEF IpcInv, IpcTypeOK, Listening
    <2>5. Linked'
      BY <2>1 DEF IpcInv, IpcTypeOK, Linked, Listening, Waiting
    <2>6. PathListens'
      BY <2>1 DEF IpcInv, IpcTypeOK, PathListens, Listening
    <2>7. Talks'
      BY <2>1, <2>3 DEF IpcInv, IpcTypeOK, Talks
    <2> QED
      BY <2>4, <2>5, <2>6, <2>7 DEF IpcInv
  <1>5. CASE WriteResponse(d) /\ serve'[d] = "cleaning"
    <2> PICK c : c = talking[d]
      OBVIOUS
    <2>1. /\ serve[d] = "writing" /\ serve' = [serve EXCEPT ![d] = "cleaning"]
          /\ answer' = Answer({c}, conn[c].request)
          /\ conn' = [conn EXCEPT ![c] = NoConn]
          /\ talking' = [talking EXCEPT ![d] = NONE]
          /\ UNCHANGED <<path, asked, poisoned>>
      BY <1>5 DEF WriteResponse, ServeFails, ListenerGone, IpcInv, IpcTypeOK
    <2>2. c \in Clients /\ conn[c].to = d /\ conn[c].request \in Requests
      BY <2>1, Names DEF IpcInv, Talks, Linked
    <2>3. /\ answer' \in [Clients -> {"none", "waiting", "status", "shutdown",
                                      "NotRunning", "Unreachable"}]
          /\ ~Waiting(c)'
          /\ \A b \in Clients \ {c} : answer'[b] = answer[b]
      BY <2>1, <2>2, AnswerProps DEF IpcInv, Requests, Waiting
    <2>4. conn'[c] = NoConn /\ \A b \in Clients \ {c} : conn'[b] = conn[b]
      BY <2>1, <2>2 DEF IpcInv, IpcTypeOK
    <2>5. IpcTypeOK'
      BY <2>1, <2>3, NoConnTyped DEF IpcInv, IpcTypeOK, Listening
    <2>6. Linked'
      <3>1. ASSUME NEW b \in Clients \ {c}
            PROVE  /\ conn'[b] = conn[b] /\ (Waiting(b)' <=> Waiting(b))
                   /\ conn[b].to # NONE /\ serve[conn[b].to] \in Listening
                         => serve'[conn[b].to] \in Listening
        BY <2>1, <2>3, <2>4 DEF IpcInv, IpcTypeOK, Listening, Waiting
      <3>2. conn'[c] = NoConn /\ ~Waiting(c)'
        BY <2>3, <2>4
      <3> QED
        BY <3>1, <3>2, NoConnTyped DEF IpcInv, Linked
    <2>7. PathListens'
      BY <2>1 DEF IpcInv, IpcTypeOK, PathListens, Listening
    <2>8. Talks'
      <3> SUFFICES ASSUME NEW e \in Daemons \ {d}
                   PROVE  serve[e] \in {"reading", "writing"}
                              => talking[e] \in Clients /\ conn'[talking[e]] = conn[talking[e]]
        BY <2>1 DEF IpcInv, IpcTypeOK, Talks
      <3> QED
        BY <2>2, <2>4 DEF IpcInv, Talks
    <2> QED
      BY <2>5, <2>6, <2>7, <2>8 DEF IpcInv
  <1> QED
    BY <1>1, <1>2, <1>3, <1>4, <1>5 DEF ServerGoesOn

----
(* The daemon processes. *)

LEMMA ServeStepCases ==
    ASSUME NEW d \in Daemons, IpcTypeOK, ServeStep(d)
    PROVE  \/ ServerGoesOn(d)
           \/ serve[d] \in {"reading", "writing"} /\ ServeFails(d)
           \/ Cleanup(d)
  <1>1. CASE Prepare(d) \/ Bind(d) \/ Accept(d) \/ Cleanup(d)
    BY <1>1 DEF ServerGoesOn
  <1>2. CASE Handle(d)
    <2>1. serve[d] = "reading" /\ (serve' = [serve EXCEPT ![d] = "writing"] \/ ServeFails(d))
      BY <1>2 DEF Handle
    <2> QED
      BY <1>2, <2>1 DEF ServerGoesOn, IpcTypeOK
  <1>3. CASE WriteResponse(d)
    <2>1. serve[d] = "writing" /\ (serve' = [serve EXCEPT ![d] = "cleaning"] \/ ServeFails(d))
      BY <1>3 DEF WriteResponse
    <2> QED
      BY <1>3, <2>1 DEF ServerGoesOn, IpcTypeOK
  <1> QED
    BY <1>1, <1>2, <1>3 DEF ServeStep

LEMMA ServeStepServe ==
    ASSUME NEW d \in Daemons, IpcTypeOK, ServeStep(d)
    PROVE  serve' = [serve EXCEPT ![d] = serve'[d]] /\ serve'[d] # "off"
  <1>1. CASE Prepare(d) \/ Bind(d) \/ Accept(d)
    BY <1>1 DEF Prepare, Bind, Accept, IpcTypeOK
  <1>2. CASE Handle(d)
    BY <1>2 DEF Handle, ServeFails, ListenerGone, IpcTypeOK
  <1>3. CASE WriteResponse(d)
    BY <1>3 DEF WriteResponse, ServeFails, ListenerGone, IpcTypeOK
  <1>4. CASE Cleanup(d)
    BY <1>4 DEF Cleanup, ListenerGone, IpcTypeOK
  <1> QED
    BY <1>1, <1>2, <1>3, <1>4 DEF ServeStep

(* The endpoint as a step of the process sees it. *)
Untouched == UNCHANGED <<path, serve, talking, asked, conn, answer>> /\ poisoned' \in [Daemons -> BOOLEAN]

Kept(d) ==
    \/ Untouched
    \/ ServerGoesOn(d)
    \/ serve[d] \in {"reading", "writing"} /\ ServeFails(d)
    \/ Cleanup(d)

LEMMA DaemonCases ==
    ASSUME IpcTypeOK, NEW d \in Daemons, DaemonStep(d) \/ Mishap(d)
    PROVE  Ends(d) \/ Kept(d)
  <1>1. CASE Ends(d) \/ UNCHANGED ipcVars
    BY <1>1 DEF Kept, Untouched, ipcVars, IpcTypeOK
  <1>2. CASE StartCapture(d)
    BY <1>2 DEF StartCapture, Kept, ServerGoesOn
  <1>3. CASE Serve(d)
    BY <1>3, ServeStepCases DEF Serve, Kept
  <1>4. CASE CapturePanics(d)
    <2>1. PICK lost \in BOOLEAN : poisoned' = [poisoned EXCEPT ![d] = @ \/ lost]
      BY <1>4 DEF CapturePanics
    <2>2. UNCHANGED <<path, serve, talking, asked, conn, answer>>
      BY <1>4 DEF CapturePanics
    <2>3. poisoned' \in [Daemons -> BOOLEAN]
      BY <2>1 DEF IpcTypeOK
    <2> QED
      BY <2>2, <2>3 DEF Kept, Untouched
  <1>5. CASE MainStep(d)
    BY <1>1, <1>2, <1>3, <1>5
    DEF MainStep, BindPeerPort, PortTaken, StopServing, StopCapture, JoinListener, ClearAndExit, ipcVars
  <1>6. CASE ListenerStep(d) \/ PeerConnects(d) \/ SessionEnds(d)
    BY <1>1, <1>6 DEF ListenerStep, ListenerLoop, NobodyCame, PeerConnects, SessionEnds, ipcVars
  <1>7. CASE Mishap(d)
    BY <1>1, <1>4, <1>7
    DEF Mishap, StartFails, CaptureFails, AcceptFails, CaptureDies, MainPanics, ListenerPanics,
        DiscoveryPanics, ipcVars
  <1> QED
    BY <1>5, <1>6, <1>7 DEF DaemonStep

LEMMA DaemonKeepsIpc ==
    ASSUME IpcInv, NEW d \in Daemons, DaemonStep(d) \/ Mishap(d)
    PROVE  IpcInv'
  <1>1. CASE Untouched
    BY <1>1 DEF Untouched, IpcInv, IpcTypeOK, Linked, PathListens, Talks, Waiting
  <1> QED
    BY <1>1, DaemonCases, GoesOnKept, DroppedKept DEF Kept, Dropped, Ends, IpcInv

(* The end of a process leaves nothing of it behind. *)
LEMMA EndsKeepsProc ==
    ASSUME IpcTypeOK, ProcInv, NEW d \in Daemons, Ends(d), marker' \in Daemons \cup {NONE}
    PROVE  ProcInv'
  <1>1. /\ proc' = [proc EXCEPT ![d] = "exited"]
        /\ port' = IF port = d THEN NONE ELSE port
        /\ inbound' = [inbound EXCEPT ![d] = "none"]
        /\ listening' = [listening EXCEPT ![d] = FALSE]
        /\ capture' = [capture EXCEPT ![d] = "none"]
        /\ panicked' = {x \in panicked : x[1] # d}
        /\ serve' = [serve EXCEPT ![d] = "off"]
    BY DEF Ends, ServerGone, ListenerGone
  <1>2. /\ panicked' \subseteq panicked
        /\ \A e \in Daemons, t \in Threads : <<e, t>> \in panicked' => e # d /\ <<e, t>> \in panicked
    BY <1>1
  <1>3. ProcessTypeOK'
    BY <1>1, <1>2, Names DEF ProcInv, ProcessTypeOK
  <1>4. Stages'
    BY <1>1 DEF ProcInv, ProcessTypeOK, Stages, IpcTypeOK
  <1>5. PanicsShow'
    BY <1>1, <1>2 DEF ProcInv, ProcessTypeOK, PanicsShow, Threads
  <1> QED
    BY <1>3, <1>4, <1>5 DEF ProcInv

(* Main's own steps: start-up and tear-down. *)
LEMMA MainKeepsProc ==
    ASSUME IpcTypeOK, ProcInv, NEW d \in Daemons, MainStep(d) \/ CaptureFails(d)
    PROVE  ProcInv'
  <1>1. CASE BindPeerPort(d)
    <2>1. /\ proc[d] = "starting" /\ port' = d
          /\ inbound' = [inbound EXCEPT ![d] = "idle"] /\ listening' = [listening EXCEPT ![d] = TRUE]
          /\ proc' = [proc EXCEPT ![d] = "capturing"]
          /\ UNCHANGED <<serve, capture, panicked, marker>>
      BY <1>1 DEF BindPeerPort, ipcVars
    <2>2. ProcessTypeOK'
      BY <2>1, Names DEF ProcInv, ProcessTypeOK
    <2>3. Stages' /\ PanicsShow'
      BY <2>1 DEF ProcInv, ProcessTypeOK, Stages, PanicsShow
    <2> QED
      BY <2>2, <2>3 DEF ProcInv
  <1>2. CASE StartCapture(d)
    <2>1. /\ proc[d] = "capturing"
          /\ capture' = [capture EXCEPT ![d] = "running"]
          /\ proc' = [proc EXCEPT ![d] = "serving"]
          /\ serve' = [serve EXCEPT ![d] = "preparing"]
          /\ UNCHANGED <<port, inbound, listening, panicked, marker>>
      BY <1>2 DEF StartCapture, BeginServing
    <2>2. ProcessTypeOK'
      BY <2>1 DEF ProcInv, ProcessTypeOK
    <2>3. Stages' /\ PanicsShow'
      BY <2>1 DEF ProcInv, ProcessTypeOK, Stages, PanicsShow, IpcTypeOK
    <2> QED
      BY <2>2, <2>3 DEF ProcInv
  <1>3. CASE Serve(d)
    <2>1. /\ proc[d] = "serving" /\ serve' = [serve EXCEPT ![d] = serve'[d]]
          /\ UNCHANGED processVars
      BY <1>3, ServeStepServe DEF Serve
    <2>2. ProcessTypeOK' /\ PanicsShow'
      BY <2>1 DEF ProcInv, ProcessTypeOK, PanicsShow, processVars
    <2>3. Stages'
      BY <2>1 DEF ProcInv, ProcessTypeOK, Stages, processVars, IpcTypeOK
    <2> QED
      BY <2>2, <2>3 DEF ProcInv
  <1>4. CASE StopServing(d)
    <2>1. /\ proc[d] = "serving" /\ serve[d] \in {"ended", "failed"}
          /\ proc' = [proc EXCEPT ![d] = "stoppingCapture"]
          /\ UNCHANGED <<serve, port, inbound, listening, capture, panicked, marker>>
      BY <1>4 DEF StopServing, ipcVars
    <2> QED
      BY <2>1 DEF ProcInv, ProcessTypeOK, Stages, PanicsShow
  <1>5. CASE StopCapture(d)
    <2>1. /\ proc[d] = "stoppingCapture"
          /\ capture' = [capture EXCEPT ![d] = IF @ = "running" THEN "stopped" ELSE @]
          /\ listening' = [listening EXCEPT ![d] = FALSE]
          /\ proc' = [proc EXCEPT ![d] = "joining"]
          /\ UNCHANGED <<serve, port, inbound, panicked, marker>>
      BY <1>5 DEF StopCapture, ipcVars
    <2>2. /\ capture' \in [Daemons -> {"none", "running", "failed", "stopped"}]
          /\ capture[d] = "failed" => capture'[d] = "failed"
          /\ \A e \in Daemons \ {d} : capture'[e] = capture[e]
      BY <2>1 DEF ProcInv, ProcessTypeOK
    <2>3. ProcessTypeOK'
      BY <2>1, <2>2 DEF ProcInv, ProcessTypeOK
    <2>4. Stages' /\ PanicsShow'
      BY <2>1, <2>2 DEF ProcInv, ProcessTypeOK, Stages, PanicsShow
    <2> QED
      BY <2>3, <2>4 DEF ProcInv
  <1>6. CASE JoinListener(d) /\ ~Ends(d)
    <2>1. /\ proc[d] = "joining" /\ Orderly(d)
          /\ proc' = [proc EXCEPT ![d] = "clearing"]
          /\ UNCHANGED <<serve, port, inbound, listening, capture, panicked, marker>>
      BY <1>6 DEF JoinListener, ipcVars
    <2> QED
      BY <2>1 DEF ProcInv, ProcessTypeOK, Stages, PanicsShow, Orderly
  <1>7. CASE CaptureFails(d)
    <2>1. /\ proc[d] = "capturing"
          /\ capture' = [capture EXCEPT ![d] = "failed"]
          /\ listening' = [listening EXCEPT ![d] = FALSE]
          /\ proc' = [proc EXCEPT ![d] = "joining"]
          /\ UNCHANGED <<serve, port, inbound, panicked, marker>>
      BY <1>7 DEF CaptureFails, ipcVars
    <2>2. ProcessTypeOK'
      BY <2>1 DEF ProcInv, ProcessTypeOK
    <2>3. Stages' /\ PanicsShow'
      BY <2>1 DEF ProcInv, ProcessTypeOK, Stages, PanicsShow, IpcTypeOK
    <2> QED
      BY <2>2, <2>3 DEF ProcInv
  <1>8. CASE PortTaken(d) \/ ClearAndExit(d) \/ (JoinListener(d) /\ Ends(d))
    <2>1. Ends(d) /\ marker' \in {marker, NONE}
      BY <1>8 DEF PortTaken, ClearAndExit, JoinListener
    <2> QED
      BY <2>1, EndsKeepsProc DEF ProcInv, ProcessTypeOK
  <1> QED
    BY <1>1, <1>2, <1>3, <1>4, <1>5, <1>6, <1>7, <1>8 DEF MainStep

(* The peer listener's thread; its own steps and its failures leave main
   where it is. *)
LEMMA ListenerKeepsProc ==
    ASSUME IpcTypeOK, ProcInv, NEW d \in Daemons,
           ListenerStep(d) \/ PeerConnects(d) \/ SessionEnds(d) \/ AcceptFails(d) \/ ListenerPanics(d)
    PROVE  ProcInv'
  <1>1. /\ inbound[d] \in {"idle", "polling", "session"}
        /\ inbound' = [inbound EXCEPT ![d] = inbound'[d]]
        /\ inbound'[d] \in {"idle", "polling", "session", "ended", "failed"}
        /\ \/ inbound'[d] \in {"idle", "polling", "session"} /\ port' = port
           \/ port' = IF port = d THEN NONE ELSE port
        /\ UNCHANGED <<serve, proc, listening, capture>>
    BY DEF ListenerStep, ListenerLoop, NobodyCame, PeerConnects, SessionEnds, AcceptFails,
           ListenerPanics, ProcInv, ProcessTypeOK, ipcVars
  <1>2. \/ UNCHANGED <<panicked, marker>>
        \/ panicked' = panicked \cup {<<d, "listener">>} /\ marker' = d /\ inbound'[d] = "failed"
    BY DEF ListenerStep, ListenerLoop, NobodyCame, PeerConnects, SessionEnds, AcceptFails,
           ListenerPanics, Panics, ProcInv, ProcessTypeOK, ipcVars
  <1>3. proc[d] \notin {"absent", "starting", "clearing"} /\ <<d, "listener">> \notin panicked
    BY <1>1 DEF ProcInv, Stages, PanicsShow
  <1>4. panicked' \subseteq Daemons \X Threads /\ marker' \in Daemons \cup {NONE}
    BY <1>2 DEF ProcInv, ProcessTypeOK, Threads
  <1>5. ProcessTypeOK'
    BY <1>1, <1>4, Names DEF ProcInv, ProcessTypeOK
  <1>6. Stages'
    BY <1>1, <1>3 DEF ProcInv, ProcessTypeOK, Stages
  <1>7. PanicsShow'
    <2> SUFFICES ASSUME NEW e \in Daemons
                 PROVE  /\ <<e, "main">> \notin panicked'
                        /\ <<e, "capture">> \in panicked' => capture'[e] = "failed"
                        /\ <<e, "listener">> \in panicked' => inbound'[e] = "failed"
      BY DEF PanicsShow
    <2>1. ASSUME NEW t \in Threads, <<e, t>> \in panicked'
          PROVE  <<e, t>> \in panicked \/ (t = "listener" /\ inbound'[e] = "failed")
      BY <2>1, <1>2
    <2>2. /\ <<e, "main">> \notin panicked
          /\ <<e, "capture">> \in panicked => capture[e] = "failed"
          /\ <<e, "listener">> \in panicked => inbound[e] = "failed"
      BY DEF ProcInv, PanicsShow
    <2>3. Threads = {"main", "capture", "listener", "discovery"}
      BY DEF Threads
    <2>4. /\ capture[e] = "failed" => capture'[e] = "failed"
          /\ inbound[e] = "failed" => inbound'[e] = "failed"
      BY <1>1, <1>2 DEF ProcInv, ProcessTypeOK
    <2>5. <<e, "main">> \notin panicked'
      BY <2>1, <2>2, <2>3
    <2>6. <<e, "capture">> \in panicked' => capture'[e] = "failed"
      BY <2>1, <2>2, <2>3, <2>4
    <2>7. <<e, "listener">> \in panicked' => inbound'[e] = "failed"
      BY <2>1, <2>2, <2>3, <2>4
    <2> QED
      BY <2>5, <2>6, <2>7
  <1> QED
    BY <1>5, <1>6, <1>7 DEF ProcInv

LEMMA WorkersKeepProc ==
    ASSUME IpcTypeOK, ProcInv, NEW d \in Daemons,
           CaptureDies(d) \/ CapturePanics(d) \/ DiscoveryPanics(d)
    PROVE  ProcInv'
  <1>1. UNCHANGED <<serve, proc, port, inbound, listening>>
    BY DEF CaptureDies, CapturePanics, DiscoveryPanics, ipcVars
  <1>2. \/ capture[d] = "running" /\ capture' = [capture EXCEPT ![d] = "failed"]
        \/ capture' = capture
    BY DEF CaptureDies, CapturePanics, DiscoveryPanics
  <1>3. \/ UNCHANGED <<panicked, marker>>
        \/ /\ panicked' = panicked \cup {<<d, "capture">>} /\ marker' = d
           /\ capture' = [capture EXCEPT ![d] = "failed"]
        \/ panicked' = panicked \cup {<<d, "discovery">>} /\ marker' = d
    BY DEF CaptureDies, CapturePanics, DiscoveryPanics, Panics
  <1>4. panicked' \subseteq Daemons \X Threads /\ marker' \in Daemons \cup {NONE}
    BY <1>3 DEF ProcInv, ProcessTypeOK, Threads
  <1>5. ProcessTypeOK'
    BY <1>1, <1>2, <1>4 DEF ProcInv, ProcessTypeOK
  <1>6. Stages'
    BY <1>1, <1>2 DEF ProcInv, ProcessTypeOK, Stages
  <1>7. PanicsShow'
    <2> SUFFICES ASSUME NEW e \in Daemons
                 PROVE  /\ <<e, "main">> \notin panicked'
                        /\ <<e, "capture">> \in panicked' => capture'[e] = "failed"
                        /\ <<e, "listener">> \in panicked' => inbound'[e] = "failed"
      BY DEF PanicsShow
    <2>1. ASSUME NEW t \in Threads, <<e, t>> \in panicked'
          PROVE  <<e, t>> \in panicked \/ t = "discovery" \/ (t = "capture" /\ capture'[e] = "failed")
      BY <2>1, <1>3 DEF ProcInv, ProcessTypeOK
    <2>2. /\ <<e, "main">> \notin panicked
          /\ <<e, "capture">> \in panicked => capture[e] = "failed"
          /\ <<e, "listener">> \in panicked => inbound[e] = "failed"
      BY DEF ProcInv, PanicsShow
    <2>3. Threads = {"main", "capture", "listener", "discovery"}
      BY DEF Threads
    <2>4. /\ capture[e] = "failed" => capture'[e] = "failed"
          /\ inbound[e] = "failed" => inbound'[e] = "failed"
      BY <1>1, <1>2 DEF ProcInv, ProcessTypeOK
    <2>5. <<e, "main">> \notin panicked'
      BY <2>1, <2>2, <2>3
    <2>6. <<e, "capture">> \in panicked' => capture'[e] = "failed"
      BY <2>1, <2>2, <2>3, <2>4
    <2>7. <<e, "listener">> \in panicked' => inbound'[e] = "failed"
      BY <2>1, <2>2, <2>3, <2>4
    <2> QED
      BY <2>5, <2>6, <2>7
  <1> QED
    BY <1>5, <1>6, <1>7 DEF ProcInv

LEMMA DaemonKeepsProc ==
    ASSUME IpcTypeOK, ProcInv, NEW d \in Daemons, DaemonStep(d) \/ Mishap(d)
    PROVE  ProcInv'
  <1>1. CASE StartFails(d) \/ MainPanics(d)
    <2>1. Ends(d) /\ marker' \in {marker, d}
      BY <1>1 DEF StartFails, MainPanics
    <2> QED
      BY <2>1, EndsKeepsProc DEF ProcInv, ProcessTypeOK
  <1> QED
    BY <1>1, MainKeepsProc, ListenerKeepsProc, WorkersKeepProc DEF DaemonStep, Mishap

LEMMA AliveKept ==
    ASSUME IpcTypeOK, ProcInv, NEW d \in Daemons, DaemonStep(d) \/ Mishap(d)
    PROVE  \A e \in Daemons : Alive(e)' => Alive(e)
  <1>1. CASE Ends(d)
    BY <1>1 DEF Ends, Alive, ProcInv, ProcessTypeOK
  <1>2. CASE MainStep(d) \/ CaptureFails(d)
    BY <1>1, <1>2
    DEF MainStep, BindPeerPort, PortTaken, StartCapture, Serve, StopServing, StopCapture,
        JoinListener, ClearAndExit, CaptureFails, Alive, ProcInv, ProcessTypeOK, processVars
  <1>3. CASE ListenerStep(d) \/ PeerConnects(d) \/ SessionEnds(d)
    BY <1>3 DEF ListenerStep, ListenerLoop, NobodyCame, PeerConnects, SessionEnds, Alive
  <1>4. CASE AcceptFails(d) \/ CaptureDies(d) \/ CapturePanics(d) \/ ListenerPanics(d) \/ DiscoveryPanics(d)
    BY <1>4 DEF AcceptFails, CaptureDies, CapturePanics, ListenerPanics, DiscoveryPanics, Alive
  <1>5. CASE StartFails(d) \/ MainPanics(d)
    BY <1>1, <1>5 DEF StartFails, MainPanics
  <1> QED
    BY <1>2, <1>3, <1>4, <1>5 DEF DaemonStep, Mishap

----
(* What the daemons and the other clients may do while the application is at
   some point of a command: the application's connection may be cut, and only
   the daemon it leads to may answer it. *)
Mild ==
    /\ \A e \in Daemons : Alive(e)' => Alive(e) /\ (asked[e] => asked'[e])
    /\ conn'[App].to \in {conn[App].to, NONE}
    /\ \A e \in Daemons : conn'[App].to = e /\ serve[e] = "cleaning" => serve'[e] = "cleaning"
    /\ answer'[App] = "shutdown" /\ answer[App] # "shutdown" =>
          \E e \in Daemons : conn[App].to = e /\ serve[e] = "writing" /\ asked[e]

LEMMA CutIsMild ==
    ASSUME IpcInv, NEW d \in Daemons, NEW next, ListenerGone(d, next),
           \A e \in Daemons : Alive(e)' => Alive(e) /\ (asked[e] => asked'[e])
    PROVE  Mild
  <1>1. \/ conn'[App] = NoConn
        \/ conn'[App] = conn[App] /\ conn[App].to # d
    BY CutOff, Names DEF IpcInv
  <1>2. answer'[App] \in {answer[App], "none", "Unreachable"}
    BY CutOff, Names DEF IpcInv
  <1>3. \A e \in Daemons : e # d => serve'[e] = serve[e]
    BY DEF ListenerGone, IpcInv, IpcTypeOK
  <1>4. \A e \in Daemons : conn'[App].to = e => e # d
    BY <1>1, NoConnTyped, Names
  <1> QED
    BY <1>1, <1>2, <1>3, <1>4, NoConnTyped DEF Mild

LEMMA DaemonMild ==
    ASSUME IpcInv, ProcInv, NEW d \in Daemons, DaemonStep(d) \/ Mishap(d)
    PROVE  Mild
  <1>1. \A e \in Daemons : Alive(e)' => Alive(e)
    BY AliveKept DEF IpcInv
  <1>2. CASE Ends(d)
    <2>1. ~Alive(d)' /\ ListenerGone(d, "off") /\ asked' = [asked EXCEPT ![d] = FALSE]
      BY <1>2 DEF Ends, ServerGone, Alive, ProcInv, ProcessTypeOK
    <2>2. \A e \in Daemons : Alive(e)' => Alive(e) /\ (asked[e] => asked'[e])
      BY <1>1, <2>1 DEF IpcInv, IpcTypeOK
    <2> QED
      BY <2>1, <2>2, CutIsMild
  <1>3. CASE Untouched
    BY <1>1, <1>3 DEF Mild, Untouched
  <1>4. CASE BeginServing(d) \/ Prepare(d) \/ Bind(d) \/ Accept(d)
    <2>1. /\ serve[d] # "cleaning" /\ \A e \in Daemons : e # d => serve'[e] = serve[e]
          /\ UNCHANGED <<asked, conn, answer>>
      BY <1>4 DEF BeginServing, Prepare, Bind, Accept, IpcInv, IpcTypeOK
    <2> QED
      BY <1>1, <2>1 DEF Mild
  <1>5. CASE Handle(d) /\ serve'[d] = "writing"
    <2>1. /\ serve[d] = "reading" /\ serve' = [serve EXCEPT ![d] = "writing"]
          /\ asked' = [asked EXCEPT ![d] = @ \/ conn[talking[d]].request = "shutdown"]
          /\ UNCHANGED <<conn, answer>>
      BY <1>5 DEF Handle, ServeFails, ListenerGone, IpcInv, IpcTypeOK
    <2>2. /\ \A e \in Daemons : asked[e] => asked'[e]
          /\ \A e \in Daemons : e # d => serve'[e] = serve[e]
      BY <2>1 DEF IpcInv, IpcTypeOK
    <2> QED
      BY <1>1, <2>1, <2>2 DEF Mild
  <1>6. CASE WriteResponse(d) /\ serve'[d] = "cleaning"
    <2> PICK c : c = talking[d]
      OBVIOUS
    <2>1. /\ serve[d] = "writing" /\ serve' = [serve EXCEPT ![d] = "cleaning"]
          /\ answer' = Answer({c}, conn[c].request)
          /\ conn' = [conn EXCEPT ![c] = NoConn]
          /\ UNCHANGED asked
      BY <1>6 DEF WriteResponse, ServeFails, ListenerGone, IpcInv, IpcTypeOK
    <2>2. /\ c \in Clients /\ conn[c].to = d /\ conn[c].request \in Requests
          /\ asked[d] <=> conn[c].request = "shutdown"
      BY <2>1, Names DEF IpcInv, Talks, Linked
    <2>3. /\ answer'[c] \in {conn[c].request, "none"}
          /\ \A b \in Clients \ {c} : answer'[b] = answer[b]
      BY <2>1, <2>2, AnswerProps DEF IpcInv, Requests
    <2>4. conn'[c] = NoConn /\ \A b \in Clients \ {c} : conn'[b] = conn[b]
      BY <2>1, <2>2 DEF IpcInv, IpcTypeOK
    <2>5. \A e \in Daemons : e # d => serve'[e] = serve[e]
      BY <2>1 DEF IpcInv, IpcTypeOK
    <2>6. CASE c = App
      BY <1>1, <2>1, <2>2, <2>3, <2>4, <2>5, <2>6, NoConnTyped, Names DEF Mild
    <2>7. CASE c # App
      <3>1. conn'[App] = conn[App] /\ answer'[App] = answer[App]
        BY <2>3, <2>4, <2>7, Names
      <3> QED
        BY <1>1, <2>1, <2>5, <3>1 DEF Mild
    <2> QED
      BY <2>6, <2>7
  <1>7. CASE ServeFails(d) \/ Cleanup(d)
    <2>1. UNCHANGED asked /\ (ListenerGone(d, "failed") \/ \E next : ListenerGone(d, next))
      BY <1>7 DEF ServeFails, Cleanup
    <2> QED
      BY <1>1, <2>1, CutIsMild
  <1> QED
    BY <1>2, <1>3, <1>4, <1>5, <1>6, <1>7, DaemonCases DEF Kept, ServerGoesOn, IpcInv

----
(* The application. *)

LEMMA AppUnmoved ==
    ASSUME IInv, IpcInv', ProcInv', Mild, mishaps' \in 0 .. MaxMishaps,
           UNCHANGED <<child, spawned, watched, at, restarted, kind>>
    PROVE  AppInv'
  <1>1. AppTypes' /\ Handles'
    BY DEF IInv, AppInv, AppTypes, Handles
  <1>2. OneDaemon'
    BY DEF IInv, AppInv, OneDaemon, Mild
  <1>3. Going => Going'
    BY DEF Going, Mild
  <1>4. Stopping'
    <2> SUFFICES ASSUME ~restarted
                 PROVE  /\ at = "asked" =>
                            \A d \in Daemons : conn'[App].to = d =>
                                d = child \/ (asked'[d] /\ serve'[d] = "cleaning")
                        /\ at = "asked" /\ answer'[App] = "shutdown" => Going'
                        /\ at \in {"settling", "settled"} => Going'
      BY DEF Stopping
    <2>1. /\ at = "asked" =>
                \A d \in Daemons : conn[App].to = d => d = child \/ (asked[d] /\ serve[d] = "cleaning")
          /\ at = "asked" /\ answer[App] = "shutdown" => Going
          /\ at \in {"settling", "settled"} => Going
      BY DEF IInv, AppInv, Stopping
    <2>2. ASSUME at = "asked", NEW d \in Daemons, conn'[App].to = d
          PROVE  d = child \/ (asked'[d] /\ serve'[d] = "cleaning")
      <3>1. serve'[d] \in Listening
        BY <2>2, Names DEF IpcInv, Linked
      <3>2. Alive(d)'
        BY <3>1 DEF ProcInv, Stages, Alive, Listening
      <3>3. conn[App].to = d
        BY <2>2, Names DEF Mild
      <3> QED
        BY <2>1, <2>2, <3>2, <3>3 DEF Mild
    <2>3. ASSUME at = "asked", answer'[App] = "shutdown"
          PROVE  Going'
      <3>1. CASE answer[App] = "shutdown"
        BY <1>3, <2>1, <2>3, <3>1
      <3>2. CASE answer[App] # "shutdown"
        <4>1. PICK e \in Daemons : conn[App].to = e /\ serve[e] = "writing" /\ asked[e]
          BY <2>3, <3>2 DEF Mild
        <4>2. e = child
          BY <2>1, <2>3, <4>1
        <4> QED
          BY <1>3, <4>1, <4>2 DEF Going
      <3> QED
        BY <3>1, <3>2
    <2> QED
      BY <1>3, <2>1, <2>2, <2>3
  <1> QED
    BY <1>1, <1>2, <1>4 DEF AppInv

LEMMA ManagedProps ==
    ASSUME AppTypes
    PROVE  /\ Managed \in {child, NONE}
           /\ \A d \in Daemons : d = child /\ Alive(d) => Managed = d
           /\ Managed = NONE => \A d \in Daemons : d = child => ~Alive(d)
  BY Names DEF Managed, IsRunning, AppTypes

(* A call changes nothing of the daemons and leads to the one at the path. *)
LEMMA CallTo ==
    ASSUME IpcInv, NEW c \in Clients, NEW req \in Requests, Call(c, req)
    PROVE  /\ UNCHANGED <<path, serve, talking, asked, poisoned>>
           /\ conn[c].to = NONE
           /\ \A d \in Daemons : conn'[c].to = d => path = d
           /\ \A b \in Clients \ {c} : conn'[b] = conn[b] /\ answer'[b] = answer[b]
           /\ answer'[c] \in {"waiting", "NotRunning", "none"}
  <1>1. /\ UNCHANGED <<path, serve, talking, asked, poisoned>>
        /\ conn[c].to = NONE
    BY NoConnTyped DEF Call
  <1>2. CASE path \in Daemons
    <2>1. /\ conn' = [conn EXCEPT ![c] = [NoConn EXCEPT !.to = path, !.request = req]]
          /\ answer' = [answer EXCEPT ![c] = "waiting"]
      BY <1>2 DEF Call
    <2>2. conn'[c].to = path
      BY <2>1 DEF NoConn, IpcInv, IpcTypeOK
    <2>3. /\ answer'[c] = "waiting"
          /\ \A b \in Clients \ {c} : conn'[b] = conn[b] /\ answer'[b] = answer[b]
      BY <2>1 DEF IpcInv, IpcTypeOK
    <2> QED
      BY <1>1, <2>2, <2>3
  <1>3. CASE path \notin Daemons
    <2>1. answer' = Answer({c}, "NotRunning") /\ UNCHANGED conn
      BY <1>3 DEF Call
    <2>2. /\ answer'[c] \in {"NotRunning", "none"}
          /\ \A b \in Clients \ {c} : answer'[b] = answer[b]
      BY <2>1, AnswerProps DEF IpcInv
    <2> QED
      BY <1>1, <2>1, <2>2, Names
  <1> QED
    BY <1>2, <1>3

(* Whoever the application reaches while it is idle is its child, or a
   daemon that was asked to shut down and is about to stop listening. *)
LEMMA ReachesChild ==
    ASSUME IInv, ~restarted, spawned = NONE, conn[App].to = NONE, NEW d \in Daemons, path = d
    PROVE  d = child \/ (asked[d] /\ serve[d] = "cleaning")
  <1>1. serve[d] \in Listening
    BY DEF IInv, IpcInv, PathListens
  <1>2. Alive(d)
    BY <1>1 DEF IInv, ProcInv, Stages, Alive, Listening
  <1>3. CASE ~asked[d]
    BY <1>2, <1>3, Names DEF IInv, AppInv, OneDaemon
  <1>4. CASE asked[d]
    <2>1. serve[d] \in {"writing", "cleaning"}
      BY <1>1, <1>4 DEF IInv, IpcInv, Talks, Listening
    <2>2. serve[d] # "writing"
      <3> SUFFICES ASSUME serve[d] = "writing" PROVE FALSE
        OBVIOUS
      <3>1. /\ talking[d] \in Clients /\ conn[talking[d]].to = d
            /\ conn[talking[d]].request = "shutdown"
        BY <1>4 DEF IInv, IpcInv, Talks
      <3>2. talking[d] = App
        BY <3>1, Names DEF IInv, IpcInv, Linked
      <3> QED
        BY <3>1, <3>2, Names
    <2> QED
      BY <1>4, <2>1, <2>2
  <1> QED
    BY <1>3, <1>4

(* The application's step as the endpoint and the processes see it. *)
AppTouches ==
    \/ /\ \E req \in Requests : Call(App, req)
       /\ UNCHANGED processVars
    \/ Answered /\ UNCHANGED processVars
    \/ HangUp(App) /\ UNCHANGED processVars
    \/ /\ UNCHANGED <<ipcVars, port, inbound, listening, capture, panicked>>
       /\ marker' \in {marker, NONE}
       /\ \/ proc' = proc
          \/ \E d \in Fresh : proc' = [proc EXCEPT ![d] = "starting"]
    \/ \E d \in Daemons : Ends(d) /\ UNCHANGED marker

AppMoves ==
    \/ Start \/ Stop \/ AppStep \/ Acknowledge \/ AppRestarts
    \/ \E d \in Daemons : SidecarTerminated(d)

LEMMA AppCases == ASSUME AppTypes, AppMoves PROVE AppTouches
  <1>1. CASE UNCHANGED daemonVars
    BY <1>1 DEF AppTouches, daemonVars, processVars
  <1>2. CASE \E req, label : Ask(req, label) /\ req \in Requests
    BY <1>2 DEF AppTouches, Ask, AppOnly
  <1>3. CASE Answered /\ AppOnly
    BY <1>3 DEF AppTouches, AppOnly
  <1>4. CASE Start \/ Stop
    BY <1>2, <1>4 DEF Start, Stop, Requests
  <1>5. CASE StartDecides \/ PollDecides \/ UnmanagedReported \/ StopDecides \/ SettleDecides
             \/ LostDecides \/ ForcedDecides
    BY <1>3, <1>5 DEF StartDecides, PollDecides, UnmanagedReported, StopDecides, SettleDecides,
                      LostDecides, ForcedDecides
  <1>6. CASE Spawn
    <2>1. CASE UNCHANGED proc
      BY <1>6, <2>1 DEF Spawn, AppTouches
    <2>2. CASE ~UNCHANGED proc
      <3>1. /\ Fresh # {} /\ spawned' = CHOOSE d \in Fresh : TRUE
            /\ proc' = [proc EXCEPT ![spawned'] = "starting"]
        BY <1>6, <2>2 DEF Spawn
      <3>2. spawned' \in Fresh
        BY <3>1
      <3> QED
        BY <1>6, <3>1, <3>2 DEF Spawn, AppTouches
    <2> QED
      BY <2>1, <2>2
  <1>7. CASE StoreChild \/ \E d \in Daemons : SidecarTerminated(d)
    BY <1>1, <1>7 DEF StoreChild, SidecarTerminated
  <1>8. CASE PollStart
    <2>1. CASE UNCHANGED ipcVars /\ AppOnly
      BY <1>1, <2>1 DEF AppOnly, daemonVars
    <2>2. CASE Ask("status", "polled")
      BY <1>2, <2>2 DEF Requests
    <2> QED
      BY <1>8, <2>1, <2>2 DEF PollStart
  <1>9. CASE Settle \/ TakeNothing
    BY <1>2, <1>9 DEF Settle, TakeNothing, Requests
  <1>10. CASE TakeAndKill
    <2>1. child \in Daemons
      BY <1>10 DEF TakeAndKill, IsRunning, AppTypes
    <2> QED
      BY <1>1, <1>10, <2>1 DEF TakeAndKill, Killed, AppTouches
  <1>11. CASE Acknowledge
    BY <1>11 DEF Acknowledge, AppTouches
  <1>12. CASE AppRestarts
    <2>1. HangUp(App) \/ UNCHANGED ipcVars
      BY <1>12 DEF AppRestarts
    <2>2. UNCHANGED processVars
      BY <1>12 DEF AppRestarts
    <2> QED
      BY <1>1, <2>1, <2>2 DEF AppTouches, daemonVars
  <1> QED
    BY <1>4, <1>5, <1>6, <1>7, <1>8, <1>9, <1>10, <1>11, <1>12 DEF AppMoves, AppStep

(* Nobody but the application asks a daemon to shut down, and starting a
   process or ending one keeps what the processes are. *)
LEMMA AppKeepsDaemons == ASSUME IpcInv, ProcInv, AppTouches PROVE IpcInv' /\ ProcInv'
  <1>1. ASSUME UNCHANGED processVars, UNCHANGED serve
        PROVE  ProcInv'
    BY <1>1 DEF ProcInv, ProcessTypeOK, Stages, PanicsShow, processVars
  <1>2. CASE (\E req \in Requests : Call(App, req)) /\ UNCHANGED processVars
    <2>1. PICK req \in Requests : Call(App, req)
      BY <1>2
    <2>2. UNCHANGED serve
      BY <2>1 DEF Call
    <2>3. IpcInv'
      BY <2>1, CallKept, Names
    <2> QED
      BY <1>1, <1>2, <2>2, <2>3
  <1>3. CASE Answered /\ UNCHANGED processVars
    BY <1>1, <1>3, AnsweredKept DEF Answered
  <1>4. CASE HangUp(App) /\ UNCHANGED processVars
    BY <1>1, <1>4, ClientKept, Names DEF HangUp
  <1>5. ASSUME UNCHANGED <<ipcVars, port, inbound, listening, capture, panicked>>,
               marker' \in {marker, NONE}
        PROVE  IpcInv' /\ (proc' = proc => ProcInv')
    BY <1>5 DEF ipcVars, IpcInv, IpcTypeOK, Linked, PathListens, Talks, Waiting,
                ProcInv, ProcessTypeOK, Stages, PanicsShow
  <1>6. ASSUME UNCHANGED <<ipcVars, port, inbound, listening, capture, panicked>>,
               marker' \in {marker, NONE},
               NEW d \in Fresh, proc' = [proc EXCEPT ![d] = "starting"]
        PROVE  ProcInv'
    <2>1. d \in Daemons /\ proc[d] = "absent"
      BY DEF Fresh
    <2>2. ProcessTypeOK'
      BY <1>6, <2>1 DEF ProcInv, ProcessTypeOK
    <2>3. Stages'
      BY <1>6, <2>1 DEF ProcInv, ProcessTypeOK, Stages, ipcVars
    <2>4. PanicsShow'
      BY <1>6 DEF ProcInv, PanicsShow
    <2> QED
      BY <2>2, <2>3, <2>4 DEF ProcInv
  <1>7. ASSUME NEW d \in Daemons, Ends(d), UNCHANGED marker
        PROVE  IpcInv' /\ ProcInv'
    <2>1. IpcInv'
      BY <1>7, DroppedKept DEF Ends, Dropped
    <2>2. ProcInv'
      BY <1>7, EndsKeepsProc DEF IpcInv, ProcInv, ProcessTypeOK
    <2> QED
      BY <2>1, <2>2
  <1> QED
    BY <1>2, <1>3, <1>4, <1>5, <1>6, <1>7 DEF AppTouches

(* Away from a stop under way the application may drop the handle of a child
   that is over or was asked. *)
LEMMA AppElsewhere ==
    ASSUME AppInv, AppTypes', at # "storing",
           at' \notin {"storing", "asked", "settling", "settled"},
           UNCHANGED <<proc, asked, restarted, spawned>>,
           child' = child \/ Going
    PROVE  AppInv'
  <1>1. Handles' /\ Stopping'
    BY DEF AppInv, Handles, Stopping
  <1>2. OneDaemon'
    <2> SUFFICES ASSUME ~restarted, NEW d \in Daemons, Alive(d), ~asked[d]
                 PROVE  d \in {child', spawned'}
      BY DEF OneDaemon, Alive
    <2>1. d \in {child, spawned}
      BY DEF AppInv, OneDaemon
    <2> QED
      BY <2>1, Names DEF AppInv, Handles, Going
  <1> QED
    BY <1>1, <1>2 DEF AppInv

LEMMA ManagedDrops ==
    ASSUME AppTypes, child' = Managed
    PROVE  /\ child' \in Daemons \cup {NONE}
           /\ child' = child \/ Going
  BY ManagedProps DEF AppTypes, Going

(* The commands up to where they ask the child to stop. *)
LEMMA StartingKept ==
    ASSUME IInv, Start \/ StartDecides \/ PollStart \/ PollDecides \/ UnmanagedReported
                 \/ LostDecides \/ ForcedDecides
    PROVE  AppInv'
  <1>1. /\ at \in {"idle", "starting", "polling", "polled", "unmanaged", "lost", "over"}
        /\ at' \in {"idle", "starting", "spawning", "polling", "polled", "ending"}
        /\ child' = Managed \/ child' = child
        /\ UNCHANGED <<proc, asked, restarted, spawned, watched, mishaps, kind>>
    BY DEF Start, StartDecides, PollStart, PollDecides, UnmanagedReported, LostDecides, ForcedDecides,
           Ask, Call, Answered, AppOnly, Goto, Report, processVars, ipcVars
  <1>2. /\ child' \in Daemons \cup {NONE}
        /\ child' = child \/ Going
    BY <1>1, ManagedDrops DEF IInv, AppInv, AppTypes
  <1>3. AppTypes'
    BY <1>1, <1>2 DEF IInv, AppInv, AppTypes
  <1> QED
    BY <1>1, <1>2, <1>3, AppElsewhere DEF IInv

LEMMA SpawnKept == ASSUME IInv, Spawn PROVE AppInv'
  <1>1. /\ at = "spawning" /\ child' = Managed
        /\ UNCHANGED <<asked, restarted, watched, mishaps, kind>>
    BY DEF Spawn, ipcVars
  <1>2. /\ child' \in Daemons \cup {NONE}
        /\ child' = child \/ Going
    BY <1>1, ManagedDrops DEF IInv, AppInv
  <1>3. CASE at' = "idle" /\ UNCHANGED <<spawned, proc>>
    <2>1. AppTypes'
      BY <1>1, <1>2, <1>3 DEF IInv, AppInv, AppTypes
    <2> QED
      BY <1>1, <1>2, <1>3, <2>1, AppElsewhere DEF IInv
  <1>4. CASE ~(at' = "idle" /\ UNCHANGED <<spawned, proc>>)
    <2>1. /\ Managed = NONE /\ Fresh # {} /\ spawned' = CHOOSE d \in Fresh : TRUE
          /\ proc' = [proc EXCEPT ![spawned'] = "starting"]
          /\ at' = "storing"
      BY <1>4 DEF Spawn, Report, Goto
    <2>2. spawned' \in Daemons /\ child' = NONE
      BY <1>1, <2>1 DEF Fresh
    <2>3. AppTypes'
      BY <1>1, <2>1, <2>2 DEF IInv, AppInv, AppTypes
    <2>4. Handles' /\ Stopping'
      BY <2>1, <2>2, Names DEF Handles, Stopping
    <2>5. OneDaemon'
      <3> SUFFICES ASSUME ~restarted, NEW d \in Daemons, Alive(d)', ~asked[d], d # spawned'
                   PROVE  FALSE
        BY <1>1 DEF OneDaemon
      <3>1. Alive(d)
        BY <2>1 DEF Alive, IInv, ProcInv, ProcessTypeOK
      <3>2. d = child
        BY <1>1, <3>1, Names DEF IInv, AppInv, OneDaemon, Handles
      <3> QED
        BY <2>1, <3>1, <3>2, ManagedProps, Names DEF IInv, AppInv
    <2> QED
      BY <2>3, <2>4, <2>5 DEF AppInv
  <1> QED
    BY <1>3, <1>4

LEMMA StoreChildKept == ASSUME IInv, StoreChild PROVE AppInv'
  <1>1. /\ at = "storing" /\ at' = "polling" /\ child' = spawned /\ spawned' = NONE
        /\ watched' \in {watched, watched \cup {spawned}}
        /\ UNCHANGED <<proc, asked, restarted, mishaps, kind>>
    BY DEF StoreChild, Goto, daemonVars, ipcVars, processVars
  <1>2. child = NONE /\ spawned # NONE
    BY <1>1 DEF IInv, AppInv, Handles
  <1>3. OneDaemon'
    BY <1>1, <1>2, Names DEF IInv, AppInv, OneDaemon, Alive
  <1>4. Handles' /\ Stopping'
    BY <1>1 DEF Handles, Stopping
  <1>5. AppTypes'
    BY <1>1, <1>2 DEF IInv, AppInv, AppTypes
  <1> QED
    BY <1>3, <1>4, <1>5 DEF AppInv

(* daemon_stop *)
LEMMA StopKept == ASSUME IInv, Stop PROVE AppInv'
  <1>1. CASE Managed = NONE
    <2>1. /\ at = "idle" /\ at' = "unmanaged" /\ child' = Managed
          /\ UNCHANGED <<proc, asked, restarted, spawned, watched, mishaps, kind>>
      BY <1>1 DEF Stop, Ask, Call, AppOnly, Goto, processVars
    <2>2. /\ child' \in Daemons \cup {NONE}
          /\ child' = child \/ Going
      BY <2>1, ManagedDrops DEF IInv, AppInv
    <2>3. AppTypes'
      BY <2>1, <2>2 DEF IInv, AppInv, AppTypes
    <2> QED
      BY <2>1, <2>2, <2>3, AppElsewhere DEF IInv
  <1>2. CASE Managed # NONE
    <2>1. /\ at = "idle" /\ at' = "asked" /\ child' = Managed /\ Call(App, "shutdown")
          /\ UNCHANGED <<proc, asked, restarted, spawned, watched, mishaps, kind>>
      BY <1>2 DEF Stop, Ask, Call, AppOnly, Goto, processVars
    <2>2. child' = child /\ spawned = NONE
      BY <1>2, <2>1, ManagedProps DEF IInv, AppInv, Handles
    <2>3. AppTypes' /\ Handles'
      BY <2>1, <2>2 DEF IInv, AppInv, AppTypes, Handles
    <2>4. OneDaemon'
      BY <2>1, <2>2 DEF IInv, AppInv, OneDaemon, Alive
    <2>5. /\ UNCHANGED serve /\ conn[App].to = NONE
          /\ \A d \in Daemons : conn'[App].to = d => path = d
          /\ answer'[App] # "shutdown"
      BY <2>1, CallTo, Names DEF IInv, Requests
    <2>6. Stopping'
      BY <2>1, <2>2, <2>5, ReachesChild DEF Stopping
    <2> QED
      BY <2>3, <2>4, <2>6 DEF AppInv
  <1> QED
    BY <1>1, <1>2

LEMMA StopDecidesKept == ASSUME IInv, StopDecides PROVE AppInv'
  <1>1. /\ at = "asked" /\ at' \in {"settling", "taking"}
        /\ at' = "settling" => answer[App] = "shutdown"
        /\ UNCHANGED <<proc, asked, restarted, spawned, child, watched, mishaps, kind>>
    BY DEF StopDecides, Answered, AppOnly, Goto, Accepted, processVars
  <1>2. AppTypes' /\ Handles'
    BY <1>1 DEF IInv, AppInv, AppTypes, Handles
  <1>3. OneDaemon'
    BY <1>1 DEF IInv, AppInv, OneDaemon, Alive
  <1>4. Stopping'
    BY <1>1 DEF IInv, AppInv, Stopping, Going, Alive
  <1> QED
    BY <1>2, <1>3, <1>4 DEF AppInv

LEMMA SettleKept == ASSUME IInv, Settle \/ SettleDecides PROVE AppInv'
  <1>1. /\ UNCHANGED <<proc, asked, restarted, spawned, watched, mishaps, kind>>
        /\ at \in {"settling", "ending", "settled"}
        /\ \/ at = "ending" /\ at' = "over" /\ child' = child
           \/ at = "settling" /\ at' = "settled" /\ child' = child
           \/ at = "settled" /\ at' \in {"settling", "taking"} /\ child' = child
           \/ at = "settled" /\ at' = "idle" /\ child' = NONE
    BY DEF Settle, SettleDecides, Ask, Call, Answered, AppOnly, Goto, Report, processVars
  <1>2. AppTypes' /\ Handles'
    BY <1>1 DEF IInv, AppInv, AppTypes, Handles
  <1>3. ~restarted /\ at \in {"settling", "settled"} => Going
    BY DEF IInv, AppInv, Stopping
  <1>4. OneDaemon'
    <2> SUFFICES ASSUME ~restarted, NEW d \in Daemons, Alive(d), ~asked[d]
                 PROVE  d \in {child', spawned'}
      BY <1>1 DEF OneDaemon, Alive
    <2>1. d \in {child, spawned}
      BY DEF IInv, AppInv, OneDaemon
    <2> QED
      BY <1>1, <1>3, <2>1, Names DEF IInv, AppInv, Handles, Going
  <1>5. Stopping'
    BY <1>1, <1>3 DEF Stopping, Going, Alive
  <1> QED
    BY <1>2, <1>4, <1>5 DEF AppInv

LEMMA TakeKept == ASSUME IInv, TakeAndKill \/ TakeNothing PROVE AppInv'
  <1>1. CASE TakeNothing
    <2>1. /\ at = "taking" /\ at' = "lost" /\ child' = NONE /\ ~IsRunning(child)
          /\ UNCHANGED <<proc, asked, restarted, spawned, watched, mishaps, kind>>
      BY <1>1 DEF TakeNothing, Ask, Call, AppOnly, Goto, processVars
    <2>2. Going
      BY <2>1, Names DEF IsRunning, Going
    <2>3. AppTypes'
      BY <2>1 DEF IInv, AppInv, AppTypes
    <2> QED
      BY <2>1, <2>2, <2>3, AppElsewhere DEF IInv
  <1>2. CASE TakeAndKill
    <2>1. /\ at = "taking" /\ at' = "ending" /\ child' = NONE /\ child \in Daemons
          /\ UNCHANGED <<restarted, spawned, watched, mishaps, kind>>
      BY <1>2 DEF TakeAndKill, Goto, IsRunning, IInv, AppInv, AppTypes
    <2>2. AppTypes' /\ Handles' /\ Stopping'
      BY <2>1 DEF IInv, AppInv, AppTypes, Handles, Stopping
    <2>3. \/ UNCHANGED <<proc, asked>> /\ ~Alive(child)
          \/ proc' = [proc EXCEPT ![child] = "exited"] /\ asked' = [asked EXCEPT ![child] = FALSE]
      BY <1>2 DEF TakeAndKill, Killed, Ends, ServerGone, daemonVars, ipcVars, processVars
    <2>4. \A d \in Daemons : Alive(d)' => d # child /\ Alive(d) /\ asked'[d] = asked[d]
      BY <2>1, <2>3 DEF Alive, IInv, IpcInv, IpcTypeOK, ProcInv, ProcessTypeOK
    <2>5. OneDaemon'
      BY <2>1, <2>4 DEF IInv, AppInv, OneDaemon
    <2> QED
      BY <2>2, <2>5 DEF AppInv
  <1> QED
    BY <1>1, <1>2

(* The end of a sidecar is noticed, and an earlier application leaves. *)
LEMMA EventsKept ==
    ASSUME IInv, IpcInv', ProcInv', AppRestarts \/ \E d \in Daemons : SidecarTerminated(d)
    PROVE  AppInv'
  <1>1. CASE AppRestarts
    <2>1. /\ child' = NONE /\ watched' = {} /\ spawned' = NONE /\ at' = "idle"
          /\ restarted' = TRUE /\ mishaps' = mishaps + 1 /\ mishaps < MaxMishaps
          /\ UNCHANGED kind
      BY <1>1 DEF AppRestarts
    <2>2. AppTypes'
      BY <2>1, SupervisorAssumption DEF IInv, AppInv, AppTypes
    <2> QED
      BY <2>1, <2>2 DEF AppInv, Handles, Stopping, OneDaemon
  <1>2. ASSUME NEW d \in Daemons, SidecarTerminated(d)
        PROVE  AppInv'
    <2>1. /\ ~Alive(d) /\ watched' \subseteq watched
          /\ child' = IF child = d THEN NONE ELSE child
          /\ UNCHANGED <<proc, conn, serve, asked, answer, spawned, at, restarted, mishaps, kind>>
      BY <1>2 DEF SidecarTerminated, daemonVars, ipcVars, processVars
    <2>2. AppTypes' /\ Handles'
      BY <2>1 DEF IInv, AppInv, AppTypes, Handles
    <2>3. OneDaemon'
      BY <2>1 DEF IInv, AppInv, OneDaemon, Alive
    <2>4. \A e \in Daemons : conn[App].to = e => Alive(e)
      BY Names DEF IInv, IpcInv, Linked, ProcInv, Stages, Alive, Listening
    <2>5. Going => Going'
      BY <2>1, Names DEF Going, Alive
    <2>6. Stopping'
      BY <2>1, <2>4, <2>5 DEF IInv, AppInv, Stopping
    <2> QED
      BY <2>2, <2>3, <2>6 DEF AppInv
  <1> QED
    BY <1>1, <1>2

LEMMA AppKept == ASSUME IInv, AppMoves PROVE IInv'
  <1>1. IpcInv' /\ ProcInv'
    BY AppCases, AppKeepsDaemons DEF IInv, AppInv
  <1>2. CASE Acknowledge
    <2>1. UNCHANGED <<ipcVars, proc, appVars>>
      BY <1>2 DEF Acknowledge
    <2>2. Mild
      BY <2>1 DEF Mild, ipcVars, Alive
    <2> QED
      BY <1>1, <2>1, <2>2, AppUnmoved DEF appVars, IInv, AppInv, AppTypes
  <1>3. AppInv'
    BY <1>1, <1>2, StartingKept, SpawnKept, StoreChildKept, StopKept, StopDecidesKept, SettleKept,
       TakeKept, EventsKept
    DEF AppMoves, AppStep, IInv
  <1> QED
    BY <1>1, <1>3 DEF IInv

----
(* All together. *)

LEMMA UnluckyProps == ASSUME IInv, Unlucky PROVE
    mishaps' \in 0 .. MaxMishaps /\ UNCHANGED <<child, watched, spawned, at, restarted, kind>>
  BY SupervisorAssumption DEF Unlucky, IInv, AppInv, AppTypes

LEMMA ProcessKept == ASSUME IInv, NEW d \in Daemons, Process(d) PROVE IInv'
  <1>1. DaemonStep(d) \/ Mishap(d)
    BY DEF Process
  <1>2. mishaps' \in 0 .. MaxMishaps /\ UNCHANGED <<child, watched, spawned, at, restarted, kind>>
    BY UnluckyProps DEF Process, appVars, IInv, AppInv, AppTypes
  <1>3. IpcInv' /\ ProcInv' /\ Mild
    BY <1>1, DaemonKeepsIpc, DaemonKeepsProc, DaemonMild DEF IInv, IpcInv
  <1> QED
    BY <1>2, <1>3, AppUnmoved DEF IInv

(* Clients other than the application come, write and leave. *)
LEMMA OthersKept ==
    ASSUME IInv,
           \/ \E c \in Callers : CallerAsks(c) \/ CallerHangsUp(c)
           \/ \E c \in Clients : Writes(c)
    PROVE  IInv'
  <1>1. ASSUME UNCHANGED <<serve, asked, processVars>>,
               IpcInv', conn'[App].to = conn[App].to, answer'[App] = answer[App],
               mishaps' \in 0 .. MaxMishaps,
               UNCHANGED <<child, watched, spawned, at, restarted, kind>>
        PROVE  IInv'
    <2>1. ProcInv'
      BY <1>1 DEF IInv, ProcInv, ProcessTypeOK, Stages, PanicsShow, processVars
    <2>2. Mild
      BY <1>1 DEF Mild, processVars, Alive
    <2> QED
      BY <1>1, <2>1, <2>2, AppUnmoved DEF IInv
  <1>2. ASSUME NEW c \in Callers, CallerAsks(c)
        PROVE  IInv'
    <2>1. /\ Call(c, "status") /\ UNCHANGED <<processVars, appVars>>
          /\ c \in Clients /\ c # App
      BY <1>2, Names DEF CallerAsks
    <2>2. IpcInv'
      BY <2>1, CallKept DEF Requests, IInv
    <2>3. UNCHANGED <<serve, asked>> /\ conn'[App] = conn[App] /\ answer'[App] = answer[App]
      BY <2>1, CallTo, Names DEF Requests, IInv
    <2> QED
      BY <1>1, <2>1, <2>2, <2>3 DEF appVars, IInv, AppInv, AppTypes
  <1>3. ASSUME NEW c \in Callers, CallerHangsUp(c)
        PROVE  IInv'
    <2>1. HangUp(c) /\ UNCHANGED processVars /\ Unlucky /\ c \in Clients /\ c # App
      BY <1>3, Names DEF CallerHangsUp
    <2>2. IpcInv'
      BY <2>1, ClientKept DEF IInv
    <2>3. UNCHANGED <<serve, asked>> /\ conn'[App] = conn[App] /\ answer'[App] = answer[App]
      BY <2>1, Names DEF HangUp, IInv, IpcInv, IpcTypeOK
    <2> QED
      BY <1>1, <2>1, <2>2, <2>3, UnluckyProps
  <1>4. ASSUME NEW c \in Clients, Writes(c)
        PROVE  IInv'
    <2>1. WriteRequest(c) /\ UNCHANGED <<processVars, appVars>>
      BY <1>4 DEF Writes
    <2>2. IpcInv'
      BY <2>1, ClientKept DEF IInv
    <2>3. UNCHANGED <<serve, asked, answer>> /\ conn'[App].to = conn[App].to
      BY <2>1, Names DEF WriteRequest, IInv, IpcInv, IpcTypeOK
    <2> QED
      BY <1>1, <2>1, <2>2, <2>3 DEF appVars, IInv, AppInv, AppTypes
  <1> QED
    BY <1>2, <1>3, <1>4

LEMMA InitIInv == Init => IInv
  <1> SUFFICES ASSUME Init PROVE IInv
    OBVIOUS
  <1>1. IpcInv
    <2>1. IpcTypeOK
      BY NoConnTyped DEF Init, IpcInit, IpcTypeOK
    <2>2. Linked
      BY NoConnTyped DEF Init, IpcInit, Linked, Waiting
    <2>3. PathListens /\ Talks
      BY Names DEF Init, IpcInit, PathListens, Talks
    <2> QED
      BY <2>1, <2>2, <2>3 DEF IpcInv
  <1>2. ProcInv
    BY Names DEF Init, IpcInit, ProcessInit, ProcInv, ProcessTypeOK, Stages, PanicsShow
  <1>3. AppInv
    <2>1. AppTypes
      <3>1. 0 \in 0 .. MaxMishaps
        BY SupervisorAssumption
      <3>2. /\ child = NONE /\ spawned = NONE /\ watched = {} /\ at = "idle"
            /\ restarted = FALSE /\ mishaps = 0 /\ kind \in Kinds
        BY DEF Init
      <3> QED
        BY <3>1, <3>2 DEF AppTypes
    <2>2. Handles /\ Stopping
      BY DEF Init, Handles, Stopping
    <2>3. OneDaemon
      BY DEF Init, ProcessInit, OneDaemon, Alive
    <2> QED
      BY <2>1, <2>2, <2>3 DEF AppInv
  <1> QED
    BY <1>1, <1>2, <1>3 DEF IInv

LEMMA NextIInv == IInv /\ [Next]_vars => IInv'
  <1> SUFFICES ASSUME IInv, [Next]_vars PROVE IInv'
    OBVIOUS
  <1>1. CASE AppMoves
    BY <1>1, AppKept
  <1>2. CASE \E d \in Daemons : Process(d)
    BY <1>2, ProcessKept
  <1>3. CASE \/ \E c \in Callers : CallerAsks(c) \/ CallerHangsUp(c)
             \/ \E c \in Clients : Writes(c)
    BY <1>3, OthersKept
  <1>4. CASE UNCHANGED vars
    <2>1. IpcInv'
      BY <1>4 DEF vars, daemonVars, ipcVars, IInv, IpcInv, IpcTypeOK, Linked, PathListens, Talks, Waiting
    <2>2. ProcInv'
      BY <1>4 DEF vars, daemonVars, ipcVars, processVars, IInv, ProcInv, ProcessTypeOK, Stages, PanicsShow
    <2>3. Mild
      BY <1>4 DEF vars, daemonVars, ipcVars, processVars, Mild, Alive
    <2> QED
      BY <1>4, <2>1, <2>2, <2>3, AppUnmoved DEF vars, appVars, IInv, AppInv, AppTypes
  <1> QED
    BY <1>1, <1>2, <1>3, <1>4 DEF Next, AppMoves

(* The inductive invariant holds in every state: the endpoint's connections,
   the processes' stages and the application's commands stay in step. *)
THEOREM Invariance == Spec => []IInv
  BY InitIInv, NextIInv, PTL DEF Spec

(* Every variable of the application, the daemons and the endpoint keeps its
   type; the daemon that holds the peer port is one whose listener thread
   still runs. *)
THEOREM LifecycleTypes == Spec => []TypeOK
  <1>1. IInv => TypeOK
    BY DEF IInv, IpcInv, ProcInv, AppInv, AppTypes, TypeOK
  <1> QED
    BY <1>1, Invariance, PTL

(* One daemon: until the application was restarted with a daemon running, a
   daemon that was not asked to shut down is the child whose handle it holds. *)
THEOREM DaemonIsOne == Spec => []OneDaemon
  <1>1. IInv => OneDaemon
    BY DEF IInv, AppInv
  <1> QED
    BY <1>1, Invariance, PTL

(* Nobody waits in vain: who waits for an answer is connected to a listener
   whose owner still serves requests. *)
THEOREM WaitersAreServed == Spec => []NobodyWaitsInVain
  <1>1. IInv => NobodyWaitsInVain
    BY Names DEF IInv, IpcInv, IpcTypeOK, Linked, ProcInv, Stages, Alive, Listening, NobodyWaitsInVain
  <1> QED
    BY <1>1, Invariance, PTL

(* Crash evidence: the marker of a daemon whose main, capture or listener
   thread panicked is not cleared by that daemon, since joining the thread
   shows the panic and only an orderly end clears the marker. *)
THEOREM EvidenceKept == Spec => CrashEvidenceKept
  <1>1. ASSUME IInv, NEW d \in Daemons, proc[d] = "clearing", NEW t \in Threads \ {"discovery"}
        PROVE  <<d, t>> \notin panicked
    BY <1>1 DEF IInv, ProcInv, Stages, PanicsShow, Threads
  <1>2. IInv /\ [Next]_vars =>
            [\A d \in Daemons :
                proc[d] = "clearing" /\ proc'[d] = "exited" /\ marker = d =>
                    \A t \in Threads \ {"discovery"} : <<d, t>> \notin panicked]_vars
    BY <1>1
  <1> QED
    BY <1>2, Invariance, PTL DEF Spec, CrashEvidenceKept

----
(***************************************************************************)
(* Counting up to a number, and what is computed on the way.               *)
(***************************************************************************)

(* A set of numbers that is not empty has a least one. *)
LEMMA LeastNatural ==
    ASSUME NEW S \in SUBSET Nat, S # {}
    PROVE  \E m \in S : \A n \in S : m <= n
<1>1. PICK m \in S : \A n \in S : <<n, m>> \notin OpToRel(<, Nat)
  BY NatLessThanWellFounded, WFMin
<1>2. \A n \in S : m <= n
  <2> SUFFICES ASSUME NEW n \in S, n < m PROVE FALSE
    OBVIOUS
  <2>1. <<n, m>> \in OpToRel(<, Nat)
    BY DEF OpToRel
  <2> QED BY <1>1, <2>1
<1> QED BY <1>2

(* What holds of 0, and of each number if it holds of the one before, holds up to N. *)
LEMMA CountingUp ==
    ASSUME NEW N \in Nat, NEW S, 0 \in S, \A n \in 1..N : n - 1 \in S => n \in S
    PROVE  \A n \in 0..N : n \in S
<1> SUFFICES ASSUME {n \in 0..N : n \notin S} # {} PROVE FALSE
  OBVIOUS
<1> DEFINE out == {n \in 0..N : n \notin S}
<1>1. PICK m \in out : \A n \in out : m <= n
  <2>1. out \in SUBSET Nat /\ out # {}
    OBVIOUS
  <2> HIDE DEF out
  <2> QED BY <2>1, LeastNatural
<1>2. m \in 1..N /\ m - 1 \in 0..N
  OBVIOUS
<1>3. m - 1 \in S
  BY <1>1, <1>2
<1> QED BY <1>2, <1>3

(* A computation that takes one step for each number, from the value before. *)
Steps(X, N) == [X \X (1..N) -> X]
Follows(f, step, N) == \A n \in 1..N : f[n] = step[<<f[n - 1], n>>]

(* Such a computation exists, from any first value. *)
LEMMA Computed ==
    ASSUME NEW N \in Nat, NEW X, NEW x0 \in X, NEW step \in Steps(X, N)
    PROVE  \E f \in [0..N -> X] : f[0] = x0 /\ Follows(f, step, N)
<1> DEFINE Run(m) == {f \in [0..m -> X] : /\ f[0] = x0
                                          /\ \A n \in 1..m : f[n] = step[<<f[n - 1], n>>]}
           S == {m \in 0..N : Run(m) # {}}
<1>1. 0 \in S
  <2>1. [n \in 0..0 |-> x0] \in Run(0)
    OBVIOUS
  <2> QED BY <2>1
<1>2. ASSUME NEW m \in 1..N, m - 1 \in S PROVE m \in S
  <2>1. PICK f \in Run(m - 1) : TRUE
    BY <1>2
  <2> DEFINE g == [n \in 0..m |-> IF n = m THEN step[<<f[m - 1], m>>] ELSE f[n]]
  <2>2. m - 1 \in 0..(m - 1) /\ m - 1 \in Nat
    OBVIOUS
  <2>3. f[m - 1] \in X /\ step[<<f[m - 1], m>>] \in X
    BY <2>1, <2>2 DEF Steps
  <2>4. g \in [0..m -> X]
    <3>1. \A n \in 0..m : n # m => n \in 0..(m - 1)
      OBVIOUS
    <3>2. \A n \in 0..m : n # m => f[n] \in X
      BY <2>1, <3>1
    <3> QED BY <2>3, <3>2
  <2>5. g[0] = x0
    BY <2>1
  <2>6. ASSUME NEW n \in 1..m PROVE g[n] = step[<<g[n - 1], n>>]
    <3>1. n - 1 \in 0..m /\ n \in 0..m /\ n - 1 # m
      OBVIOUS
    <3>2. g[n - 1] = f[n - 1]
      BY <3>1
    <3>3. CASE n = m
      BY <3>1, <3>2, <3>3
    <3>4. CASE n # m
      <4>1. n \in 1..(m - 1)
        BY <3>4
      <4>2. f[n] = step[<<f[n - 1], n>>]
        BY <2>1, <4>1
      <4> QED BY <3>1, <3>2, <3>4, <4>2
    <3> QED BY <3>3, <3>4
  <2> HIDE DEF g
  <2>7. g \in Run(m)
    BY <2>4, <2>5, <2>6
  <2>8. m \in 0..N
    OBVIOUS
  <2> QED BY <2>7, <2>8
<1> HIDE DEF S
<1>3. N \in S
  <2>1. \A n \in 0..N : n \in S
    BY <1>1, <1>2, CountingUp
  <2> QED BY <2>1
<1>4. PICK f \in Run(N) : TRUE
  BY <1>3 DEF S
<1> QED BY <1>4 DEF Follows

----
(***************************************************************************)
(* Options.                                                                *)
(***************************************************************************)
(* Each flag that takes a text sets the field it names. *)
LEMMA TextFlags ==
    /\ Range(TextOptions) = {"--endpoint", "--local-device-id", "--identity-store",
                             "--identity-display-name", "--crash-marker"}
    /\ (CHOOSE f \in DOMAIN TextOptions : TextOptions[f] = "--endpoint") = "endpoint"
    /\ (CHOOSE f \in DOMAIN TextOptions : TextOptions[f] = "--local-device-id") = "device"
    /\ (CHOOSE f \in DOMAIN TextOptions : TextOptions[f] = "--identity-store") = "store"
    /\ (CHOOSE f \in DOMAIN TextOptions : TextOptions[f] = "--identity-display-name") = "name"
    /\ (CHOOSE f \in DOMAIN TextOptions : TextOptions[f] = "--crash-marker") = "marker"
<1>1. DOMAIN TextOptions = {"endpoint", "device", "store", "name", "marker"}
  BY DEF TextOptions
<1>2. /\ TextOptions["endpoint"] = "--endpoint" /\ TextOptions["device"] = "--local-device-id"
      /\ TextOptions["store"] = "--identity-store"
      /\ TextOptions["name"] = "--identity-display-name"
      /\ TextOptions["marker"] = "--crash-marker"
  BY DEF TextOptions
<1>3. Range(TextOptions) = {"--endpoint", "--local-device-id", "--identity-store",
                            "--identity-display-name", "--crash-marker"}
  BY <1>1, <1>2 DEF Range
<1>4. \A f \in DOMAIN TextOptions :
        /\ TextOptions[f] = "--endpoint" => f = "endpoint"
        /\ TextOptions[f] = "--local-device-id" => f = "device"
        /\ TextOptions[f] = "--identity-store" => f = "store"
        /\ TextOptions[f] = "--identity-display-name" => f = "name"
        /\ TextOptions[f] = "--crash-marker" => f = "marker"
  BY <1>1, <1>2
<1> QED BY <1>1, <1>2, <1>3, <1>4

(* The parts of a binding and of a text are bodies and edges. *)
LEMMA BodiesTyped ==
    /\ "" \in Bodies /\ "store" \in Bodies /\ "name" \in Bodies /\ "marker" \in Bodies
    /\ \A t \in Texts : Trimmed(t) \in Bodies /\ Text(Trimmed(t)) \in Texts
    /\ \A b \in Bodies : Text(b) \in Texts /\ Trimmed(Text(b)) = b
    /\ REFUSED \notin ServeOptions /\ DefaultOptions \in ServeOptions
<1>1. /\ "" \in Bodies /\ "store" \in Bodies /\ "name" \in Bodies /\ "marker" \in Bodies
      /\ REFUSED \notin ServeOptions
  BY OptionsAssumption
<1>2. /\ \A t \in Texts : Trimmed(t) \in Bodies /\ Text(Trimmed(t)) \in Texts
      /\ \A b \in Bodies : Text(b) \in Texts /\ Trimmed(Text(b)) = b
  BY DEF Texts, Trimmed, Text
<1>3. DefaultOptions \in ServeOptions
  <2>1. \A X : <<>> \in Seq(X)
    OBVIOUS
  <2> QED BY <1>1, <2>1 DEF ServeOptions, DefaultOptions
<1> QED BY <1>1, <1>2, <1>3

(* What an argument does to options that are not refused. *)
Bound(v) == [v EXCEPT !.peer = Trimmed(@)]

(* What one argument does to the daemon's options. *)
LEMMA ArgumentsParsed ==
    ASSUME NEW o \in ServeOptions, NEW a \in Arguments
    PROVE  /\ a.flag = "--once" => ParseArgument(o, a) = [o EXCEPT !.once = TRUE]
           /\ a.flag = "--capture-input" => ParseArgument(o, a) = [o EXCEPT !.capture = TRUE]
           /\ a.flag = "--edge-binding" =>
                ParseArgument(o, a) = IF IsEdgeBinding(a.value)
                                      THEN [o EXCEPT !.bindings = Append(@, Bound(a.value))]
                                      ELSE REFUSED
           /\ a.flag = "--peer-listen" =>
                ParseArgument(o, a) = IF o.listen = "" /\ Trimmed(a.value) \in Addresses
                                      THEN [o EXCEPT !.listen = Trimmed(a.value)]
                                      ELSE REFUSED
           /\ a.flag = "--peer-session" =>
                ParseArgument(o, a) = IF o.session = <<>> /\ IsPeerSession(a.value)
                                      THEN [o EXCEPT !.session = <<Trimmed(a.value.peer),
                                                                   Trimmed(a.value.address)>>]
                                      ELSE REFUSED
           /\ a.flag \in Range(TextOptions) /\ Trimmed(a.value) = "" => ParseArgument(o, a) = REFUSED
           /\ Trimmed(a.value) # "" =>
                /\ a.flag = "--endpoint" =>
                     ParseArgument(o, a) = [o EXCEPT !.endpoint = Trimmed(a.value)]
                /\ a.flag = "--local-device-id" =>
                     ParseArgument(o, a) = [o EXCEPT !.device = Trimmed(a.value)]
                /\ a.flag = "--identity-store" =>
                     ParseArgument(o, a) = [o EXCEPT !.store = Trimmed(a.value)]
                /\ a.flag = "--identity-display-name" =>
                     ParseArgument(o, a) = [o EXCEPT !.name = Trimmed(a.value)]
                /\ a.flag = "--crash-marker" =>
                     ParseArgument(o, a) = [o EXCEPT !.marker = Trimmed(a.value)]
           /\ a.flag = "not an option" => ParseArgument(o, a) = REFUSED
<1>1. o # REFUSED /\ Ok(o)
  BY OptionsAssumption DEF Ok
<1>2. CASE a.flag = "--once"
  BY <1>1, <1>2, TextFlags DEF ParseArgument
<1>3. CASE a.flag = "--capture-input"
  BY <1>1, <1>3, TextFlags DEF ParseArgument
<1>4. CASE a.flag = "--edge-binding"
  BY <1>1, <1>4, TextFlags DEF ParseArgument, Bound
<1>5. CASE a.flag = "--peer-listen"
  BY <1>1, <1>5, TextFlags DEF ParseArgument
<1>6. CASE a.flag = "--peer-session"
  BY <1>1, <1>6, TextFlags DEF ParseArgument
<1>7. CASE a.flag \in Range(TextOptions)
  <2>1. ParseArgument(o, a) =
          IF Trimmed(a.value) # ""
          THEN [o EXCEPT ![CHOOSE f \in DOMAIN TextOptions : TextOptions[f] = a.flag] =
                            Trimmed(a.value)]
          ELSE REFUSED
    BY <1>1, <1>7, TextFlags DEF ParseArgument
  <2>2. CASE a.flag = "--endpoint"
    <3>1. (CHOOSE f \in DOMAIN TextOptions : TextOptions[f] = a.flag) = "endpoint"
      BY <2>2, TextFlags
    <3>2. ParseArgument(o, a) = IF Trimmed(a.value) # "" THEN [o EXCEPT !.endpoint = Trimmed(a.value)]
                                ELSE REFUSED
      BY <2>1, <3>1
    <3> QED BY <2>2, <3>2
  <2>3. CASE a.flag = "--local-device-id"
    <3>1. (CHOOSE f \in DOMAIN TextOptions : TextOptions[f] = a.flag) = "device"
      BY <2>3, TextFlags
    <3>2. ParseArgument(o, a) = IF Trimmed(a.value) # "" THEN [o EXCEPT !.device = Trimmed(a.value)]
                                ELSE REFUSED
      BY <2>1, <3>1
    <3> QED BY <2>3, <3>2
  <2>4. CASE a.flag = "--identity-store"
    <3>1. (CHOOSE f \in DOMAIN TextOptions : TextOptions[f] = a.flag) = "store"
      BY <2>4, TextFlags
    <3>2. ParseArgument(o, a) = IF Trimmed(a.value) # "" THEN [o EXCEPT !.store = Trimmed(a.value)]
                                ELSE REFUSED
      BY <2>1, <3>1
    <3> QED BY <2>4, <3>2
  <2>5. CASE a.flag = "--identity-display-name"
    <3>1. (CHOOSE f \in DOMAIN TextOptions : TextOptions[f] = a.flag) = "name"
      BY <2>5, TextFlags
    <3>2. ParseArgument(o, a) = IF Trimmed(a.value) # "" THEN [o EXCEPT !.name = Trimmed(a.value)]
                                ELSE REFUSED
      BY <2>1, <3>1
    <3> QED BY <2>5, <3>2
  <2>6. CASE a.flag = "--crash-marker"
    <3>1. (CHOOSE f \in DOMAIN TextOptions : TextOptions[f] = a.flag) = "marker"
      BY <2>6, TextFlags
    <3>2. ParseArgument(o, a) = IF Trimmed(a.value) # "" THEN [o EXCEPT !.marker = Trimmed(a.value)]
                                ELSE REFUSED
      BY <2>1, <3>1
    <3> QED BY <2>6, <3>2
  <2> QED BY <1>7, <2>2, <2>3, <2>4, <2>5, <2>6, TextFlags
<1>8. CASE a.flag = "not an option"
  BY <1>1, <1>8, TextFlags DEF ParseArgument
<1> QED BY <1>2, <1>3, <1>4, <1>5, <1>6, <1>7, <1>8, TextFlags DEF Arguments

(* An option that takes a value of its type stays one. *)
LEMMA FieldsTyped ==
    ASSUME NEW o \in ServeOptions
    PROVE  /\ [o EXCEPT !.once = TRUE] \in ServeOptions
           /\ [o EXCEPT !.capture = TRUE] \in ServeOptions
           /\ \A x \in Bodies : /\ [o EXCEPT !.endpoint = x] \in ServeOptions
                                /\ [o EXCEPT !.listen = x] \in ServeOptions
                                /\ [o EXCEPT !.device = x] \in ServeOptions
                                /\ [o EXCEPT !.store = x] \in ServeOptions
                                /\ [o EXCEPT !.name = x] \in ServeOptions
                                /\ [o EXCEPT !.marker = x] \in ServeOptions
           /\ \A x \in Seq(Bodies) : [o EXCEPT !.session = x] \in ServeOptions
           /\ \A x \in Seq([local : Edges, peer : Bodies, remote : Edges]) :
                [o EXCEPT !.bindings = x] \in ServeOptions
           /\ o.bindings \in Seq([local : Edges, peer : Bodies, remote : Edges])
<1> DEFINE B == Seq([local : Edges, peer : Bodies, remote : Edges])
           S == Seq(Bodies)
<1>1. ServeOptions =
        [once : BOOLEAN, capture : BOOLEAN, endpoint : Bodies, listen : Bodies, device : Bodies,
         store : Bodies, name : Bodies, marker : Bodies, session : S, bindings : B]
  BY DEF ServeOptions
<1>2. o.bindings \in B
  BY <1>1
<1> SUFFICES /\ [o EXCEPT !.once = TRUE] \in ServeOptions
             /\ [o EXCEPT !.capture = TRUE] \in ServeOptions
             /\ \A x \in Bodies : /\ [o EXCEPT !.endpoint = x] \in ServeOptions
                                  /\ [o EXCEPT !.listen = x] \in ServeOptions
                                  /\ [o EXCEPT !.device = x] \in ServeOptions
                                  /\ [o EXCEPT !.store = x] \in ServeOptions
                                  /\ [o EXCEPT !.name = x] \in ServeOptions
                                  /\ [o EXCEPT !.marker = x] \in ServeOptions
             /\ \A x \in S : [o EXCEPT !.session = x] \in ServeOptions
             /\ \A x \in B : [o EXCEPT !.bindings = x] \in ServeOptions
  BY <1>2
<1> HIDE DEF B, S
<1> QED BY <1>1

(* Reading an argument yields options or a refusal. *)
LEMMA ParseTyped ==
    ASSUME NEW o \in ServeOptions \cup {REFUSED}, NEW a \in Arguments
    PROVE  ParseArgument(o, a) \in ServeOptions \cup {REFUSED}
<1>1. CASE o = REFUSED
  BY <1>1 DEF ParseArgument, Ok
<1>2. CASE o \in ServeOptions
  <2>1. CASE a.flag = "--once"
    <3>1. ParseArgument(o, a) = [o EXCEPT !.once = TRUE]
      BY <1>2, <2>1, ArgumentsParsed
    <3> QED BY <1>2, <3>1, FieldsTyped
  <2>2. CASE a.flag = "--capture-input"
    <3>1. ParseArgument(o, a) = [o EXCEPT !.capture = TRUE]
      BY <1>2, <2>2, ArgumentsParsed
    <3> QED BY <1>2, <3>1, FieldsTyped
  <2>3. CASE a.flag = "--edge-binding"
    <3>1. a.value \in EdgeBindings
      BY <2>3, TextFlags DEF Arguments
    <3>2. Bound(a.value) \in [local : Edges, peer : Bodies, remote : Edges]
      BY <3>1 DEF EdgeBindings, Bound, Texts, Trimmed
    <3>3. Append(o.bindings, Bound(a.value)) \in Seq([local : Edges, peer : Bodies, remote : Edges])
      <4> DEFINE T == [local : Edges, peer : Bodies, remote : Edges]
      <4>1. o.bindings \in Seq(T) /\ Bound(a.value) \in T
        BY <1>2, <3>2, FieldsTyped
      <4> HIDE DEF T
      <4>2. Append(o.bindings, Bound(a.value)) \in Seq(T)
        BY <4>1
      <4> QED BY <4>2 DEF T
    <3>4. [o EXCEPT !.bindings = Append(@, Bound(a.value))] \in ServeOptions
      BY <1>2, <3>3, FieldsTyped
    <3>5. \/ ParseArgument(o, a) = [o EXCEPT !.bindings = Append(@, Bound(a.value))]
          \/ ParseArgument(o, a) = REFUSED
      BY <1>2, <2>3, ArgumentsParsed
    <3> QED BY <3>4, <3>5
  <2>4. CASE a.flag = "--peer-listen" \/ a.flag \in Range(TextOptions)
    <3>1. a.value \in Texts
      BY <2>4, TextFlags DEF Arguments
    <3>2. Trimmed(a.value) \in Bodies
      BY <3>1, BodiesTyped
    <3>3. \/ ParseArgument(o, a) = REFUSED
          \/ ParseArgument(o, a) = [o EXCEPT !.listen = Trimmed(a.value)]
          \/ ParseArgument(o, a) = [o EXCEPT !.endpoint = Trimmed(a.value)]
          \/ ParseArgument(o, a) = [o EXCEPT !.device = Trimmed(a.value)]
          \/ ParseArgument(o, a) = [o EXCEPT !.store = Trimmed(a.value)]
          \/ ParseArgument(o, a) = [o EXCEPT !.name = Trimmed(a.value)]
          \/ ParseArgument(o, a) = [o EXCEPT !.marker = Trimmed(a.value)]
      <4>1. CASE a.flag = "--peer-listen"
        BY <1>2, <4>1, ArgumentsParsed
      <4>2. CASE a.flag \in Range(TextOptions) /\ Trimmed(a.value) = ""
        BY <1>2, <4>2, ArgumentsParsed
      <4>3. CASE a.flag \in Range(TextOptions) /\ Trimmed(a.value) # ""
        <5>1. a.flag \in {"--endpoint", "--local-device-id", "--identity-store",
                          "--identity-display-name", "--crash-marker"}
          BY <4>3, TextFlags
        <5> QED BY <1>2, <4>3, <5>1, ArgumentsParsed
      <4> QED BY <2>4, <4>1, <4>2, <4>3
    <3> QED BY <1>2, <3>2, <3>3, FieldsTyped
  <2>5. CASE a.flag = "--peer-session"
    <3>1. a.value \in [peer : Texts, address : Texts]
      BY <2>5, TextFlags DEF Arguments
    <3>2. Trimmed(a.value.peer) \in Bodies /\ Trimmed(a.value.address) \in Bodies
      BY <3>1, BodiesTyped
    <3> DEFINE s == <<Trimmed(a.value.peer), Trimmed(a.value.address)>>
    <3>3. s \in Seq(Bodies)
      BY <3>2
    <3>4. ParseArgument(o, a) = REFUSED \/ ParseArgument(o, a) = [o EXCEPT !.session = s]
      BY <1>2, <2>5, ArgumentsParsed
    <3> HIDE DEF s
    <3> QED BY <1>2, <3>3, <3>4, FieldsTyped
  <2>6. CASE a.flag = "not an option"
    BY <1>2, <2>6, ArgumentsParsed
  <2> QED BY <2>1, <2>2, <2>3, <2>4, <2>5, <2>6 DEF Arguments
<1> QED BY <1>1, <1>2

(* Reading arguments is reading them one after the other. *)
LEMMA ParseAfter ==
    ASSUME NEW o \in ServeOptions \cup {REFUSED}, NEW args \in Seq(Arguments)
    PROVE  \E f \in [0..Len(args) -> ServeOptions \cup {REFUSED}] :
             /\ f[0] = o /\ \A n \in 1..Len(args) : f[n] = ParseArgument(f[n - 1], args[n])
             /\ Parse(o, args) = f[Len(args)]
<1> DEFINE X == ServeOptions \cup {REFUSED}
           N == Len(args)
           step == [p \in X \X (1..N) |-> ParseArgument(p[1], args[p[2]])]
           Runs(f) == f = [n \in 0..N |-> IF n = 0 THEN o ELSE ParseArgument(f[n - 1], args[n])]
<1>1. N \in Nat /\ o \in X /\ \A n \in 1..N : args[n] \in Arguments
  OBVIOUS
<1>2. step \in Steps(X, N)
  <2>1. ASSUME NEW p \in X \X (1..N) PROVE ParseArgument(p[1], args[p[2]]) \in X
    BY <1>1, ParseTyped
  <2> HIDE DEF X, N
  <2> QED BY <2>1 DEF Steps
<1>3. \A x \in X, n \in 1..N : step[<<x, n>>] = ParseArgument(x, args[n])
  OBVIOUS
<1> HIDE DEF X, N, step
<1>4. PICK f \in [0..N -> X] : f[0] = o /\ Follows(f, step, N)
  <2>1. o \in X /\ N \in Nat
    BY <1>1
  <2> QED BY <2>1, <1>2, Computed
<1>5. \A n \in 1..N : f[n] = ParseArgument(f[n - 1], args[n])
  <2> SUFFICES ASSUME NEW n \in 1..N PROVE f[n] = ParseArgument(f[n - 1], args[n])
    OBVIOUS
  <2>1. n - 1 \in 0..N
    BY <1>1
  <2> QED BY <1>3, <1>4, <2>1 DEF Follows
<1>6. \E g : Runs(g)
  <2>1. ASSUME NEW n \in 0..N
        PROVE  f[n] = IF n = 0 THEN o ELSE ParseArgument(f[n - 1], args[n])
    <3>1. n = 0 \/ n \in 1..N
      BY <1>1
    <3> QED BY <1>4, <1>5, <3>1
  <2>2. Runs(f)
    BY <1>4, <2>1
  <2> HIDE DEF Runs
  <2> QED BY <2>2
<1> DEFINE g == CHOOSE h : Runs(h)
<1>7. Runs(g)
  <2> HIDE DEF Runs
  <2> QED BY <1>6
<1>8. Parse(o, args) = g[N]
  BY DEF Parse, N
<1> HIDE DEF g
<1>9. \A n \in 0..N : g[n] = f[n]
  <2> DEFINE S == {n \in 0..N : g[n] = f[n]}
  <2>1. 0 \in 0..N /\ N \in 0..N /\ (\A n \in 1..N : n \in 0..N /\ n - 1 \in 0..N /\ n # 0)
    BY <1>1
  <2>2. g[0] = o /\ \A n \in 1..N : g[n] = ParseArgument(g[n - 1], args[n])
    BY <1>7, <2>1
  <2>3. 0 \in S
    BY <1>4, <2>1, <2>2
  <2>4. \A n \in 1..N : n - 1 \in S => n \in S
    BY <1>5, <2>1, <2>2
  <2> HIDE DEF S
  <2>5. \A n \in 0..N : n \in S
    BY <1>1, <2>3, <2>4, CountingUp
  <2> QED BY <2>5 DEF S
<1>10. f \in [0..N -> X] /\ Parse(o, args) = f[N]
  BY <1>1, <1>4, <1>8, <1>9
<1> QED BY <1>4, <1>5, <1>10 DEF N, X

(* Whatever reads arguments one after the other reads them as Parse does. *)
LEMMA ParseIs ==
    ASSUME NEW o \in ServeOptions \cup {REFUSED}, NEW args \in Seq(Arguments), NEW h,
           h[0] = o, \A n \in 1..Len(args) : h[n] = ParseArgument(h[n - 1], args[n])
    PROVE  Parse(o, args) = h[Len(args)]
<1> DEFINE N == Len(args)
<1>1. PICK f \in [0..N -> ServeOptions \cup {REFUSED}] :
        /\ f[0] = o /\ \A n \in 1..N : f[n] = ParseArgument(f[n - 1], args[n])
        /\ Parse(o, args) = f[N]
  BY ParseAfter
<1> DEFINE S == {n \in 0..N : h[n] = f[n]}
<1>2. N \in Nat /\ 0 \in 0..N /\ N \in 0..N
      /\ \A n \in 1..N : n \in 0..N /\ n - 1 \in 0..N
  OBVIOUS
<1>3. 0 \in S
  BY <1>1, <1>2
<1>4. \A n \in 1..N : n - 1 \in S => n \in S
  BY <1>1, <1>2
<1> HIDE DEF S
<1>5. \A n \in 0..N : n \in S
  BY <1>2, <1>3, <1>4, CountingUp
<1> QED BY <1>1, <1>2, <1>5 DEF S

(* No argument changes nothing; one argument is read as itself. *)
LEMMA ParseSimple ==
    ASSUME NEW o \in ServeOptions \cup {REFUSED}
    PROVE  /\ \A args \in Seq(Arguments) : Parse(o, args) \in ServeOptions \cup {REFUSED}
           /\ Parse(o, <<>>) = o
           /\ \A a \in Arguments : Parse(o, <<a>>) = ParseArgument(o, a)
<1>1. ASSUME NEW args \in Seq(Arguments)
      PROVE  Parse(o, args) \in ServeOptions \cup {REFUSED}
  <2>1. Len(args) \in 0..Len(args)
    OBVIOUS
  <2> QED BY <2>1, ParseAfter
<1>2. Parse(o, <<>>) = o
  <2> DEFINE h == [n \in 0..0 |-> o]
  <2>1. <<>> \in Seq(Arguments) /\ Len(<<>>) = 0 /\ h[0] = o /\ 1..0 = {}
    OBVIOUS
  <2> HIDE DEF h
  <2>2. Parse(o, <<>>) = h[Len(<<>>)]
    BY <2>1, ParseIs
  <2> QED BY <2>1, <2>2
<1>3. ASSUME NEW a \in Arguments PROVE Parse(o, <<a>>) = ParseArgument(o, a)
  <2> DEFINE h == [n \in 0..1 |-> IF n = 0 THEN o ELSE ParseArgument(o, a)]
             args == <<a>>
  <2>1. args \in Seq(Arguments) /\ Len(args) = 1 /\ args[1] = a
    OBVIOUS
  <2>2. h[0] = o /\ h[1] = ParseArgument(o, a)
    OBVIOUS
  <2> HIDE DEF h, args
  <2>3. \A n \in 1..Len(args) : h[n] = ParseArgument(h[n - 1], args[n])
    BY <2>1, <2>2
  <2>4. Parse(o, args) = h[Len(args)]
    BY <2>1, <2>2, <2>3, ParseIs
  <2> QED BY <2>1, <2>2, <2>4 DEF args
<1> QED BY <1>1, <1>2, <1>3

(* Sequences joined: length and elements. *)
LEMMA JoinedSeqs ==
    ASSUME NEW T, NEW s \in Seq(T), NEW t \in Seq(T)
    PROVE  /\ s \o t \in Seq(T) /\ Len(s \o t) = Len(s) + Len(t)
           /\ \A i \in 1..Len(s) : (s \o t)[i] = s[i]
           /\ \A i \in 1..Len(t) : (s \o t)[Len(s) + i] = t[i]
OBVIOUS

(* Arguments may be read in two parts. *)
LEMMA ParseJoin ==
    ASSUME NEW o \in ServeOptions \cup {REFUSED}, NEW s \in Seq(Arguments), NEW t \in Seq(Arguments)
    PROVE  Parse(o, s \o t) = Parse(Parse(o, s), t)
<1> DEFINE X == ServeOptions \cup {REFUSED}
           u == s \o t
           m == Len(s)
           k == Len(t)
<1>1. u \in Seq(Arguments) /\ Len(u) = m + k /\ m \in Nat /\ k \in Nat
      /\ (\A i \in 1..m : u[i] = s[i]) /\ \A i \in 1..k : u[m + i] = t[i]
  BY JoinedSeqs
<1>2. PICK f \in [0..m -> X] : /\ f[0] = o /\ \A n \in 1..m : f[n] = ParseArgument(f[n - 1], s[n])
                               /\ Parse(o, s) = f[m]
  BY ParseAfter
<1>3. Parse(o, s) \in X
  BY ParseSimple
<1>4. PICK g \in [0..k -> X] : /\ g[0] = f[m] /\ \A n \in 1..k : g[n] = ParseArgument(g[n - 1], t[n])
                               /\ Parse(Parse(o, s), t) = g[k]
  <2> DEFINE q == Parse(o, s)
  <2>1. q \in X /\ q = f[m]
    BY <1>2, <1>3
  <2> HIDE DEF q
  <2>2. \E g \in [0..k -> X] : /\ g[0] = q /\ \A n \in 1..k : g[n] = ParseArgument(g[n - 1], t[n])
                               /\ Parse(q, t) = g[k]
    BY <2>1, ParseAfter
  <2> QED BY <2>1, <2>2 DEF q
<1> DEFINE h == [n \in 0..(m + k) |-> IF n <= m THEN f[n] ELSE g[n - m]]
<1> HIDE DEF u, m, k, X
<1>5. h[0] = o
  BY <1>1, <1>2
<1>6. ASSUME NEW n \in 1..(m + k) PROVE h[n] = ParseArgument(h[n - 1], u[n])
  <2>1. CASE n <= m
    <3>1. n \in 1..m /\ n \in 0..(m + k) /\ n - 1 \in 0..(m + k) /\ n - 1 <= m
      BY <1>1, <2>1
    <3>2. h[n] = f[n] /\ h[n - 1] = f[n - 1] /\ u[n] = s[n]
      BY <1>1, <2>1, <3>1
    <3> QED BY <1>2, <3>1, <3>2
  <2>2. CASE n = m + 1
    <3>1. 1 \in 1..k /\ n \in 0..(m + k) /\ n - 1 = m /\ m \in 0..(m + k) /\ ~(n <= m) /\ n - m = 1
          /\ m <= m
      BY <1>1, <2>2
    <3>2. h[n] = g[1] /\ h[n - 1] = f[m] /\ u[n] = t[1]
      BY <1>1, <2>2, <3>1
    <3>3. g[1] = ParseArgument(g[1 - 1], t[1]) /\ g[1 - 1] = g[0]
      BY <1>4, <3>1
    <3> QED BY <1>4, <3>2, <3>3
  <2>3. CASE n > m + 1
    <3>1. n - m \in 1..k /\ n \in 0..(m + k) /\ n - 1 \in 0..(m + k) /\ ~(n <= m) /\ ~(n - 1 <= m)
          /\ (n - 1) - m = (n - m) - 1 /\ m + (n - m) = n
      BY <1>1, <2>3
    <3>2. h[n] = g[n - m] /\ h[n - 1] = g[(n - m) - 1] /\ u[n] = t[n - m]
      BY <1>1, <3>1
    <3>3. g[n - m] = ParseArgument(g[(n - m) - 1], t[n - m])
      BY <1>4, <3>1
    <3> QED BY <3>2, <3>3
  <2>4. m \in Nat /\ k \in Nat
    BY <1>1
  <2> QED BY <2>1, <2>2, <2>3, <2>4
<1>7. h[m + k] = g[k]
  <2>1. m + k \in 0..(m + k) /\ (m + k <= m => k = 0 /\ m + k = m) /\ (m + k) - m = k
    BY <1>1
  <2> QED BY <1>4, <2>1
<1> HIDE DEF h
<1>8. Parse(o, u) = h[Len(u)]
  <2>1. \A n \in 1..Len(u) : h[n] = ParseArgument(h[n - 1], u[n])
    BY <1>1, <1>6
  <2> QED BY <1>1, <1>5, <2>1, ParseIs
<1> QED BY <1>1, <1>4, <1>7, <1>8 DEF u

(* A run of edge bindings *)
BoundOf(edges, n) == [i \in 1..n |-> Bound(edges[i].value)]

(* Edge bindings are appended in the order they are given. *)
LEMMA ParseEdges ==
    ASSUME NEW o \in ServeOptions, NEW edges \in Seq(Arguments),
           \A i \in 1..Len(edges) : /\ edges[i].flag = "--edge-binding"
                                    /\ IsEdgeBinding(edges[i].value)
    PROVE  /\ Parse(o, edges) = [o EXCEPT !.bindings = @ \o BoundOf(edges, Len(edges))]
           /\ Parse(o, edges) \in ServeOptions
<1> DEFINE T == [local : Edges, peer : Bodies, remote : Edges]
           N == Len(edges)
           After(n) == [o EXCEPT !.bindings = @ \o BoundOf(edges, n)]
           h == [n \in 0..N |-> After(n)]
<1>1. N \in Nat /\ \A n \in 1..N : edges[n] \in Arguments
  OBVIOUS
<1>2. ASSUME NEW n \in 1..N PROVE Bound(edges[n].value) \in T
  <2>1. edges[n].value \in EdgeBindings
    BY <1>1, TextFlags DEF Arguments
  <2> QED BY <2>1 DEF EdgeBindings, Bound, Texts, Trimmed
<1>3. o.bindings \in Seq(T)
  BY FieldsTyped
<1>4. ASSUME NEW n \in 0..N PROVE BoundOf(edges, n) \in Seq(T) /\ Len(BoundOf(edges, n)) = n
  <2>1. \A i \in 1..n : Bound(edges[i].value) \in T
    BY <1>1, <1>2
  <2> HIDE DEF T, N
  <2> QED BY <1>1, <2>1 DEF BoundOf
<1> HIDE DEF T
<1>5. ASSUME NEW n \in 0..N PROVE o.bindings \o BoundOf(edges, n) \in Seq(T)
  BY <1>3, <1>4
<1>6. \A n \in 0..N : After(n) \in ServeOptions
  BY <1>5, FieldsTyped DEF T
<1>7. After(0) = o
  <2>1. BoundOf(edges, 0) = <<>>
    BY DEF BoundOf
  <2>2. o.bindings \o BoundOf(edges, 0) = o.bindings
    BY <1>3, <2>1
  <2> QED BY <2>2 DEF ServeOptions
<1>8. ASSUME NEW n \in 1..N PROVE After(n) = ParseArgument(After(n - 1), edges[n])
  <2>1. n - 1 \in 0..N /\ n \in 0..N
    BY <1>1
  <2> DEFINE p == After(n - 1)
             x == Bound(edges[n].value)
             b == o.bindings \o BoundOf(edges, n - 1)
             c == o.bindings \o BoundOf(edges, n)
  <2>2. p \in ServeOptions /\ p.bindings = b
    BY <1>6, <2>1 DEF ServeOptions
  <2>3. p = [o EXCEPT !.bindings = b] /\ After(n) = [o EXCEPT !.bindings = c]
    OBVIOUS
  <2>4. Append(b, x) = c
    <3>1. BoundOf(edges, n) = Append(BoundOf(edges, n - 1), x)
      <4> DEFINE s == BoundOf(edges, n)
                 r == BoundOf(edges, n - 1)
      <4>1. s \in Seq(T) /\ Len(s) = n /\ r \in Seq(T) /\ Len(r) = n - 1 /\ x \in T
        BY <1>2, <1>4, <2>1
      <4>2. (\A i \in 1..(n - 1) : s[i] = r[i]) /\ s[n] = x
        BY <2>1 DEF BoundOf
      <4> HIDE DEF s, r, x
      <4>3. s = Append(r, x)
        BY <4>1, <4>2
      <4> QED BY <4>3 DEF s, r
    <3>2. o.bindings \in Seq(T) /\ BoundOf(edges, n - 1) \in Seq(T) /\ x \in T
      BY <1>2, <1>3, <1>4, <2>1
    <3> HIDE DEF x
    <3>3. ASSUME NEW s \in Seq(T), NEW r \in Seq(T)
          PROVE  Append(s \o r, x) = s \o Append(r, x)
      <4> DEFINE l == Append(s \o r, x)
                 q == Append(r, x)
      <4>1. s \o r \in Seq(T) /\ Len(s \o r) = Len(s) + Len(r)
            /\ Len(s) \in Nat /\ Len(r) \in Nat
            /\ (\A i \in 1..Len(s) : (s \o r)[i] = s[i])
            /\ \A i \in 1..Len(r) : (s \o r)[Len(s) + i] = r[i]
        BY JoinedSeqs
      <4>2. l \in Seq(T) /\ Len(l) = Len(s) + Len(r) + 1 /\ l[Len(s) + Len(r) + 1] = x
            /\ \A i \in 1..(Len(s) + Len(r)) : l[i] = (s \o r)[i]
        BY <3>2, <4>1
      <4>3. q \in Seq(T) /\ Len(q) = Len(r) + 1 /\ q[Len(r) + 1] = x
            /\ \A i \in 1..Len(r) : q[i] = r[i]
        BY <3>2
      <4> HIDE DEF l, q
      <4>4. s \o q \in Seq(T) /\ Len(s \o q) = Len(s) + Len(r) + 1
            /\ (\A i \in 1..Len(s) : (s \o q)[i] = s[i])
            /\ \A i \in 1..(Len(r) + 1) : (s \o q)[Len(s) + i] = q[i]
        <5>1. /\ s \o q \in Seq(T) /\ Len(s \o q) = Len(s) + Len(q)
              /\ (\A i \in 1..Len(s) : (s \o q)[i] = s[i])
              /\ \A i \in 1..Len(q) : (s \o q)[Len(s) + i] = q[i]
          <6>1. s \in Seq(T) /\ q \in Seq(T)
            BY <4>3
          <6> QED BY <6>1, JoinedSeqs
        <5> QED BY <4>1, <4>3, <5>1
      <4> DEFINE w == s \o q
                 v == s \o r
                 M == Len(s) + Len(r) + 1
      <4>5. ASSUME NEW i \in 1..M PROVE l[i] = w[i]
        <5>1. CASE i <= Len(s)
          <6>1. i \in 1..Len(s) /\ i \in 1..(Len(s) + Len(r))
            BY <4>1, <5>1
          <6>2. l[i] = v[i] /\ v[i] = s[i] /\ w[i] = s[i]
            BY <4>1, <4>2, <4>4, <6>1
          <6> QED BY <6>2
        <5>2. CASE i > Len(s) /\ i < M
          <6>1. i - Len(s) \in 1..Len(r) /\ i - Len(s) \in 1..(Len(r) + 1)
                /\ Len(s) + (i - Len(s)) = i /\ i \in 1..(Len(s) + Len(r))
            BY <4>1, <5>2
          <6>2. l[i] = v[Len(s) + (i - Len(s))] /\ w[Len(s) + (i - Len(s))] = q[i - Len(s)]
            BY <4>2, <4>4, <6>1
          <6> QED BY <4>1, <4>3, <6>1, <6>2
        <5>3. CASE i = M
          <6>1. Len(r) + 1 \in 1..(Len(r) + 1) /\ Len(s) + (Len(r) + 1) = i
            BY <4>1, <5>3
          <6>2. w[i] = q[Len(r) + 1]
            BY <4>4, <6>1
          <6> QED BY <4>2, <4>3, <5>3, <6>2
        <5>4. i <= Len(s) \/ (i > Len(s) /\ i < M) \/ i = M
          <6>1. Len(s) \in Nat /\ Len(r) \in Nat
            BY <4>1
          <6> DEFINE ls == Len(s)
                     lr == Len(r)
          <6> HIDE DEF ls, lr
          <6>2. ls \in Nat /\ lr \in Nat /\ i \in 1..(ls + lr + 1)
            BY <6>1 DEF ls, lr
          <6>3. i <= ls \/ (i > ls /\ i < ls + lr + 1) \/ i = ls + lr + 1
            BY <6>2
          <6> QED BY <6>3 DEF ls, lr
        <5> QED BY <5>1, <5>2, <5>3, <5>4
      <4> HIDE DEF w, M
      <4>6. \A e, f \in Seq(T) : Len(e) = Len(f) /\ (\A i \in 1..Len(e) : e[i] = f[i]) => e = f
        OBVIOUS
      <4>7. l \in Seq(T) /\ w \in Seq(T) /\ Len(l) = M /\ Len(w) = M
        BY <4>2, <4>4 DEF w, M
      <4>8. l = w
        BY <4>5, <4>6, <4>7
      <4> QED BY <4>8 DEF l, w, q
    <3> QED BY <3>1, <3>2, <3>3
  <2> HIDE DEF p, b, c, x
  <2>5. ParseArgument(p, edges[n]) = [p EXCEPT !.bindings = Append(@, x)]
    BY <1>1, <2>2, ArgumentsParsed DEF x
  <2>6. [p EXCEPT !.bindings = c] = [o EXCEPT !.bindings = c]
    BY <2>3 DEF ServeOptions
  <2> QED BY <2>2, <2>3, <2>4, <2>5, <2>6 DEF p
<1> HIDE DEF After
<1>9. Parse(o, edges) = h[N]
  <2>1. 0 \in 0..N /\ N \in 0..N /\ \A n \in 1..N : n \in 0..N /\ n - 1 \in 0..N
    BY <1>1
  <2>2. h[0] = o /\ \A n \in 1..N : h[n] = ParseArgument(h[n - 1], edges[n])
    BY <1>7, <1>8, <2>1
  <2> HIDE DEF h
  <2> QED BY <2>2, ParseIs
<1>10. N \in 0..N
  BY <1>1
<1> QED BY <1>6, <1>9, <1>10 DEF After

(* A text that is not empty sets its field, trimmed. *)
LEMMA TextParsed ==
    ASSUME NEW o \in ServeOptions, NEW a \in Arguments, Trimmed(a.value) # ""
    PROVE  /\ a.flag = "--local-device-id" =>
                ParseArgument(o, a) = [o EXCEPT !.device = Trimmed(a.value)]
           /\ a.flag = "--identity-store" =>
                ParseArgument(o, a) = [o EXCEPT !.store = Trimmed(a.value)]
           /\ a.flag = "--identity-display-name" =>
                ParseArgument(o, a) = [o EXCEPT !.name = Trimmed(a.value)]
           /\ a.flag = "--crash-marker" =>
                ParseArgument(o, a) = [o EXCEPT !.marker = Trimmed(a.value)]
BY ArgumentsParsed

(* A sequence of one argument, or of none. *)
LEMMA OneArgument ==
    ASSUME NEW a \in Arguments
    PROVE  /\ <<a>> \in Seq(Arguments) /\ <<>> \in Seq(Arguments)
           /\ \A o \in ServeOptions \cup {REFUSED} : Parse(o, <<a>>) = ParseArgument(o, a)
BY ParseSimple

(* The arguments that are joined by daemon_spawn_args *)
EdgeArguments(o) ==
    [i \in DOMAIN o.bindings |->
       [flag |-> "--edge-binding",
        value |-> [o.bindings[i] EXCEPT !.peer = Text(Trimmed(o.bindings[i].peer))]]]
CaptureArgument(o) == IF o.capture THEN Argument("--capture-input", Text("")) ELSE <<>>
ListenArgument(o) ==
    IF Trimmed(o.listen) = "" THEN <<>> ELSE Argument("--peer-listen", Text(Trimmed(o.listen)))
Spawns(o) ==
    IsOptionalAddress(o.listen) /\ \A i \in 1..Len(o.bindings) : IsBindingPeerId(o.bindings[i].peer)

(* The arguments of start options that are not refused. *)
LEMMA SpawnArguments ==
    ASSUME NEW o \in AppOptions
    PROVE  /\ Spawns(o) =>
                daemon_spawn_args(o) =
                  Argument("--identity-store", Text("store"))
                  \o Argument("--identity-display-name", Text("name"))
                  \o Argument("--crash-marker", Text("marker"))
                  \o CaptureArgument(o) \o ListenArgument(o) \o EdgeArguments(o)
           /\ ~Spawns(o) => daemon_spawn_args(o) = REFUSED
<1>1. o.bindings \in Seq(EdgeBindings)
  BY DEF AppOptions
<1>2. ToSet(o.bindings) = {o.bindings[i] : i \in 1..Len(o.bindings)}
  BY <1>1 DEF ToSet
<1>3. Spawns(o) <=> ~(~IsOptionalAddress(o.listen) \/ \E b \in ToSet(o.bindings) : ~IsBindingPeerId(b.peer))
  BY <1>2 DEF Spawns
<1> QED BY <1>3 DEF daemon_spawn_args, CaptureArgument, ListenArgument, EdgeArguments

(* The bindings among them are read trimmed and in order. *)
LEMMA EdgeArgumentsParse ==
    ASSUME NEW o \in AppOptions, Spawns(o)
    PROVE  /\ EdgeArguments(o) \in Seq(Arguments) /\ Len(EdgeArguments(o)) = Len(o.bindings)
           /\ \A i \in 1..Len(o.bindings) :
                /\ EdgeArguments(o)[i].flag = "--edge-binding"
                /\ IsEdgeBinding(EdgeArguments(o)[i].value)
                /\ Bound(EdgeArguments(o)[i].value) = [o.bindings[i] EXCEPT !.peer = Trimmed(@)]
<1> DEFINE e == EdgeArguments(o)
           N == Len(o.bindings)
           v(i) == [o.bindings[i] EXCEPT !.peer = Text(Trimmed(o.bindings[i].peer))]
           a(i) == [flag |-> "--edge-binding", value |-> v(i)]
<1>1. N \in Nat /\ DOMAIN o.bindings = 1..N /\ \A i \in 1..N : o.bindings[i] \in EdgeBindings
  BY DEF AppOptions
<1>2. e = [i \in 1..N |-> a(i)]
  BY <1>1 DEF EdgeArguments
<1>3. ASSUME NEW i \in 1..N
      PROVE  /\ a(i) \in Arguments /\ a(i).flag = "--edge-binding" /\ a(i).value = v(i)
             /\ IsEdgeBinding(v(i))
             /\ Bound(v(i)) = [o.bindings[i] EXCEPT !.peer = Trimmed(@)]
  <2> DEFINE b == o.bindings[i]
  <2>1. b \in EdgeBindings /\ IsBindingPeerId(b.peer)
    BY <1>1 DEF Spawns
  <2> HIDE DEF b
  <2>2. b.peer \in Texts /\ b.local \in Edges /\ b.remote \in Edges
    BY <2>1 DEF EdgeBindings
  <2>3. Text(Trimmed(b.peer)) \in Texts /\ Trimmed(Text(Trimmed(b.peer))) = Trimmed(b.peer)
    BY <2>2, BodiesTyped
  <2> DEFINE w == [b EXCEPT !.peer = Text(Trimmed(b.peer))]
  <2>4. w \in EdgeBindings /\ w.local = b.local /\ w.remote = b.remote
        /\ w.peer = Text(Trimmed(b.peer))
    BY <2>1, <2>3 DEF EdgeBindings
  <2>5. IsEdgeBinding(w)
    BY <2>1, <2>2, <2>3, <2>4 DEF IsEdgeBinding, IsBindingPeerId
  <2>6. Bound(w) = [b EXCEPT !.peer = Trimmed(@)]
    BY <2>1, <2>3 DEF Bound, EdgeBindings
  <2> HIDE DEF w
  <2>7. [flag |-> "--edge-binding", value |-> w] \in Arguments
    BY <2>4 DEF Arguments
  <2> QED BY <2>5, <2>6, <2>7 DEF w, b
<1> HIDE DEF v, a, e
<1>4. e \in Seq(Arguments) /\ Len(e) = N
  BY <1>1, <1>2, <1>3
<1> HIDE DEF N
<1>5. \A i \in 1..N : e[i] = a(i)
  BY <1>2
<1>6. \A i \in 1..N : /\ e[i].flag = "--edge-binding" /\ IsEdgeBinding(e[i].value)
                      /\ Bound(e[i].value) = [o.bindings[i] EXCEPT !.peer = Trimmed(@)]
  BY <1>3, <1>5
<1> QED BY <1>4, <1>6 DEF e, N

(* The daemon reads all of them, each field as it was meant. *)
LEMMA SpawnedParse ==
    ASSUME NEW o \in AppOptions, Spawns(o)
    PROVE  LET served == parse_serve_options(daemon_spawn_args(o)) IN
           /\ served \in ServeOptions
           /\ served.capture = o.capture
           /\ served.listen = Trimmed(o.listen)
           /\ served.bindings =
                [i \in DOMAIN o.bindings |-> [o.bindings[i] EXCEPT !.peer = Trimmed(@)]]
           /\ daemon_spawn_args(o) \in Seq(Arguments)
<1> DEFINE p1 == Argument("--identity-store", Text("store"))
           p2 == Argument("--identity-display-name", Text("name"))
           p3 == Argument("--crash-marker", Text("marker"))
           p4 == CaptureArgument(o)
           p5 == ListenArgument(o)
           p6 == EdgeArguments(o)
           X == ServeOptions \cup {REFUSED}
           o0 == DefaultOptions
           o1 == [o0 EXCEPT !.store = "store"]
           o2 == [o1 EXCEPT !.name = "name"]
           o3 == [o2 EXCEPT !.marker = "marker"]
           o4 == IF o.capture THEN [o3 EXCEPT !.capture = TRUE] ELSE o3
           o5 == IF Trimmed(o.listen) = "" THEN o4 ELSE [o4 EXCEPT !.listen = Trimmed(o.listen)]
           o6 == [o5 EXCEPT !.bindings = @ \o BoundOf(p6, Len(p6))]
<1>1. /\ Text("store") \in Texts /\ Text("name") \in Texts /\ Text("marker") \in Texts
      /\ Text("") \in Texts /\ Text(Trimmed(o.listen)) \in Texts /\ o.listen \in Texts
      /\ Trimmed(Text("store")) = "store" /\ Trimmed(Text("name")) = "name"
      /\ Trimmed(Text("marker")) = "marker" /\ Trimmed(Text(Trimmed(o.listen))) = Trimmed(o.listen)
      /\ Trimmed(o.listen) \in Bodies
  BY BodiesTyped DEF AppOptions
<1> DEFINE a1 == [flag |-> "--identity-store", value |-> Text("store")]
           a2 == [flag |-> "--identity-display-name", value |-> Text("name")]
           a3 == [flag |-> "--crash-marker", value |-> Text("marker")]
           a4 == [flag |-> "--capture-input", value |-> Text("")]
           a5 == [flag |-> "--peer-listen", value |-> Text(Trimmed(o.listen))]
<1>2. a1 \in Arguments /\ a2 \in Arguments /\ a3 \in Arguments /\ a4 \in Arguments /\ a5 \in Arguments
  BY <1>1, TextFlags DEF Arguments
<1>3. /\ p1 = <<a1>> /\ p2 = <<a2>> /\ p3 = <<a3>>
      /\ p4 = (IF o.capture THEN <<a4>> ELSE <<>>)
      /\ p5 = (IF Trimmed(o.listen) = "" THEN <<>> ELSE <<a5>>)
  BY DEF Argument, CaptureArgument, ListenArgument
<1>4. /\ a1.flag = "--identity-store" /\ Trimmed(a1.value) = "store"
      /\ a2.flag = "--identity-display-name" /\ Trimmed(a2.value) = "name"
      /\ a3.flag = "--crash-marker" /\ Trimmed(a3.value) = "marker"
      /\ a4.flag = "--capture-input"
      /\ a5.flag = "--peer-listen" /\ Trimmed(a5.value) = Trimmed(o.listen)
  BY <1>1
<1>5. /\ o0 \in ServeOptions /\ o1 \in ServeOptions /\ o2 \in ServeOptions /\ o3 \in ServeOptions
      /\ o4 \in ServeOptions /\ o5 \in ServeOptions
  <2> HIDE DEF o0
  <2>1. o0 \in ServeOptions
    BY BodiesTyped DEF o0
  <2>2. o1 \in ServeOptions
    BY <2>1, BodiesTyped, FieldsTyped
  <2> HIDE DEF o1
  <2>3. o2 \in ServeOptions
    BY <2>2, BodiesTyped, FieldsTyped
  <2> HIDE DEF o2
  <2>4. o3 \in ServeOptions
    BY <2>3, BodiesTyped, FieldsTyped
  <2> HIDE DEF o3
  <2>5. o4 \in ServeOptions
    BY <2>4, FieldsTyped
  <2> HIDE DEF o4
  <2>6. o5 \in ServeOptions
    BY <1>1, <2>5, FieldsTyped
  <2> QED BY <2>1, <2>2, <2>3, <2>4, <2>5, <2>6
<1>6. /\ o0.capture = FALSE /\ o0.listen = "" /\ o0.bindings = <<>> /\ o0.store = ""
      /\ o1.capture = FALSE /\ o1.listen = "" /\ o1.bindings = <<>> /\ o1.store = "store"
      /\ o2.capture = FALSE /\ o2.listen = "" /\ o2.bindings = <<>> /\ o2.store = "store"
      /\ o3.capture = FALSE /\ o3.listen = "" /\ o3.bindings = <<>> /\ o3.store = "store"
      /\ o4.capture = o.capture /\ o4.listen = "" /\ o4.bindings = <<>> /\ o4.store = "store"
      /\ o5.capture = o.capture /\ o5.listen = Trimmed(o.listen) /\ o5.bindings = <<>>
      /\ o5.store = "store"
  BY DEF DefaultOptions, AppOptions
<1> HIDE DEF a1, a2, a3, a4, a5, o0, o1, o2, o3, o4, o5, p1, p2, p3, p4, p5
<1>7. Parse(o0, p1) = o1
  <2>1. ParseArgument(o0, a1) = [o0 EXCEPT !.store = "store"]
    <3>1. Trimmed(a1.value) # ""
      BY <1>4
    <3>2. ParseArgument(o0, a1) = [o0 EXCEPT !.store = Trimmed(a1.value)]
      BY <1>2, <1>4, <1>5, <3>1, TextParsed
    <3> QED BY <1>4, <3>2
  <2>2. Parse(o0, <<a1>>) = ParseArgument(o0, a1)
    BY <1>2, <1>5, OneArgument
  <2> QED BY <1>3, <2>1, <2>2 DEF o1
<1>8. Parse(o1, p2) = o2
  <2>1. ParseArgument(o1, a2) = [o1 EXCEPT !.name = "name"]
    <3>1. Trimmed(a2.value) # ""
      BY <1>4
    <3>2. ParseArgument(o1, a2) = [o1 EXCEPT !.name = Trimmed(a2.value)]
      BY <1>2, <1>4, <1>5, <3>1, TextParsed
    <3> QED BY <1>4, <3>2
  <2>2. Parse(o1, <<a2>>) = ParseArgument(o1, a2)
    BY <1>2, <1>5, OneArgument
  <2> QED BY <1>3, <2>1, <2>2 DEF o2
<1>9. Parse(o2, p3) = o3
  <2>1. ParseArgument(o2, a3) = [o2 EXCEPT !.marker = "marker"]
    <3>1. Trimmed(a3.value) # ""
      BY <1>4
    <3>2. ParseArgument(o2, a3) = [o2 EXCEPT !.marker = Trimmed(a3.value)]
      BY <1>2, <1>4, <1>5, <3>1, TextParsed
    <3> QED BY <1>4, <3>2
  <2>2. Parse(o2, <<a3>>) = ParseArgument(o2, a3)
    BY <1>2, <1>5, OneArgument
  <2> QED BY <1>3, <2>1, <2>2 DEF o3
<1>10. Parse(o3, p4) = o4
  <2>1. CASE ~o.capture
    <3>1. p4 = <<>> /\ o4 = o3
      BY <1>3, <2>1 DEF o4
    <3> QED BY <1>5, <3>1, ParseSimple
  <2>2. CASE o.capture
    <3>1. p4 = <<a4>> /\ o4 = [o3 EXCEPT !.capture = TRUE]
      BY <1>3, <2>2 DEF o4
    <3>2. ParseArgument(o3, a4) = [o3 EXCEPT !.capture = TRUE]
      BY <1>2, <1>4, <1>5, ArgumentsParsed
    <3>3. Parse(o3, <<a4>>) = ParseArgument(o3, a4)
      BY <1>2, <1>5, OneArgument
    <3> QED BY <3>1, <3>2, <3>3
  <2> QED BY <2>1, <2>2
<1>11. Parse(o4, p5) = o5
  <2>1. CASE Trimmed(o.listen) = ""
    <3>1. p5 = <<>> /\ o5 = o4
      BY <1>3, <2>1 DEF o5
    <3> QED BY <1>5, <3>1, ParseSimple
  <2>2. CASE Trimmed(o.listen) # ""
    <3>1. Trimmed(o.listen) \in Addresses
      BY <2>2 DEF Spawns, IsOptionalAddress, IsSessionAddress
    <3>2. ParseArgument(o4, a5) =
            IF o4.listen = "" /\ Trimmed(a5.value) \in Addresses
            THEN [o4 EXCEPT !.listen = Trimmed(a5.value)] ELSE REFUSED
      BY <1>2, <1>4, <1>5, ArgumentsParsed
    <3>3. ParseArgument(o4, a5) = [o4 EXCEPT !.listen = Trimmed(o.listen)]
      BY <1>4, <1>6, <3>1, <3>2
    <3>4. Parse(o4, <<a5>>) = ParseArgument(o4, a5)
      BY <1>2, <1>5, OneArgument
    <3>5. p5 = <<a5>> /\ o5 = [o4 EXCEPT !.listen = Trimmed(o.listen)]
      BY <1>3, <2>2 DEF o5
    <3> QED BY <3>3, <3>4, <3>5
  <2> QED BY <2>1, <2>2
<1>12. Parse(o5, p6) = o6 /\ o6 \in ServeOptions
  <2> HIDE DEF p6
  <2>1. p6 \in Seq(Arguments)
        /\ \A i \in 1..Len(p6) : p6[i].flag = "--edge-binding" /\ IsEdgeBinding(p6[i].value)
    BY EdgeArgumentsParse DEF p6
  <2> QED BY <1>5, <2>1, ParseEdges
<1>13. o6.capture = o5.capture /\ o6.listen = o5.listen /\ o6.store = o5.store
       /\ o6.bindings = o5.bindings \o BoundOf(p6, Len(p6))
  BY <1>5 DEF ServeOptions
<1>14. o6.bindings = [i \in DOMAIN o.bindings |-> [o.bindings[i] EXCEPT !.peer = Trimmed(@)]]
  <2> DEFINE c(i) == [o.bindings[i] EXCEPT !.peer = Trimmed(@)]
             N == Len(o.bindings)
  <2>1. N \in Nat /\ DOMAIN o.bindings = 1..N
    BY DEF AppOptions
  <2>2. Len(p6) = N /\ \A i \in 1..N : Bound(p6[i].value) = c(i)
    BY EdgeArgumentsParse
  <2> HIDE DEF p6, N, c
  <2>3. BoundOf(p6, Len(p6)) = [i \in 1..N |-> c(i)]
    BY <2>2 DEF BoundOf
  <2> DEFINE w == [i \in 1..N |-> c(i)]
  <2>4. <<>> \o w = w
    <3>1. w \in Seq({c(i) : i \in 1..N})
      BY <2>1
    <3> HIDE DEF w
    <3> QED BY <3>1
  <2>5. o6.bindings = w
    <3>1. o6.bindings = <<>> \o BoundOf(p6, Len(p6))
      BY <1>6, <1>13
    <3> HIDE DEF w, o6
    <3> QED BY <2>3, <2>4, <3>1 DEF w
  <2> QED BY <2>1, <2>5 DEF c
<1> HIDE DEF o6
<1>15. Parse(o0, daemon_spawn_args(o)) = o6 /\ daemon_spawn_args(o) \in Seq(Arguments)
  <2>1. /\ p1 \in Seq(Arguments) /\ p2 \in Seq(Arguments) /\ p3 \in Seq(Arguments)
        /\ p4 \in Seq(Arguments) /\ p5 \in Seq(Arguments)
    <3>1. /\ <<a1>> \in Seq(Arguments) /\ <<a2>> \in Seq(Arguments) /\ <<a3>> \in Seq(Arguments)
          /\ <<a4>> \in Seq(Arguments) /\ <<a5>> \in Seq(Arguments) /\ <<>> \in Seq(Arguments)
      BY <1>2, OneArgument
    <3> QED BY <1>3, <3>1
  <2>2. p6 \in Seq(Arguments)
    BY EdgeArgumentsParse
  <2>3. daemon_spawn_args(o) = p1 \o p2 \o p3 \o p4 \o p5 \o p6
    BY SpawnArguments DEF p1, p2, p3, p4, p5
  <2> HIDE DEF p6
  <2> DEFINE s2 == p1 \o p2
             s3 == s2 \o p3
             s4 == s3 \o p4
             s5 == s4 \o p5
             s6 == s5 \o p6
  <2>4. /\ s2 \in Seq(Arguments) /\ s3 \in Seq(Arguments) /\ s4 \in Seq(Arguments)
        /\ s5 \in Seq(Arguments) /\ s6 \in Seq(Arguments)
    BY <2>1, <2>2
  <2>5. Parse(o0, s2) = o2
    BY <1>5, <1>7, <1>8, <2>1, ParseJoin
  <2>6. daemon_spawn_args(o) = s6
    BY <2>3
  <2> HIDE DEF s2
  <2>7. Parse(o0, s3) = o3
    BY <1>5, <1>9, <2>1, <2>4, <2>5, ParseJoin
  <2> HIDE DEF s3
  <2>8. Parse(o0, s4) = o4
    BY <1>5, <1>10, <2>1, <2>4, <2>7, ParseJoin
  <2> HIDE DEF s4
  <2>9. Parse(o0, s5) = o5
    BY <1>5, <1>11, <2>1, <2>4, <2>8, ParseJoin
  <2> HIDE DEF s5
  <2>10. Parse(o0, s6) = o6
    BY <1>5, <1>12, <2>2, <2>4, <2>9, ParseJoin
  <2> QED BY <2>4, <2>6, <2>10
<1>16. parse_serve_options(daemon_spawn_args(o)) = o6
  <2>1. o6.store # "" /\ o6 # REFUSED
    BY <1>6, <1>12, <1>13, BodiesTyped
  <2> QED BY <1>15, <2>1 DEF parse_serve_options, o0, Ok
<1> QED BY <1>6, <1>12, <1>13, <1>14, <1>15, <1>16

(* Start options that the application turns into arguments are accepted by
   the daemon, which reads the same capture flag, listen address and edge
   bindings, in order: daemon_spawn_args_from against parse_serve_options. *)
THEOREM OptionsReadBack == \A o \in AppOptions : ReadsBack(o)
<1> SUFFICES ASSUME NEW o \in AppOptions PROVE ReadsBack(o)
  OBVIOUS
<1>1. CASE ~Spawns(o)
  BY <1>1, SpawnArguments DEF ReadsBack, Ok
<1>2. CASE Spawns(o)
  <2> DEFINE served == parse_serve_options(daemon_spawn_args(o))
  <2>1. /\ served \in ServeOptions
        /\ served.capture = o.capture
        /\ served.listen = Trimmed(o.listen)
        /\ served.bindings =
             [i \in DOMAIN o.bindings |-> [o.bindings[i] EXCEPT !.peer = Trimmed(@)]]
    BY <1>2, SpawnedParse
  <2>2. served # REFUSED
    BY <2>1, BodiesTyped
  <2> HIDE DEF served
  <2> QED BY <2>1, <2>2 DEF ReadsBack, Ok, served
<1> QED BY <1>1, <1>2

----
(***************************************************************************)
(* Settings.                                                               *)
(***************************************************************************)
Manual == [peer : Texts, address : Texts]
Takes(e) == Trimmed(e.address) = "" \/ (IsSessionPeerId(e.peer) /\ IsSessionAddress(e.address))
KeptNext(k, e) == IF Trimmed(e.address) = "" THEN k ELSE WithAddress(k, e)

(* Entries that are as normalisation leaves them *)
Entry(e) == [peer |-> Text(Trimmed(e.peer)), address |-> Text(Trimmed(e.address))]
CleanEntry(e) ==
    /\ e \in Manual /\ e = Entry(e) /\ Trimmed(e.address) # ""
    /\ IsSessionPeerId(e.peer) /\ IsSessionAddress(e.address)
Clean(k) ==
    /\ k \in Seq(Manual)
    /\ \A i \in 1..Len(k) : CleanEntry(k[i])
    /\ \A i, j \in 1..Len(k) : k[i].peer = k[j].peer => i = j

(* A normalised manual address is trimmed, and accepted again. *)
LEMMA EntryIsClean ==
    ASSUME NEW e \in Manual, Takes(e), Trimmed(e.address) # ""
    PROVE  CleanEntry(Entry(e))
<1> DEFINE x == Entry(e)
<1>1. e.peer \in Texts /\ e.address \in Texts
  BY DEF Manual
<1>2. /\ Text(Trimmed(e.peer)) \in Texts /\ Text(Trimmed(e.address)) \in Texts
      /\ Trimmed(Text(Trimmed(e.peer))) = Trimmed(e.peer)
      /\ Trimmed(Text(Trimmed(e.address))) = Trimmed(e.address)
  BY <1>1, BodiesTyped
<1>3. x.peer = Text(Trimmed(e.peer)) /\ x.address = Text(Trimmed(e.address)) /\ x \in Manual
  BY <1>2 DEF Entry, Manual
<1>4. Trimmed(x.peer) = Trimmed(e.peer) /\ Trimmed(x.address) = Trimmed(e.address)
  BY <1>2, <1>3
<1>5. Entry(x) = x
  <2>1. Entry(x) = [peer |-> Text(Trimmed(e.peer)), address |-> Text(Trimmed(e.address))]
    BY <1>4 DEF Entry
  <2> QED BY <2>1 DEF Entry
<1>6. IsSessionPeerId(x.peer) /\ IsSessionAddress(x.address)
  BY <1>4 DEF Takes, IsSessionPeerId, IsSessionAddress, IsRequiredValue
<1> HIDE DEF x
<1> QED BY <1>3, <1>4, <1>5, <1>6 DEF CleanEntry, x

(* Dropping and replacing entries, one entry at a time. *)
LEMMA KeptIs ==
    ASSUME NEW k \in Seq(Manual), NEW e
    PROVE  LET x == Entry(e)
               spots == {i \in 1..Len(k) : k[i].peer = x.peer}
           IN KeptNext(k, e) =
                IF Trimmed(e.address) = "" THEN k
                ELSE IF spots = {} THEN Append(k, x)
                ELSE [k EXCEPT ![CHOOSE i \in spots : \A j \in spots : i <= j] = x]
<1> DEFINE x == Entry(e)
           spots == {i \in 1..Len(k) : k[i].peer = x.peer}
<1>1. Positions(k, x.peer) = spots
  <2>1. DOMAIN k = 1..Len(k)
    OBVIOUS
  <2> HIDE DEF x
  <2> QED BY <2>1 DEF Positions
<1>2. KeptNext(k, e) =
        IF Trimmed(e.address) = "" THEN k
        ELSE IF Positions(k, x.peer) = {} THEN Append(k, x)
        ELSE [k EXCEPT ![CHOOSE i \in Positions(k, x.peer) : \A j \in Positions(k, x.peer) : i <= j] = x]
  BY DEF KeptNext, WithAddress, Entry
<1> HIDE DEF x, spots
<1>3. KeptNext(k, e) =
        IF Trimmed(e.address) = "" THEN k
        ELSE IF spots = {} THEN Append(k, x)
        ELSE [k EXCEPT ![CHOOSE i \in spots : \A j \in spots : i <= j] = x]
  BY <1>1, <1>2
<1> QED BY <1>3 DEF x, spots

(* A list with one entry per peer keeps it so. *)
LEMMA WithAddressClean ==
    ASSUME NEW k, Clean(k), NEW e \in Manual, Takes(e)
    PROVE  Clean(KeptNext(k, e))
<1>1. CASE Trimmed(e.address) = ""
  BY <1>1 DEF KeptNext
<1>2. CASE Trimmed(e.address) # ""
  <2> DEFINE x == Entry(e)
             N == Len(k)
             spots == {i \in 1..N : k[i].peer = x.peer}
  <2>1. CleanEntry(x) /\ x \in Manual
    BY <1>2, EntryIsClean DEF CleanEntry
  <2>2. k \in Seq(Manual) /\ N \in Nat /\ DOMAIN k = 1..N
    BY DEF Clean
  <2>3. KeptNext(k, e) = IF spots = {} THEN Append(k, x)
                         ELSE [k EXCEPT ![CHOOSE i \in spots : \A j \in spots : i <= j] = x]
    BY <1>2, <2>2, KeptIs
  <2> HIDE DEF x
  <2>4. CASE spots = {}
    <3> DEFINE u == Append(k, x)
    <3>1. u \in Seq(Manual) /\ Len(u) = N + 1 /\ u[N + 1] = x /\ \A i \in 1..N : u[i] = k[i]
      BY <2>1, <2>2
    <3>2. \A i \in 1..(N + 1) : i = N + 1 \/ i \in 1..N
      BY <2>2
    <3>3. \A i \in 1..N : k[i].peer # x.peer
      BY <2>4
    <3> HIDE DEF u, spots
    <3>4. Clean(u)
      <4>1. \A i \in 1..Len(u) : CleanEntry(u[i])
        BY <2>1, <3>1, <3>2 DEF Clean
      <4>2. \A i, j \in 1..N : k[i].peer = k[j].peer => i = j
        BY DEF Clean
      <4>3. ASSUME NEW i \in 1..(N + 1), NEW j \in 1..(N + 1), u[i].peer = u[j].peer PROVE i = j
        <5>1. CASE i \in 1..N /\ j \in 1..N
          BY <3>1, <4>2, <4>3, <5>1
        <5>2. CASE i = N + 1 /\ j \in 1..N
          BY <3>1, <3>3, <4>3, <5>2
        <5>3. CASE i \in 1..N /\ j = N + 1
          BY <3>1, <3>3, <4>3, <5>3
        <5> QED BY <3>2, <5>1, <5>2, <5>3
      <4> QED BY <3>1, <4>1, <4>3 DEF Clean
    <3> QED BY <2>3, <2>4, <3>4 DEF u
  <2>5. CASE spots # {}
    <3> DEFINE c == CHOOSE i \in spots : \A j \in spots : i <= j
               u == [k EXCEPT ![c] = x]
    <3>1. c \in spots
      <4>1. spots \in SUBSET Nat
        OBVIOUS
      <4>2. \E i \in spots : \A j \in spots : i <= j
        <5> HIDE DEF spots
        <5> QED BY <2>5, <4>1, LeastNatural
      <4> HIDE DEF spots
      <4> QED BY <4>2
    <3>2. c \in 1..N /\ k[c].peer = x.peer
      BY <3>1
    <3> HIDE DEF c
    <3>3. u \in Seq(Manual) /\ Len(u) = N /\ u[c] = x /\ \A i \in 1..N : i # c => u[i] = k[i]
      BY <2>1, <2>2, <3>2
    <3> HIDE DEF u
    <3>4. \A i \in 1..N : CleanEntry(u[i]) /\ u[i].peer = k[i].peer
      BY <2>1, <3>2, <3>3 DEF Clean
    <3>5. Clean(u)
      <4>1. \A i, j \in 1..N : k[i].peer = k[j].peer => i = j
        BY DEF Clean
      <4>2. \A i, j \in 1..N : u[i].peer = u[j].peer => i = j
        BY <3>4, <4>1
      <4>3. u \in Seq(Manual) /\ Len(u) = N
        BY <3>3
      <4> QED BY <3>4, <4>2, <4>3 DEF Clean
    <3> QED BY <2>3, <2>5, <3>5 DEF u, c
  <2> QED BY <2>4, <2>5
<1> QED BY <1>1, <1>2

(* Entries that are kept are entries. *)
LEMMA KeptTyped ==
    ASSUME NEW k \in Seq(Manual), NEW e \in Manual
    PROVE  KeptNext(k, e) \in Seq(Manual)
<1> DEFINE x == Entry(e)
           spots == {i \in 1..Len(k) : k[i].peer = x.peer}
           c == CHOOSE i \in spots : \A j \in spots : i <= j
<1>1. x \in Manual
  BY BodiesTyped DEF Entry, Manual
<1>2. \/ KeptNext(k, e) = k
      \/ KeptNext(k, e) = Append(k, x)
      \/ KeptNext(k, e) = [k EXCEPT ![c] = x]
  BY KeptIs
<1> HIDE DEF x, c
<1> QED BY <1>1, <1>2

(* After n entries the list is clean. *)
LEMMA ManualAfter ==
    ASSUME NEW list \in Seq(Manual)
    PROVE  \E f \in [0..Len(list) -> Seq(Manual)] :
             /\ f[0] = <<>> /\ \A n \in 1..Len(list) : f[n] = KeptNext(f[n - 1], list[n])
             /\ normalize_manual_peer_addresses(list) = f[Len(list)]
<1> DEFINE X == Seq(Manual)
           N == Len(list)
           step == [p \in X \X (1..N) |-> KeptNext(p[1], list[p[2]])]
           Runs(f) == f = [n \in 0..N |-> IF n = 0 THEN <<>>
                                          ELSE IF Trimmed(list[n].address) = "" THEN f[n - 1]
                                          ELSE WithAddress(f[n - 1], list[n])]
<1>1. N \in Nat /\ <<>> \in X /\ \A n \in 1..N : list[n] \in Manual
  OBVIOUS
<1>2. step \in Steps(X, N)
  <2>1. ASSUME NEW p \in X \X (1..N) PROVE KeptNext(p[1], list[p[2]]) \in X
    BY <1>1, KeptTyped
  <2> HIDE DEF X, N
  <2> QED BY <2>1 DEF Steps
<1>3. \A x \in X, n \in 1..N : step[<<x, n>>] = KeptNext(x, list[n])
  OBVIOUS
<1> HIDE DEF X, N, step
<1>4. PICK f \in [0..N -> X] : f[0] = <<>> /\ Follows(f, step, N)
  <2>1. <<>> \in X /\ N \in Nat
    BY <1>1
  <2> QED BY <2>1, <1>2, Computed
<1>5. \A n \in 1..N : f[n] = KeptNext(f[n - 1], list[n])
  <2> SUFFICES ASSUME NEW n \in 1..N PROVE f[n] = KeptNext(f[n - 1], list[n])
    OBVIOUS
  <2>1. n - 1 \in 0..N
    BY <1>1
  <2> QED BY <1>3, <1>4, <2>1 DEF Follows
<1>6. \E g : Runs(g)
  <2>1. ASSUME NEW n \in 0..N
        PROVE  f[n] = IF n = 0 THEN <<>>
                      ELSE IF Trimmed(list[n].address) = "" THEN f[n - 1]
                      ELSE WithAddress(f[n - 1], list[n])
    <3>1. n = 0 \/ n \in 1..N
      BY <1>1
    <3> QED BY <1>4, <1>5, <3>1 DEF KeptNext
  <2>2. Runs(f)
    BY <1>4, <2>1
  <2> HIDE DEF Runs
  <2> QED BY <2>2
<1> DEFINE g == CHOOSE h : Runs(h)
<1>7. Runs(g)
  <2> HIDE DEF Runs
  <2> QED BY <1>6
<1>8. normalize_manual_peer_addresses(list) = g[N]
  BY DEF normalize_manual_peer_addresses, N
<1> HIDE DEF g
<1>9. \A n \in 0..N : g[n] = f[n]
  <2> DEFINE S == {n \in 0..N : g[n] = f[n]}
  <2>1. 0 \in 0..N /\ N \in 0..N /\ (\A n \in 1..N : n \in 0..N /\ n - 1 \in 0..N /\ n # 0)
    BY <1>1
  <2>2. g[0] = <<>> /\ \A n \in 1..N : g[n] = KeptNext(g[n - 1], list[n])
    BY <1>7, <2>1 DEF KeptNext
  <2>3. 0 \in S
    BY <1>4, <2>1, <2>2
  <2>4. \A n \in 1..N : n - 1 \in S => n \in S
    BY <1>5, <2>1, <2>2
  <2> HIDE DEF S
  <2>5. \A n \in 0..N : n \in S
    BY <1>1, <2>3, <2>4, CountingUp
  <2> QED BY <2>5 DEF S
<1>10. f \in [0..N -> X] /\ normalize_manual_peer_addresses(list) = f[N]
  BY <1>1, <1>4, <1>8, <1>9
<1> QED BY <1>4, <1>5, <1>10 DEF N, X

(* Normalised manual addresses are clean. *)
LEMMA ManualNormalised ==
    ASSUME NEW list \in Seq(Manual), \A i \in 1..Len(list) : Takes(list[i])
    PROVE  Clean(normalize_manual_peer_addresses(list))
<1> DEFINE N == Len(list)
<1>1. PICK f \in [0..N -> Seq(Manual)] :
        /\ f[0] = <<>> /\ \A n \in 1..N : f[n] = KeptNext(f[n - 1], list[n])
        /\ normalize_manual_peer_addresses(list) = f[N]
  BY ManualAfter
<1> DEFINE S == {n \in 0..N : Clean(f[n])}
<1>2. N \in Nat /\ 0 \in 0..N /\ N \in 0..N
      /\ \A n \in 1..N : n \in 0..N /\ n - 1 \in 0..N /\ list[n] \in Manual /\ Takes(list[n])
  OBVIOUS
<1>3. 0 \in S
  <2>1. <<>> \in Seq(Manual) /\ Len(<<>>) = 0 /\ 1..0 = {}
    OBVIOUS
  <2>2. Clean(<<>>)
    BY <2>1 DEF Clean
  <2> QED BY <1>1, <1>2, <2>2
<1>4. \A n \in 1..N : n - 1 \in S => n \in S
  BY <1>1, <1>2, WithAddressClean
<1> HIDE DEF S
<1>5. \A n \in 0..N : n \in S
  BY <1>2, <1>3, <1>4, CountingUp
<1> QED BY <1>1, <1>2, <1>5 DEF S

(* Normalising a clean list changes nothing. *)
LEMMA CleanUnchanged ==
    ASSUME NEW list, Clean(list)
    PROVE  normalize_manual_peer_addresses(list) = list
<1> DEFINE N == Len(list)
           First(n) == [i \in 1..n |-> list[i]]
<1>0. list \in Seq(Manual)
  BY DEF Clean
<1>1. PICK f \in [0..N -> Seq(Manual)] :
        /\ f[0] = <<>> /\ \A n \in 1..N : f[n] = KeptNext(f[n - 1], list[n])
        /\ normalize_manual_peer_addresses(list) = f[N]
  BY <1>0, ManualAfter
<1> DEFINE S == {n \in 0..N : f[n] = First(n)}
<1>2. N \in Nat /\ 0 \in 0..N /\ N \in 0..N
      /\ \A n \in 1..N : n \in 0..N /\ n - 1 \in 0..N /\ list[n] \in Manual
  BY <1>0
<1>3. 0 \in S
  <2>1. First(0) = <<>>
    OBVIOUS
  <2> QED BY <1>1, <1>2, <2>1
<1>4. ASSUME NEW n \in 1..N, n - 1 \in S PROVE n \in S
  <2> DEFINE k == First(n - 1)
             x == list[n]
             spots == {i \in DOMAIN k : k[i].peer = x.peer}
  <2>1. x \in Manual /\ x = Entry(x) /\ Trimmed(x.address) # ""
    BY DEF Clean, CleanEntry
  <2>2. DOMAIN k = 1..(n - 1) /\ \A i \in 1..(n - 1) : k[i] = list[i]
    OBVIOUS
  <2>3. spots = {}
    <3>1. \A i \in 1..(n - 1) : i \in 1..N /\ i # n
      BY <1>2
    <3>2. \A i \in 1..(n - 1) : k[i].peer # x.peer
      BY <2>2, <3>1 DEF Clean
    <3> QED BY <2>2, <3>2
  <2>4. f[n] = KeptNext(k, x)
    BY <1>1, <1>4
  <2>5. KeptNext(k, x) = Append(k, x)
    <3> HIDE DEF k, x
    <3>1. Positions(k, x.peer) = {}
      BY <2>3 DEF Positions
    <3>2. [peer |-> Text(Trimmed(x.peer)), address |-> Text(Trimmed(x.address))] = x
      BY <2>1 DEF Entry
    <3> QED BY <2>1, <3>1, <3>2 DEF KeptNext, WithAddress
  <2>6. Append(k, x) = First(n)
    <3>1. k \in Seq(Manual) /\ Len(k) = n - 1 /\ First(n) \in Seq(Manual) /\ Len(First(n)) = n
      <4>1. (\A i \in 1..n : list[i] \in Manual) /\ \A i \in 1..(n - 1) : list[i] \in Manual
        BY <1>2
      <4>2. n \in Nat /\ n - 1 \in Nat
        BY <1>2
      <4> HIDE DEF N
      <4> QED BY <4>1, <4>2
    <3> DEFINE u == First(n)
    <3>2. (\A i \in 1..(n - 1) : u[i] = k[i]) /\ u[n] = x
      OBVIOUS
    <3> HIDE DEF k, x, u
    <3> DEFINE v == Append(k, x)
    <3>3. v \in Seq(Manual) /\ Len(v) = n /\ (\A i \in 1..(n - 1) : v[i] = k[i]) /\ v[n] = x
      <4>1. n \in Nat /\ n >= 1
        BY <1>2
      <4>2. k \in Seq(Manual) /\ Len(k) = n - 1 /\ x \in Manual
        BY <2>1, <3>1
      <4> QED BY <4>1, <4>2
    <3>4. \A i \in 1..n : i = n \/ i \in 1..(n - 1)
      BY <1>2
    <3> HIDE DEF v
    <3>5. \A i \in 1..n : v[i] = u[i]
      BY <3>2, <3>3, <3>4
    <3>6. \A a, b \in Seq(Manual) : Len(a) = Len(b) /\ (\A i \in 1..Len(a) : a[i] = b[i]) => a = b
      OBVIOUS
    <3>7. u = v
      BY <3>1, <3>3, <3>5, <3>6 DEF u
    <3> QED BY <3>7 DEF u, v
  <2>7. n \in 0..N
    BY <1>2
  <2> QED BY <2>4, <2>5, <2>6, <2>7
<1> HIDE DEF S
<1>5. \A n \in 0..N : n \in S
  BY <1>2, <1>3, <1>4, CountingUp
<1>6. First(N) = list
  BY <1>0
<1> QED BY <1>1, <1>2, <1>5, <1>6 DEF S

(* The condition of normalize_settings, and what it yields then *)
Normalises(s) ==
    /\ IsOptionalAddress(s.listen)
    /\ \A i \in 1..Len(s.bindings) : IsBindingPeerId(s.bindings[i].peer)
    /\ \A i \in 1..Len(s.manual) : Takes(s.manual[i])
NormalBindings(list) == [i \in DOMAIN list |-> normalize_edge_binding(list[i])]

(* When settings are refused and what becomes of them otherwise. *)
LEMMA SettingsNormalised ==
    ASSUME NEW s \in AppSettings
    PROVE  /\ ~Normalises(s) => normalize_settings(s) = REFUSED
           /\ Normalises(s) =>
                normalize_settings(s) =
                  [capture |-> s.capture, listen |-> Text(Trimmed(s.listen)),
                   bindings |-> NormalBindings(s.bindings),
                   manual |-> normalize_manual_peer_addresses(s.manual)]
<1>1. s.bindings \in Seq(EdgeBindings) /\ s.manual \in Seq(Manual)
  BY DEF AppSettings, Manual
<1>2. /\ ToSet(s.bindings) = {s.bindings[i] : i \in 1..Len(s.bindings)}
      /\ ToSet(s.manual) = {s.manual[i] : i \in 1..Len(s.manual)}
  BY <1>1 DEF ToSet
<1>3. Normalises(s) <=>
        /\ IsOptionalAddress(s.listen)
        /\ \A b \in ToSet(s.bindings) : IsBindingPeerId(b.peer)
        /\ \A e \in ToSet(s.manual) :
             Trimmed(e.address) = "" \/ (IsSessionPeerId(e.peer) /\ IsSessionAddress(e.address))
  BY <1>2 DEF Normalises, Takes
<1> QED BY <1>3 DEF normalize_settings, NormalBindings

(* Normalised bindings are accepted, and normal already. *)
LEMMA BindingsNormalised ==
    ASSUME NEW list \in Seq(EdgeBindings), \A i \in 1..Len(list) : IsBindingPeerId(list[i].peer)
    PROVE  /\ NormalBindings(list) \in Seq(EdgeBindings)
           /\ Len(NormalBindings(list)) = Len(list)
           /\ \A i \in 1..Len(list) : IsBindingPeerId(NormalBindings(list)[i].peer)
           /\ NormalBindings(NormalBindings(list)) = NormalBindings(list)
<1> DEFINE N == Len(list)
           u == NormalBindings(list)
           nb(i) == normalize_edge_binding(list[i])
<1>1. N \in Nat /\ DOMAIN list = 1..N
  OBVIOUS
<1>2. u = [i \in 1..N |-> nb(i)]
  BY <1>1 DEF NormalBindings
<1>3. ASSUME NEW i \in 1..N
      PROVE  nb(i) \in EdgeBindings /\ IsBindingPeerId(nb(i).peer) /\ normalize_edge_binding(nb(i)) = nb(i)
  <2> DEFINE b == list[i]
  <2>1. b \in EdgeBindings /\ IsBindingPeerId(b.peer)
    OBVIOUS
  <2> HIDE DEF b
  <2>2. b.peer \in Texts
    BY <2>1 DEF EdgeBindings
  <2>3. Text(Trimmed(b.peer)) \in Texts /\ Trimmed(Text(Trimmed(b.peer))) = Trimmed(b.peer)
    BY <2>2, BodiesTyped
  <2> DEFINE c == normalize_edge_binding(b)
  <2>4. c \in EdgeBindings /\ c.peer = Text(Trimmed(b.peer))
    BY <2>1, <2>3 DEF normalize_edge_binding, EdgeBindings
  <2>5. IsBindingPeerId(c.peer)
    BY <2>1, <2>3, <2>4 DEF IsBindingPeerId
  <2>6. normalize_edge_binding(c) = c
    <3>1. c = [b EXCEPT !.peer = Text(Trimmed(b.peer))]
      BY DEF normalize_edge_binding
    <3>2. normalize_edge_binding(c) = [c EXCEPT !.peer = Text(Trimmed(b.peer))]
      BY <2>3, <2>4 DEF normalize_edge_binding
    <3> HIDE DEF c
    <3>3. [c EXCEPT !.peer = Text(Trimmed(b.peer))] = c
      BY <2>4 DEF EdgeBindings
    <3> QED BY <3>2, <3>3
  <2> HIDE DEF c
  <2> QED BY <2>4, <2>5, <2>6 DEF c, b
<1> HIDE DEF nb, N, u
<1>4. u \in Seq(EdgeBindings) /\ Len(u) = N /\ DOMAIN u = 1..N
  BY <1>1, <1>2, <1>3
<1>5. \A i \in 1..N : u[i] = nb(i)
  BY <1>2
<1>6. NormalBindings(u) = u
  <2>1. NormalBindings(u) = [i \in 1..N |-> normalize_edge_binding(u[i])]
    BY <1>4 DEF NormalBindings
  <2>2. \A i \in 1..N : normalize_edge_binding(u[i]) = nb(i)
    BY <1>3, <1>5
  <2>3. NormalBindings(u) = [i \in 1..N |-> nb(i)]
    BY <2>1, <2>2
  <2> QED BY <1>2, <2>3
<1> QED BY <1>3, <1>4, <1>5, <1>6 DEF u, N

(* Settings that were normalised start a daemon; normalising them once more,
   when they are loaded or a layout is saved, changes nothing; no peer has two
   manual addresses. *)
THEOREM SettingsAreStarted == \A s \in AppSettings : SettingsStart(s)
<1> SUFFICES ASSUME NEW s \in AppSettings PROVE SettingsStart(s)
  OBVIOUS
<1>1. CASE ~Normalises(s)
  BY <1>1, SettingsNormalised DEF SettingsStart, Ok
<1>2. CASE Normalises(s)
  <2> DEFINE saved == normalize_settings(s)
             bs == NormalBindings(s.bindings)
             ms == normalize_manual_peer_addresses(s.manual)
             ls == Text(Trimmed(s.listen))
  <2>1. /\ s.bindings \in Seq(EdgeBindings) /\ s.manual \in Seq(Manual)
        /\ s.listen \in Texts /\ s.capture \in BOOLEAN
        /\ \A i \in 1..Len(s.bindings) : IsBindingPeerId(s.bindings[i].peer)
    BY <1>2 DEF AppSettings, Manual, Normalises
  <2>2. saved = [capture |-> s.capture, listen |-> ls, bindings |-> bs, manual |-> ms]
    BY <1>2, SettingsNormalised
  <2>3. /\ bs \in Seq(EdgeBindings) /\ Len(bs) = Len(s.bindings)
        /\ \A i \in 1..Len(bs) : IsBindingPeerId(bs[i].peer)
        /\ NormalBindings(bs) = bs
    BY <2>1, BindingsNormalised
  <2>4. Clean(ms)
    BY <1>2, <2>1, ManualNormalised DEF Normalises
  <2>5. ms \in Seq(Manual) /\ (\A i \in 1..Len(ms) : Takes(ms[i]))
        /\ normalize_manual_peer_addresses(ms) = ms
    BY <2>4, CleanUnchanged DEF Clean, CleanEntry, Takes
  <2>6. ls \in Texts /\ Trimmed(ls) = Trimmed(s.listen) /\ IsOptionalAddress(ls)
    <3>1. ls \in Texts /\ Trimmed(ls) = Trimmed(s.listen)
      BY <2>1, BodiesTyped
    <3> HIDE DEF ls
    <3> QED BY <1>2, <3>1 DEF Normalises, IsOptionalAddress, IsSessionAddress, IsRequiredValue
  <2> DEFINE again == [saved EXCEPT !.bindings = s.bindings]
  <2>7. saved \in AppSettings /\ Normalises(saved) /\ saved.capture = s.capture /\ saved.listen = ls
        /\ saved.bindings = bs /\ saved.manual = ms
        /\ again \in AppSettings /\ Normalises(again) /\ again.capture = s.capture
        /\ again.listen = ls /\ again.bindings = s.bindings /\ again.manual = ms
    <3> HIDE DEF bs, ms, ls, saved
    <3>1. Manual = [peer : Texts, address : Texts]
      BY DEF Manual
    <3>2. saved.capture = s.capture /\ saved.listen = ls
          /\ saved.bindings = bs /\ saved.manual = ms
          /\ again = [capture |-> s.capture, listen |-> ls, bindings |-> s.bindings, manual |-> ms]
      BY <2>2
    <3>3. /\ again.capture = s.capture
          /\ again.listen = ls /\ again.bindings = s.bindings /\ again.manual = ms
      BY <3>2
    <3>4. saved \in AppSettings /\ again \in AppSettings
      <4> DEFINE A == Seq(EdgeBindings)
                 B == Seq(Manual)
      <4>1. AppSettings = [capture : BOOLEAN, listen : Texts, bindings : A, manual : B]
        BY <3>1 DEF AppSettings
      <4>2. bs \in A /\ ms \in B /\ s.bindings \in A
        BY <2>1, <2>3, <2>5
      <4> HIDE DEF A, B, again
      <4> QED BY <2>1, <2>2, <2>6, <3>2, <4>1, <4>2
    <3> HIDE DEF again
    <3>5. Normalises(saved) /\ Normalises(again)
      BY <2>1, <2>3, <2>5, <2>6, <3>2, <3>3 DEF Normalises
    <3> QED BY <3>2, <3>3, <3>4, <3>5
  <2>8. Text(Trimmed(ls)) = ls
    BY <2>6
  <2> HIDE DEF saved, bs, ms, ls, again
  <2>9. normalize_settings(saved) = saved
    <3>1. normalize_settings(saved) =
            [capture |-> s.capture, listen |-> Text(Trimmed(ls)), bindings |-> NormalBindings(bs),
             manual |-> normalize_manual_peer_addresses(ms)]
      BY <2>7, SettingsNormalised
    <3> QED BY <2>2, <2>3, <2>5, <2>8, <3>1
  <2>10. save_layout(saved, s.bindings) = saved
    <3>1. normalize_settings(again) =
            [capture |-> s.capture, listen |-> Text(Trimmed(ls)), bindings |-> bs,
             manual |-> normalize_manual_peer_addresses(ms)]
      BY <2>7, SettingsNormalised DEF bs
    <3>2. save_layout(saved, s.bindings) = normalize_settings(again)
      BY DEF save_layout, again
    <3> QED BY <2>2, <2>5, <2>8, <3>1, <3>2
  <2>11. Ok(daemon_spawn_args(FromSettings(saved)))
    <3> DEFINE o == FromSettings(saved)
    <3>1. o.capture = s.capture /\ o.listen = ls /\ o.bindings = bs
          /\ o = [capture |-> s.capture, listen |-> ls, bindings |-> bs]
      BY <2>7 DEF FromSettings
    <3>2. o \in AppOptions
      <4> DEFINE A == Seq(EdgeBindings)
      <4>1. AppOptions = [capture : BOOLEAN, listen : Texts, bindings : A]
        BY DEF AppOptions
      <4>2. bs \in A
        BY <2>3
      <4> HIDE DEF A, o
      <4> QED BY <2>1, <2>6, <3>1, <4>1, <4>2
    <3> HIDE DEF o
    <3>3. Spawns(o)
      BY <2>3, <2>6, <3>1 DEF Spawns
    <3>4. daemon_spawn_args(o) \in Seq(Arguments)
      BY <3>2, <3>3, SpawnedParse
    <3>5. daemon_spawn_args(o) # REFUSED
      BY <3>4, OptionsAssumption
    <3> QED BY <3>5 DEF Ok, o
  <2>12. \A i, j \in DOMAIN ms : ms[i].peer = ms[j].peer => i = j
    <3>1. DOMAIN ms = 1..Len(ms)
      BY <2>5
    <3> QED BY <2>4, <3>1 DEF Clean
  <2>13. saved.manual = ms
    BY <2>7
  <2> QED BY <2>9, <2>10, <2>11, <2>12, <2>13 DEF SettingsStart, saved
<1> QED BY <1>1, <1>2

----
(***************************************************************************)
(* Command lines.                                                          *)
(***************************************************************************)
Upto(spots, i) == {j \in spots : j <= i}
NthOf(spots, k) == CHOOSE i \in spots : Cardinality(Upto(spots, i)) = k

(* The k-th smallest of a set of positions, for every k. *)
LEMMA Positioned ==
    ASSUME NEW N \in Nat, NEW spots \in SUBSET (1..N)
    PROVE  /\ IsFiniteSet(spots) /\ Cardinality(spots) \in Nat
           /\ \A k \in 1..Cardinality(spots) : NthOf(spots, k) \in spots
           /\ \A i \in spots : \E k \in 1..Cardinality(spots) : NthOf(spots, k) = i
<1> DEFINE C == Cardinality(spots)
           c(i) == Cardinality(Upto(spots, i))
           f == [i \in spots |-> c(i)]
<1>1. IsFiniteSet(spots) /\ C \in Nat /\ \A i \in spots : i \in Nat
  <2>1. IsFiniteSet(1..N)
    BY FS_Interval
  <2>2. IsFiniteSet(spots)
    BY <2>1, FS_Subset
  <2> QED BY <2>2, FS_CardinalityType
<1>2. ASSUME NEW i \in spots PROVE IsFiniteSet(Upto(spots, i)) /\ c(i) \in 1..C
  <2>1. Upto(spots, i) \subseteq spots /\ i \in Upto(spots, i)
    BY <1>1 DEF Upto
  <2>2. IsFiniteSet(Upto(spots, i)) /\ c(i) <= C
    BY <1>1, <2>1, FS_Subset
  <2>3. c(i) \in Nat
    BY <2>2, FS_CardinalityType
  <2>4. c(i) # 0
    BY <2>1, <2>2, FS_EmptySet
  <2> QED BY <1>1, <2>2, <2>3, <2>4
<1>3. ASSUME NEW i \in spots, NEW j \in spots, i < j PROVE c(i) # c(j)
  <2>1. Upto(spots, i) \subseteq Upto(spots, j)
    <3>1. i \in Nat /\ j \in Nat /\ i < j
      BY <1>1, <1>3
    <3>2. ASSUME NEW l \in spots, l <= i PROVE l <= j
      <4>1. l \in Nat
        BY <1>1
      <4> QED BY <3>1, <3>2, <4>1
    <3> QED BY <3>2, Zenon DEF Upto
  <2>2. j \in Upto(spots, j) /\ j \notin Upto(spots, i)
    BY <1>1, <1>3 DEF Upto
  <2> QED BY <1>2, <2>1, <2>2, FS_Subset
<1>4. \A i, j \in spots : c(i) = c(j) => i = j
  <2>1. \A i, j \in spots : i < j \/ j < i \/ i = j
    BY <1>1
  <2> QED BY <1>3, <2>1
<1>5. f \in Injection(spots, 1..C)
  <2>1. f \in [spots -> 1..C]
    BY <1>2
  <2>2. \A i, j \in spots : f[i] = f[j] => i = j
    BY <1>4
  <2> HIDE DEF f
  <2> QED BY <2>1, <2>2 DEF Injection, IsInjective
<1>6. f \in Surjection(spots, 1..C)
  <2>1. IsFiniteSet(1..C) /\ Cardinality(1..C) = C
    <3>1. IF 1 > C THEN C = 0 ELSE C - 1 + 1 = C
      BY <1>1
    <3> QED BY <1>1, <3>1, FS_Interval
  <2> HIDE DEF f
  <2> QED BY <1>5, <2>1, FS_Injection
<1>7. ASSUME NEW k \in 1..C PROVE NthOf(spots, k) \in spots
  <2>1. PICK i \in spots : f[i] = k
    BY <1>6 DEF Surjection
  <2>2. c(i) = k
    BY <2>1
  <2> QED BY <2>2 DEF NthOf
<1>8. ASSUME NEW i \in spots PROVE \E k \in 1..C : NthOf(spots, k) = i
  <2>1. c(i) \in 1..C
    BY <1>2
  <2>2. NthOf(spots, c(i)) = i
    BY <1>4 DEF NthOf
  <2> QED BY <2>1, <2>2
<1> QED BY <1>1, <1>7, <1>8

(* Every option that was given is printed, and none besides. *)
LEMMA GivenInOrder ==
    ASSUME NEW args \in Seq(Arguments), NEW flag
    PROVE  LET spots == Given(args, flag)
               C == Cardinality(spots)
               g == GivenAs(args, flag)
           IN /\ spots \in SUBSET (1..Len(args)) /\ C \in Nat
              /\ g \in Seq(Arguments) /\ Len(g) = C
              /\ \A k \in 1..C : \E i \in spots : g[k] = args[i]
              /\ \A i \in spots : \E k \in 1..C : g[k] = args[i]
              /\ spots = {} => g = <<>>
              /\ \A i \in spots : spots = {i} => g = <<args[i]>>
<1> DEFINE spots == Given(args, flag)
           C == Cardinality(spots)
           g == GivenAs(args, flag)
           N == Len(args)
<1>1. N \in Nat /\ spots \in SUBSET (1..N) /\ \A i \in 1..N : args[i] \in Arguments
  BY DEF Given
<1>2. g = [k \in 1..C |-> args[NthOf(spots, k)]]
  BY DEF GivenAs, NthOf, Upto
<1>3. /\ IsFiniteSet(spots) /\ C \in Nat
      /\ \A k \in 1..C : NthOf(spots, k) \in spots
      /\ \A i \in spots : \E k \in 1..C : NthOf(spots, k) = i
  BY <1>1, Positioned
<1> HIDE DEF spots, g, N
<1>4. g \in Seq(Arguments) /\ Len(g) = C
  <2>1. \A k \in 1..C : args[NthOf(spots, k)] \in Arguments
    BY <1>1, <1>3
  <2> HIDE DEF C
  <2> QED BY <1>2, <1>3, <2>1
<1>5. \A k \in 1..C : \E i \in spots : g[k] = args[i]
  BY <1>2, <1>3
<1>6. \A i \in spots : \E k \in 1..C : g[k] = args[i]
  BY <1>2, <1>3
<1>7. spots = {} => g = <<>>
  <2>1. spots = {} => C = 0
    BY FS_EmptySet
  <2> HIDE DEF C
  <2> QED BY <1>4, <2>1
<1>8. ASSUME NEW i \in spots, spots = {i} PROVE g = <<args[i]>>
  <2>1. C = 1
    BY <1>8, FS_Singleton
  <2> HIDE DEF C
  <2>2. g[1] = args[i]
    BY <1>5, <1>8, <2>1
  <2> QED BY <1>4, <2>1, <2>2
<1> QED BY <1>1, <1>3, <1>4, <1>5, <1>6, <1>7, <1>8 DEF spots, g, N

(* What is given at most once *)
LEMMA GivenOnce ==
    ASSUME NEW args \in Seq(Arguments), AcceptsDaemonArgs(args), NEW flag \in OnceFlags
    PROVE  \/ Given(args, flag) = {} /\ GivenAs(args, flag) = <<>> /\ ValueGiven(args, flag) = ""
           \/ \E a \in Arguments :
                /\ Given(args, flag) # {} /\ \A i \in Given(args, flag) : args[i] = a
                /\ GivenAs(args, flag) = <<a>> /\ a.flag = flag /\ AcceptsDaemonArg(a)
                /\ ValueGiven(args, flag) = a.value.body
<1>1. CASE Given(args, flag) = {}
  BY <1>1, GivenInOrder DEF ValueGiven
<1>2. CASE Given(args, flag) # {}
  <2>1. PICK i \in Given(args, flag) : TRUE
    BY <1>2
  <2>2. Given(args, flag) = {i}
    BY <2>1 DEF AcceptsDaemonArgs
  <2>3. i \in 1..Len(args) /\ i \in DOMAIN args /\ args[i] \in Arguments /\ args[i].flag = flag
    BY DEF Given
  <2>4. GivenAs(args, flag) = <<args[i]>>
    BY <2>2, GivenInOrder
  <2>5. AcceptsDaemonArg(args[i])
    BY <2>3 DEF AcceptsDaemonArgs
  <2>6. ValueGiven(args, flag) = args[i].value.body
    <3>1. (CHOOSE j \in Given(args, flag) : TRUE) = i
      BY <2>2
    <3> QED BY <1>2, <3>1 DEF ValueGiven
  <2>7. \A j \in Given(args, flag) : args[j] = args[i]
    BY <2>2
  <2> QED BY <1>2, <2>3, <2>4, <2>5, <2>6, <2>7
<1> QED BY <1>1, <1>2

----
(* A line of words, one each *)
Whole(line) == [i \in DOMAIN line |-> <<line[i]>>]

(* Joining words that are one each yields the line. *)
LEMMA WordsKept ==
    ASSUME NEW line \in Seq(Arguments)
    PROVE  FlattenSeq(Whole(line)) = line
<1> DEFINE N == Len(line)
           w == Whole(line)
           First(n) == [i \in 1..n |-> line[i]]
           Runs(f) == f = [i \in 1..Len(w) |-> IF i = 1 THEN w[i] ELSE f[i - 1] \o w[i]]
<1>1. N \in Nat /\ DOMAIN line = 1..N /\ line = First(N) /\ \A i \in 1..N : line[i] \in Arguments
  OBVIOUS
<1>2. w = [i \in 1..N |-> <<line[i]>>]
  BY <1>1 DEF Whole
<1>3. Len(w) = N /\ \A i \in 1..N : w[i] = <<line[i]>>
  BY <1>1, <1>2
<1> HIDE DEF w, N
<1>4. CASE N = 0
  <2>1. FlattenSeq(w) = w
    BY <1>3, <1>4 DEF FlattenSeq
  <2> QED BY <1>1, <1>2, <1>4, <2>1 DEF w
<1>5. CASE N # 0
  <2>1. ASSUME NEW i \in 1..N PROVE First(i) = IF i = 1 THEN w[i] ELSE First(i - 1) \o w[i]
    <3>1. First(i) \in Seq(Arguments) /\ Len(First(i)) = i
      <4>1. i \in Nat /\ \A j \in 1..i : line[j] \in Arguments
        BY <1>1
      <4> QED BY <4>1
    <3>2. CASE i = 1
      <4>1. First(1) = <<line[1]>>
        <5> DEFINE u == First(1)
        <5>1. u \in Seq(Arguments) /\ Len(u) = 1 /\ u[1] = line[1]
          BY <3>1, <3>2
        <5> HIDE DEF u
        <5>2. u = <<line[1]>>
          BY <5>1
        <5> QED BY <5>2 DEF u
      <4> QED BY <1>3, <3>2, <4>1
    <3>3. CASE i # 1
      <4> DEFINE u == First(i)
                 k == First(i - 1)
                 t == w[i]
                 v == k \o t
      <4>1. i - 1 \in Nat /\ i \in Nat /\ \A j \in 1..(i - 1) : line[j] \in Arguments
        BY <1>1, <3>3
      <4>2. k \in Seq(Arguments) /\ Len(k) = i - 1
        BY <4>1
      <4>3. t = <<line[i]>>
        BY <1>3
      <4>4. t \in Seq(Arguments) /\ Len(t) = 1 /\ t[1] = line[i]
        <5>1. line[i] \in Arguments
          BY <1>1
        <5> HIDE DEF t
        <5> QED BY <4>3, <5>1
      <4>5. (\A j \in 1..(i - 1) : u[j] = k[j]) /\ u[i] = line[i]
        BY <4>1
      <4> HIDE DEF u, k, t
      <4>6. v \in Seq(Arguments) /\ Len(v) = (i - 1) + 1
            /\ (\A j \in 1..(i - 1) : v[j] = k[j]) /\ \A j \in 1..1 : v[(i - 1) + j] = t[j]
        <5>1. k \in Seq(Arguments) /\ t \in Seq(Arguments)
          BY <4>2, <4>4
        <5>2. /\ v \in Seq(Arguments) /\ Len(v) = Len(k) + Len(t)
              /\ (\A j \in 1..Len(k) : v[j] = k[j]) /\ \A j \in 1..Len(t) : v[Len(k) + j] = t[j]
          BY <5>1, JoinedSeqs
        <5> HIDE DEF v
        <5> QED BY <4>2, <4>4, <5>2
      <4> HIDE DEF v
      <4>7. v[i] = line[i] /\ Len(v) = i
        <5>1. (i - 1) + 1 = i /\ 1 \in 1..1
          BY <4>1
        <5> QED BY <4>4, <4>6, <5>1
      <4>8. \A j \in 1..i : u[j] = v[j]
        <5>1. \A j \in 1..i : j = i \/ j \in 1..(i - 1)
          BY <4>1
        <5> QED BY <4>5, <4>6, <4>7, <5>1
      <4>9. \A a, b \in Seq(Arguments) :
              Len(a) = Len(b) /\ (\A j \in 1..Len(a) : a[j] = b[j]) => a = b
        OBVIOUS
      <4>10. u = v
        <5>1. u \in Seq(Arguments) /\ Len(u) = i
          BY <3>1 DEF u
        <5> QED BY <4>6, <4>7, <4>8, <4>9, <5>1
      <4> QED BY <3>3, <4>10 DEF u, v, k, t
    <3> QED BY <3>2, <3>3
  <2> HIDE DEF First
  <2>2. \E f : Runs(f)
    <3> DEFINE f == [i \in 1..N |-> First(i)]
    <3>1. ASSUME NEW i \in 1..N PROVE f[i] = IF i = 1 THEN w[i] ELSE f[i - 1] \o w[i]
      <4>1. i = 1 \/ i - 1 \in 1..N
        BY <1>1
      <4> QED BY <2>1, <4>1
    <3>2. Runs(f)
      BY <1>3, <3>1
    <3> HIDE DEF f, Runs
    <3> QED BY <3>2
  <2> DEFINE g == CHOOSE h : Runs(h)
  <2>3. Runs(g)
    <3> HIDE DEF Runs
    <3> QED BY <2>2
  <2>4. FlattenSeq(w) = g[N]
    BY <1>3, <1>5 DEF FlattenSeq
  <2> HIDE DEF g
  <2> DEFINE S == {n \in 0..N : n = 0 \/ g[n] = First(n)}
  <2>5. 0 \in S
    BY <1>1
  <2>6. ASSUME NEW n \in 1..N, n - 1 \in S PROVE n \in S
    <3>1. n \in 0..N /\ (n # 1 => n - 1 # 0)
      BY <1>1
    <3>2. g[n] = IF n = 1 THEN w[n] ELSE g[n - 1] \o w[n]
      BY <1>3, <2>3
    <3>3. g[n] = First(n)
      BY <2>1, <2>6, <3>1, <3>2
    <3> QED BY <3>1, <3>3
  <2> HIDE DEF S
  <2>7. \A n \in 0..N : n \in S
    BY <1>1, <2>5, <2>6, CountingUp
  <2>8. N \in S /\ N # 0
    BY <1>1, <1>5, <2>7
  <2> QED BY <1>1, <2>4, <2>8 DEF S, w
<1> QED BY <1>4, <1>5

(* The shell reads an argument it leaves alone as it is. *)
LEMMA LeftAsItIs ==
    ASSUME NEW a \in Arguments, LeftAlone(a)
    PROVE  ReadByShell(a) = a /\ ~EndsCommand(a)
<1>0. ~EndsCommand(a)
  BY DEF LeftAlone, EndsCommand
<1>1. a = [flag |-> a.flag, value |-> a.value]
  BY DEF Arguments
<1>2. CASE a.flag = "--capture-input"
  BY <1>0, <1>2 DEF ReadByShell
<1>3. CASE a.flag = "--edge-binding"
  <2>1. a.value \in EdgeBindings
    BY <1>3, TextFlags DEF Arguments
  <2>2. ShellReads[a.value.peer.body] = a.value.peer.body
    BY <1>3 DEF LeftAlone, ShellTexts
  <2>3. [a EXCEPT !.value.peer.body = a.value.peer.body] = a
    BY <1>1, <2>1 DEF EdgeBindings, Texts
  <2> QED BY <1>0, <1>3, <2>2, <2>3 DEF ReadByShell
<1>4. CASE a.flag = "--peer-session"
  <2>1. a.value \in [peer : Texts, address : Texts]
    BY <1>4, TextFlags DEF Arguments
  <2>2. /\ ShellReads[a.value.peer.body] = a.value.peer.body
        /\ ShellReads[a.value.address.body] = a.value.address.body
    BY <1>4 DEF LeftAlone, ShellTexts
  <2>3. /\ [a EXCEPT !.value.peer.body = a.value.peer.body] = a
        /\ [a EXCEPT !.value.address.body = a.value.address.body] = a
    BY <1>1, <2>1 DEF Texts
  <2> QED BY <1>0, <1>4, <2>2, <2>3 DEF ReadByShell
<1>5. CASE a.flag \notin {"--capture-input", "--edge-binding", "--peer-session"}
  <2>1. a.value \in Texts
    BY <1>5 DEF Arguments
  <2>2. ShellReads[a.value.body] = a.value.body
    BY <1>5 DEF LeftAlone, ShellTexts
  <2>3. [a EXCEPT !.value.body = a.value.body] = a
    BY <1>1, <2>1 DEF Texts
  <2> QED BY <1>0, <1>5, <2>2, <2>3 DEF ReadByShell
<1> QED BY <1>2, <1>3, <1>4, <1>5

(* A line that holds no blank in a value and nothing the shell interprets
   reaches the daemon as it is. *)
LEMMA ShellKeepsWords ==
    ASSUME NEW line \in Seq(Arguments),
           \A i \in 1..Len(line) : ~HoldsBlank(line[i]) /\ LeftAlone(line[i])
    PROVE  ShellWords(line) = line
<1>1. DOMAIN line = 1..Len(line) /\ \A i \in 1..Len(line) : line[i] \in Arguments
  OBVIOUS
<1>2. \A i \in DOMAIN line : ReadByShell(line[i]) = line[i] /\ ~EndsCommand(line[i])
  BY <1>1, LeftAsItIs
<1>3. ShellWords(line) = FlattenSeq(Whole(line))
  <2> DEFINE ends == {i \in DOMAIN line : EndsCommand(line[i])}
             Split(a) == IF HoldsBlank(a) THEN <<a, [flag |-> "not an option", value |-> Text("")]>>
                         ELSE <<a>>
             u == [i \in DOMAIN line |-> Split(ReadByShell(line[i]))]
  <2>1. ends = {}
    BY <1>2
  <2>2. ShellWords(line) = FlattenSeq(u)
    BY <2>1 DEF ShellWords
  <2>3. \A i \in DOMAIN line : Split(ReadByShell(line[i])) = <<line[i]>>
    BY <1>1, <1>2
  <2>4. u = Whole(line)
    <3> HIDE DEF Split
    <3> QED BY <2>3 DEF Whole
  <2> HIDE DEF u
  <2> QED BY <2>2, <2>4
<1> QED BY <1>3, WordsKept

(* An argument that is accepted holds no blank. *)
Unbroken == {a \in Arguments : ~HoldsBlank(a)}

(* An accepted argument holds no blank. *)
LEMMA AcceptedUnbroken ==
    ASSUME NEW a \in Arguments, AcceptsDaemonArg(a)
    PROVE  /\ a \in Unbroken
           /\ a.flag = "--edge-binding" => IsEdgeBinding(a.value)
           /\ a.flag = "--peer-listen" => Trimmed(a.value) \in Addresses
           /\ a.flag = "--peer-session" => IsPeerSession(a.value)
           /\ a.flag \in WordFlags => Trimmed(a.value) # ""
<1>1. CASE a.flag = "--capture-input"
  BY <1>1 DEF HoldsBlank, ShellTexts, Unbroken, WordFlags
<1>2. CASE a.flag = "--edge-binding"
  <2>1. a.value.local \in Edges /\ a.value.remote \in Edges /\ IsWordPeerId(a.value.peer)
    BY <1>2 DEF AcceptsDaemonArg, WordFlags
  <2> QED BY <1>2, <2>1 DEF HoldsBlank, ShellTexts, Unbroken, WordFlags, IsWordPeerId, IsWord, IsEdgeBinding,
                            Trimmed
<1>3. CASE a.flag = "--peer-listen"
  <2>1. IsWordAddress(a.value)
    BY <1>3 DEF AcceptsDaemonArg, WordFlags
  <2> QED BY <1>3, <2>1 DEF HoldsBlank, ShellTexts, Unbroken, WordFlags, IsWordAddress, IsWord, Trimmed
<1>4. CASE a.flag = "--peer-session"
  <2>1. IsWordPeerId(a.value.peer) /\ IsWordAddress(a.value.address)
    BY <1>4 DEF AcceptsDaemonArg, WordFlags
  <2> QED BY <1>4, <2>1 DEF HoldsBlank, ShellTexts, Unbroken, WordFlags, IsWordPeerId, IsWordAddress, IsWord,
                            IsPeerSession, Trimmed
<1>5. CASE a.flag \in WordFlags
  <2>1. IsWord(a.value)
    BY <1>5 DEF AcceptsDaemonArg, WordFlags
  <2> QED BY <1>5, <2>1 DEF HoldsBlank, ShellTexts, Unbroken, WordFlags, IsWord, Trimmed
<1> QED BY <1>1, <1>2, <1>3, <1>4, <1>5 DEF AcceptsDaemonArg

(* What the shell takes as it is when it leaves every argument given alone *)
Plain(args) ==
    {a \in Unbroken : (\A i \in DOMAIN args : LeftAlone(args[i])) => LeftAlone(a)}

(* What is printed was accepted. *)
LEMMA GivenAccepted ==
    ASSUME NEW args \in Seq(Arguments), AcceptsDaemonArgs(args), NEW flag
    PROVE  /\ GivenAs(args, flag) \in Seq(Plain(args))
           /\ \A i \in Given(args, flag) :
                args[i] \in Arguments /\ args[i].flag = flag /\ AcceptsDaemonArg(args[i])
           /\ \A k \in 1..Len(GivenAs(args, flag)) :
                /\ GivenAs(args, flag)[k].flag = flag
                /\ flag = "--edge-binding" => IsEdgeBinding(GivenAs(args, flag)[k].value)
<1> DEFINE g == GivenAs(args, flag)
           spots == Given(args, flag)
<1>1. ASSUME NEW i \in spots
      PROVE  args[i] \in Arguments /\ args[i].flag = flag /\ AcceptsDaemonArg(args[i])
  BY DEF AcceptsDaemonArgs, Given
<1>2. g \in Seq(Arguments) /\ \A k \in 1..Len(g) : \E i \in spots : g[k] = args[i]
  <2>1. /\ g \in Seq(Arguments) /\ Len(g) = Cardinality(spots)
        /\ \A k \in 1..Cardinality(spots) : \E i \in spots : g[k] = args[i]
    BY GivenInOrder
  <2> QED BY <2>1
<1> HIDE DEF g, spots
<1>3. ASSUME NEW k \in 1..Len(g)
      PROVE  /\ g[k] \in Plain(args) /\ g[k].flag = flag
             /\ flag = "--edge-binding" => IsEdgeBinding(g[k].value)
  <2>1. PICK i \in spots : g[k] = args[i]
    BY <1>2
  <2>2. i \in DOMAIN args
    BY DEF spots, Given
  <2>3. g[k] \in Unbroken /\ g[k].flag = flag
        /\ (flag = "--edge-binding" => IsEdgeBinding(g[k].value))
    BY <1>1, <2>1, AcceptedUnbroken
  <2>4. (\A n \in DOMAIN args : LeftAlone(args[n])) => LeftAlone(g[k])
    BY <2>1, <2>2
  <2> QED BY <2>3, <2>4 DEF Plain
<1>4. g \in Seq(Plain(args))
  BY <1>2, <1>3
<1> QED BY <1>1, <1>3, <1>4 DEF g, spots

(* What is read of an option that is given at most once *)
LEMMA GivenFields ==
    ASSUME NEW args \in Seq(Arguments), AcceptsDaemonArgs(args), NEW o \in ServeOptions
    PROVE  /\ \A flag \in OnceFlags : GivenAs(args, flag) \in Seq(Arguments)
           /\ o.listen = "" =>
                Parse(o, GivenAs(args, "--peer-listen")) =
                  [o EXCEPT !.listen = ValueGiven(args, "--peer-listen")]
           /\ o.device = "" =>
                Parse(o, GivenAs(args, "--local-device-id")) =
                  [o EXCEPT !.device = ValueGiven(args, "--local-device-id")]
           /\ o.store = "" =>
                Parse(o, GivenAs(args, "--identity-store")) =
                  [o EXCEPT !.store = ValueGiven(args, "--identity-store")]
           /\ o.name = "" =>
                Parse(o, GivenAs(args, "--identity-display-name")) =
                  [o EXCEPT !.name = ValueGiven(args, "--identity-display-name")]
           /\ \A flag \in {"--peer-listen"} \cup WordFlags : ValueGiven(args, flag) \in Bodies
<1>1. \A flag \in OnceFlags : GivenAs(args, flag) \in Seq(Arguments)
  BY GivenInOrder
<1>2. \A flag \in {"--peer-listen"} \cup WordFlags : flag \in OnceFlags
  BY DEF OnceFlags
<1>3. ASSUME NEW a \in Arguments, a.flag \in {"--peer-listen"} \cup WordFlags
      PROVE  a.value \in Texts /\ a.value.body = Trimmed(a.value) /\ a.value.body \in Bodies
  <2>1. a.value \in Texts
    BY <1>3, TextFlags DEF Arguments, WordFlags
  <2> QED BY <2>1 DEF Texts, Trimmed
<1>4. ASSUME NEW flag \in {"--peer-listen"} \cup WordFlags PROVE ValueGiven(args, flag) \in Bodies
  <2>1. \/ ValueGiven(args, flag) = ""
        \/ \E a \in Arguments : a.flag = flag /\ ValueGiven(args, flag) = a.value.body
    BY <1>2, GivenOnce
  <2> QED BY <1>3, <2>1, BodiesTyped
<1>5. o.listen = "" =>
        Parse(o, GivenAs(args, "--peer-listen")) =
          [o EXCEPT !.listen = ValueGiven(args, "--peer-listen")]
  <2> SUFFICES ASSUME o.listen = ""
               PROVE  Parse(o, GivenAs(args, "--peer-listen")) =
                        [o EXCEPT !.listen = ValueGiven(args, "--peer-listen")]
    OBVIOUS
  <2> DEFINE g == GivenAs(args, "--peer-listen")
             v == ValueGiven(args, "--peer-listen")
  <2>1. \/ g = <<>> /\ v = ""
        \/ \E a \in Arguments : /\ g = <<a>> /\ a.flag = "--peer-listen" /\ AcceptsDaemonArg(a)
                                /\ v = a.value.body
    <3>1. "--peer-listen" \in OnceFlags
      BY DEF OnceFlags
    <3> QED BY <3>1, GivenOnce
  <2> HIDE DEF g, v
  <2>2. CASE g = <<>> /\ v = ""
    <3>1. Parse(o, g) = o
      BY <2>2, ParseSimple
    <3>2. [o EXCEPT !.listen = v] = o
      BY <2>2 DEF ServeOptions
    <3> QED BY <3>1, <3>2 DEF g, v
  <2>3. CASE g # <<>> \/ v # ""
    <3>1. PICK a \in Arguments : /\ g = <<a>> /\ a.flag = "--peer-listen" /\ AcceptsDaemonArg(a)
                                 /\ v = a.value.body
      BY <2>1, <2>3
    <3>2. Trimmed(a.value) \in Addresses /\ v = Trimmed(a.value)
      BY <1>3, <3>1, AcceptedUnbroken
    <3>3. ParseArgument(o, a) = [o EXCEPT !.listen = Trimmed(a.value)]
      BY <3>1, <3>2, ArgumentsParsed
    <3>4. Parse(o, <<a>>) = ParseArgument(o, a)
      BY OneArgument
    <3> QED BY <3>1, <3>2, <3>3, <3>4 DEF g, v
  <2> QED BY <2>2, <2>3
<1>6. o.device = "" =>
        Parse(o, GivenAs(args, "--local-device-id")) =
          [o EXCEPT !.device = ValueGiven(args, "--local-device-id")]
  <2> SUFFICES ASSUME o.device = ""
               PROVE  Parse(o, GivenAs(args, "--local-device-id")) =
                        [o EXCEPT !.device = ValueGiven(args, "--local-device-id")]
    OBVIOUS
  <2> DEFINE g == GivenAs(args, "--local-device-id")
             v == ValueGiven(args, "--local-device-id")
  <2>1. \/ g = <<>> /\ v = ""
        \/ \E a \in Arguments : /\ g = <<a>> /\ a.flag = "--local-device-id"
                                /\ AcceptsDaemonArg(a) /\ v = a.value.body
    <3>1. "--local-device-id" \in OnceFlags
      BY DEF OnceFlags, WordFlags
    <3> QED BY <3>1, GivenOnce
  <2> HIDE DEF g, v
  <2>2. CASE g = <<>> /\ v = ""
    <3>1. Parse(o, g) = o
      BY <2>2, ParseSimple
    <3>2. [o EXCEPT !.device = v] = o
      BY <2>2 DEF ServeOptions
    <3> QED BY <3>1, <3>2 DEF g, v
  <2>3. CASE g # <<>> \/ v # ""
    <3>1. PICK a \in Arguments : /\ g = <<a>> /\ a.flag = "--local-device-id"
                                 /\ AcceptsDaemonArg(a) /\ v = a.value.body
      BY <2>1, <2>3
    <3>2. Trimmed(a.value) # "" /\ v = Trimmed(a.value)
      BY <1>3, <3>1, AcceptedUnbroken DEF WordFlags
    <3>3. ParseArgument(o, a) = [o EXCEPT !.device = Trimmed(a.value)]
      BY <3>1, <3>2, TextParsed
    <3>4. Parse(o, <<a>>) = ParseArgument(o, a)
      BY OneArgument
    <3> QED BY <3>1, <3>2, <3>3, <3>4 DEF g, v
  <2> QED BY <2>2, <2>3
<1>7. o.store = "" =>
        Parse(o, GivenAs(args, "--identity-store")) =
          [o EXCEPT !.store = ValueGiven(args, "--identity-store")]
  <2> SUFFICES ASSUME o.store = ""
               PROVE  Parse(o, GivenAs(args, "--identity-store")) =
                        [o EXCEPT !.store = ValueGiven(args, "--identity-store")]
    OBVIOUS
  <2> DEFINE g == GivenAs(args, "--identity-store")
             v == ValueGiven(args, "--identity-store")
  <2>1. \/ g = <<>> /\ v = ""
        \/ \E a \in Arguments : /\ g = <<a>> /\ a.flag = "--identity-store"
                                /\ AcceptsDaemonArg(a) /\ v = a.value.body
    <3>1. "--identity-store" \in OnceFlags
      BY DEF OnceFlags, WordFlags
    <3> QED BY <3>1, GivenOnce
  <2> HIDE DEF g, v
  <2>2. CASE g = <<>> /\ v = ""
    <3>1. Parse(o, g) = o
      BY <2>2, ParseSimple
    <3>2. [o EXCEPT !.store = v] = o
      BY <2>2 DEF ServeOptions
    <3> QED BY <3>1, <3>2 DEF g, v
  <2>3. CASE g # <<>> \/ v # ""
    <3>1. PICK a \in Arguments : /\ g = <<a>> /\ a.flag = "--identity-store"
                                 /\ AcceptsDaemonArg(a) /\ v = a.value.body
      BY <2>1, <2>3
    <3>2. Trimmed(a.value) # "" /\ v = Trimmed(a.value)
      BY <1>3, <3>1, AcceptedUnbroken DEF WordFlags
    <3>3. ParseArgument(o, a) = [o EXCEPT !.store = Trimmed(a.value)]
      BY <3>1, <3>2, TextParsed
    <3>4. Parse(o, <<a>>) = ParseArgument(o, a)
      BY OneArgument
    <3> QED BY <3>1, <3>2, <3>3, <3>4 DEF g, v
  <2> QED BY <2>2, <2>3
<1>8. o.name = "" =>
        Parse(o, GivenAs(args, "--identity-display-name")) =
          [o EXCEPT !.name = ValueGiven(args, "--identity-display-name")]
  <2> SUFFICES ASSUME o.name = ""
               PROVE  Parse(o, GivenAs(args, "--identity-display-name")) =
                        [o EXCEPT !.name = ValueGiven(args, "--identity-display-name")]
    OBVIOUS
  <2> DEFINE g == GivenAs(args, "--identity-display-name")
             v == ValueGiven(args, "--identity-display-name")
  <2>1. \/ g = <<>> /\ v = ""
        \/ \E a \in Arguments : /\ g = <<a>> /\ a.flag = "--identity-display-name"
                                /\ AcceptsDaemonArg(a) /\ v = a.value.body
    <3>1. "--identity-display-name" \in OnceFlags
      BY DEF OnceFlags, WordFlags
    <3> QED BY <3>1, GivenOnce
  <2> HIDE DEF g, v
  <2>2. CASE g = <<>> /\ v = ""
    <3>1. Parse(o, g) = o
      BY <2>2, ParseSimple
    <3>2. [o EXCEPT !.name = v] = o
      BY <2>2 DEF ServeOptions
    <3> QED BY <3>1, <3>2 DEF g, v
  <2>3. CASE g # <<>> \/ v # ""
    <3>1. PICK a \in Arguments : /\ g = <<a>> /\ a.flag = "--identity-display-name"
                                 /\ AcceptsDaemonArg(a) /\ v = a.value.body
      BY <2>1, <2>3
    <3>2. Trimmed(a.value) # "" /\ v = Trimmed(a.value)
      BY <1>3, <3>1, AcceptedUnbroken DEF WordFlags
    <3>3. ParseArgument(o, a) = [o EXCEPT !.name = Trimmed(a.value)]
      BY <3>1, <3>2, TextParsed
    <3>4. Parse(o, <<a>>) = ParseArgument(o, a)
      BY OneArgument
    <3> QED BY <3>1, <3>2, <3>3, <3>4 DEF g, v
  <2> QED BY <2>2, <2>3
<1> QED BY <1>1, <1>4, <1>5, <1>6, <1>7, <1>8

(* The same of the peer session. *)
LEMMA GivenSession ==
    ASSUME NEW args \in Seq(Arguments), AcceptsDaemonArgs(args), NEW o \in ServeOptions,
           o.session = <<>>
    PROVE  LET r == Parse(o, GivenAs(args, "--peer-session")) IN
           /\ r \in ServeOptions
           /\ r.capture = o.capture /\ r.listen = o.listen /\ r.device = o.device
           /\ r.store = o.store /\ r.name = o.name /\ r.bindings = o.bindings
           /\ Given(args, "--peer-session") = {} => r.session = <<>>
           /\ \A i \in Given(args, "--peer-session") :
                r.session = <<args[i].value.peer.body, args[i].value.address.body>>
<1> DEFINE g == GivenAs(args, "--peer-session")
           spots == Given(args, "--peer-session")
           r == Parse(o, g)
<1>1. \/ spots = {} /\ g = <<>>
      \/ \E a \in Arguments : /\ spots # {} /\ \A i \in spots : args[i] = a
                              /\ g = <<a>> /\ a.flag = "--peer-session" /\ AcceptsDaemonArg(a)
  <2>1. "--peer-session" \in OnceFlags
    BY DEF OnceFlags
  <2>2. \/ spots = {} /\ g = <<>> /\ ValueGiven(args, "--peer-session") = ""
        \/ \E a \in Arguments :
             /\ spots # {} /\ \A i \in spots : args[i] = a
             /\ g = <<a>> /\ a.flag = "--peer-session" /\ AcceptsDaemonArg(a)
             /\ ValueGiven(args, "--peer-session") = a.value.body
    BY <2>1, GivenOnce
  <2> HIDE DEF g, spots
  <2>3. CASE spots = {}
    BY <2>2, <2>3
  <2>4. CASE spots # {}
    <3>1. PICK a \in Arguments :
             /\ \A i \in spots : args[i] = a
             /\ g = <<a>> /\ a.flag = "--peer-session" /\ AcceptsDaemonArg(a)
      BY <2>2, <2>4
    <3> QED BY <2>4, <3>1
  <2> QED BY <2>3, <2>4
<1> HIDE DEF g, spots
<1>2. CASE spots = {} /\ g = <<>>
  <2>1. r = o
    BY <1>2, ParseSimple
  <2> QED BY <1>2, <2>1 DEF r, g, spots
<1>3. CASE \E a \in Arguments : /\ spots # {} /\ \A i \in spots : args[i] = a
                                /\ g = <<a>> /\ a.flag = "--peer-session" /\ AcceptsDaemonArg(a)
  <2>1. PICK a \in Arguments : /\ spots # {} /\ \A i \in spots : args[i] = a
                               /\ g = <<a>> /\ a.flag = "--peer-session" /\ AcceptsDaemonArg(a)
    BY <1>3
  <2> DEFINE s == <<Trimmed(a.value.peer), Trimmed(a.value.address)>>
  <2>2. IsPeerSession(a.value)
    BY <2>1, AcceptedUnbroken
  <2>3. r = [o EXCEPT !.session = s]
    <3>1. ParseArgument(o, a) = [o EXCEPT !.session = s]
      BY <2>1, <2>2, ArgumentsParsed
    <3>2. Parse(o, <<a>>) = ParseArgument(o, a)
      BY OneArgument
    <3> QED BY <2>1, <3>1, <3>2
  <2>4. s = <<a.value.peer.body, a.value.address.body>> /\ s \in Seq(Bodies)
    <3>1. a.value \in [peer : Texts, address : Texts]
      BY <2>1, TextFlags DEF Arguments
    <3> QED BY <3>1 DEF Texts, Trimmed
  <2> HIDE DEF s
  <2>5. r \in ServeOptions
    BY <2>3, <2>4, FieldsTyped
  <2>6. /\ r.capture = o.capture /\ r.listen = o.listen /\ r.device = o.device
        /\ r.store = o.store /\ r.name = o.name /\ r.bindings = o.bindings /\ r.session = s
    BY <2>3 DEF ServeOptions
  <2>7. \A i \in spots : r.session = <<args[i].value.peer.body, args[i].value.address.body>>
    BY <2>1, <2>4, <2>6
  <2> QED BY <2>1, <2>5, <2>6, <2>7 DEF r, g, spots
<1> QED BY <1>1, <1>2, <1>3

(* The line that is printed holds no blank, and its parts are arguments. *)
CapturePrinted(args) ==
    IF Given(args, "--capture-input") = {} THEN <<>> ELSE Argument("--capture-input", Text(""))

(* A printed line is made of accepted arguments. *)
LEMMA LineIsWhole ==
    ASSUME NEW args \in Seq(Arguments), AcceptsDaemonArgs(args)
    PROVE  /\ PrintedLine(args) \in Seq(Arguments)
           /\ CapturePrinted(args) \in Seq(Arguments)
           /\ (\A i \in DOMAIN args : LeftAlone(args[i])) =>
                 ShellWords(PrintedLine(args)) = PrintedLine(args)
<1> DEFINE a == [flag |-> "--capture-input", value |-> Text("")]
           p1 == CapturePrinted(args)
           p2 == GivenAs(args, "--edge-binding")
           p3 == GivenAs(args, "--peer-listen")
           p4 == GivenAs(args, "--local-device-id")
           p5 == GivenAs(args, "--identity-store")
           p6 == GivenAs(args, "--identity-display-name")
           p7 == GivenAs(args, "--peer-session")
           line == PrintedLine(args)
<1>1. a \in Plain(args)
  <2>1. a \in Arguments /\ a.flag = "--capture-input"
    BY BodiesTyped DEF Arguments
  <2> HIDE DEF a
  <2> QED BY <2>1 DEF Plain, Unbroken, HoldsBlank, ShellTexts, LeftAlone
<1>2. p1 \in Seq(Plain(args))
  <2>1. p1 = (IF Given(args, "--capture-input") = {} THEN <<>> ELSE <<a>>)
    BY DEF CapturePrinted, Argument
  <2> HIDE DEF a, p1
  <2>2. <<a>> \in Seq(Plain(args)) /\ <<>> \in Seq(Plain(args))
    BY <1>1
  <2> QED BY <2>1, <2>2
<1>3. /\ p2 \in Seq(Plain(args)) /\ p3 \in Seq(Plain(args)) /\ p4 \in Seq(Plain(args))
      /\ p5 \in Seq(Plain(args)) /\ p6 \in Seq(Plain(args)) /\ p7 \in Seq(Plain(args))
  BY GivenAccepted
<1>4. line = p1 \o p2 \o p3 \o p4 \o p5 \o p6 \o p7
  BY DEF PrintedLine, CapturePrinted
<1> HIDE DEF p1, p2, p3, p4, p5, p6, p7, line
<1>5. line \in Seq(Plain(args))
  BY <1>2, <1>3, <1>4
<1>6. line \in Seq(Arguments) /\ p1 \in Seq(Arguments)
  <2>1. \A x \in Plain(args) : x \in Arguments
    BY DEF Plain, Unbroken
  <2> QED BY <1>2, <1>5, <2>1
<1>7. ASSUME \A i \in DOMAIN args : LeftAlone(args[i])
      PROVE  ShellWords(line) = line
  <2>1. \A i \in 1..Len(line) : line[i] \in Plain(args)
    BY <1>5
  <2>2. \A i \in 1..Len(line) : ~HoldsBlank(line[i]) /\ LeftAlone(line[i])
    BY <1>7, <2>1 DEF Plain, Unbroken
  <2> QED BY <1>6, <2>2, ShellKeepsWords
<1> QED BY <1>6, <1>7 DEF line, p1

(* How the daemon's options grow along the printed line. *)
LEMMA LineParsed ==
    ASSUME NEW args \in Seq(Arguments), AcceptsDaemonArgs(args)
    PROVE  LET served == parse_serve_options(PrintedLine(args)) IN
           /\ served \in ServeOptions
           /\ served.capture = (Given(args, "--capture-input") # {})
           /\ served.listen = ValueGiven(args, "--peer-listen")
           /\ served.device = ValueGiven(args, "--local-device-id")
           /\ served.store = ValueGiven(args, "--identity-store")
           /\ served.name = ValueGiven(args, "--identity-display-name")
           /\ \A i \in Given(args, "--peer-session") :
                served.session = <<args[i].value.peer.body, args[i].value.address.body>>
           /\ served.bindings = <<>> \o BoundOf(GivenAs(args, "--edge-binding"),
                                                Len(GivenAs(args, "--edge-binding")))
<1> DEFINE p1 == CapturePrinted(args)
           p2 == GivenAs(args, "--edge-binding")
           p3 == GivenAs(args, "--peer-listen")
           p4 == GivenAs(args, "--local-device-id")
           p5 == GivenAs(args, "--identity-store")
           p6 == GivenAs(args, "--identity-display-name")
           p7 == GivenAs(args, "--peer-session")
           C == Given(args, "--capture-input") # {}
           L == ValueGiven(args, "--peer-listen")
           D == ValueGiven(args, "--local-device-id")
           S == ValueGiven(args, "--identity-store")
           M == ValueGiven(args, "--identity-display-name")
           B == <<>> \o BoundOf(p2, Len(p2))
           o0 == DefaultOptions
           o1 == IF C THEN [o0 EXCEPT !.capture = TRUE] ELSE o0
           o2 == [o1 EXCEPT !.bindings = @ \o BoundOf(p2, Len(p2))]
           o3 == [o2 EXCEPT !.listen = L]
           o4 == [o3 EXCEPT !.device = D]
           o5 == [o4 EXCEPT !.store = S]
           o6 == [o5 EXCEPT !.name = M]
           o7 == Parse(o6, p7)
           a == [flag |-> "--capture-input", value |-> Text("")]
<1>1. a \in Arguments /\ a.flag = "--capture-input" /\ p1 = (IF C THEN <<a>> ELSE <<>>)
  BY BodiesTyped DEF Arguments, CapturePrinted, Argument
<1>2. /\ p2 \in Seq(Arguments)
      /\ \A k \in 1..Len(p2) : p2[k].flag = "--edge-binding" /\ IsEdgeBinding(p2[k].value)
  <2>1. p2 \in Seq(Arguments)
    BY GivenInOrder
  <2> QED BY <2>1, GivenAccepted
<1>3. /\ p1 \in Seq(Arguments) /\ p3 \in Seq(Arguments) /\ p4 \in Seq(Arguments)
      /\ p5 \in Seq(Arguments) /\ p6 \in Seq(Arguments) /\ p7 \in Seq(Arguments)
  BY LineIsWhole, GivenInOrder
<1>4. L \in Bodies /\ D \in Bodies /\ S \in Bodies /\ M \in Bodies /\ C \in BOOLEAN
  BY GivenFields, BodiesTyped DEF WordFlags
<1> HIDE DEF a, p1, p2, p3, p4, p5, p6, p7, C, L, D, S, M
<1>5. /\ o0 \in ServeOptions /\ o0.capture = FALSE /\ o0.listen = "" /\ o0.device = ""
      /\ o0.store = "" /\ o0.name = "" /\ o0.session = <<>> /\ o0.bindings = <<>>
  <2>1. o0 \in ServeOptions
    BY BodiesTyped
  <2> QED BY <2>1 DEF DefaultOptions
<1> HIDE DEF o0
<1>6. /\ o1 \in ServeOptions /\ o1.capture = C /\ o1.listen = "" /\ o1.device = ""
      /\ o1.store = "" /\ o1.name = "" /\ o1.session = <<>> /\ o1.bindings = <<>>
      /\ Parse(o0, p1) = o1
  <2>1. o1 \in ServeOptions
    BY <1>5, FieldsTyped
  <2>2. CASE ~C
    <3>1. p1 = <<>> /\ o1 = o0
      BY <1>1, <2>2
    <3> QED BY <1>4, <1>5, <2>2, <3>1, ParseSimple
  <2>3. CASE C
    <3>1. p1 = <<a>> /\ o1 = [o0 EXCEPT !.capture = TRUE]
      BY <1>1, <2>3
    <3>2. ParseArgument(o0, a) = [o0 EXCEPT !.capture = TRUE]
      BY <1>1, <1>5, ArgumentsParsed
    <3>3. Parse(o0, <<a>>) = ParseArgument(o0, a)
      BY <1>1, <1>5, OneArgument
    <3>4. Parse(o0, p1) = o1
      BY <3>1, <3>2, <3>3
    <3>5. o1.capture = TRUE /\ C = TRUE
      BY <1>4, <1>5, <2>3, <3>1 DEF ServeOptions
    <3>6. /\ o1.listen = o0.listen /\ o1.device = o0.device
          /\ o1.store = o0.store /\ o1.name = o0.name /\ o1.session = o0.session
          /\ o1.bindings = o0.bindings
      BY <3>1
    <3> QED BY <1>5, <2>1, <3>4, <3>5, <3>6
  <2> QED BY <2>2, <2>3
<1> HIDE DEF o1
<1>7. /\ o2 \in ServeOptions /\ o2.capture = C /\ o2.listen = "" /\ o2.device = ""
      /\ o2.store = "" /\ o2.name = "" /\ o2.session = <<>> /\ o2.bindings = B
      /\ Parse(o1, p2) = o2
  <2>1. o2 \in ServeOptions /\ Parse(o1, p2) = o2
    BY <1>2, <1>6, ParseEdges
  <2>2. /\ o2.capture = o1.capture /\ o2.listen = o1.listen /\ o2.device = o1.device
        /\ o2.store = o1.store /\ o2.name = o1.name /\ o2.session = o1.session
        /\ o2.bindings = o1.bindings \o BoundOf(p2, Len(p2))
    BY <1>6 DEF ServeOptions
  <2> HIDE DEF o2
  <2> QED BY <1>6, <2>1, <2>2
<1> HIDE DEF o2, B
<1>8. /\ o3 \in ServeOptions /\ o3.capture = C /\ o3.listen = L /\ o3.device = ""
      /\ o3.store = "" /\ o3.name = "" /\ o3.session = <<>> /\ o3.bindings = B
      /\ Parse(o2, p3) = o3
  <2>1. o3 \in ServeOptions
    BY <1>4, <1>7, FieldsTyped
  <2>2. Parse(o2, p3) = o3
    BY <1>7, GivenFields DEF p3, L
  <2>3. /\ o3.capture = o2.capture /\ o3.listen = L /\ o3.device = o2.device
        /\ o3.store = o2.store /\ o3.name = o2.name /\ o3.session = o2.session
        /\ o3.bindings = o2.bindings
    BY <1>7 DEF ServeOptions
  <2> HIDE DEF o3
  <2> QED BY <1>7, <2>1, <2>2, <2>3
<1> HIDE DEF o3
<1>9. /\ o4 \in ServeOptions /\ o4.capture = C /\ o4.listen = L /\ o4.device = D
      /\ o4.store = "" /\ o4.name = "" /\ o4.session = <<>> /\ o4.bindings = B
      /\ Parse(o3, p4) = o4
  <2>1. o4 \in ServeOptions
    BY <1>4, <1>8, FieldsTyped
  <2>2. Parse(o3, p4) = o4
    BY <1>8, GivenFields DEF p4, D
  <2>3. /\ o4.capture = o3.capture /\ o4.listen = o3.listen /\ o4.device = D
        /\ o4.store = o3.store /\ o4.name = o3.name /\ o4.session = o3.session
        /\ o4.bindings = o3.bindings
    BY <1>8 DEF ServeOptions
  <2> HIDE DEF o4
  <2> QED BY <1>8, <2>1, <2>2, <2>3
<1> HIDE DEF o4
<1>10. /\ o5 \in ServeOptions /\ o5.capture = C /\ o5.listen = L /\ o5.device = D
       /\ o5.store = S /\ o5.name = "" /\ o5.session = <<>> /\ o5.bindings = B
       /\ Parse(o4, p5) = o5
  <2>1. o5 \in ServeOptions
    BY <1>4, <1>9, FieldsTyped
  <2>2. Parse(o4, p5) = o5
    BY <1>9, GivenFields DEF p5, S
  <2>3. /\ o5.capture = o4.capture /\ o5.listen = o4.listen /\ o5.device = o4.device
        /\ o5.store = S /\ o5.name = o4.name /\ o5.session = o4.session
        /\ o5.bindings = o4.bindings
    BY <1>9 DEF ServeOptions
  <2> HIDE DEF o5
  <2> QED BY <1>9, <2>1, <2>2, <2>3
<1> HIDE DEF o5
<1>11. /\ o6 \in ServeOptions /\ o6.capture = C /\ o6.listen = L /\ o6.device = D
       /\ o6.store = S /\ o6.name = M /\ o6.session = <<>> /\ o6.bindings = B
       /\ Parse(o5, p6) = o6
  <2>1. o6 \in ServeOptions
    BY <1>4, <1>10, FieldsTyped
  <2>2. Parse(o5, p6) = o6
    BY <1>10, GivenFields DEF p6, M
  <2>3. /\ o6.capture = o5.capture /\ o6.listen = o5.listen /\ o6.device = o5.device
        /\ o6.store = o5.store /\ o6.name = M /\ o6.session = o5.session
        /\ o6.bindings = o5.bindings
    BY <1>10 DEF ServeOptions
  <2> HIDE DEF o6
  <2> QED BY <1>10, <2>1, <2>2, <2>3
<1> HIDE DEF o6
<1>12. /\ o7 \in ServeOptions /\ o7.capture = C /\ o7.listen = L /\ o7.device = D
       /\ o7.store = S /\ o7.name = M /\ o7.bindings = B
       /\ Given(args, "--peer-session") = {} => o7.session = <<>>
       /\ \A i \in Given(args, "--peer-session") :
            o7.session = <<args[i].value.peer.body, args[i].value.address.body>>
  BY <1>11, GivenSession DEF p7
<1> HIDE DEF o7
<1>13. Parse(o0, PrintedLine(args)) = o7
  <2>0. /\ o0 \in ServeOptions /\ Parse(o0, p1) = o1 /\ Parse(o1, p2) = o2 /\ Parse(o2, p3) = o3
        /\ Parse(o3, p4) = o4 /\ Parse(o4, p5) = o5 /\ Parse(o5, p6) = o6
    BY <1>5, <1>6, <1>7, <1>8, <1>9, <1>10, <1>11
  <2>1. PrintedLine(args) = p1 \o p2 \o p3 \o p4 \o p5 \o p6 \o p7
    BY DEF PrintedLine, CapturePrinted, p1, p2, p3, p4, p5, p6, p7
  <2> DEFINE s2 == p1 \o p2
             s3 == s2 \o p3
             s4 == s3 \o p4
             s5 == s4 \o p5
             s6 == s5 \o p6
             s7 == s6 \o p7
  <2>2. /\ s2 \in Seq(Arguments) /\ s3 \in Seq(Arguments) /\ s4 \in Seq(Arguments)
        /\ s5 \in Seq(Arguments) /\ s6 \in Seq(Arguments)
    BY <1>2, <1>3
  <2>3. PrintedLine(args) = s7
    BY <2>1
  <2>4. Parse(o0, s2) = o2
    BY <1>2, <1>3, <2>0, ParseJoin
  <2> HIDE DEF s2
  <2>5. Parse(o0, s3) = o3
    BY <1>3, <2>0, <2>2, <2>4, ParseJoin
  <2> HIDE DEF s3
  <2>6. Parse(o0, s4) = o4
    BY <1>3, <2>0, <2>2, <2>5, ParseJoin
  <2> HIDE DEF s4
  <2>7. Parse(o0, s5) = o5
    BY <1>3, <2>0, <2>2, <2>6, ParseJoin
  <2> HIDE DEF s5
  <2>8. Parse(o0, s6) = o6
    BY <1>3, <2>0, <2>2, <2>7, ParseJoin
  <2> HIDE DEF s6
  <2>9. Parse(o0, s7) = o7
    BY <1>3, <2>0, <2>2, <2>8, ParseJoin DEF o7
  <2> QED BY <2>3, <2>9
<1>14. L # "" \/ Given(args, "--peer-session") # {} => S # ""
  <2>1. L # "" => Given(args, "--peer-listen") # {}
    BY DEF L, ValueGiven
  <2>2. Given(args, "--peer-listen") \cup Given(args, "--peer-session") # {} =>
          Given(args, "--identity-store") # {}
    BY DEF AcceptsDaemonArgs
  <2>3. Given(args, "--identity-store") # {} => S # ""
    <3>1. "--identity-store" \in OnceFlags /\ "--identity-store" \in WordFlags
      BY DEF OnceFlags, WordFlags
    <3>2. Given(args, "--identity-store") # {} =>
            \E x \in Arguments : x.flag = "--identity-store" /\ AcceptsDaemonArg(x) /\ S = x.value.body
      BY <3>1, GivenOnce DEF S
    <3> QED BY <3>1, <3>2, AcceptedUnbroken DEF Trimmed
  <2> QED BY <2>1, <2>2, <2>3
<1>15. parse_serve_options(PrintedLine(args)) = o7
  <2>1. o7 # REFUSED /\ ((o7.listen # "" \/ o7.session # <<>>) => o7.store # "")
    BY <1>12, <1>14, BodiesTyped
  <2> QED BY <1>13, <2>1 DEF parse_serve_options, o0, Ok
<1> QED BY <1>12, <1>15 DEF C, L, D, S, M, B, p2

(* What `akrazctl daemon-args' accepts, the daemon reads from the line it
   prints, with every option as it was given, when the shell in between
   interprets nothing in the values.  (It refuses no character a shell
   interprets but the blank: a value with a quote or a dollar sign is printed
   and read otherwise.) *)
THEOREM PrintedLineReadBack ==
    ASSUME NEW argLists \in SUBSET Seq(Arguments)
    PROVE  DaemonArgsReadBack(argLists)
<1> SUFFICES
      ASSUME NEW args \in Seq(Arguments), AcceptsDaemonArgs(args),
             \A i \in DOMAIN args : LeftAlone(args[i])
      PROVE  ReadsAsGiven(args)
  BY DEF DaemonArgsReadBack
<1> DEFINE served == parse_serve_options(PrintedLine(args))
           spots == Given(args, "--edge-binding")
           p == GivenAs(args, "--edge-binding")
           T == [local : Edges, peer : Bodies, remote : Edges]
           N == Cardinality(spots)
           w == BoundOf(p, N)
<1>1. ShellWords(PrintedLine(args)) = PrintedLine(args)
  BY LineIsWhole
<1>2. Ok(served)
  <2>1. served \in ServeOptions
    BY LineParsed
  <2> QED BY <2>1, BodiesTyped DEF Ok
<1>3. /\ p \in Seq(Arguments) /\ Len(p) = N /\ N \in Nat
      /\ \A i \in spots : \E k \in 1..N : p[k] = args[i]
  BY GivenInOrder
<1>4. \A k \in 1..N : p[k] \in Arguments /\ p[k].flag = "--edge-binding"
  BY <1>3, GivenAccepted
<1>5. served.bindings = <<>> \o w
  BY <1>3, LineParsed
<1> HIDE DEF served, spots, p, N
<1>6. w \in Seq(T) /\ Len(w) = N /\ DOMAIN w = 1..N /\ \A k \in 1..N : w[k] = Bound(p[k].value)
  <2>1. ASSUME NEW k \in 1..N PROVE Bound(p[k].value) \in T
    <3>1. p[k].value \in EdgeBindings
      BY <1>4, TextFlags DEF Arguments
    <3> QED BY <3>1 DEF EdgeBindings, Bound, Texts, Trimmed
  <2> HIDE DEF T
  <2>2. w = [k \in 1..N |-> Bound(p[k].value)]
    BY DEF BoundOf
  <2> HIDE DEF w
  <2> QED BY <1>3, <2>1, <2>2
<1>7. served.bindings = w
  <2> HIDE DEF w, T
  <2> QED BY <1>5, <1>6
<1>8. Len(served.bindings) = N
  BY <1>6, <1>7
<1>9. ASSUME NEW i \in spots PROVE [args[i].value EXCEPT !.peer = @.body] \in ToSet(served.bindings)
  <2>1. PICK k \in 1..N : p[k] = args[i]
    BY <1>3
  <2>2. w[k] = [args[i].value EXCEPT !.peer = @.body]
    BY <1>6, <2>1 DEF Bound, Trimmed
  <2> HIDE DEF w
  <2>3. w[k] \in ToSet(w)
    BY <1>6 DEF ToSet
  <2> QED BY <1>7, <2>2, <2>3
<1> QED BY <1>1, <1>2, <1>8, <1>9, LineParsed DEF ReadsAsGiven, served, spots, N

----
(* The daemon takes the parameters it is sent trimmed. *)
LEMMA ParametersAreTaken ==
    ASSUME NEW texts
    PROVE  ParametersTaken(texts)
<1> DEFINE Requested == {"session.connect", "session.probeManualCandidate", "pairing.accept",
                         "pairing.reject"}
<1> SUFFICES ASSUME NEW p \in [peerId : texts, localDeviceId : texts, address : texts, code : texts],
                    NEW request \in Requested,
                    AppAccepts(request, p) \/ (request = "session.connect" /\ CtlConnects(p))
             PROVE  DaemonTakes(request, [f \in DOMAIN p |-> Text(Trimmed(p[f]))])
  BY DEF ParametersTaken
<1> DEFINE q == [f \in DOMAIN p |-> Text(Trimmed(p[f]))]
<1>1. \A b : Trimmed(Text(b)) = b
  BY DEF Trimmed, Text
<1>2. /\ q.peerId = Text(Trimmed(p.peerId)) /\ q.localDeviceId = Text(Trimmed(p.localDeviceId))
      /\ q.address = Text(Trimmed(p.address)) /\ q.code = Text(Trimmed(p.code))
  <2>1. DOMAIN p = {"peerId", "localDeviceId", "address", "code"}
    OBVIOUS
  <2> QED BY <2>1
<1>3. /\ Trimmed(q.peerId) = Trimmed(p.peerId)
      /\ Trimmed(q.localDeviceId) = Trimmed(p.localDeviceId)
      /\ Trimmed(q.address) = Trimmed(p.address) /\ Trimmed(q.code) = Trimmed(p.code)
  BY <1>1, <1>2
<1> HIDE DEF q
<1>4. CASE request = "session.connect"
  <2>1. /\ Trimmed(p.peerId) # "" /\ Trimmed(p.localDeviceId) # ""
        /\ Trimmed(p.address) \in Addresses
    <3>1. CASE AppAccepts(request, p)
      <4>1. /\ IsSessionPeerId(p.peerId) /\ IsRequiredValue(p.localDeviceId)
            /\ IsSessionAddress(p.address)
        BY <1>4, <3>1 DEF AppAccepts
      <4> QED BY <4>1 DEF IsSessionPeerId, IsRequiredValue, IsSessionAddress
    <3>2. CASE CtlConnects(p)
      BY <3>2 DEF CtlConnects, IsWordPeerId, IsWord, IsWordAddress, Trimmed
    <3> QED BY <3>1, <3>2
  <2> QED BY <1>3, <1>4, <2>1 DEF DaemonTakes, q
<1>5. CASE request = "session.probeManualCandidate"
  BY <1>3, <1>5 DEF AppAccepts, DaemonTakes, IsSessionAddress, q
<1>6. CASE request = "pairing.accept"
  BY <1>3, <1>6 DEF AppAccepts, DaemonTakes, IsSessionPeerId, IsRequiredValue, q
<1>7. CASE request = "pairing.reject"
  BY <1>3, <1>7 DEF AppAccepts, DaemonTakes, IsSessionPeerId, IsRequiredValue, q
<1> QED BY <1>4, <1>5, <1>6, <1>7

----
(***************************************************************************)
(* Requests.                                                               *)
(***************************************************************************)
(* A method has one entry of its name. *)
LEMMA MethodsNamed ==
    /\ \A m \in Methods : m.name \in MethodNames /\ Method(m.name) = m
    /\ \A name \in MethodNames : Method(name) \in Methods /\ Method(name).name = name
<1>1. \A m, n \in Methods : m.name = n.name => m = n
  BY DEF Methods
<1>2. \A name \in MethodNames : \E m \in Methods : m.name = name
  BY DEF MethodNames
<1>3. \A m \in Methods : m.name \in MethodNames
  BY DEF MethodNames
<1> QED BY <1>1, <1>2, <1>3 DEF Method

(* A call has one entry of its method. *)
LEMMA CallsNamed ==
    /\ \A c \in Calls : CallOf(c.method) = c
    /\ \A c \in Calls : /\ c.method \in MethodNames
                        /\ Method(c.method).required \subseteq c.fields
                        /\ Method(c.method).result = c.reads
    /\ \A c, d \in Calls : c.reads = d.reads => c = d
<1>1. \A c, d \in Calls : c.method = d.method => c = d
  BY DEF Calls, ClientCall
<1>2. \A c, d \in Calls : c.reads = d.reads => c = d
  BY DEF Calls, ClientCall
<1>3. ASSUME NEW c \in Calls
      PROVE  \E m \in Methods : m.name = c.method /\ m.required \subseteq c.fields /\ m.result = c.reads
  <2>1. [name |-> c.method, required |-> c.fields, result |-> c.reads] \in Methods
    BY SMTT(120) DEF Calls, ClientCall, Methods
  <2> QED BY <2>1
<1>4. \A c \in Calls : CallOf(c.method) = c
  BY <1>1 DEF CallOf
<1>5. ASSUME NEW c \in Calls
      PROVE  /\ c.method \in MethodNames
             /\ Method(c.method).required \subseteq c.fields
             /\ Method(c.method).result = c.reads
  <2>1. PICK m \in Methods : m.name = c.method /\ m.required \subseteq c.fields /\ m.result = c.reads
    BY <1>3
  <2> QED BY <2>1, MethodsNamed
<1> QED BY <1>2, <1>4, <1>5

(* Every request line is answered as its first fault, or its operation, wants. *)
LEMMA LinesAreAnswered == LinesAnswered
<1> SUFFICES
      ASSUME NEW line \in Lines, NEW ok \in BOOLEAN, NEW stoppable \in BOOLEAN
      PROVE  LET works == [m \in MethodNames |-> ok]
                 a == handle_ipc_request_line(line, works, stoppable)
             IN /\ line.json => a.id = line.id
                /\ a.failure = NoFailure =>
                     /\ line.json /\ line.envelope /\ line.version /\ line.object /\ line.id # NoId
                     /\ \E m \in Methods : /\ m.name = line.method /\ m.required \subseteq line.fields
                                           /\ m.result = a.result
                     /\ ok \/ line.method = "daemon.logs.tail"
  BY DEF LinesAnswered
<1> DEFINE works == [m \in MethodNames |-> ok]
           a == handle_ipc_request_line(line, works, stoppable)
           failure == IF Rejection(line) # NoFailure THEN Rejection(line)
                      ELSE IF Succeeds(line.method, works, stoppable) THEN NoFailure
                      ELSE "daemon error"
<1>1. a.id = AnswerId(line, failure) /\ a.failure = failure
      /\ a.result = IF failure = NoFailure THEN Method(line.method).result ELSE NoFailure
  BY DEF handle_ipc_request_line
<1>2. line.json => a.id = line.id
  BY <1>1 DEF AnswerId
<1>3. ASSUME failure = NoFailure
      PROVE  Rejection(line) = NoFailure /\ Succeeds(line.method, works, stoppable)
  BY <1>3 DEF NoFailure
<1>4. ASSUME Rejection(line) = NoFailure
      PROVE  /\ line.json /\ line.envelope /\ line.version /\ line.object /\ line.id # NoId
             /\ line.method \in MethodNames /\ Method(line.method).required \subseteq line.fields
  BY <1>4 DEF Rejection, NoFailure
<1>5. \A name \in MethodNames :
        Succeeds(name, works, stoppable) => ok \/ name = "daemon.logs.tail"
  BY DEF Succeeds
<1> HIDE DEF a, works, failure
<1>6. ASSUME a.failure = NoFailure
      PROVE  \E m \in Methods : /\ m.name = line.method /\ m.required \subseteq line.fields
                                /\ m.result = a.result
  <2>1. line.method \in MethodNames /\ Method(line.method).required \subseteq line.fields
        /\ Method(line.method).result = a.result
    BY <1>1, <1>3, <1>4, <1>6
  <2> QED BY <2>1, MethodsNamed
<1> QED BY <1>1, <1>2, <1>3, <1>4, <1>5, <1>6 DEF a, works

(* A client's line asks for a known method with all it needs. *)
LEMMA CallAnswered ==
    ASSUME NEW c \in Calls, NEW works, NEW stoppable
    PROVE  LET a == handle_ipc_request_line(Line(c), works, stoppable) IN
           /\ a.id = "local" /\ a.version
           /\ Succeeds(c.method, works, stoppable) => a.failure = NoFailure /\ a.result = c.reads
           /\ ~Succeeds(c.method, works, stoppable) => a.failure # NoFailure
<1>1. Rejection(Line(c)) = NoFailure
  <2>1. c.method \in MethodNames /\ Method(c.method).required \subseteq c.fields
    BY CallsNamed
  <2> QED BY <2>1 DEF Rejection, Line, NoId, NoFailure
<1>2. Line(c).method = c.method /\ Line(c).id = "local" /\ Line(c).json
  BY DEF Line
<1>3. Method(c.method).result = c.reads
  BY CallsNamed
<1> QED BY <1>1, <1>2, <1>3 DEF handle_ipc_request_line, AnswerId, NoFailure

(* Whether a call of the application is done *)
CallNames == {c.method : c \in Calls}

(* A call reads as done exactly if its operation succeeds. *)
LEMMA CallDone ==
    ASSUME NEW name \in CallNames, NEW works
    PROVE  Done(name, works) <=> Succeeds(name, works, TRUE)
<1>1. PICK c \in Calls : c.method = name
  BY DEF CallNames
<1>2. CallOf(name) = c
  BY <1>1, CallsNamed
<1>3. ReadsAsDone(handle_ipc_request_line(Line(c), works, TRUE), c) <=> Succeeds(name, works, TRUE)
  BY <1>1, CallAnswered DEF ReadsAsDone
<1> QED BY <1>2, <1>3 DEF Done, Outcome

(* A call's outcome, for every transport; another call's answer is refused. *)
LEMMA CallsOutcome ==
    ASSUME NEW c \in Calls, NEW works, NEW stoppable
    PROVE  LET a == handle_ipc_request_line(Line(c), works, stoppable) IN
           /\ \A t \in {"Answered", "EndpointUnavailable", "RequestFailed"} :
                Outcome(c, works, stoppable, t) = "Done" <=>
                    t = "Answered" /\ Succeeds(c.method, works, stoppable)
           /\ ~ReadsAsDone([a EXCEPT !.id = "other"], c)
           /\ \A d \in Calls \ {c} :
                ~ReadsAsDone(handle_ipc_request_line(Line(d), works, stoppable), c)
<1> DEFINE a == handle_ipc_request_line(Line(c), works, stoppable)
<1>1. ReadsAsDone(a, c) <=> Succeeds(c.method, works, stoppable)
  BY CallAnswered DEF ReadsAsDone
<1>2. ASSUME NEW t \in {"Answered", "EndpointUnavailable", "RequestFailed"}
      PROVE  Outcome(c, works, stoppable, t) = "Done" <=>
               t = "Answered" /\ Succeeds(c.method, works, stoppable)
  BY <1>1 DEF Outcome
<1>3. ~ReadsAsDone([a EXCEPT !.id = "other"], c)
  <2>1. [a EXCEPT !.id = "other"].id = "other"
    BY DEF handle_ipc_request_line
  <2> HIDE DEF a
  <2> QED BY <2>1 DEF ReadsAsDone
<1>4. ASSUME NEW d \in Calls \ {c}
      PROVE  ~ReadsAsDone(handle_ipc_request_line(Line(d), works, stoppable), c)
  <2> DEFINE b == handle_ipc_request_line(Line(d), works, stoppable)
  <2>1. b.failure = NoFailure => b.result = d.reads
    BY CallAnswered
  <2>2. d.reads # c.reads
    BY CallsNamed
  <2> HIDE DEF b
  <2> QED BY <2>1, <2>2 DEF ReadsAsDone, b
<1> QED BY <1>2, <1>3, <1>4

(* An operation of several calls is reported exactly if each was done. *)
LEMMA OperationsReported ==
    ASSUME NEW op \in Operations, NEW works \in [MethodsOf(op) -> BOOLEAN]
    PROVE  /\ Reported(op, works) <=> \A m \in ToSet(op.calls) : works[m]
           /\ \A m \in Sections(op, works) : works[m] \/ m = "daemon.logs.tail"
           /\ op.calls[1] = "session.connect" /\ ~works["session.connect"] =>
                Made(op, works) = {1}
<1> DEFINE a == op.calls[1]
           b == op.calls[2]
<1>1. /\ op.calls = <<a, b>> /\ DOMAIN op.calls = 1..2 /\ {a, b} \subseteq CallNames
      /\ a # "daemon.logs.tail" /\ b # "daemon.logs.tail"
      /\ op.optional \subseteq CallNames \ {"daemon.shutdown"} /\ "daemon.shutdown" \notin {a, b}
  <2>1. CallNames = MethodNames \ {"input.smokeTest"}
    BY DEF CallNames, Calls, ClientCall, MethodNames, Methods
  <2>2. {"session.connect", "session.disconnect", "input.releaseAll", "daemon.status",
         "permissions.probe", "diagnostics.screenTopology", "diagnostics.keyboardLayout",
         "daemon.logs.tail"} \subseteq CallNames
    BY DEF CallNames, Calls, ClientCall
  <2> HIDE DEF CallNames
  <2> QED BY <2>2 DEF Operations
<1>2. ToSet(op.calls) = {a, b}
  BY <1>1 DEF ToSet
<1> HIDE DEF a, b
<1>3. /\ a \in DOMAIN works /\ b \in DOMAIN works /\ works[a] \in BOOLEAN /\ works[b] \in BOOLEAN
      /\ \A m \in op.optional : m \in DOMAIN works /\ works[m] \in BOOLEAN
  BY <1>2 DEF MethodsOf
<1>4. /\ Done(a, works) <=> works[a]
      /\ Done(b, works) <=> works[b]
      /\ \A m \in op.optional : Done(m, works) => works[m] \/ m = "daemon.logs.tail"
  BY <1>1, <1>3, CallDone DEF Succeeds
<1>5. /\ 1 \in Made(op, works)
      /\ 2 \in Made(op, works) <=> Done(a, works)
      /\ Made(op, works) \subseteq {1, 2}
  <2>1. Made(op, works) = {i \in 1..2 : \A j \in 1..(i - 1) : Done(op.calls[j], works)}
    BY <1>1 DEF Made
  <2>2. 1..(1 - 1) = {} /\ 1..(2 - 1) = {1} /\ 1..2 = {1, 2}
    OBVIOUS
  <2> QED BY <2>1, <2>2 DEF a
<1>6. Reported(op, works) <=> works[a] /\ works[b]
  <2>1. 1..2 = {1, 2}
    OBVIOUS
  <2> QED BY <1>1, <1>4, <1>5, <2>1 DEF Reported, a, b
<1>7. \A m \in Sections(op, works) : works[m] \/ m = "daemon.logs.tail"
  BY <1>4 DEF Sections
<1>8. a = "session.connect" /\ ~works["session.connect"] => Made(op, works) = {1}
  BY <1>4, <1>5
<1> QED BY <1>2, <1>3, <1>6, <1>7, <1>8 DEF a

(* Each request line is answered under its own id, with a result only if its
   method was known and its operation succeeded; a client's call reads as done
   exactly if the daemon did it. *)
THEOREM RequestsAreAnswered == RequestsAnswered
<1>1. CallsUnderstood
  BY CallsOutcome, OperationsReported DEF CallsUnderstood
<1> QED BY <1>1, LinesAreAnswered DEF RequestsAnswered

----
(***************************************************************************)
(* Diagnostics.                                                            *)
(***************************************************************************)
Entries == [sequence : Nat, event : Nat]
Newest(c, n) ==
    [i \in 1..Lesser(c, n) |-> [sequence |-> n - Lesser(c, n) + i, event |-> n - Lesser(c, n) + i]]
LogAfter(n) == IF Capacity = 0 THEN NewLog ELSE [entries |-> Newest(Capacity, n), next |-> n + 1]

(* The newest entries are entries. *)
LEMMA NewestTyped ==
    ASSUME NEW c \in Nat, NEW n \in Nat
    PROVE  /\ Lesser(c, n) \in Nat /\ Lesser(c, n) <= n /\ Lesser(c, n) <= c
           /\ Newest(c, n) \in Seq(Entries) /\ Len(Newest(c, n)) = Lesser(c, n)
           /\ \A i \in 1..Lesser(c, n) :
                Newest(c, n)[i] = [sequence |-> n - Lesser(c, n) + i, event |-> n - Lesser(c, n) + i]
<1> DEFINE l == Lesser(c, n)
           e(i) == [sequence |-> n - l + i, event |-> n - l + i]
<1>1. l \in Nat /\ l <= n /\ l <= c
  BY DEF Lesser
<1> HIDE DEF l
<1>2. \A i \in 1..l : e(i) \in Entries
  BY <1>1 DEF Entries
<1>3. Newest(c, n) = [i \in 1..l |-> e(i)]
  BY DEF Newest, l
<1> HIDE DEF e
<1>4. Newest(c, n) \in Seq(Entries) /\ Len(Newest(c, n)) = l /\ \A i \in 1..l : Newest(c, n)[i] = e(i)
  BY <1>1, <1>2, <1>3
<1> QED BY <1>1, <1>4 DEF l, e

(* Recording one more keeps the newest. *)
LEMMA NewestRecorded ==
    ASSUME NEW n \in Nat, n # 0
    PROVE  LogAfter(n) = Record(LogAfter(n - 1), n)
<1> DEFINE C == Capacity
           x == [sequence |-> n, event |-> n]
           old == Newest(C, n - 1)
           new == Newest(C, n)
           rest == IF Len(old) = C THEN Tail(old) ELSE old
           l == Lesser(C, n)
           k == Lesser(C, n - 1)
<1>1. CASE C = 0
  BY <1>1 DEF LogAfter, Record
<1>2. CASE C # 0
  <2>1. C \in Nat /\ n - 1 \in Nat /\ C >= 1
    BY <1>2, DiagnosticsAssumption
  <2>2. /\ l \in Nat /\ k \in Nat /\ (k = C => l = C) /\ (k # C => k = n - 1 /\ l = n)
        /\ l >= 1 /\ k <= n - 1 /\ l <= n
    BY <2>1 DEF Lesser
  <2>3. old \in Seq(Entries) /\ Len(old) = k
        /\ \A i \in 1..k : old[i] = [sequence |-> (n - 1) - k + i, event |-> (n - 1) - k + i]
    BY <2>1, NewestTyped
  <2>4. new \in Seq(Entries) /\ Len(new) = l
        /\ \A i \in 1..l : new[i] = [sequence |-> n - l + i, event |-> n - l + i]
    BY <2>1, NewestTyped
  <2> HIDE DEF old, new, l, k, C
  <2>5. x \in Entries
    BY DEF Entries
  <2> HIDE DEF x
  <2>6. rest \in Seq(Entries) /\ Len(rest) = l - 1 /\ \A i \in 1..(l - 1) : rest[i] = new[i]
    <3>1. CASE k = C
      <4>1. rest = Tail(old) /\ old # <<>> /\ l = k
        BY <2>1, <2>2, <2>3, <3>1
      <4>2. rest \in Seq(Entries) /\ Len(rest) = k - 1 /\ \A i \in 1..(k - 1) : rest[i] = old[i + 1]
        BY <2>3, <4>1
      <4> HIDE DEF rest
      <4>3. ASSUME NEW i \in 1..(l - 1) PROVE rest[i] = new[i]
        <5>1. i + 1 \in 1..k /\ i \in 1..l /\ (n - 1) - k + (i + 1) = n - l + i /\ i \in 1..(k - 1)
          BY <2>2, <4>1
        <5>2. rest[i] = old[i + 1]
          BY <4>2, <5>1
        <5> QED BY <2>3, <2>4, <5>1, <5>2
      <4> QED BY <4>1, <4>2, <4>3
    <3>2. CASE k # C
      <4>1. rest = old /\ l = k + 1 /\ k = n - 1 /\ l = n
        BY <2>1, <2>2, <2>3, <3>2
      <4>2. ASSUME NEW i \in 1..(l - 1) PROVE rest[i] = new[i]
        <5>1. i \in 1..k /\ i \in 1..l /\ (n - 1) - k + i = n - l + i
          BY <2>2, <4>1
        <5> QED BY <2>3, <2>4, <4>1, <5>1
      <4> QED BY <2>2, <2>3, <4>1, <4>2
    <3> QED BY <3>1, <3>2
  <2> HIDE DEF rest
  <2>7. new[l] = x
    <3>1. l \in 1..l /\ n - l + l = n
      BY <2>2
    <3>2. new[l] = [sequence |-> n - l + l, event |-> n - l + l]
      BY <2>4, <3>1
    <3> QED BY <3>1, <3>2 DEF x
  <2>8. Append(rest, x) = new
    <3> DEFINE v == Append(rest, x)
    <3>1. v \in Seq(Entries) /\ Len(v) = l /\ v[l] = x /\ \A i \in 1..(l - 1) : v[i] = rest[i]
      BY <2>2, <2>5, <2>6
    <3> HIDE DEF v
    <3>2. \A i \in 1..l : i = l \/ i \in 1..(l - 1)
      BY <2>2
    <3>3. \A i \in 1..l : v[i] = new[i]
      BY <2>6, <2>7, <3>1, <3>2
    <3>4. \A a, b \in Seq(Entries) : Len(a) = Len(b) /\ (\A i \in 1..Len(a) : a[i] = b[i]) => a = b
      OBVIOUS
    <3>5. v = new
      BY <2>4, <3>1, <3>3, <3>4
    <3> QED BY <3>5 DEF v
  <2>9. LogAfter(n) = [entries |-> new, next |-> n + 1]
        /\ LogAfter(n - 1) = [entries |-> old, next |-> n]
    BY <1>2, <2>1 DEF LogAfter, new, old, C
  <2>10. Record([entries |-> old, next |-> n], n) = [entries |-> Append(rest, x), next |-> n + 1]
    BY <1>2 DEF Record, rest, x, C
  <2> QED BY <2>8, <2>9, <2>10
<1> QED BY <1>1, <1>2

(* Recording events one after the other. *)
LEMMA RecordedIs ==
    ASSUME NEW N \in Nat
    PROVE  Recorded([i \in 1..N |-> i]) = LogAfter(N)
<1> DEFINE ev == [i \in 1..N |-> i]
           Runs(f) == f = [n \in 0..Len(ev) |-> IF n = 0 THEN NewLog ELSE Record(f[n - 1], ev[n])]
           h == [n \in 0..N |-> LogAfter(n)]
<1>1. Len(ev) = N /\ \A n \in 1..N : ev[n] = n
  OBVIOUS
<1> HIDE DEF ev
<1>2. LogAfter(0) = NewLog
  <2>1. CASE Capacity = 0
    BY <2>1 DEF LogAfter
  <2>2. CASE Capacity # 0
    <3>1. Lesser(Capacity, 0) = 0
      BY DiagnosticsAssumption DEF Lesser
    <3>2. Newest(Capacity, 0) = <<>>
      BY <3>1 DEF Newest
    <3> QED BY <2>2, <3>2 DEF LogAfter, NewLog
  <2> QED BY <2>1, <2>2
<1>3. \A n \in 1..N : n \in 0..N /\ n - 1 \in 0..N /\ n # 0 /\ n \in Nat
  OBVIOUS
<1>4. \A n \in 1..N : h[n] = Record(h[n - 1], ev[n])
  BY <1>1, <1>3, NewestRecorded
<1>5. h[0] = NewLog /\ 0 \in 0..N /\ N \in 0..N
  BY <1>2
<1> HIDE DEF h
<1>6. \E f : Runs(f)
  <2> DEFINE k == [n \in 0..N |-> h[n]]
  <2>1. \A n \in 0..N : n = 0 \/ n \in 1..N
    OBVIOUS
  <2>2. \A n \in 0..N : k[n] = IF n = 0 THEN NewLog ELSE Record(k[n - 1], ev[n])
    BY <1>3, <1>4, <1>5, <2>1
  <2>3. Runs(k)
    BY <1>1, <2>2
  <2> HIDE DEF Runs, k
  <2> QED BY <2>3
<1> DEFINE g == CHOOSE f : Runs(f)
<1>7. Runs(g)
  <2> HIDE DEF Runs
  <2> QED BY <1>6
<1>8. Recorded(ev) = g[N]
  BY <1>1 DEF Recorded
<1> HIDE DEF g
<1> DEFINE S == {n \in 0..N : g[n] = h[n]}
<1>9. g[0] = NewLog /\ \A n \in 1..N : g[n] = Record(g[n - 1], ev[n])
  BY <1>1, <1>3, <1>5, <1>7
<1>10. 0 \in S /\ \A n \in 1..N : n - 1 \in S => n \in S
  BY <1>3, <1>4, <1>5, <1>9
<1> HIDE DEF S
<1>11. \A n \in 0..N : n \in S
  BY <1>10, CountingUp
<1>12. h[N] = LogAfter(N)
  BY <1>5 DEF h
<1> QED BY <1>5, <1>8, <1>11, <1>12 DEF S, ev

(* The log keeps the newest entries, of every capacity and for every limit. *)
LEMMA NewestAreKept == LogKeepsTheNewest
<1> SUFFICES ASSUME NEW k \in 0..(2 * Capacity + 1), NEW limit \in 0..(Capacity + 2)
             PROVE  LET kept == Lesser(Lesser(limit, Capacity), k)
                    IN LogTail(Recorded([i \in 1..k |-> i]), limit) =
                         [i \in 1..kept |-> [sequence |-> k - kept + i, event |-> k - kept + i]]
  BY DEF LogKeepsTheNewest
<1> DEFINE kept == Lesser(Lesser(limit, Capacity), k)
           w == [i \in 1..kept |-> [sequence |-> k - kept + i, event |-> k - kept + i]]
           log == LogAfter(k)
           e == log.entries
           l == Lesser(Capacity, k)
           taken == Lesser(Lesser(limit, Capacity), Len(e))
<1>1. k \in Nat /\ limit \in Nat /\ Capacity \in Nat
  BY DiagnosticsAssumption
<1>2. Recorded([i \in 1..k |-> i]) = log
  BY <1>1, RecordedIs
<1>3. /\ e \in Seq(Entries) /\ Len(e) = l /\ l \in Nat /\ l <= k
      /\ \A i \in 1..l : e[i] = [sequence |-> k - l + i, event |-> k - l + i]
  <2>1. CASE Capacity = 0
    <3>1. e = <<>> /\ l = 0
      BY <1>1, <2>1 DEF LogAfter, NewLog, Lesser
    <3> HIDE DEF e, l
    <3> QED BY <1>1, <3>1
  <2>2. CASE Capacity # 0
    <3>1. e = Newest(Capacity, k)
      BY <2>2 DEF LogAfter
    <3> HIDE DEF e
    <3> QED BY <1>1, <3>1, NewestTyped
  <2> QED BY <2>1, <2>2
<1>4. /\ taken = kept /\ kept \in Nat /\ kept <= l
  BY <1>1, <1>3 DEF Lesser
<1>5. w \in Seq(Entries) /\ Len(w) = kept
      /\ \A i \in 1..kept : w[i] = [sequence |-> k - kept + i, event |-> k - kept + i]
  <2> DEFINE d(i) == [sequence |-> k - kept + i, event |-> k - kept + i]
  <2> HIDE DEF kept, l
  <2>1. \A i \in 1..kept : d(i) \in Entries
    BY <1>1, <1>3, <1>4 DEF Entries
  <2>2. w = [i \in 1..kept |-> d(i)]
    OBVIOUS
  <2> HIDE DEF d, w
  <2>3. w \in Seq(Entries) /\ Len(w) = kept /\ \A i \in 1..kept : w[i] = d(i)
    BY <1>4, <2>1, <2>2
  <2> QED BY <2>3 DEF d
<1> DEFINE v == SubSeq(e, l - kept + 1, l)
<1>6. LogTail(log, limit) = v
  BY <1>3, <1>4 DEF LogTail
<1> HIDE DEF e, w, kept, l, taken, log
<1>7. v \in Seq(Entries) /\ Len(v) = kept /\ \A i \in 1..kept : v[i] = e[l - kept + i]
  BY <1>3, <1>4
<1> HIDE DEF v
<1>8. \A i \in 1..kept : v[i] = w[i]
  <2> SUFFICES ASSUME NEW i \in 1..kept PROVE v[i] = w[i]
    OBVIOUS
  <2>1. l - kept + i \in 1..l /\ k - l + (l - kept + i) = k - kept + i
    BY <1>1, <1>3, <1>4
  <2> QED BY <1>3, <1>5, <1>7, <2>1
<1>9. \A a, b \in Seq(Entries) : Len(a) = Len(b) /\ (\A i \in 1..Len(a) : a[i] = b[i]) => a = b
  OBVIOUS
<1>10. v = w
  BY <1>5, <1>7, <1>8, <1>9
<1> QED BY <1>2, <1>6, <1>10 DEF w, kept

----
(* A set of positions that holds all those below its own *)
LEMMA PrefixSet ==
    ASSUME NEW N \in Nat, NEW spots \in SUBSET (1..N),
           \A i \in 1..N, j \in spots : i <= j => i \in spots
    PROVE  Cardinality(spots) \in 0..N /\ spots = 1..Cardinality(spots)
<1> DEFINE out == {n \in 1..(N + 1) : n \notin spots}
<1>1. PICK m \in out : \A n \in out : m <= n
  <2>1. N + 1 \in out /\ out \in SUBSET Nat
    OBVIOUS
  <2> HIDE DEF out
  <2> QED BY <2>1, LeastNatural
<1>2. m \in 1..(N + 1) /\ m \notin spots /\ \A n \in 1..(N + 1) : n < m => n \in spots
  <2>1. \A n \in out : ~(n < m)
    BY <1>1
  <2> QED BY <1>1, <2>1
<1>3. spots = 1..(m - 1)
  <2>1. ASSUME NEW i \in spots PROVE i \in 1..(m - 1)
    <3>1. ~(m <= i)
      BY <1>2
    <3> QED BY <1>2, <3>1
  <2>2. ASSUME NEW i \in 1..(m - 1) PROVE i \in spots
    BY <1>2
  <2> QED BY <2>1, <2>2
<1>4. Cardinality(1..(m - 1)) = m - 1
  <2>1. IF 1 > m - 1 THEN 0 = m - 1 ELSE (m - 1) - 1 + 1 = m - 1
    BY <1>2
  <2>2. Cardinality(1..(m - 1)) = IF 1 > m - 1 THEN 0 ELSE (m - 1) - 1 + 1
    BY <1>2, FS_Interval
  <2> QED BY <2>1, <2>2
<1> QED BY <1>2, <1>3, <1>4

(* A sorted list, and the places its entries come from *)
Ascends(s, n) == \A i, j \in 1..n : i <= j => s[i] <= s[j]
From(s, samples, n) ==
    \E p \in [1..n -> 1..n] :
      /\ \A i, j \in 1..n : p[i] = p[j] => i = j
      /\ \A i \in 1..n : s[i] = samples[p[i]]
Inserted(s, x) == InsertAt(s, Cardinality({i \in DOMAIN s : s[i] <= x}) + 1, x)

(* Lists of numbers joined *)
LEMMA JoinedNumbers ==
    ASSUME NEW s \in Seq(Nat), NEW t \in Seq(Nat)
    PROVE  /\ s \o t \in Seq(Nat) /\ Len(s \o t) = Len(s) + Len(t)
           /\ \A i \in 1..Len(s) : (s \o t)[i] = s[i]
           /\ \A i \in 1..Len(t) : (s \o t)[Len(s) + i] = t[i]
BY JoinedSeqs

(* ... and cut. *)
LEMMA CutNumbers ==
    ASSUME NEW s \in Seq(Nat), NEW m \in 1..Len(s)
    PROVE  /\ SubSeq(s, m, Len(s)) \in Seq(Nat) /\ Len(SubSeq(s, m, Len(s))) = Len(s) - m + 1
           /\ \A i \in 1..(Len(s) - m + 1) : SubSeq(s, m, Len(s))[i] = s[m + i - 1]
OBVIOUS

(* Inserting a number after those that are not greater: the elements *)
LEMMA InsertedIs ==
    ASSUME NEW s \in Seq(Nat), NEW x \in Nat, Ascends(s, Len(s))
    PROVE  \E c \in 0..Len(s) :
             /\ \A i \in 1..Len(s) : s[i] <= x <=> i <= c
             /\ Inserted(s, x) \in Seq(Nat) /\ Len(Inserted(s, x)) = Len(s) + 1
             /\ \A i \in 1..(Len(s) + 1) :
                  Inserted(s, x)[i] = IF i <= c THEN s[i] ELSE IF i = c + 1 THEN x ELSE s[i - 1]
<1> DEFINE N == Len(s)
           spots == {i \in 1..N : s[i] <= x}
           c == Cardinality(spots)
<1>1. N \in Nat /\ DOMAIN s = 1..N /\ \A i \in 1..N : s[i] \in Nat
  OBVIOUS
<1>2. spots \in SUBSET (1..N) /\ \A i \in 1..N, j \in spots : i <= j => i \in spots
  <2>1. ASSUME NEW i \in 1..N, NEW j \in 1..N, s[j] <= x, i <= j PROVE s[i] <= x
    <3>1. s[i] <= s[j]
      BY <2>1 DEF Ascends
    <3> QED BY <1>1, <2>1, <3>1
  <2> QED BY <2>1
<1>3. c \in 0..N /\ spots = 1..c
  <2> HIDE DEF spots, N
  <2> QED BY <1>1, <1>2, PrefixSet
<1>4. \A i \in 1..N : s[i] <= x <=> i <= c
  <2> SUFFICES ASSUME NEW i \in 1..N PROVE i \in spots <=> i <= c
    OBVIOUS
  <2> HIDE DEF c, spots, N
  <2> QED BY <1>1, <1>3
<1>5. Inserted(s, x) = SubSeq(s, 1, (c + 1) - 1) \o <<x>> \o SubSeq(s, c + 1, N)
  BY <1>1 DEF Inserted, InsertAt
<1> HIDE DEF c, N
<1> DEFINE a == SubSeq(s, 1, c)
           b == SubSeq(s, c + 1, N)
           y == <<x>>
           ay == a \o y
           w == ay \o b
<1>6. a \in Seq(Nat) /\ Len(a) = c /\ \A i \in 1..c : a[i] = s[i]
  BY <1>1, <1>3 DEF N
<1>7. b \in Seq(Nat) /\ Len(b) = N - c /\ \A i \in 1..(N - c) : b[i] = s[c + i]
  <2>1. CASE c = N
    <3>1. b = <<>>
      BY <1>1, <2>1 DEF N
    <3> HIDE DEF b
    <3> QED BY <1>1, <2>1, <3>1
  <2>2. CASE c # N
    <3>1. c + 1 \in 1..N /\ N - (c + 1) + 1 = N - c /\ s \in Seq(Nat) /\ Len(s) = N
      <4>1. c \in 0..N /\ N \in Nat
        BY <1>1, <1>3
      <4>2. c + 1 \in 1..N /\ N - (c + 1) + 1 = N - c
        BY <2>2, <4>1
      <4> QED BY <4>2 DEF N
    <3>2. b \in Seq(Nat) /\ Len(b) = N - (c + 1) + 1
          /\ \A i \in 1..(N - (c + 1) + 1) : b[i] = s[c + 1 + i - 1]
      <4>1. b = SubSeq(s, c + 1, Len(s))
        BY DEF N
      <4> DEFINE m == c + 1
      <4> HIDE DEF b
      <4>2. m \in 1..Len(s) /\ b = SubSeq(s, m, Len(s))
        BY <3>1, <4>1
      <4> HIDE DEF m
      <4>3. b \in Seq(Nat) /\ Len(b) = Len(s) - m + 1
            /\ \A i \in 1..(Len(s) - m + 1) : b[i] = s[m + i - 1]
        BY <4>2, CutNumbers
      <4> QED BY <3>1, <4>3 DEF m
    <3>3. \A i \in 1..(N - c) : c + 1 + i - 1 = c + i
      BY <1>1, <1>3
    <3> QED BY <3>1, <3>2, <3>3
  <2> QED BY <2>1, <2>2
<1>8. y \in Seq(Nat) /\ Len(y) = 1 /\ y[1] = x
  OBVIOUS
<1> HIDE DEF a, b, y
<1>9. /\ ay \in Seq(Nat) /\ Len(ay) = c + 1 /\ (\A i \in 1..c : ay[i] = s[i]) /\ ay[c + 1] = x
  <2>1. /\ ay \in Seq(Nat) /\ Len(ay) = Len(a) + Len(y)
        /\ (\A i \in 1..Len(a) : ay[i] = a[i]) /\ \A i \in 1..Len(y) : ay[Len(a) + i] = y[i]
    BY <1>6, <1>8, JoinedNumbers
  <2> HIDE DEF ay
  <2> QED BY <1>3, <1>6, <1>8, <2>1
<1> HIDE DEF ay
<1>10. /\ w \in Seq(Nat) /\ Len(w) = N + 1
       /\ (\A i \in 1..(c + 1) : w[i] = ay[i]) /\ \A i \in 1..(N - c) : w[c + 1 + i] = b[i]
  <2>1. /\ w \in Seq(Nat) /\ Len(w) = Len(ay) + Len(b)
        /\ (\A i \in 1..Len(ay) : w[i] = ay[i]) /\ \A i \in 1..Len(b) : w[Len(ay) + i] = b[i]
    BY <1>7, <1>9, JoinedNumbers
  <2> HIDE DEF w
  <2> QED BY <1>1, <1>3, <1>7, <1>9, <2>1
<1>11. Inserted(s, x) = w
  <2>1. (c + 1) - 1 = c
    BY <1>3
  <2> QED BY <1>5, <2>1 DEF w, ay, a, b, y
<1> HIDE DEF w
<1>12. ASSUME NEW i \in 1..(N + 1)
       PROVE  w[i] = IF i <= c THEN s[i] ELSE IF i = c + 1 THEN x ELSE s[i - 1]
  <2>1. CASE i <= c
    <3>1. i \in 1..c /\ i \in 1..(c + 1)
      BY <1>1, <1>3, <2>1
    <3> QED BY <1>9, <1>10, <2>1, <3>1
  <2>2. CASE i = c + 1
    <3>1. i \in 1..(c + 1) /\ ~(i <= c)
      BY <1>1, <1>3, <2>2
    <3> QED BY <1>9, <1>10, <2>2, <3>1
  <2>3. CASE i > c + 1
    <3>1. i - (c + 1) \in 1..(N - c) /\ c + 1 + (i - (c + 1)) = i /\ c + (i - (c + 1)) = i - 1
          /\ ~(i <= c) /\ i # c + 1
      BY <1>1, <1>3, <2>3
    <3> QED BY <1>7, <1>10, <3>1
  <2> QED BY <1>1, <1>3, <2>1, <2>2, <2>3
<1> QED BY <1>3, <1>4, <1>10, <1>11, <1>12 DEF N

(* ... and their order. *)
LEMMA InsertedSorts ==
    ASSUME NEW s \in Seq(Nat), NEW x \in Nat, NEW n \in Nat, Len(s) = n, Ascends(s, n)
    PROVE  /\ Inserted(s, x) \in Seq(Nat) /\ Len(Inserted(s, x)) = n + 1
           /\ Ascends(Inserted(s, x), n + 1)
           /\ \A samples : From(s, samples, n) /\ samples[n + 1] = x =>
                             From(Inserted(s, x), samples, n + 1)
<1> DEFINE r == Inserted(s, x)
<1>1. PICK c \in 0..n : /\ \A i \in 1..n : s[i] <= x <=> i <= c
                        /\ r \in Seq(Nat) /\ Len(r) = n + 1
                        /\ \A i \in 1..(n + 1) :
                             r[i] = IF i <= c THEN s[i] ELSE IF i = c + 1 THEN x ELSE s[i - 1]
  BY InsertedIs
<1> HIDE DEF r
<1>2. \A i \in 1..n : s[i] \in Nat
  OBVIOUS
<1>3. ASSUME NEW i \in 1..(n + 1), NEW j \in 1..(n + 1), i <= j PROVE r[i] <= r[j]
  <2>1. CASE j <= c
    <3>1. i \in 1..n /\ j \in 1..n /\ i <= c
      BY <1>1, <1>3, <2>1
    <3> QED BY <1>1, <1>3, <2>1, <3>1 DEF Ascends
  <2>2. CASE j = c + 1
    <3>1. CASE i = j
      BY <1>1, <2>2, <3>1
    <3>2. CASE i # j
      <4>1. i \in 1..n /\ i <= c /\ ~(j <= c)
        BY <1>3, <2>2, <3>2
      <4> QED BY <1>1, <2>2, <4>1
    <3> QED BY <3>1, <3>2
  <2>3. CASE j > c + 1
    <3>1. j - 1 \in 1..n /\ ~(j - 1 <= c) /\ ~(j <= c) /\ j # c + 1
      BY <2>3
    <3>2. r[j] = s[j - 1] /\ ~(s[j - 1] <= x)
      BY <1>1, <3>1
    <3>3. CASE i <= c
      <4>1. i \in 1..n /\ i <= j - 1
        BY <2>3, <3>3
      <4> QED BY <1>1, <3>1, <3>2, <3>3, <4>1 DEF Ascends
    <3>4. CASE i = c + 1
      <4>1. r[i] = x
        BY <1>1, <3>4
      <4> QED BY <1>2, <3>1, <3>2, <4>1
    <3>5. CASE i > c + 1
      <4>1. i - 1 \in 1..n /\ i - 1 <= j - 1 /\ ~(i <= c) /\ i # c + 1
        BY <1>3, <3>5
      <4>2. r[i] = s[i - 1]
        BY <1>1, <4>1
      <4> QED BY <3>1, <3>2, <4>1, <4>2 DEF Ascends
    <3>6. i <= c \/ i = c + 1 \/ i > c + 1
      BY <1>1
    <3> QED BY <3>3, <3>4, <3>5, <3>6
  <2>4. j <= c \/ j = c + 1 \/ j > c + 1
    BY <1>1
  <2> QED BY <2>1, <2>2, <2>3, <2>4
<1>4. ASSUME NEW samples, From(s, samples, n), samples[n + 1] = x
      PROVE  From(r, samples, n + 1)
  <2>1. PICK p \in [1..n -> 1..n] : /\ \A i, j \in 1..n : p[i] = p[j] => i = j
                                    /\ \A i \in 1..n : s[i] = samples[p[i]]
    BY <1>4 DEF From
  <2> DEFINE q == [i \in 1..(n + 1) |-> IF i <= c THEN p[i] ELSE IF i = c + 1 THEN n + 1 ELSE p[i - 1]]
  <2>2. \A i \in 1..(n + 1) :
          /\ i <= c => i \in 1..n /\ q[i] = p[i]
          /\ i = c + 1 => q[i] = n + 1
          /\ i > c + 1 => i - 1 \in 1..n /\ q[i] = p[i - 1]
    BY <1>1
  <2>3. \A i \in 1..n : p[i] \in 1..n /\ p[i] \in 1..(n + 1) /\ p[i] # n + 1
    BY <2>1
  <2>4. \A i \in 1..(n + 1) : i <= c \/ i = c + 1 \/ i > c + 1
    BY <1>1
  <2>5. n + 1 \in 1..(n + 1)
    OBVIOUS
  <2>6. q \in [1..(n + 1) -> 1..(n + 1)]
    <3>1. \A i \in 1..(n + 1) : q[i] \in 1..(n + 1)
      BY <2>2, <2>3, <2>4, <2>5
    <3>2. q = [i \in 1..(n + 1) |-> q[i]]
      OBVIOUS
    <3> HIDE DEF q
    <3> QED BY <3>1, <3>2
  <2> HIDE DEF q
  <2>7. ASSUME NEW i \in 1..(n + 1), NEW j \in 1..(n + 1), q[i] = q[j] PROVE i = j
    <3>1. CASE i = c + 1
      BY <2>2, <2>3, <2>4, <2>7, <3>1
    <3>2. CASE j = c + 1
      BY <2>2, <2>3, <2>4, <2>7, <3>2
    <3>3. CASE i # c + 1 /\ j # c + 1
      <4> DEFINE u == IF i <= c THEN i ELSE i - 1
                 v == IF j <= c THEN j ELSE j - 1
      <4>1. u \in 1..n /\ v \in 1..n /\ q[i] = p[u] /\ q[j] = p[v]
        BY <2>2, <2>4, <3>3
      <4>2. u = v
        <5> HIDE DEF u, v
        <5> QED BY <2>1, <2>7, <4>1
      <4> QED BY <3>3, <4>2
    <3> QED BY <3>1, <3>2, <3>3
  <2>8. ASSUME NEW i \in 1..(n + 1) PROVE r[i] = samples[q[i]]
    <3>1. CASE i <= c
      BY <1>1, <2>1, <2>2, <3>1
    <3>2. CASE i = c + 1
      <4>1. r[i] = x /\ q[i] = n + 1
        BY <1>1, <2>2, <3>2
      <4> QED BY <1>4, <4>1
    <3>3. CASE i > c + 1
      <4>1. i - 1 \in 1..n /\ q[i] = p[i - 1] /\ ~(i <= c) /\ i # c + 1
        BY <2>2, <3>3
      <4>2. r[i] = s[i - 1]
        BY <1>1, <4>1
      <4> QED BY <2>1, <4>1, <4>2
    <3> QED BY <2>4, <3>1, <3>2, <3>3
  <2> QED BY <2>6, <2>7, <2>8 DEF From
<1>5. Ascends(r, n + 1)
  BY <1>3 DEF Ascends
<1> QED BY <1>1, <1>4, <1>5 DEF r

SortedLists == {s \in Seq(Nat) : Ascends(s, Len(s))}

(* The sorted samples, by insertion. *)
LEMMA SortedIs ==
    ASSUME NEW samples \in Seq(Nat)
    PROVE  /\ Sorted(samples) \in Seq(Nat) /\ Len(Sorted(samples)) = Len(samples)
           /\ Ascends(Sorted(samples), Len(samples))
           /\ From(Sorted(samples), samples, Len(samples))
<1> DEFINE X == SortedLists
           N == Len(samples)
           step == [p \in X \X (1..N) |-> Inserted(p[1], samples[p[2]])]
           Runs(f) == f = [n \in 0..N |-> IF n = 0 THEN <<>> ELSE Inserted(f[n - 1], samples[n])]
<1>1. N \in Nat /\ \A n \in 1..N : samples[n] \in Nat
  OBVIOUS
<1>2. <<>> \in X
  <2>1. <<>> \in Seq(Nat) /\ Len(<<>>) = 0 /\ 1..0 = {}
    OBVIOUS
  <2> QED BY <2>1 DEF SortedLists, Ascends
<1>3. ASSUME NEW s \in X, NEW x \in Nat
      PROVE  Inserted(s, x) \in X /\ Len(Inserted(s, x)) = Len(s) + 1
  <2>1. s \in Seq(Nat) /\ Len(s) \in Nat /\ Ascends(s, Len(s))
    BY DEF SortedLists
  <2>2. Inserted(s, x) \in Seq(Nat) /\ Len(Inserted(s, x)) = Len(s) + 1
        /\ Ascends(Inserted(s, x), Len(s) + 1)
    BY <2>1, InsertedSorts
  <2> QED BY <2>2 DEF SortedLists
<1>4. step \in Steps(X, N)
  <2>1. ASSUME NEW p \in X \X (1..N) PROVE Inserted(p[1], samples[p[2]]) \in X
    BY <1>1, <1>3
  <2> HIDE DEF X, N
  <2> QED BY <2>1 DEF Steps
<1>5. \A x \in X, n \in 1..N : step[<<x, n>>] = Inserted(x, samples[n])
  OBVIOUS
<1> HIDE DEF X, N, step
<1>6. PICK f \in [0..N -> X] : f[0] = <<>> /\ Follows(f, step, N)
  <2>1. N \in Nat
    BY <1>1
  <2> QED BY <2>1, <1>2, <1>4, Computed
<1>7. \A n \in 1..N : f[n] = Inserted(f[n - 1], samples[n])
  <2> SUFFICES ASSUME NEW n \in 1..N PROVE f[n] = Inserted(f[n - 1], samples[n])
    OBVIOUS
  <2>1. n - 1 \in 0..N
    BY <1>1
  <2> QED BY <1>5, <1>6, <2>1 DEF Follows
<1>8. \E g : Runs(g)
  <2>1. ASSUME NEW n \in 0..N
        PROVE  f[n] = IF n = 0 THEN <<>> ELSE Inserted(f[n - 1], samples[n])
    <3>1. n = 0 \/ n \in 1..N
      BY <1>1
    <3> QED BY <1>6, <1>7, <3>1
  <2>2. Runs(f)
    BY <1>6, <2>1
  <2> HIDE DEF Runs
  <2> QED BY <2>2
<1> DEFINE g == CHOOSE h : Runs(h)
<1>9. Runs(g)
  <2> HIDE DEF Runs
  <2> QED BY <1>8
<1>10. Sorted(samples) = g[N]
  BY DEF Sorted, Inserted, N
<1> HIDE DEF g
<1> DEFINE S == {n \in 0..N : /\ g[n] = f[n] /\ Len(f[n]) = n /\ From(f[n], samples, n)}
<1>11. 0 \in 0..N /\ N \in 0..N
       /\ (\A n \in 1..N : n \in 0..N /\ n - 1 \in 0..N /\ n # 0 /\ n - 1 \in Nat /\ (n - 1) + 1 = n)
  BY <1>1
<1>12. g[0] = <<>> /\ \A n \in 1..N : g[n] = Inserted(g[n - 1], samples[n])
  BY <1>9, <1>11
<1>13. 0 \in S
  <2>1. From(<<>>, samples, 0)
    <3> DEFINE p == [i \in 1..0 |-> i]
    <3>1. p \in [1..0 -> 1..0] /\ \A i \in 1..0 : FALSE
      OBVIOUS
    <3> HIDE DEF p
    <3> QED BY <3>1 DEF From
  <2>2. Len(<<>>) = 0
    OBVIOUS
  <2> QED BY <1>6, <1>11, <1>12, <2>1, <2>2
<1>14. ASSUME NEW n \in 1..N, n - 1 \in S PROVE n \in S
  <2> DEFINE s == f[n - 1]
             m == n - 1
  <2>1. g[n] = f[n] /\ f[n] = Inserted(s, samples[n])
    BY <1>7, <1>12, <1>14
  <2>2. s \in Seq(Nat) /\ Len(s) = m /\ Ascends(s, m) /\ From(s, samples, m)
    <3>1. s \in X
      BY <1>6, <1>11
    <3> QED BY <1>14, <3>1 DEF SortedLists, X
  <2>3. m \in Nat /\ m + 1 = n /\ samples[n] \in Nat /\ n \in 0..N
    BY <1>1, <1>11
  <2> HIDE DEF s, m, S
  <2>4. Len(f[n]) = m + 1 /\ From(f[n], samples, m + 1)
    <3> DEFINE x == samples[n]
    <3>1. x \in Nat /\ samples[m + 1] = x /\ m \in Nat /\ s \in Seq(Nat) /\ Len(s) = m /\ Ascends(s, m)
      BY <2>2, <2>3
    <3> HIDE DEF x
    <3>2. Len(Inserted(s, x)) = m + 1 /\ From(Inserted(s, x), samples, m + 1)
      BY <2>2, <3>1, InsertedSorts
    <3> QED BY <2>1, <3>2 DEF x
  <2> QED BY <2>1, <2>3, <2>4 DEF S
<1> HIDE DEF S
<1>15. N \in S
  <2>1. \A n \in 0..N : n \in S
    BY <1>1, <1>13, <1>14, CountingUp
  <2> QED BY <1>11, <2>1
<1>16. Sorted(samples) = f[N] /\ f[N] \in X /\ Len(f[N]) = N /\ From(f[N], samples, N)
  BY <1>6, <1>10, <1>11, <1>15 DEF S
<1> QED BY <1>16 DEF SortedLists, X, N

(* How many samples there are up to, and below, the one of a rank *)
Within(samples, n, v) == {i \in 1..n : samples[i] <= v}
Reaches(s, r, v) == v <= s[r]
Below(samples, n, v) == Within(samples, n, v - 1)
Ranked(samples, s, n) ==
    /\ \A i \in 1..n : samples[i] \in Nat /\ s[i] \in Nat
    /\ Ascends(s, n) /\ From(s, samples, n)

(* As many samples are below the number at a rank as the rank allows. *)
LEMMA RankedCount ==
    ASSUME NEW samples, NEW s, NEW N \in Nat, NEW r \in 1..N, NEW v \in Nat,
           Ranked(samples, s, N)
    PROVE  /\ v = s[r] => Cardinality(Within(samples, N, v)) >= r
           /\ Reaches(s, r, v) => Cardinality(Below(samples, N, v)) < r
           /\ Cardinality(Within(samples, N, v)) \in Nat
           /\ Cardinality(Below(samples, N, v)) \in Nat
           /\ \E i \in 1..N : s[r] = samples[i]
<1>0. /\ \A i \in 1..N : samples[i] \in Nat /\ s[i] \in Nat
      /\ Ascends(s, N) /\ From(s, samples, N)
  BY DEF Ranked
<1>1. PICK p \in [1..N -> 1..N] : /\ \A i, j \in 1..N : p[i] = p[j] => i = j
                                  /\ \A i \in 1..N : s[i] = samples[p[i]]
  BY <1>0 DEF From
<1>2. \A n \in 0..N : IsFiniteSet(1..n) /\ Cardinality(1..n) = n
  <2> SUFFICES ASSUME NEW n \in 0..N PROVE IsFiniteSet(1..n) /\ Cardinality(1..n) = n
    OBVIOUS
  <2>1. n \in Int /\ 1 \in Int /\ (IF 1 > n THEN 0 ELSE n - 1 + 1) = n
    OBVIOUS
  <2> QED BY <2>1, FS_Interval
<1>3. 0 \in 0..N /\ N \in 0..N /\ r \in 0..N /\ r - 1 \in 0..N /\ r \in 1..N
  OBVIOUS
<1>4. p \in Surjection(1..N, 1..N)
  <2>1. p \in Injection(1..N, 1..N)
    BY <1>1 DEF Injection, IsInjective
  <2> QED BY <1>2, <1>3, <2>1, FS_Injection
<1>5. \A w : IsFiniteSet(Within(samples, N, w)) /\ Cardinality(Within(samples, N, w)) \in Nat
  <2> SUFFICES ASSUME NEW w
               PROVE  IsFiniteSet(Within(samples, N, w)) /\ Cardinality(Within(samples, N, w)) \in Nat
    OBVIOUS
  <2>1. Within(samples, N, w) \in SUBSET (1..N)
    BY DEF Within
  <2> QED BY <1>2, <1>3, <2>1, FS_Subset, FS_CardinalityType
<1>6. ASSUME v = s[r] PROVE Cardinality(Within(samples, N, v)) >= r
  <2> DEFINE W == Within(samples, N, v)
             f == [k \in 1..r |-> p[k]]
  <2>1. ASSUME NEW k \in 1..r PROVE f[k] \in W
    <3>1. k \in 1..N /\ k <= r
      BY <1>3
    <3>2. s[k] <= v
      BY <1>0, <1>3, <1>6, <3>1 DEF Ascends
    <3> QED BY <1>1, <3>1, <3>2 DEF Within
  <2>2. \A i, j \in 1..r : f[i] = f[j] => i = j
    <3>1. \A i \in 1..r : i \in 1..N
      BY <1>3
    <3> QED BY <1>1, <3>1
  <2> HIDE DEF W
  <2>3. f \in Injection(1..r, W)
    BY <2>1, <2>2 DEF Injection, IsInjective
  <2>4. Cardinality(1..r) <= Cardinality(W)
    <3>1. IsFiniteSet(W)
      BY <1>5 DEF W
    <3> HIDE DEF f
    <3> QED BY <2>3, <3>1, FS_Injection
  <2>5. Cardinality(1..r) = r
    BY <1>2, <1>3
  <2>6. Cardinality(W) \in Nat
    BY <1>5 DEF W
  <2> QED BY <2>4, <2>5, <2>6 DEF W
<1>7. ASSUME v <= s[r] PROVE Cardinality(Below(samples, N, v)) < r
  <2> DEFINE W == Below(samples, N, v)
             from(i) == CHOOSE k \in 1..N : p[k] = i
             f == [i \in W |-> from(i)]
  <2>1. ASSUME NEW i \in W PROVE from(i) \in 1..N /\ p[from(i)] = i /\ i \in 1..N /\ samples[i] < v
    <3>1. i \in 1..N /\ samples[i] <= v - 1 /\ samples[i] \in Nat
      BY <1>0 DEF Within, Below
    <3>2. \E k \in 1..N : p[k] = i
      BY <1>4, <3>1 DEF Surjection
    <3>3. samples[i] < v
      BY <3>1
    <3> QED BY <3>1, <3>2, <3>3
  <2> HIDE DEF W, from
  <2>2. ASSUME NEW i \in W PROVE from(i) \in 1..(r - 1)
    <3> DEFINE k == from(i)
    <3>1. k \in 1..N /\ s[k] < v /\ s[k] \in Nat /\ s[r] \in Nat
      BY <1>0, <1>1, <1>3, <2>1
    <3> HIDE DEF k
    <3>2. ~(r <= k)
      BY <1>0, <1>3, <1>7, <3>1 DEF Ascends
    <3>3. k \in 1..(r - 1)
      BY <1>3, <3>1, <3>2
    <3> QED BY <3>3 DEF k
  <2>3. f \in Injection(W, 1..(r - 1))
    <3>1. f \in [W -> 1..(r - 1)]
      BY <2>2
    <3>2. \A i, j \in W : f[i] = f[j] => i = j
      BY <2>1
    <3> HIDE DEF f
    <3> QED BY <3>1, <3>2 DEF Injection, IsInjective
  <2>4. IsFiniteSet(1..(r - 1)) /\ Cardinality(1..(r - 1)) = r - 1
    BY <1>2, <1>3
  <2> HIDE DEF f
  <2>5. Cardinality(W) <= Cardinality(1..(r - 1))
    BY <2>3, <2>4, FS_Injection
  <2>6. Cardinality(W) \in Nat
    BY <1>5 DEF W, Below
  <2> QED BY <2>4, <2>5, <2>6 DEF W
<1>8. \E i \in 1..N : s[r] = samples[i]
  BY <1>1, <1>3
<1> QED BY <1>5, <1>6, <1>7, <1>8 DEF Below, Reaches

(* The total lies between n times the least and n times the greatest. *)
LEMMA TotalBetween ==
    ASSUME NEW samples \in Seq(Nat), NEW lo \in Nat, NEW hi \in Nat,
           \A i \in 1..Len(samples) : lo <= samples[i] /\ samples[i] <= hi
    PROVE  /\ Total(samples) \in Nat
           /\ Len(samples) * lo <= Total(samples) /\ Total(samples) <= Len(samples) * hi
<1> DEFINE N == Len(samples)
           step == [p \in Nat \X (1..N) |-> p[1] + samples[p[2]]]
           Runs(f) == f = [n \in 0..N |-> IF n = 0 THEN 0 ELSE f[n - 1] + samples[n]]
<1>1. N \in Nat /\ 0 \in Nat /\ \A n \in 1..N : samples[n] \in Nat
  OBVIOUS
<1>2. step \in Steps(Nat, N)
  <2>1. ASSUME NEW p \in Nat \X (1..N) PROVE p[1] + samples[p[2]] \in Nat
    BY <1>1
  <2> HIDE DEF N
  <2> QED BY <2>1 DEF Steps
<1>3. \A x \in Nat, n \in 1..N : step[<<x, n>>] = x + samples[n]
  OBVIOUS
<1> HIDE DEF N, step
<1>4. PICK f \in [0..N -> Nat] : f[0] = 0 /\ Follows(f, step, N)
  <2> DEFINE X == Nat
  <2>1. step \in Steps(X, N) /\ 0 \in X
    BY <1>2
  <2> HIDE DEF X
  <2>2. \E f \in [0..N -> X] : f[0] = 0 /\ Follows(f, step, N)
    BY <1>1, <2>1, Computed
  <2> QED BY <2>2 DEF X
<1>5. \A n \in 1..N : f[n] = f[n - 1] + samples[n]
  <2> SUFFICES ASSUME NEW n \in 1..N PROVE f[n] = f[n - 1] + samples[n]
    OBVIOUS
  <2>1. n - 1 \in 0..N
    BY <1>1
  <2>2. f[n - 1] \in Nat
    BY <2>1
  <2> QED BY <1>3, <1>4, <2>1, <2>2 DEF Follows
<1>6. \E g : Runs(g)
  <2>1. ASSUME NEW n \in 0..N
        PROVE  f[n] = IF n = 0 THEN 0 ELSE f[n - 1] + samples[n]
    <3>1. n = 0 \/ n \in 1..N
      BY <1>1
    <3> QED BY <1>4, <1>5, <3>1
  <2>2. Runs(f)
    BY <1>4, <2>1
  <2> HIDE DEF Runs
  <2> QED BY <2>2
<1> DEFINE g == CHOOSE h : Runs(h)
<1>7. Runs(g)
  <2> HIDE DEF Runs
  <2> QED BY <1>6
<1>8. Total(samples) = g[N]
  BY DEF Total, N
<1> HIDE DEF g
<1> DEFINE S == {n \in 0..N : g[n] = f[n] /\ n * lo <= f[n] /\ f[n] <= n * hi}
<1>9. 0 \in 0..N /\ N \in 0..N
      /\ (\A n \in 1..N : n \in 0..N /\ n - 1 \in 0..N /\ n # 0)
  BY <1>1
<1>10. g[0] = 0 /\ \A n \in 1..N : g[n] = g[n - 1] + samples[n]
  BY <1>7, <1>9
<1>11. 0 \in S
  BY <1>4, <1>9, <1>10
<1>12. ASSUME NEW n \in 1..N, n - 1 \in S PROVE n \in S
  <2> DEFINE m == n - 1
             a == f[n - 1]
             x == samples[n]
  <2>1. m * lo <= a /\ a <= m * hi /\ g[n - 1] = f[n - 1]
    BY <1>12
  <2>2. a \in Nat /\ x \in Nat /\ lo <= x /\ x <= hi /\ m \in Nat /\ n \in 0..N
    <3>1. n \in 0..N /\ n - 1 \in 0..N /\ m \in Nat
      BY <1>1, <1>9
    <3>2. f[n - 1] \in Nat
      BY <3>1
    <3>3. samples[n] \in Nat /\ lo <= samples[n] /\ samples[n] <= hi
      BY <1>1 DEF N
    <3> QED BY <3>1, <3>2, <3>3
  <2>3. f[n] = a + x /\ g[n] = f[n]
    BY <1>5, <1>10, <2>1
  <2>4. n * lo = m * lo + lo /\ n * hi = m * hi + hi
    BY <1>1
  <2>5. n * lo <= f[n] /\ f[n] <= n * hi
    <3> DEFINE ml == m * lo
               mh == m * hi
    <3>1. ml \in Nat /\ mh \in Nat
      BY <2>2
    <3> HIDE DEF ml, mh, a, x
    <3>2. ml + lo <= a + x /\ a + x <= mh + hi
      BY <2>1, <2>2, <3>1 DEF ml, mh
    <3> QED BY <2>3, <2>4, <3>2 DEF ml, mh
  <2> QED BY <2>2, <2>3, <2>5
<1> HIDE DEF S
<1>13. N \in S
  <2>1. \A n \in 0..N : n \in S
    BY <1>1, <1>11, <1>12, CountingUp
  <2> QED BY <1>9, <2>1
<1>14. f[N] \in Nat
  BY <1>9
<1> QED BY <1>8, <1>13, <1>14 DEF S, N

(* The rounded average of numbers lies between them. *)
LEMMA AverageBetween ==
    ASSUME NEW n \in Nat, n # 0, NEW t \in Nat, NEW lo \in Nat, NEW hi \in Nat,
           n * lo <= t, t <= n * hi
    PROVE  /\ (t + n \div 2) \div n \in Nat
           /\ lo <= (t + n \div 2) \div n /\ (t + n \div 2) \div n <= hi
<1> DEFINE h == n \div 2
           a == t + h
           q == a \div n
<1>1. h \in Nat /\ h < n
  OBVIOUS
<1> HIDE DEF h
<1>2. a \in Nat
  BY <1>1
<1>3. n * lo <= a /\ a < n * hi + n
  <2> DEFINE x == n * lo
             y == n * hi
  <2>1. x \in Nat /\ y \in Nat /\ x <= t /\ t <= y
    OBVIOUS
  <2> HIDE DEF x, y
  <2>2. x <= t + h /\ t + h < y + n
    BY <1>1, <2>1
  <2> QED BY <2>2 DEF x, y
<1> HIDE DEF a
<1>4. q \in Nat /\ n * q <= a /\ a < n * q + n
  BY <1>2
<1> HIDE DEF q
<1>5. lo <= q
  <2> SUFFICES ASSUME q < lo PROVE FALSE
    BY <1>4
  <2>1. q + 1 <= lo
    BY <1>4
  <2>2. n * (q + 1) <= n * lo
    BY <1>4, <2>1
  <2>3. n * (q + 1) = n * q + n
    BY <1>4
  <2> QED BY <1>2, <1>3, <1>4, <2>2, <2>3
<1>6. q <= hi
  <2> SUFFICES ASSUME hi < q PROVE FALSE
    BY <1>4
  <2>1. hi + 1 <= q
    BY <1>4
  <2>2. n * (hi + 1) <= n * q
    BY <1>4, <2>1
  <2>3. n * (hi + 1) = n * hi + n
    OBVIOUS
  <2> QED BY <1>2, <1>3, <1>4, <2>2, <2>3
<1> QED BY <1>4, <1>5, <1>6 DEF q, a, h

(* Two of the numbers are the least and the greatest of them. *)
LEMMA Extremes ==
    ASSUME NEW N \in Nat, N # 0, NEW samples \in [1..N -> Nat]
    PROVE  \E i, j \in 1..N : \A k \in 1..N : samples[i] <= samples[k] /\ samples[k] <= samples[j]
<1>1. ASSUME NEW n \in 0..N
      PROVE  n # 0 => \E i, j \in 1..N : \A k \in 1..n : samples[i] <= samples[k] /\ samples[k] <= samples[j]
  <2> DEFINE P(m) == m # 0 => \E i, j \in 1..N :
                                \A k \in 1..m : samples[i] <= samples[k] /\ samples[k] <= samples[j]
             S == {m \in 0..N : P(m)}
  <2>1. 0 \in S
    OBVIOUS
  <2>2. ASSUME NEW m \in 1..N, m - 1 \in S PROVE m \in S
    <3>1. m \in 0..N /\ samples[m] \in Nat /\ \A k \in 1..m : k = m \/ k \in 1..(m - 1)
      OBVIOUS
    <3>2. CASE m = 1
      <4>1. \A k \in 1..m : samples[m] <= samples[k] /\ samples[k] <= samples[m]
        BY <3>1, <3>2
      <4> QED BY <3>1, <4>1
    <3>3. CASE m # 1
      <4>1. PICK i, j \in 1..N : \A k \in 1..(m - 1) : samples[i] <= samples[k] /\ samples[k] <= samples[j]
        BY <2>2, <3>3
      <4> DEFINE a == IF samples[m] <= samples[i] THEN m ELSE i
                 b == IF samples[j] <= samples[m] THEN m ELSE j
      <4>2. a \in 1..N /\ b \in 1..N /\ samples[i] \in Nat /\ samples[j] \in Nat
        OBVIOUS
      <4>3. /\ samples[a] \in Nat /\ samples[b] \in Nat
            /\ samples[a] <= samples[m] /\ samples[a] <= samples[i]
            /\ samples[m] <= samples[b] /\ samples[j] <= samples[b]
        BY <3>1, <4>2
      <4> HIDE DEF a, b
      <4>4. ASSUME NEW k \in 1..m PROVE samples[a] <= samples[k] /\ samples[k] <= samples[b]
        <5>1. CASE k = m
          BY <4>3, <5>1
        <5>2. CASE k \in 1..(m - 1)
          <6>1. samples[i] <= samples[k] /\ samples[k] <= samples[j] /\ samples[k] \in Nat
            BY <3>1, <4>1, <5>2
          <6> QED BY <4>2, <4>3, <6>1
        <5> QED BY <3>1, <5>1, <5>2
      <4> QED BY <3>1, <4>2, <4>4
    <3> QED BY <3>2, <3>3
  <2> HIDE DEF S
  <2>3. n \in S
    BY <2>1, <2>2, CountingUp
  <2> QED BY <2>3 DEF S
<1>2. N \in 0..N
  OBVIOUS
<1> QED BY <1>1, <1>2

(* The lesser of two numbers is one of them. *)
LEMMA LesserIs ==
    ASSUME NEW a \in Nat, NEW b \in Nat
    PROVE  /\ Lesser(a, b) \in Nat /\ Lesser(a, b) <= a /\ Lesser(a, b) <= b
           /\ Lesser(a, b) < b => Lesser(a, b) = a
           /\ \A c \in Nat : a <= c => Lesser(a, b) <= Lesser(c, b)
BY DEF Lesser

(* A percentile, of samples that were sorted *)
IsPercentileOf(samples, n, v, percent) ==
    /\ \E i \in 1..n : Lesser(samples[i], MaxMicros) = v
    /\ v < MaxMicros => Cardinality(Within(samples, n, v)) * 100 >= percent * n
    /\ Cardinality(Within(samples, n, v - 1)) * 100 < percent * n

(* A percentile is a sample, with as many samples at or below it as it says. *)
LEMMA PercentilesRanked ==
    ASSUME NEW samples \in Seq(Nat), samples # <<>>, NEW percent \in {95, 99}
    PROVE  IsPercentileOf(samples, Len(samples), Percentile(Sorted(samples), percent), percent)
<1> DEFINE N == Len(samples)
           s == Sorted(samples)
           r == (N * percent + 99) \div 100
           v == Lesser(s[r], MaxMicros)
           up == Cardinality(Within(samples, N, v))
           below == Cardinality(Below(samples, N, v))
<1>1. N \in Nat /\ N # 0 /\ (\A i \in 1..N : samples[i] \in Nat) /\ MaxMicros \in Nat
  BY DiagnosticsAssumption
<1>2. s \in Seq(Nat) /\ Len(s) = N /\ Ascends(s, N) /\ From(s, samples, N)
  BY SortedIs
<1> HIDE DEF N, s
<1>3. r \in 1..N /\ r * 100 >= percent * N /\ (r - 1) * 100 < percent * N
  <2>1. CASE percent = 95
    BY <1>1, <2>1
  <2>2. CASE percent = 99
    BY <1>1, <2>2
  <2> QED BY <2>1, <2>2
<1> HIDE DEF r
<1>4. Percentile(s, percent) = v
  <2>1. r # 0 /\ r - 1 <= N - 1 /\ r - 1 + 1 = r
    BY <1>1, <1>3
  <2>2. Lesser(IF r = 0 THEN 0 ELSE r - 1, N - 1) = r - 1
    BY <1>1, <1>3, <2>1 DEF Lesser
  <2> QED BY <1>2, <2>1, <2>2 DEF Percentile, r
<1>5. \A i \in 1..N : s[i] \in Nat
  BY <1>2
<1>6. v \in Nat /\ v <= s[r] /\ (v < MaxMicros => v = s[r])
  <2>1. s[r] \in Nat
    BY <1>3, <1>5
  <2> DEFINE x == s[r]
  <2>2. x \in Nat /\ MaxMicros \in Nat /\ v = Lesser(x, MaxMicros)
    BY <1>1, <2>1
  <2> HIDE DEF x, v
  <2>3. v \in Nat /\ v <= x /\ (v < MaxMicros => v = x)
    BY <2>2, LesserIs
  <2> QED BY <2>3 DEF x
<1>7. N \in Nat /\ r \in 1..N /\ Ranked(samples, s, N)
  BY <1>1, <1>2, <1>3, <1>5 DEF Ranked
<1> HIDE DEF v
<1>8. /\ v = s[r] => Cardinality(Within(samples, N, v)) >= r
      /\ Cardinality(Below(samples, N, v)) < r
      /\ Cardinality(Within(samples, N, v)) \in Nat
      /\ Cardinality(Below(samples, N, v)) \in Nat
      /\ \E i \in 1..N : s[r] = samples[i]
  <2>1. v \in Nat /\ Reaches(s, r, v)
    BY <1>6 DEF Reaches
  <2> QED BY <1>7, <2>1, RankedCount
<1>9. \E i \in 1..N : Lesser(samples[i], MaxMicros) = v
  BY <1>8 DEF v
<1> HIDE DEF up, below
<1>10. /\ v = s[r] => up >= r
       /\ below < r
       /\ up \in Nat /\ below \in Nat
  BY <1>8 DEF up, below
<1>11. v < MaxMicros => up * 100 >= percent * N
  BY <1>1, <1>3, <1>6, <1>10
<1>12. below * 100 < percent * N
  BY <1>1, <1>3, <1>6, <1>10
<1> QED BY <1>4, <1>9, <1>11, <1>12 DEF IsPercentileOf, Below, up, below, N, s

(* The average is between the least and the greatest sample. *)
LEMMA AverageOfSamples ==
    ASSUME NEW samples \in Seq(Nat), samples # <<>>
    PROVE  LET n == Len(samples)
               average == Lesser((Total(samples) + n \div 2) \div n, MaxMicros)
           IN \E i, j \in 1..n : /\ Lesser(samples[i], MaxMicros) <= average
                                 /\ average <= Lesser(samples[j], MaxMicros)
<1> DEFINE N == Len(samples)
           t == Total(samples)
           q == (t + N \div 2) \div N
<1>1. N \in Nat /\ N # 0 /\ samples \in [1..N -> Nat] /\ MaxMicros \in Nat
  BY DiagnosticsAssumption
<1>2. PICK i, j \in 1..N : \A k \in 1..N : samples[i] <= samples[k] /\ samples[k] <= samples[j]
  <2> HIDE DEF N
  <2> QED BY <1>1, Extremes
<1> DEFINE lo == samples[i]
           hi == samples[j]
<1>3. lo \in Nat /\ hi \in Nat
  BY <1>1
<1>4. t \in Nat /\ N * lo <= t /\ t <= N * hi
  <2> HIDE DEF lo, hi
  <2>1. \A k \in 1..Len(samples) : lo <= samples[k] /\ samples[k] <= hi
    BY <1>2 DEF lo, hi
  <2> QED BY <1>3, <2>1, TotalBetween
<1>5. q \in Nat /\ lo <= q /\ q <= hi
  <2> HIDE DEF lo, hi, N, t
  <2> QED BY <1>1, <1>3, <1>4, AverageBetween
<1>6. Lesser(lo, MaxMicros) <= Lesser(q, MaxMicros) /\ Lesser(q, MaxMicros) <= Lesser(hi, MaxMicros)
  <2> HIDE DEF lo, hi, q
  <2> QED BY <1>1, <1>3, <1>5, LesserIs
<1> QED BY <1>6

(* The figures of a histogram are those of its samples. *)
LEMMA FiguresAreOfSamples ==
    ASSUME NEW lists \in SUBSET (Seq(Nat) \ {<<>>})
    PROVE  FiguresAreOfTheSamples(lists)
<1> SUFFICES
      ASSUME NEW samples \in Seq(Nat), samples # <<>>
      PROVE  LET h == Histogram(samples)
                 n == Len(samples)
             IN /\ IsPercentileOf(samples, n, h.p95, 95) /\ IsPercentileOf(samples, n, h.p99, 99)
                /\ \E i, j \in 1..n : /\ Lesser(samples[i], MaxMicros) <= h.average
                                      /\ h.average <= Lesser(samples[j], MaxMicros)
  BY DEF FiguresAreOfTheSamples, IsPercentileOf, Within
<1> DEFINE h == Histogram(samples)
<1>1. /\ h.p95 = Percentile(Sorted(samples), 95) /\ h.p99 = Percentile(Sorted(samples), 99)
      /\ h.average = Lesser((Total(samples) + Len(samples) \div 2) \div Len(samples), MaxMicros)
  BY DEF Histogram
<1> HIDE DEF h
<1>2. IsPercentileOf(samples, Len(samples), h.p95, 95)
      /\ IsPercentileOf(samples, Len(samples), h.p99, 99)
  BY <1>1, PercentilesRanked
<1>3. \E i, j \in 1..Len(samples) : /\ Lesser(samples[i], MaxMicros) <= h.average
                                    /\ h.average <= Lesser(samples[j], MaxMicros)
  BY <1>1, AverageOfSamples
<1> QED BY <1>2, <1>3 DEF h

(* Logs of a bundle: none, or some. *)
LogLists == {<<>>, << 1 >>}

(* Nothing a bundle lists is missing from it, and nothing is listed twice. *)
LEMMA BundlesDoAddUp == BundlesAddUp
<1>1. AddsUp(FromLifecycleOnly) /\ FromLifecycleOnly.included = Holds(FromLifecycleOnly)
  BY DEF AddsUp, FromLifecycleOnly, Holds
<1>2. ASSUME NEW parts \in SUBSET {"screenTopology", "keyboardLayout"}, NEW logs \in LogLists,
             NEW crash \in BOOLEAN, NEW crashBefore \in BOOLEAN
      PROVE  LET b == Bundle(parts, logs, crash)
                 a == FromDaemonBundle(b, crashBefore)
             IN /\ AddsUp(b) /\ Holds(b) = b.included
                /\ AddsUp(a) /\ (crashBefore => "previousDaemonCrash" \in Holds(a))
                /\ Holds(a) # a.included => crashBefore /\ ~crash
  <2> DEFINE b == Bundle(parts, logs, crash)
             a == FromDaemonBundle(b, crashBefore)
             there == logs # <<>>
             I == {"runtimeEnvironment", "daemon", "permissions", "latencyHistogram"}
                  \cup parts
                  \cup (IF there THEN {"recentLogs"} ELSE {})
                  \cup (IF crash THEN {"previousDaemonCrash"} ELSE {})
             U == ({"recentLogs"} \cup ({"screenTopology", "keyboardLayout"} \ parts))
                  \ (IF there THEN {"recentLogs"} ELSE {})
  <2>1. /\ b.parts = parts /\ b.logs = logs /\ b.crash = crash /\ b.snapshot = TRUE
        /\ b.lifecycle = FALSE
        /\ b.included = I /\ b.unavailable = U
    BY DEF Bundle, SnapshotUnavailable
  <2>2. /\ a.parts = parts /\ a.logs = logs /\ a.crash = (crash \/ crashBefore) /\ a.snapshot = TRUE
        /\ a.lifecycle = TRUE
        /\ a.included = I \cup {"daemonLifecycle"} /\ a.unavailable = U
    BY DEF FromDaemonBundle, Bundle, SnapshotUnavailable
  <2> HIDE DEF a, b
  <2>3. /\ Holds(b) = {"runtimeEnvironment"} \cup parts \cup {"daemon", "permissions", "latencyHistogram"}
                      \cup (IF there THEN {"recentLogs"} ELSE {})
                      \cup (IF crash THEN {"previousDaemonCrash"} ELSE {})
        /\ Holds(a) = {"runtimeEnvironment"} \cup parts \cup {"daemon", "permissions", "latencyHistogram"}
                      \cup (IF there THEN {"recentLogs"} ELSE {})
                      \cup (IF crash \/ crashBefore THEN {"previousDaemonCrash"} ELSE {})
                      \cup {"daemonLifecycle"}
    BY <2>1, <2>2 DEF Holds
  <2>4. Holds(b) = I
    BY <2>3
  <2>5. /\ I \cap U = {} /\ (I \cup {"daemonLifecycle"}) \cap U = {}
        /\ {"daemon", "permissions", "screenTopology", "keyboardLayout", "latencyHistogram",
            "recentLogs"} \subseteq I \cup U
    OBVIOUS
  <2>6. I \cup {"daemonLifecycle"} \subseteq Holds(a)
    BY <2>3
  <2>7. ~(crashBefore /\ ~crash) => Holds(a) = I \cup {"daemonLifecycle"}
    BY <2>3
  <2>8. crashBefore => "previousDaemonCrash" \in Holds(a)
    BY <2>3
  <2> HIDE DEF I, U
  <2>9. AddsUp(b) /\ AddsUp(a)
    BY <2>1, <2>2, <2>4, <2>5, <2>6 DEF AddsUp
  <2> QED BY <2>1, <2>2, <2>4, <2>7, <2>8, <2>9 DEF a, b
<1> QED BY <1>1, <1>2 DEF BundlesAddUp, LogLists

(* The log keeps the newest entries, numbered without a gap; the histogram's
   figures are those of its samples; a support bundle lists what it holds. *)
THEOREM DiagnosticsAreTold ==
    ASSUME NEW lists \in SUBSET (Seq(Nat) \ {<<>>})
    PROVE  DiagnosticsTell(lists)
BY NewestAreKept, FiguresAreOfSamples, BundlesDoAddUp DEF DiagnosticsTell

(* What one program writes for another is read back as it was meant, for
   every option, setting, command line, parameter, request and bundle. *)
THEOREM WrittenIsUnderstood == Spec => []UnderstoodAsMeant
<1>1. /\ Options \subseteq AppOptions /\ Settings \subseteq AppSettings
      /\ ArgLists \in SUBSET Seq(Arguments) /\ Samples \in SUBSET (Seq(Nat) \ {<<>>})
  BY LifecycleAssumption
<1>2. AcceptedOptionsStart(Options, Settings)
  BY <1>1, OptionsReadBack, SettingsAreStarted DEF AcceptedOptionsStart
<1>3. DaemonArgsReadBack(ArgLists)
  BY <1>1, PrintedLineReadBack
<1>4. ParametersTaken(Words)
  BY ParametersAreTaken
<1>5. DiagnosticsTell(Samples)
  BY <1>1, DiagnosticsAreTold
<1>6. UnderstoodAsMeant
  BY <1>2, <1>3, <1>4, <1>5, RequestsAreAnswered DEF UnderstoodAsMeant
<1> QED BY <1>6, PTL
=============================================================================
