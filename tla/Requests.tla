------------------------------- MODULE Requests -------------------------------
(***************************************************************************)
(* The local JSON-RPC protocol: how the daemon classifies a request line   *)
(* and answers it, and what the desktop application and akrazctl read from *)
(* the answer.  A line is told apart by what parse_request_line looks at.  *)
(* `works' says of each method whether its operation succeeds; the         *)
(* operations themselves are modelled with their components.               *)
(***************************************************************************)
EXTENDS Sequences, SequencesExt

NoId == "null"
NoFailure == "none"

(* Each method: the parameters that have no default, and its result type. *)
Methods ==
    {[name |-> "daemon.status", required |-> {}, result |-> "DaemonStatus"],
     [name |-> "daemon.logs.tail", required |-> {}, result |-> "DaemonLogsTail"],
     [name |-> "daemon.shutdown", required |-> {}, result |-> "DaemonShutdownResult"],
     [name |-> "permissions.probe", required |-> {}, result |-> "PermissionsProbe"],
     [name |-> "diagnostics.screenTopology", required |-> {},
      result |-> "DiagnosticsScreenTopology"],
     [name |-> "diagnostics.keyboardLayout", required |-> {},
      result |-> "DiagnosticsKeyboardLayout"],
     [name |-> "input.releaseAll", required |-> {}, result |-> "InputReleaseAllResult"],
     [name |-> "input.smokeTest", required |-> {}, result |-> "InputSmokeTestResult"],
     [name |-> "pairing.start", required |-> {"peerDocumentJson"},
      result |-> "PairingStartResult"],
     [name |-> "pairing.accept", required |-> {"peerId", "verificationCode"},
      result |-> "PairingAcceptResult"],
     [name |-> "pairing.reject", required |-> {"peerId"}, result |-> "PairingRejectResult"],
     [name |-> "session.connect", required |-> {"peerId", "localDeviceId", "address"},
      result |-> "SessionConnectResult"],
     [name |-> "session.discoveryCandidates", required |-> {},
      result |-> "SessionDiscoveryCandidatesResult"],
     [name |-> "session.probeManualCandidate", required |-> {"address"},
      result |-> "SessionProbeManualCandidateResult"],
     [name |-> "session.disconnect", required |-> {}, result |-> "SessionDisconnectResult"]}

MethodNames == {m.name : m \in Methods}
Method(name) == CHOOSE m \in Methods : m.name = name

----
(* parse_request_line: the first thing that is wrong with a line *)
Rejection(line) ==
    IF ~line.json THEN "parse error"
    ELSE IF line.id = NoId \/ ~line.envelope \/ ~line.version THEN "invalid request"
    ELSE IF line.method \notin MethodNames THEN "method not found"
    ELSE IF ~line.object \/ ~(Method(line.method).required \subseteq line.fields)
         THEN "invalid params"
    ELSE NoFailure

(* Every handler but that of the log tail can fail; daemon.shutdown needs a
   server that can be stopped. *)
Succeeds(name, works, stoppable) ==
    \/ name = "daemon.logs.tail"
    \/ works[name] /\ (name = "daemon.shutdown" => stoppable)

AnswerId(line, failure) == IF line.json THEN line.id ELSE NoId

handle_ipc_request_line(line, works, stoppable) ==
    LET failure == IF Rejection(line) # NoFailure THEN Rejection(line)
                   ELSE IF Succeeds(line.method, works, stoppable) THEN NoFailure
                   ELSE "daemon error"
    IN [id |-> AnswerId(line, failure), version |-> TRUE, failure |-> failure,
        result |-> IF failure = NoFailure THEN Method(line.method).result ELSE NoFailure]

----
(* A client's request and the type it decodes the result as. *)
ClientCall(method, fields, reads) == [method |-> method, fields |-> fields, reads |-> reads]

Calls ==
    {ClientCall("daemon.status", {}, "DaemonStatus"),
     ClientCall("daemon.logs.tail", {}, "DaemonLogsTail"),
     ClientCall("daemon.shutdown", {}, "DaemonShutdownResult"),
     ClientCall("permissions.probe", {}, "PermissionsProbe"),
     ClientCall("diagnostics.screenTopology", {}, "DiagnosticsScreenTopology"),
     ClientCall("diagnostics.keyboardLayout", {}, "DiagnosticsKeyboardLayout"),
     ClientCall("input.releaseAll", {}, "InputReleaseAllResult"),
     ClientCall("pairing.start", {"peerDocumentJson"}, "PairingStartResult"),
     ClientCall("pairing.accept", {"peerId", "verificationCode"}, "PairingAcceptResult"),
     ClientCall("pairing.reject", {"peerId"}, "PairingRejectResult"),
     ClientCall("session.connect", {"peerId", "localDeviceId", "address"}, "SessionConnectResult"),
     ClientCall("session.discoveryCandidates", {}, "SessionDiscoveryCandidatesResult"),
     ClientCall("session.probeManualCandidate", {"address"}, "SessionProbeManualCandidateResult"),
     ClientCall("session.disconnect", {}, "SessionDisconnectResult")}

CallOf(method) == CHOOSE c \in Calls : c.method = method

Line(c) == [json |-> TRUE, id |-> "local", envelope |-> TRUE, version |-> TRUE,
            method |-> c.method, object |-> TRUE, fields |-> c.fields]

(* parse_json_rpc_response: an error is taken whatever its id is. *)
ReadsAsDone(answer, c) ==
    /\ answer.failure = NoFailure
    /\ answer.version /\ answer.id = "local" /\ answer.result = c.reads

(* classify_daemon_call_error and call_daemon_json_rpc *)
Outcome(c, works, stoppable, transport) ==
    CASE transport = "EndpointUnavailable" -> "NotRunning"
      [] transport = "RequestFailed" -> "Unreachable"
      [] transport = "Answered" ->
           IF ReadsAsDone(handle_ipc_request_line(Line(c), works, stoppable), c)
           THEN "Done" ELSE "Failed"

Done(method, works) == Outcome(CallOf(method), works, TRUE, "Answered") = "Done"

(* The application's operations of several calls: each call is made only
   after the one before it was done; what it can do without is asked last. *)
Operations ==
    {[calls |-> <<"session.connect", "daemon.status">>, optional |-> {}],
     [calls |-> <<"session.disconnect", "daemon.status">>, optional |-> {}],
     [calls |-> <<"input.releaseAll", "daemon.status">>, optional |-> {}],
     [calls |-> <<"daemon.status", "permissions.probe">>,
      optional |-> {"diagnostics.screenTopology", "diagnostics.keyboardLayout",
                    "daemon.logs.tail"}]}

MethodsOf(op) == ToSet(op.calls) \cup op.optional
Made(op, works) ==
    {i \in DOMAIN op.calls : \A j \in 1..(i - 1) : Done(op.calls[j], works)}
Reported(op, works) == \A i \in DOMAIN op.calls : i \in Made(op, works) /\ Done(op.calls[i], works)
Sections(op, works) == {m \in op.optional : Reported(op, works) /\ Done(m, works)}

----
(* The lines and answers the statements below are about *)
Fields == UNION {m.required : m \in Methods}
Lines == [json : BOOLEAN, id : {"local", "other", NoId}, envelope : BOOLEAN, version : BOOLEAN,
          method : MethodNames \cup {"unknown"}, object : BOOLEAN,
          fields : {{}, Fields} \cup {Fields \ {f} : f \in Fields}]

(* A line is answered under the id it was sent with, whatever is wrong with
   it, and with a result only if it asks for a known method with all that
   the method needs and its operation succeeded. *)
LinesAnswered ==
    \A line \in Lines, ok, stoppable \in BOOLEAN :
        LET works == [m \in MethodNames |-> ok]
            a == handle_ipc_request_line(line, works, stoppable)
        IN /\ line.json => a.id = line.id
           /\ a.failure = NoFailure =>
                /\ line.json /\ line.envelope /\ line.version /\ line.object /\ line.id # NoId
                /\ \E m \in Methods : /\ m.name = line.method /\ m.required \subseteq line.fields
                                      /\ m.result = a.result
                /\ ok \/ line.method = "daemon.logs.tail"

(* A client's call reads as done exactly if the daemon did it; never on the
   answer to another call or another client's id. *)
CallsUnderstood ==
    /\ \A c \in Calls, ok, stoppable \in BOOLEAN :
         LET works == [m \in MethodNames |-> ok]
             a == handle_ipc_request_line(Line(c), works, stoppable)
         IN /\ \A t \in {"Answered", "EndpointUnavailable", "RequestFailed"} :
                 Outcome(c, works, stoppable, t) = "Done" <=>
                     t = "Answered" /\ Succeeds(c.method, works, stoppable)
            /\ ~ReadsAsDone([a EXCEPT !.id = "other"], c)
            /\ \A d \in Calls \ {c} :
                 ~ReadsAsDone(handle_ipc_request_line(Line(d), works, stoppable), c)
    /\ \A op \in Operations : \A works \in [MethodsOf(op) -> BOOLEAN] :
         /\ Reported(op, works) <=> \A m \in ToSet(op.calls) : works[m]
         /\ \A m \in Sections(op, works) : works[m] \/ m = "daemon.logs.tail"
         /\ op.calls[1] = "session.connect" /\ ~works["session.connect"] =>
              Made(op, works) = {1}

RequestsAnswered == LinesAnswered /\ CallsUnderstood
=============================================================================
