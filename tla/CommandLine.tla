------------------------------ MODULE CommandLine ------------------------------
(***************************************************************************)
(* The other ways options and parameters are written and read back:        *)
(* `akrazctl daemon-args' checks options and prints a command line for the *)
(* daemon, unquoted, which a shell reads; akrazctl and the desktop         *)
(* application send parameters of session and pairing requests, which the  *)
(* daemon normalises once more.                                            *)
(***************************************************************************)
EXTENDS StartOptions, FiniteSets

CONSTANTS
    Codes,        \* bodies of six digits
    ShellReads,   \* what a shell makes of a body that is not quoted
    Ending        \* bodies that end the command: they hold an open quote or one of ; & | #

ASSUME ShellAssumption == ShellReads \in [Bodies -> Bodies] /\ Ending \subseteq Bodies

(* normalize_shell_safe_arg, normalize_peer_id, normalize_socket_addr_arg *)
IsWord(t) == t.body # "" /\ ~t.padded /\ t.body \notin Blank
IsWordPeerId(t) == IsWord(t) /\ t.body \notin Colon \cup At
IsWordAddress(t) == IsWord(t) /\ t.body \in Addresses

----
(* parse_daemon_args_options: every option but an edge binding is given
   once. *)
Given(args, flag) == {i \in DOMAIN args : args[i].flag = flag}
WordFlags == {"--local-device-id", "--identity-store", "--identity-display-name"}
OnceFlags == {"--peer-listen", "--peer-session"} \cup WordFlags

AcceptsDaemonArg(a) ==
    \/ a.flag = "--capture-input"
    \/ /\ a.flag = "--edge-binding"
       /\ a.value.local \in Edges /\ a.value.remote \in Edges /\ IsWordPeerId(a.value.peer)
    \/ a.flag = "--peer-listen" /\ IsWordAddress(a.value)
    \/ a.flag = "--peer-session" /\ IsWordPeerId(a.value.peer) /\ IsWordAddress(a.value.address)
    \/ a.flag \in WordFlags /\ IsWord(a.value)

AcceptsDaemonArgs(args) ==
    /\ \A i \in DOMAIN args : AcceptsDaemonArg(args[i])
    /\ \A flag \in OnceFlags : \A i, j \in Given(args, flag) : i = j
    /\ Given(args, "--peer-listen") \cup Given(args, "--peer-session") # {} =>
         Given(args, "--identity-store") # {}

(* format_daemon_command_line prints the options in an order of its own, the
   capture flag once and the edge bindings in the order they were given. *)
GivenAs(args, flag) ==
    LET at == Given(args, flag)
        Nth(k) == CHOOSE i \in at : Cardinality({j \in at : j <= i}) = k
    IN [k \in 1..Cardinality(at) |-> args[Nth(k)]]

PrintedLine(args) ==
    (IF Given(args, "--capture-input") = {} THEN <<>> ELSE Argument("--capture-input", Text("")))
    \o GivenAs(args, "--edge-binding") \o GivenAs(args, "--peer-listen")
    \o GivenAs(args, "--local-device-id") \o GivenAs(args, "--identity-store")
    \o GivenAs(args, "--identity-display-name") \o GivenAs(args, "--peer-session")

(* The shell replaces what it interprets in a value and drops what follows a
   value that ends the command.  A value that then holds a blank is two words,
   the second of which is no option of the daemon; an empty one is no word at
   all.  (An open quote that a later value closes has changed its own value
   all the same.) *)
ShellTexts(a) ==
    CASE a.flag = "--capture-input" -> {}
      [] a.flag = "--edge-binding" -> {a.value.peer}
      [] a.flag = "--peer-session" -> {a.value.peer, a.value.address}
      [] OTHER -> {a.value}

HoldsBlank(a) == \E t \in ShellTexts(a) : t.body \in Blank \/ t.padded \/ t.body = ""
EndsCommand(a) == \E t \in ShellTexts(a) : t.body \in Ending

ReadByShell(a) ==
    CASE a.flag = "--capture-input" -> a
      [] a.flag = "--edge-binding" -> [a EXCEPT !.value.peer.body = ShellReads[@]]
      [] a.flag = "--peer-session" ->
           [a EXCEPT !.value.peer.body = ShellReads[@], !.value.address.body = ShellReads[@]]
      [] OTHER -> [a EXCEPT !.value.body = ShellReads[@]]

ShellWords(line) ==
    LET ends == {i \in DOMAIN line : EndsCommand(line[i])}
        reached == IF ends = {} THEN line
                   ELSE SubSeq(line, 1, CHOOSE i \in ends : \A j \in ends : i <= j)
        Split(a) == IF HoldsBlank(a) THEN <<a, [flag |-> "not an option", value |-> Text("")]>>
                    ELSE <<a>>
    IN FlattenSeq([i \in DOMAIN reached |-> Split(ReadByShell(reached[i]))])

(* The shell takes the values of an argument as they are. *)
LeftAlone(a) ==
    \A t \in ShellTexts(a) : t.body \notin Ending /\ ShellReads[t.body] = t.body

ValueGiven(args, flag) ==
    IF Given(args, flag) = {} THEN "" ELSE (args[CHOOSE i \in Given(args, flag) : TRUE]).value.body

(* The daemon reads of the printed line the options that were given. *)
ReadsAsGiven(args) ==
    LET served == parse_serve_options(ShellWords(PrintedLine(args)))
    IN /\ Ok(served)
       /\ served.capture = (Given(args, "--capture-input") # {})
       /\ served.listen = ValueGiven(args, "--peer-listen")
       /\ served.device = ValueGiven(args, "--local-device-id")
       /\ served.store = ValueGiven(args, "--identity-store")
       /\ served.name = ValueGiven(args, "--identity-display-name")
       /\ \A i \in Given(args, "--peer-session") :
            served.session = <<args[i].value.peer.body, args[i].value.address.body>>
       /\ Len(served.bindings) = Cardinality(Given(args, "--edge-binding"))
       /\ \A i \in Given(args, "--edge-binding") :
            [args[i].value EXCEPT !.peer = @.body] \in ToSet(served.bindings)

(* What `akrazctl daemon-args' accepts, the daemon it prints the line for
   accepts, with the same options, if the shell leaves the values alone.
   (normalize_shell_safe_arg lets through others, which reach the daemon
   changed, or cut the command short.) *)
DaemonArgsReadBack(argLists) ==
    \A args \in argLists :
        AcceptsDaemonArgs(args) /\ (\A i \in DOMAIN args : LeftAlone(args[i])) => ReadsAsGiven(args)

----
(* Parameters, checked by the client: parse_session_connect_options of
   akrazctl, and the application's normalizers ... *)
CtlConnects(p) == IsWordPeerId(p.peerId) /\ IsWord(p.localDeviceId) /\ IsWordAddress(p.address)

AppAccepts(request, p) ==
    CASE request = "session.connect" ->
           /\ IsSessionPeerId(p.peerId) /\ IsRequiredValue(p.localDeviceId)
           /\ IsSessionAddress(p.address)
      [] request = "session.probeManualCandidate" -> IsSessionAddress(p.address)
      [] request = "pairing.accept" ->
           IsSessionPeerId(p.peerId) /\ IsRequiredValue(p.code) /\ Trimmed(p.code) \in Codes
      [] request = "pairing.reject" -> IsSessionPeerId(p.peerId)

(* ... sent as they were trimmed, and checked by the daemon: parse_non_empty_
   peer_id and _device_id, parse_peer_session_address, normalize_pairing_* *)
DaemonTakes(request, p) ==
    CASE request = "session.connect" ->
           /\ Trimmed(p.peerId) # "" /\ Trimmed(p.localDeviceId) # ""
           /\ Trimmed(p.address) \in Addresses
      [] request = "session.probeManualCandidate" -> Trimmed(p.address) \in Addresses
      [] request = "pairing.accept" -> Trimmed(p.peerId) # "" /\ Trimmed(p.code) \in Codes
      [] request = "pairing.reject" -> Trimmed(p.peerId) # ""

ParametersTaken(texts) ==
    \A p \in [peerId : texts, localDeviceId : texts, address : texts, code : texts],
       request \in {"session.connect", "session.probeManualCandidate", "pairing.accept",
                    "pairing.reject"} :
        AppAccepts(request, p) \/ (request = "session.connect" /\ CtlConnects(p)) =>
            DaemonTakes(request, [f \in DOMAIN p |-> Text(Trimmed(p[f]))])
=============================================================================
