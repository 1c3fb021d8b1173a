----------------------------- MODULE StartOptions -----------------------------
(***************************************************************************)
(* From the desktop application's settings to the daemon's options: how    *)
(* settings and start options are normalised, the arguments the daemon is  *)
(* spawned with, and how the daemon reads them.  A text is a body with or  *)
(* without blanks around it; some bodies hold a colon, an at sign or a     *)
(* blank, some are a socket address.                                       *)
(***************************************************************************)
EXTENDS Naturals, Sequences, SequencesExt, Functions

CONSTANTS Bodies,            \* of texts
          Colon, At, Blank,  \* bodies that hold such a character
          Addresses,         \* bodies that parse as an IP address and port
          REFUSED

Edges == {"left", "right", "top", "bottom"}
Texts == [body : Bodies, padded : BOOLEAN]
Trimmed(t) == t.body
Text(body) == [body |-> body, padded |-> FALSE]
Ok(v) == v # REFUSED

EdgeBindings == [local : Edges, peer : Texts, remote : Edges]
AppSettings ==
    [capture : BOOLEAN, listen : Texts, bindings : Seq(EdgeBindings),
     manual : Seq([peer : Texts, address : Texts])]
AppOptions == [capture : BOOLEAN, listen : Texts, bindings : Seq(EdgeBindings)]

----
(* normalize_required_session_value, normalize_session_address,
   normalize_optional_session_address, normalize_manual_peer_address_peer_id *)
IsRequiredValue(t) == Trimmed(t) # "" /\ Trimmed(t) \notin Blank
IsSessionAddress(t) == IsRequiredValue(t) /\ Trimmed(t) \in Addresses
IsOptionalAddress(t) == Trimmed(t) = "" \/ IsSessionAddress(t)
IsSessionPeerId(t) == IsRequiredValue(t) /\ Trimmed(t) \notin Colon \cup At

(* normalize_peer_id, of edge bindings only *)

(* Mutant: the colon is let through. *)
IsNonEmptyPeerId(t) == Trimmed(t) # ""

IsBindingPeerId(t) == Trimmed(t) # "" /\ Trimmed(t) \notin Colon

normalize_edge_binding(b) == [b EXCEPT !.peer = Text(Trimmed(b.peer))]

(* normalize_manual_peer_addresses drops entries without an address and
   keeps the last one of each peer, at the place of the first. *)
Positions(list, peer) == {i \in DOMAIN list : list[i].peer = peer}

WithAddress(list, e) ==
    LET entry == [peer |-> Text(Trimmed(e.peer)), address |-> Text(Trimmed(e.address))]
        at == Positions(list, entry.peer)
    IN IF at = {} THEN Append(list, entry)
       ELSE [list EXCEPT ![CHOOSE i \in at : \A j \in at : i <= j] = entry]

normalize_manual_peer_addresses(list) ==
    LET kept[n \in 0..Len(list)] ==
            IF n = 0 THEN <<>>
            ELSE IF Trimmed(list[n].address) = "" THEN kept[n - 1]
            ELSE WithAddress(kept[n - 1], list[n])
    IN kept[Len(list)]

normalize_settings(s) ==
    IF /\ IsOptionalAddress(s.listen)
       /\ \A b \in ToSet(s.bindings) : IsBindingPeerId(b.peer)
       /\ \A e \in ToSet(s.manual) :
            Trimmed(e.address) = "" \/ (IsSessionPeerId(e.peer) /\ IsSessionAddress(e.address))
    THEN [capture |-> s.capture,
          listen |-> Text(Trimmed(s.listen)),
          bindings |-> [i \in DOMAIN s.bindings |-> normalize_edge_binding(s.bindings[i])],
          manual |-> normalize_manual_peer_addresses(s.manual)]
    ELSE REFUSED

(* save_layout_to_path: the stored settings with other bindings *)
save_layout(stored, bindings) == normalize_settings([stored EXCEPT !.bindings = bindings])

(* DaemonStartOptions from AppSettings *)
FromSettings(s) == [capture |-> s.capture, listen |-> s.listen, bindings |-> s.bindings]

----
(* daemon_spawn_args_from: an argument is a flag and its value; an edge
   binding is its three parts joined with colons. *)
Argument(flag, value) == <<[flag |-> flag, value |-> value]>>

daemon_spawn_args(o) ==
    IF ~IsOptionalAddress(o.listen) \/ \E b \in ToSet(o.bindings) : ~IsBindingPeerId(b.peer)
    THEN REFUSED
    ELSE Argument("--identity-store", Text("store"))
         \o Argument("--identity-display-name", Text("name"))
         \o Argument("--crash-marker", Text("marker"))
         \o (IF o.capture THEN Argument("--capture-input", Text("")) ELSE <<>>)
         \o (IF Trimmed(o.listen) = "" THEN <<>>
             ELSE Argument("--peer-listen", Text(Trimmed(o.listen))))
         \o [i \in DOMAIN o.bindings |->
              [flag |-> "--edge-binding",
               value |-> [o.bindings[i] EXCEPT !.peer = Text(Trimmed(o.bindings[i].peer))]]]

----
(* The daemon: parse_serve_options, one argument after the other.  Of an
   option that is given twice the last value counts, but for the listen
   address and the peer session, which are refused. *)
DefaultOptions ==
    [once |-> FALSE, capture |-> FALSE, endpoint |-> "", listen |-> "", device |-> "",
     store |-> "", name |-> "", marker |-> "", session |-> <<>>, bindings |-> <<>>]

(* parse_edge_binding splits at every colon and wants three parts. *)
IsEdgeBinding(v) ==
    v.local \in Edges /\ v.remote \in Edges /\ Trimmed(v.peer) # "" /\ Trimmed(v.peer) \notin Colon

(* parse_peer_session splits at the last at sign. *)
IsPeerSession(v) ==
    /\ Trimmed(v.peer) # "" /\ Trimmed(v.peer) \notin At
    /\ Trimmed(v.address) \in Addresses

TextOptions ==
    [endpoint |-> "--endpoint", device |-> "--local-device-id", store |-> "--identity-store",
     name |-> "--identity-display-name", marker |-> "--crash-marker"]

Arguments ==
    [flag : {"--once", "--capture-input", "--peer-listen", "not an option"}
            \cup Range(TextOptions),
     value : Texts]
    \cup [flag : {"--edge-binding"}, value : EdgeBindings]
    \cup [flag : {"--peer-session"}, value : [peer : Texts, address : Texts]]

ServeOptions ==
    [once : BOOLEAN, capture : BOOLEAN, endpoint : Bodies, listen : Bodies, device : Bodies,
     store : Bodies, name : Bodies, marker : Bodies, session : Seq(Bodies),
     bindings : Seq([local : Edges, peer : Bodies, remote : Edges])]

ASSUME OptionsAssumption ==
    /\ {"", "store", "name", "marker"} \subseteq Bodies
    /\ "" \notin Addresses
    /\ REFUSED \notin AppSettings \cup Seq(Arguments) \cup ServeOptions

ParseArgument(options, a) ==
    CASE options = REFUSED -> REFUSED
      [] Ok(options) /\ a.flag = "--once" -> [options EXCEPT !.once = TRUE]
      [] Ok(options) /\ a.flag = "--capture-input" -> [options EXCEPT !.capture = TRUE]
      [] Ok(options) /\ a.flag = "--edge-binding" /\ IsEdgeBinding(a.value) ->
           [options EXCEPT !.bindings = Append(@, [a.value EXCEPT !.peer = Trimmed(@)])]
      [] Ok(options) /\ a.flag = "--peer-listen" /\ options.listen = ""
         /\ Trimmed(a.value) \in Addresses -> [options EXCEPT !.listen = Trimmed(a.value)]
      [] Ok(options) /\ a.flag = "--peer-session" /\ options.session = <<>>
         /\ IsPeerSession(a.value) ->
           [options EXCEPT !.session = <<Trimmed(a.value.peer), Trimmed(a.value.address)>>]
      [] Ok(options) /\ a.flag \in Range(TextOptions) /\ Trimmed(a.value) # "" ->
           [options EXCEPT ![CHOOSE f \in DOMAIN TextOptions : TextOptions[f] = a.flag] =
                             Trimmed(a.value)]
      [] OTHER -> REFUSED

Parse(options, args) ==
    LET after[n \in 0..Len(args)] ==
            IF n = 0 THEN options ELSE ParseArgument(after[n - 1], args[n])
    IN after[Len(args)]

parse_serve_options(args) ==
    LET options == Parse(DefaultOptions, args)
    IN IF Ok(options) /\ (options.listen # "" \/ options.session # <<>>) /\ options.store = ""
       THEN REFUSED ELSE options

----
(* What the application accepts, the daemon accepts, and reads back as it
   was meant: start options that yield arguments yield a daemon with the same
   capture flag, listen address and edge bindings, in order; and settings
   that were normalised start a daemon, now and after they are loaded and
   normalised once more. *)
ReadsBack(o) ==
    LET args == daemon_spawn_args(o)
        served == parse_serve_options(args)
    IN Ok(args) =>
         /\ Ok(served)
         /\ served.capture = o.capture
         /\ served.listen = Trimmed(o.listen)
         /\ served.bindings =
              [i \in DOMAIN o.bindings |-> [o.bindings[i] EXCEPT !.peer = Trimmed(@)]]

SettingsStart(s) ==
    LET saved == normalize_settings(s)
    IN Ok(saved) =>
         /\ Ok(daemon_spawn_args(FromSettings(saved)))
         /\ normalize_settings(saved) = saved
         /\ save_layout(saved, s.bindings) = saved
         /\ \A i, j \in DOMAIN saved.manual : saved.manual[i].peer = saved.manual[j].peer => i = j

AcceptedOptionsStart(options, settings) ==
    (\A o \in options : ReadsBack(o)) /\ (\A s \in settings : SettingsStart(s))
=============================================================================
