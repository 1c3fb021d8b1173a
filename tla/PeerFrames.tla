------------------------------ MODULE PeerFrames ------------------------------
(***************************************************************************)
(* The frames of a peer connection: how a command is put on the wire and   *)
(* read back, in which order a listener takes frames, and what a prober    *)
(* takes.  Whether a hello, a proof or a ready frame is good is decided in *)
(* Handshake; here it carries the verdict.  What happens to a session over *)
(* time is in PeerLink.                                                    *)
(***************************************************************************)
EXTENDS InputCodes

Err == NoKey

(* A name on the wire, or a prefix with a number behind it. *)
Word(text) == [text |-> text, number |-> 0]
NamedBy(table, value) ==
    IF value.number = 0 /\ \E x \in DOMAIN table : table[x] = value.text
    THEN CHOOSE x \in DOMAIN table : table[x] = value.text ELSE Err

ScreenEdgeName ==
    [e \in {"Left", "Right", "Top", "Bottom"} |->
        CASE e = "Left" -> "left" [] e = "Right" -> "right"
          [] e = "Top" -> "top"   [] e = "Bottom" -> "bottom"]
PressStateName ==
    [s \in {"Pressed", "Released"} |-> IF s = "Pressed" THEN "pressed" ELSE "released"]
MouseButtonName ==
    [b \in Buttons |->
        CASE b = "Left" -> "left" [] b = "Right" -> "right" [] b = "Middle" -> "middle"
          [] b = "Back" -> "back" [] b = "Forward" -> "forward"]

mouse_button_name(b) ==
    IF b.name = "Other" THEN [text |-> "other:", number |-> b.code] ELSE Word(MouseButtonName[b.name])

parse_mouse_button_name(value) ==
    IF value.text = "other:"
    THEN IF value.number \in 0..MaxCode THEN [name |-> "Other", code |-> value.number] ELSE Err
    ELSE LET name == NamedBy(MouseButtonName, value)
         IN IF name = Err THEN Err ELSE Named(name)

----
(* PeerTransportInputEvent, PeerTransportCrossing, PeerTransportCommandPayload *)
EventPayload(e) ==
    CASE e.kind = "Key" ->
           [kind |-> "key", code |-> physical_key_name(e.key), state |-> Word(PressStateName[e.state])]
      [] e.kind = "MouseButton" ->
           [kind |-> "mouseButton", code |-> mouse_button_name(e.button),
            state |-> Word(PressStateName[e.state])]
      [] e.kind = "PointerMoved" -> [kind |-> "pointerMoved", delta |-> e.delta]
      [] e.kind = "Scroll" -> [kind |-> "scroll", delta |-> e.delta]

into_input_event(p) ==
    LET pressable == p.kind \in {"key", "mouseButton"}
        state == IF pressable THEN NamedBy(PressStateName, p.state) ELSE Err
        key == IF p.kind = "key" THEN parse_physical_key_name(p.code) ELSE Err
        button == IF p.kind = "mouseButton" THEN parse_mouse_button_name(p.code) ELSE Err
    IN CASE p.kind = "key" /\ key # Err /\ state # Err ->
              [kind |-> "Key", key |-> key, state |-> state]
         [] p.kind = "mouseButton" /\ button # Err /\ state # Err ->
              [kind |-> "MouseButton", button |-> button, state |-> state]
         [] p.kind = "pointerMoved" -> [kind |-> "PointerMoved", delta |-> p.delta]
         [] p.kind = "scroll" -> [kind |-> "Scroll", delta |-> p.delta]
         [] OTHER -> Err

CrossingPayload(c) ==
    IF c = Err THEN Err
    ELSE [c EXCEPT !.local = Word(ScreenEdgeName[@]), !.remote = Word(ScreenEdgeName[@])]

IsCrossing(p) == Err \notin {NamedBy(ScreenEdgeName, p.local), NamedBy(ScreenEdgeName, p.remote)}
into_crossing(p) ==
    IF p = Err THEN Err
    ELSE [p EXCEPT !.local = NamedBy(ScreenEdgeName, @), !.remote = NamedBy(ScreenEdgeName, @)]

CommandPayload(c) ==
    CASE c.kind = "StartRemoteSession" ->
           [kind |-> "startRemoteSession", peer |-> c.peer, crossing |-> CrossingPayload(c.crossing)]
      [] c.kind = "ForwardInput" -> [kind |-> "forwardInput", event |-> EventPayload(c.event)]
      [] c.kind = "ReleaseAllInputs" -> [kind |-> "releaseAllInputs"]
      [] c.kind = "StopRemoteSession" -> [kind |-> "stopRemoteSession", session |-> c.session]

into_command(p) ==
    CASE p.kind = "startRemoteSession" /\ (p.crossing = Err \/ IsCrossing(p.crossing)) ->
           [kind |-> "StartRemoteSession", peer |-> p.peer, crossing |-> into_crossing(p.crossing)]
      [] p.kind = "forwardInput" /\ into_input_event(p.event) # Err ->
           [kind |-> "ForwardInput", event |-> into_input_event(p.event)]
      [] p.kind = "releaseAllInputs" -> [kind |-> "ReleaseAllInputs"]
      [] p.kind = "stopRemoteSession" -> [kind |-> "StopRemoteSession", session |-> p.session]
      [] OTHER -> Err

----
(* What the types of a session's commands allow; Err is none of their values. *)
IsPhysicalKey(key) ==
    \/ \E m \in Modifiers : key = Named(m)
    \/ key = Code(key.code) /\ key.code \in 0..MaxCode

IsMouseButton(b) ==
    \/ \E n \in Buttons : b = Named(n)
    \/ b = [name |-> "Other", code |-> b.code] /\ b.code \in 0..MaxCode

IsInputEvent(e) ==
    /\ e # Err
    /\ \/ /\ e.kind = "Key" /\ e = [kind |-> "Key", key |-> e.key, state |-> e.state]
          /\ IsPhysicalKey(e.key) /\ e.state \in DOMAIN PressStateName
       \/ /\ e.kind = "MouseButton" /\ e = [kind |-> "MouseButton", button |-> e.button, state |-> e.state]
          /\ IsMouseButton(e.button) /\ e.state \in DOMAIN PressStateName
       \/ e.kind \in {"PointerMoved", "Scroll"} /\ e = [kind |-> e.kind, delta |-> e.delta]

IsCoreCrossing(c) ==
    /\ c = [peer |-> c.peer, local |-> c.local, remote |-> c.remote, exit |-> c.exit]
    /\ {c.local, c.remote} \subseteq DOMAIN ScreenEdgeName /\ Err \notin {c, CrossingPayload(c)}

IsCommand(c) ==
    /\ c # Err
    /\ \/ /\ c.kind = "StartRemoteSession"
          /\ c = [kind |-> "StartRemoteSession", peer |-> c.peer, crossing |-> c.crossing]
          /\ c.crossing = Err \/ IsCoreCrossing(c.crossing)
       \/ /\ c.kind = "ForwardInput" /\ c = [kind |-> "ForwardInput", event |-> c.event]
          /\ IsInputEvent(c.event)
       \/ c = [kind |-> "ReleaseAllInputs"]
       \/ c.kind = "StopRemoteSession" /\ c = [kind |-> "StopRemoteSession", session |-> c.session]

ASSUME FrameAssumption ==
    /\ Err \notin DOMAIN ScreenEdgeName \cup DOMAIN PressStateName \cup Buttons
    /\ Err \notin [name : Modifiers \cup Buttons \cup {"Code", "Other"}, code : 0..MaxCode]

----
(* A session's frames.  Every frame after the prelude is numbered. *)
CommandFrame(n, c) == [kind |-> "command", sequence |-> n, payload |-> CommandPayload(c)]
HeartbeatFrame(n)  == [kind |-> "heartbeat", sequence |-> n]
Checked(kind, good) == [kind |-> kind, good |-> good]
PreludeFrames == <<Checked("hello", TRUE), Checked("authProof", TRUE), Checked("sessionReady", TRUE)>>

(* A frame of the prelude carries its verdict and nothing else. *)
IsFrame(f) ==
    f.kind \in {"hello", "authProof", "sessionReady", "identityProbe"} =>
        f = Checked(f.kind, f.good) /\ f.good \in BOOLEAN

(* What the session sends: a command, or Err when a heartbeat is due. *)
SessionFrames(items) ==
    PreludeFrames \o
    [i \in DOMAIN items |-> IF items[i] = Err THEN HeartbeatFrame(i - 1)
                                              ELSE CommandFrame(i - 1, items[i])]

(* The one-shot transport: a message, answered by nothing. *)
OneShotMessage(version, c) == [protocol |-> version, payload |-> CommandPayload(c)]
OneShotReads(current, message) ==
    IF message.protocol.major = current.major THEN into_command(message.payload) ELSE Err

(* The listener: what it has read, what it executed, whether an end of the
   session has to release, and what it wrote back. *)
ListenerStart == [stage |-> "hello", expected |-> 0, executed |-> << >>, guard |-> FALSE,
                  written |-> << >>]

Guarded(guard, c) ==
    CASE c.kind \in {"StartRemoteSession", "ForwardInput"} -> TRUE
      [] c.kind = "ReleaseAllInputs" -> FALSE
      [] OTHER -> guard

Released == [kind |-> "ReleaseAllInputs"]

(* Any error, and the end of the stream. *)
Ended(s) ==
    [s EXCEPT !.stage = "over",
              !.executed = IF s.stage = "frames" /\ s.guard THEN Append(@, Released) ELSE @]

Numbered(s, f) ==
    s.stage = "frames" /\ f.kind \in {"command", "heartbeat"} /\ f.sequence = s.expected

TakesFrame(s, f) ==
    CASE s.stage = "over" -> s
      [] s.stage = "hello" /\ f.kind = "identityProbe" /\ f.good ->
           [s EXCEPT !.stage = "over", !.written = <<Checked("identityDocument", TRUE)>>]
      [] s.stage \in {"hello", "authProof", "sessionReady"} /\ f.kind = s.stage /\ f.good ->
           [s EXCEPT !.stage = CASE s.stage = "hello" -> "authProof"
                                 [] s.stage = "authProof" -> "sessionReady"
                                 [] OTHER -> "frames"]
      [] Numbered(s, f) /\ f.kind = "heartbeat" -> [s EXCEPT !.expected = @ + 1]
      [] Numbered(s, f) /\ f.kind = "command" /\ into_command(f.payload) # Err ->
           LET c == into_command(f.payload)
           IN [s EXCEPT !.expected = @ + 1, !.executed = Append(@, c), !.guard = Guarded(@, c)]
      [] OTHER -> Ended(s)

AfterFrames(frames) ==
    LET after[n \in 0..Len(frames)] ==
            IF n = 0 THEN ListenerStart ELSE TakesFrame(after[n - 1], frames[n])
    IN after[Len(frames)]

ListenerReads(frames) == Ended(AfterFrames(frames))

(* probe_peer_identity_document: the document of the answer, or an error. *)
ProberTakes(frames) ==
    frames # << >> /\ frames[1].kind = "identityDocument" /\ frames[1].good

----
(* What the listener should make of a sequence of frames, said without its
   automaton: nothing before the whole prelude, then the commands of the
   longest run of frames that are numbered from 0 and decode. *)
Authentic(frames) ==
    /\ Len(frames) >= 3
    /\ \A i \in 1..3 : frames[i] = PreludeFrames[i]

InOrder(frames, i) ==
    /\ frames[i].kind \in {"command", "heartbeat"} /\ frames[i].sequence = i - 4
    /\ frames[i].kind = "command" => into_command(frames[i].payload) # Err

LongestRun(frames) ==
    CHOOSE n \in 3..Len(frames) :
        /\ \A i \in 4..n : InOrder(frames, i)
        /\ n < Len(frames) => ~InOrder(frames, n + 1)

(* The k-th command is the one with k commands up to it. *)
CommandsAt(frames) == {i \in 4..LongestRun(frames) : frames[i].kind = "command"}
Place(at, k) == CHOOSE i \in at : Cardinality({j \in at : j <= i}) = k

ShouldExecute(frames) ==
    IF ~Authentic(frames) THEN << >>
    ELSE LET at == CommandsAt(frames)
         IN [k \in 1..Cardinality(at) |-> into_command(frames[Place(at, k)].payload)]

(* Something may be held that no later command released. *)
IsHolding(c) == c.kind \in {"StartRemoteSession", "ForwardInput"}
Holds(commands) ==
    \E i \in DOMAIN commands :
        IsHolding(commands[i]) /\ \A j \in DOMAIN commands : j > i => commands[j] # Released

(* Read back: a command arrives over a session, and over the one-shot
   transport, as the one that was sent; whatever frames come in whatever
   order, the listener executes the commands it should and no others, and
   releases at the end exactly if one of them may hold something that no
   later one released; a prober is answered, and by nothing but a listener
   that read no other frame before. *)
FramesReadBack(commands, frameSeqs, versions) ==
    /\ \A c \in commands :
          /\ into_command(CommandPayload(c)) = c
          /\ \A mine, theirs \in versions :
                OneShotReads(theirs, OneShotMessage(mine, c))
                   = IF mine.major = theirs.major THEN c ELSE Err
    /\ \A c, d \in commands :
          SubSeq(ListenerReads(SessionFrames(<<c, Err, d>>)).executed, 1, 2) = <<c, d>>
    /\ \A fs \in frameSeqs :
          LET read == ListenerReads(fs)
              should == ShouldExecute(fs)
          IN /\ read.executed = should \o (IF Holds(should) THEN <<Released>> ELSE << >>)
             /\ ProberTakes(read.written) <=> fs # << >> /\ fs[1] = Checked("identityProbe", TRUE)
=============================================================================
