----------------------------- MODULE MCAdapters -----------------------------
(***************************************************************************)
(* Small sets of what the adapters, the discovery worker and the listeners *)
(* of frames may meet.                                                     *)
(***************************************************************************)
EXTENDS Adapters

MCKeys    == {1, 2}
MCBadKeys == {99}

(* A hash that depends on the order of the triples. *)
MCDigest(triples) == 1000000 + 10 * triples[1][2] + triples[2][2]

(* Two services: one has a name in upper case too. *)
MCFullnames == {"desk", "DESK", "lap"}
MCLower     == [f \in MCFullnames |-> IF f = "DESK" THEN "desk" ELSE f]

Me      == DeviceIdentity("me", "Desk", 1)
Peer    == DeviceIdentity("peer", "Lap", 2)
Unnamed == DeviceIdentity("peer", DefaultName, 2)
Belled  == DeviceIdentity("peer", "bell", 2)

(* The peer as it advertises itself, this device, a peer whose fingerprint is
   not its key's, and one without an address. *)
Service(entries) == [entries |-> entries, host |-> "host", port |-> 1, addresses |-> {"ip"}]
RecordOf(dev, caps) == build_discovery_txt_record(dev, caps, "0.1.0")
Misprinted == {e \in RecordOf(Peer, PeerCapabilities) : e[1] # "fp"}
                  \cup {<<"fp", fingerprint_for_public_key(1)>>}
MCAnnouncements ==
    {Service(entries) : entries \in {RecordOf(Peer, PeerCapabilities), RecordOf(Me, PeerCapabilities),
                                     Misprinted}}
    \cup {[Service(RecordOf(Peer, PeerCapabilities)) EXCEPT !.addresses = {}]}
MCDevices == {Me, Peer, Unnamed, Belled}
MCTrustedSets == {{}, {TrustedPeerIdentity("peer", "Laptop", 2, PeerCapabilities)}}

Key(name, scan, extended, evdev) ==
    [name |-> name, scan |-> scan, extended |-> extended, evdev |-> evdev]

(* The modifiers, Backspace, letters and digits, Enter, F12; keys with an E0
   prefix beside the ones that share their scan code; F13 and the key of
   Japanese keyboards, whose scan codes are evdev codes of others. *)
MCKeyboard ==
    {Key("LeftShift", 42, FALSE, 42), Key("RightShift", 54, FALSE, 54),
     Key("LeftControl", 29, FALSE, 29), Key("RightControl", 29, TRUE, 97),
     Key("LeftAlt", 56, FALSE, 56), Key("RightAlt", 56, TRUE, 100),
     Key("LeftMeta", 91, TRUE, 125), Key("RightMeta", 92, TRUE, 126),
     Key("Backspace", 14, FALSE, 14)}
    \cup {Key("Code", c, FALSE, c) : c \in {1, 2, 28, 30, 44, 71, 83, 88}}
    \cup {Key("Code", 28, TRUE, 96), Key("Code", 71, TRUE, 102), Key("Code", 83, TRUE, 111),
          Key("Code", 93, TRUE, 127), Key("Code", 100, FALSE, 183), Key("Code", 115, FALSE, 89)}

(* Commands with every kind of field, names no enum has, and frames good and
   bad of every kind. *)
Crossings == [peer : {"p"}, local : {"Left", "Top"}, remote : {"Right", "Bottom"}, exit : {-1, 7}]
Wheel == {<<0, 0>>, <<-120, 120>>}
Events ==
    [kind : {"Key"}, key : {Named(n) : n \in Modifiers} \cup {Code(c) : c \in {0, 14, 65535}},
     state : {"Pressed", "Released"}]
    \cup [kind : {"MouseButton"},
          button : {Named(b) : b \in Buttons} \cup {[name |-> "Other", code |-> c] : c \in {0, 65535}},
          state : {"Pressed", "Released"}]
    \cup [kind : {"PointerMoved", "Scroll"}, delta : Wheel]
MCCommands ==
    [kind : {"StartRemoteSession"}, peer : {"p"}, crossing : Crossings \cup {Err}]
    \cup [kind : {"ForwardInput"}, event : Events]
    \cup [kind : {"StopRemoteSession"}, session : {"s", Err}]
    \cup {Released}

PressPayload == CommandPayload([kind |-> "ForwardInput",
                                event |-> [kind |-> "Key", key |-> Code(14), state |-> "Pressed"]])
Payloads ==
    {PressPayload, [kind |-> "releaseAllInputs"], [kind |-> "stopRemoteSession", session |-> "s"],
     [PressPayload EXCEPT !.event.code = [text |-> "code:", number |-> 65536]],
     [PressPayload EXCEPT !.event.state = Word("held")]}
Preluding == {Checked(k, good) : k \in {"hello", "authProof", "sessionReady", "identityProbe",
                                        "identityDocument"}, good \in BOOLEAN}
Frames ==
    Preluding \cup {[kind |-> "garbled"]} \cup {HeartbeatFrame(n) : n \in 0..2}
    \cup [kind : {"command"}, sequence : 0..2, payload : Payloads]
SeqsOf(set, n) == UNION {[1..k -> set] : k \in 0..n}
MCVersions == [major : {1, 2}, minor : {0, 1}]
MCFrameSeqs ==
    SeqsOf(Frames, 2)
    \cup {<<fs[1], fs[2], fs[3], CommandFrame(0, Released)>> : fs \in [1..3 -> Preluding]}
    \cup {PreludeFrames \o fs : fs \in SeqsOf(Frames, 3)}

(* Machines: every session with what its environment says; X11 with whatever
   it lacks; Windows with whatever fails. *)
MCIntMin == -8
Environments ==
    [type : {Unset, "wayland", "xorg", "tty"},
     desktop : {Unset, {}, {"ubuntu", "kde"}, {"plasma"}, {"sway"}},
     wayland : BOOLEAN, display : BOOLEAN, bus : {Unset, "unix:", "tcp:"}, runtimeBus : BOOLEAN]
Point(x, y) == [x |-> x, y |-> y]
Rect(x, y, w, h) == [left |-> x, top |-> y, width |-> w, height |-> h]
Screens == {Rect(0, 0, 3, 3), Rect(-3, 1, 3, 2), Rect(3, -4, 5, 7), Rect(-8, 0, 2, 2), Rect(1, 1, 0, 4)}
NoX11 == [libs |-> {}, missing |-> {}, opens |-> FALSE, xinput |-> Unset, xtest |-> FALSE,
          pointer |-> Unset, monitors |-> {}]
X11Env == [type |-> "xorg", desktop |-> Unset, wayland |-> TRUE, display |-> TRUE,
           bus |-> Unset, runtimeBus |-> FALSE]
Libraries == {"libX11", "libXi", "libXtst", "libXrandr"}
Symbols == Xinput2CaptureSymbols \cup XtestInjectionSymbols \cup XrandrGeometrySymbols
X11Machines ==
    [os : {"linux"}, env : {X11Env},
     x : [libs : SUBSET Libraries, missing : {{}} \cup {{s} : s \in Symbols}, opens : BOOLEAN,
          xinput : {Unset, 1, 2}, xtest : BOOLEAN, pointer : {Point(0, 0)}, monitors : {Screens}]
         \cup
         [libs : {Libraries}, missing : {{}}, opens : {TRUE}, xinput : {2}, xtest : {TRUE},
          pointer : {Unset} \cup [x : -3..7, y : {0, 2}], monitors : SUBSET Screens]]
WindowsMachines ==
    [os : {"windows"},
     w : [desktop : BOOLEAN, window : BOOLEAN, rawInput : BOOLEAN, mouseHook : BOOLEAN,
          keyboardHook : BOOLEAN, sends : BOOLEAN, pointer : {Unset, Point(0, 0)},
          bounds : {Rect(0, 0, 3, 3), Rect(0, 0, 0, 0)}]]
MCMachines ==
    [os : {"linux", "macos", "freebsd"}, env : Environments, x : {NoX11}]
        \cup X11Machines \cup WindowsMachines
=============================================================================
