----------------------------- MODULE InputProbes -----------------------------
(***************************************************************************)
(* What a platform adapter says it can do, and what it then does: the      *)
(* session it finds itself in, the probes of capabilities, of permissions  *)
(* and of the screens, and the start of a capture and an injection, which  *)
(* probe again on their own.                                               *)
(*                                                                         *)
(* A machine is what the operating system would answer.  An environment    *)
(* variable stands for its trimmed value in lower case, Unset for one that *)
(* is blank.                                                               *)
(***************************************************************************)
EXTENDS Integers, Sequences, FiniteSetsExt

CONSTANTS IntMin, IntMax, Unset

ASSUME ProbeAssumption ==
    IntMin \in Int /\ IntMax \in Int /\ IntMin < 0 /\ 0 < IntMax

G == INSTANCE EdgeGeometry WITH NoEdge <- Unset

CaptureCapabilities == {"capture_pointer", "capture_keyboard"}
InjectCapabilities  == {"inject_pointer", "inject_keyboard"}
AllCapabilities == CaptureCapabilities \cup InjectCapabilities

(* Checks are <<outcome, result when it is bad>>, made in this order. *)
Verdict(checks) ==
    LET bad == {i \in DOMAIN checks : ~checks[i][1]}
    IN IF bad = {} THEN "Available" ELSE checks[Min(bad)][2]

----
(* Linux: the session, from XDG_SESSION_TYPE first, then from the displays. *)
Session(kind, which) == [kind |-> kind, desktop |-> which]

from_env_value(parts) ==
    IF parts = Unset THEN "unknown"
    ELSE IF parts \cap {"gnome", "ubuntu"} # {} THEN "gnome"
    ELSE IF parts \cap {"kde", "plasma"} # {} THEN "kde" ELSE "other"

detect_linux_desktop_session(env) ==
    CASE env.type = "wayland" -> Session("LinuxWayland", from_env_value(env.desktop))
      [] env.type \in {"x11", "xorg"} -> Session("LinuxX11", Unset)
      [] OTHER ->
            IF env.wayland THEN Session("LinuxWayland", from_env_value(env.desktop))
            ELSE IF env.display THEN Session("LinuxX11", Unset)
            ELSE Session("LinuxUnknown", Unset)

SessionOf(m) ==
    CASE m.os = "linux"   -> detect_linux_desktop_session(m.env)
      [] m.os = "windows" -> Session("Windows", Unset)
      [] m.os = "macos"   -> Session("Macos", Unset)
      [] OTHER            -> Session("Other", Unset)

(* What an operating system can answer. *)
IsMachine(m) ==
    /\ SessionOf(m).kind = "LinuxX11" =>
          /\ {m.x.opens, m.x.xtest} \subseteq BOOLEAN
          /\ m.x.xinput = Unset \/ m.x.xinput \in Int
          /\ m.x.monitors \subseteq G!LogicalRect
    /\ SessionOf(m).kind = "Windows" =>
          {m.w.desktop, m.w.window, m.w.rawInput, m.w.mouseHook, m.w.keyboardHook, m.w.sends}
             \subseteq BOOLEAN

----
(* X11: libX11 and another library, symbols of both, a display, and then the
   extension.  The thread of a capture needs more symbols than its probe; an
   injection asks for those of its probe. *)
DisplaySymbols == {"XOpenDisplay", "XCloseDisplay"}
Xinput2ProbeSymbols == DisplaySymbols \cup {"XQueryExtension", "XIQueryVersion"}
Xinput2CaptureSymbols ==
    Xinput2ProbeSymbols \cup
    {"XDefaultRootWindow", "XPending", "XNextEvent", "XGetEventData", "XFreeEventData", "XFlush",
     "XISelectEvents"}
XtestProbeSymbols ==
    DisplaySymbols \cup
    {"XTestQueryExtension", "XKeysymToKeycode", "XFlush", "XTestFakeRelativeMotionEvent",
     "XTestFakeButtonEvent", "XTestFakeKeyEvent"}
XtestInjectionSymbols == XtestProbeSymbols
XrandrGeometrySymbols ==
    DisplaySymbols \cup {"XDefaultRootWindow", "XQueryPointer", "XRRGetMonitors", "XRRFreeMonitors"}

Opening(x, lib, symbols) ==
    << <<"libX11" \in x.libs, "X11LibraryUnavailable">>,
       <<lib \in x.libs, "LibraryUnavailable">>,
       <<symbols \cap x.missing = {}, "SymbolUnavailable">>,
       <<x.opens, "DisplayUnavailable">> >>

xinput2_extension(x) ==
    << <<x.xinput # Unset, "ExtensionUnavailable">>,
       <<x.xinput # Unset /\ x.xinput >= 2, "VersionUnsupported">> >>
xtest_extension(x) == << <<x.xtest, "ExtensionUnavailable">> >>

probe_xinput2(x) == Verdict(Opening(x, "libXi", Xinput2ProbeSymbols) \o xinput2_extension(x))
probe_xtest(x)   == Verdict(Opening(x, "libXtst", XtestProbeSymbols) \o xtest_extension(x))

X11CaptureStarts(x) == Verdict(Opening(x, "libXi", Xinput2CaptureSymbols) \o xinput2_extension(x))
X11Injects(x)       == Verdict(Opening(x, "libXtst", XtestInjectionSymbols) \o xtest_extension(x))

(* The union of rectangles, in saturating arithmetic. *)
union_logical_rects(rects) ==
    LET left   == Min({r.left : r \in rects})
        top    == Min({r.top : r \in rects})
        right  == Max({G!Right(r) : r \in rects})
        bottom == Max({G!Bottom(r) : r \in rects})
    IN [left |-> left, top |-> top,
        width |-> G!Saturate(right - left), height |-> G!Saturate(bottom - top)]

ValidMonitors(monitors) == {b \in monitors : G!IsValid(b)}

probe_geometry(x) ==
    LET valid  == ValidMonitors(x.monitors)
    IN Verdict(Opening(x, "libXrandr", XrandrGeometrySymbols) \o
               << <<x.pointer # Unset, "PointerUnavailable">>,
                  <<x.monitors # {}, "MonitorQueryFailed">>,
                  <<valid # {}, "EmptyMonitorSet">>,
                  <<x.pointer # Unset /\ valid # {} =>
                        G!Inside(union_logical_rects(valid), x.pointer),
                    "PointerOutsideMonitorLayout">> >>)

(* Mutant: one probe for capture and injection. *)
CapabilitiesFromOneProbe(x) ==
    IF probe_xinput2(x) = "Available" THEN AllCapabilities ELSE {}

linux_x11_capabilities(x) ==
    (IF probe_xinput2(x) = "Available" THEN CaptureCapabilities ELSE {})
        \cup (IF probe_xtest(x) = "Available" THEN InjectCapabilities ELSE {})

linux_x11_diagnostic_issues(x) ==
    {<<"capture", probe_xinput2(x)>>, <<"injection", probe_xtest(x)>>,
     <<"geometry", probe_geometry(x)>>}

----
(* Wayland: nothing is done, and what stands in the way is named. *)
SessionBus(env) ==
    IF env.bus = Unset
    THEN IF env.runtimeBus THEN "RuntimeDirFallbackAvailable" ELSE "Missing"
    ELSE IF env.bus = "unix:" THEN "AddressAvailable" ELSE "UnsupportedAddress"

WaylandObstacle(env, which) ==
    IF which \notin {"gnome", "kde"} THEN "compositor_unverified"
    ELSE CASE SessionBus(env) = "Missing"            -> "session_bus_unavailable"
           [] SessionBus(env) = "UnsupportedAddress" -> "session_bus_unsupported"
           [] OTHER                                  -> "portal_probe_required"

linux_wayland_diagnostic_issues(env, which) ==
    {<<part, WaylandObstacle(env, which)>> : part \in {"capture", "injection", "libei"}}
        \cup {<<"compositor", which>>}

----
(* Windows: the hooks are tried out, a movement of nothing is sent.  The
   thread of a capture also needs a window and its raw input. *)
probe_windows_capabilities(w) ==
    (IF w.desktop /\ w.mouseHook THEN {"capture_pointer"} ELSE {})
        \cup (IF w.desktop /\ w.keyboardHook THEN {"capture_keyboard"} ELSE {})
        \cup (IF w.sends THEN InjectCapabilities ELSE {})

WindowsCaptureStarts(w) ==
    Verdict(<< <<w.desktop, "Desktop">>, <<w.window, "Window">>, <<w.rawInput, "RawInput">>,
               <<w.mouseHook, "MouseHook">>, <<w.keyboardHook, "KeyboardHook">> >>)

read_windows_desktop_geometry(w) ==
    Verdict(<< <<w.pointer # Unset, "PointerUnavailable">>, <<G!IsValid(w.bounds), "NoBounds">> >>)

----
(* The adapter, whichever it is. *)
probe_capabilities(m) ==
    CASE SessionOf(m).kind = "Windows"  -> probe_windows_capabilities(m.w)
      [] SessionOf(m).kind = "LinuxX11" -> linux_x11_capabilities(m.x)
      [] OTHER                          -> {}

diagnostic_permission_issues(m) ==
    LET s == SessionOf(m)
    IN CASE s.kind = "Windows"      -> {}
         [] s.kind = "LinuxX11"     -> linux_x11_diagnostic_issues(m.x)
         [] s.kind = "LinuxWayland" -> linux_wayland_diagnostic_issues(m.env, s.desktop)
         [] OTHER                   -> {<<"capture", s.kind>>, <<"injection", s.kind>>}

read_desktop_geometry(m) ==
    CASE SessionOf(m).kind = "Windows"  -> read_windows_desktop_geometry(m.w)
      [] SessionOf(m).kind = "LinuxX11" -> probe_geometry(m.x)
      [] OTHER                          -> "NotAvailable"

start_input_capture(m) ==
    CASE SessionOf(m).kind = "Windows"  -> WindowsCaptureStarts(m.w)
      [] SessionOf(m).kind = "LinuxX11" -> X11CaptureStarts(m.x)
      [] OTHER                          -> "NotAvailable"

(* An event the adapter knows, up to the operating system's answer to it. *)
inject_input(m) ==
    CASE SessionOf(m).kind = "Windows"  -> IF m.w.sends THEN "Available" ELSE "Rejected"
      [] SessionOf(m).kind = "LinuxX11" -> X11Injects(m.x)
      [] OTHER                          -> "NotAvailable"

(* permissions.probe: what the adapter reports, and what is missing; the
   daemon takes any issue for a loss of permission, and recovers. *)
build_permissions_probe(m) ==
    diagnostic_permission_issues(m)
        \cup {<<"missing", c>> : c \in AllCapabilities \ probe_capabilities(m)}

ProbeRecovers(m) == build_permissions_probe(m) # {}

required_input_capabilities_available(m) == AllCapabilities \subseteq probe_capabilities(m)

----
(* What is found to be possible is possible, and nothing else is: a capture
   starts only where both capabilities of capture were reported, and where
   they were, only a symbol, a window or raw input that no probe asks for
   keeps it from starting; an injection reaches the operating system exactly
   where those of injection were.  On X11 the issue reported for a part says
   it is available exactly when it is.  A geometry has the pointer inside, and
   every monitor, unless the desktop is wider than the integers.  And
   permissions.probe recovers whenever something is missing, on Windows only
   then. *)
IsTruthfulOn(m) ==
    LET caps == probe_capabilities(m)
        x11  == SessionOf(m).kind = "LinuxX11"
    IN /\ start_input_capture(m) = "Available" => CaptureCapabilities \subseteq caps
       /\ CaptureCapabilities \subseteq caps =>
             start_input_capture(m) \in {"Available", "SymbolUnavailable", "Window", "RawInput"}
       /\ inject_input(m) = "Available" <=> InjectCapabilities \subseteq caps
       /\ caps \cap InjectCapabilities \in {{}, InjectCapabilities}
       /\ x11 =>
             /\ <<"capture", "Available">> \in build_permissions_probe(m)
                    <=> CaptureCapabilities \subseteq caps
             /\ <<"injection", "Available">> \in build_permissions_probe(m)
                    <=> inject_input(m) = "Available"
             /\ <<"geometry", "Available">> \in build_permissions_probe(m)
                    <=> read_desktop_geometry(m) = "Available"
       /\ x11 /\ read_desktop_geometry(m) = "Available" =>
             LET all == union_logical_rects(ValidMonitors(m.x.monitors))
             IN /\ G!Inside(all, m.x.pointer)
                /\ \A b \in ValidMonitors(m.x.monitors) :
                      /\ all.left <= b.left /\ all.top <= b.top
                      /\ all.width < IntMax => G!Right(b) <= G!Right(all)
                      /\ all.height < IntMax => G!Bottom(b) <= G!Bottom(all)
       /\ ~required_input_capabilities_available(m) => ProbeRecovers(m)
       /\ m.os = "windows" /\ ProbeRecovers(m) => ~required_input_capabilities_available(m)
=============================================================================
