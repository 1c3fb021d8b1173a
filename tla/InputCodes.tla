----------------------------- MODULE InputCodes -----------------------------
(***************************************************************************)
(* What a key, a button or a wheel step is called on its way: the code the *)
(* operating system reports, the PhysicalKey or MouseButton it is captured *)
(* as, the name on the wire, and the code the peer's operating system is   *)
(* asked to inject.  Two capture paths on Windows (raw input, and the hook *)
(* that stands in for it) and one on X11; one injection path each.         *)
(*                                                                         *)
(* A key of the keyboard is known by its set 1 scan code, with or without  *)
(* the E0 prefix, and by its evdev code; the virtual key Windows derives   *)
(* from the scan code is told apart for modifiers and Backspace only.      *)
(***************************************************************************)
EXTENDS Integers, Sequences, SequencesExt

CONSTANTS
    Keyboard,   \* [name, scan, extended, evdev]; name is "Code" for a plain key
    NoKey       \* Option::None, and an Err

Modifiers == {"LeftShift", "RightShift", "LeftControl", "RightControl",
              "LeftAlt", "RightAlt", "LeftMeta", "RightMeta"}

(* A modifier, and no other key, has its evdev code, and its scan code. *)
HasCodes(k, name, scan, extended, evdev) ==
    /\ k.name = name => k.scan = scan /\ k.extended = extended /\ k.evdev = evdev
    /\ k.evdev = evdev => k.name = name

(* The codes of a keyboard: no two keys share one, and the evdev code of a key
   with an E0 prefix is not its scan code. *)
ASSUME KeyboardAssumption ==
    /\ NoKey \notin 0..255
    /\ \A k \in Keyboard :
          /\ k.name \in Modifiers \cup {"Backspace", "Code"}
          /\ k.scan \in 1..127 /\ k.extended \in BOOLEAN /\ k.evdev \in 1..247
          /\ k.extended => k.scan # k.evdev
          /\ k.name = "Backspace" => k.scan = 14 /\ ~k.extended /\ k.evdev = 14
    /\ \A k \in Keyboard :
          /\ HasCodes(k, "LeftShift", 42, FALSE, 42)   /\ HasCodes(k, "RightShift", 54, FALSE, 54)
          /\ HasCodes(k, "LeftControl", 29, FALSE, 29) /\ HasCodes(k, "RightControl", 29, TRUE, 97)
          /\ HasCodes(k, "LeftAlt", 56, FALSE, 56)     /\ HasCodes(k, "RightAlt", 56, TRUE, 100)
          /\ HasCodes(k, "LeftMeta", 91, TRUE, 125)    /\ HasCodes(k, "RightMeta", 92, TRUE, 126)
    /\ \A k, l \in Keyboard :
          (k.scan = l.scan /\ k.extended = l.extended) \/ k.evdev = l.evdev => k = l

MaxCode == 65535  \* codes have 16 bits

Named(name) == [name |-> name, code |-> 0]
Code(c)     == [name |-> "Code", code |-> c]

DEFAULT_PANIC_HOTKEY_KEY == Code(14)

----
(* Capture on Windows.  The hook is told which of two modifiers it is, raw
   input reports the generic virtual key with the scan code and E0. *)
physical_key_from_windows_hook(k) ==
    IF k.name \in Modifiers THEN Named(k.name)
    ELSE IF k.name = "Backspace" THEN DEFAULT_PANIC_HOTKEY_KEY
    ELSE Code(k.scan)

GenericVKey(k) ==
    CASE k.name \in {"LeftShift", "RightShift"}     -> "Shift"
      [] k.name \in {"LeftControl", "RightControl"} -> "Control"
      [] k.name \in {"LeftAlt", "RightAlt"}         -> "Menu"
      [] OTHER                                      -> k.name

physical_key_from_windows_raw_keyboard(k) ==
    LET vkey == GenericVKey(k) IN
    CASE vkey = "Shift"     -> Named(IF k.scan = 54 THEN "RightShift" ELSE "LeftShift")
      [] vkey = "Control"   -> Named(IF k.extended THEN "RightControl" ELSE "LeftControl")
      [] vkey = "Menu"      -> Named(IF k.extended THEN "RightAlt" ELSE "LeftAlt")
      [] vkey \in Modifiers -> Named(vkey)
      [] vkey = "Backspace" -> DEFAULT_PANIC_HOTKEY_KEY
      [] OTHER              -> Code(k.scan)

(* Capture on X11, from the keycode of a raw event. *)
XORG_EVDEV_KEYCODE_OFFSET == 8

EvdevModifier ==
    [c \in {42, 54, 29, 97, 56, 100, 125, 126} |->
        CASE c = 42 -> "LeftShift"   [] c = 54  -> "RightShift"
          [] c = 29 -> "LeftControl" [] c = 97  -> "RightControl"
          [] c = 56 -> "LeftAlt"     [] c = 100 -> "RightAlt"
          [] c = 125 -> "LeftMeta"   [] c = 126 -> "RightMeta"]

physical_key_from_linux_x11_keycode(keycode) ==
    LET code == keycode - XORG_EVDEV_KEYCODE_OFFSET IN
    IF keycode <= XORG_EVDEV_KEYCODE_OFFSET \/ keycode > 255 THEN NoKey
    ELSE IF code \in DOMAIN EvdevModifier THEN Named(EvdevModifier[code])
    ELSE Code(code)

----
(* The wire.  A name and, behind a prefix, a number of 16 bits. *)
WireModifier ==
    [m \in Modifiers |->
        CASE m = "LeftShift" -> "leftShift"     [] m = "RightShift" -> "rightShift"
          [] m = "LeftControl" -> "leftControl" [] m = "RightControl" -> "rightControl"
          [] m = "LeftAlt" -> "leftAlt"         [] m = "RightAlt" -> "rightAlt"
          [] m = "LeftMeta" -> "leftMeta"       [] m = "RightMeta" -> "rightMeta"]

physical_key_name(key) ==
    IF key.name = "Code" THEN [text |-> "code:", number |-> key.code]
    ELSE [text |-> WireModifier[key.name], number |-> 0]

parse_physical_key_name(value) ==
    IF \E m \in Modifiers : WireModifier[m] = value.text
    THEN Named(CHOOSE m \in Modifiers : WireModifier[m] = value.text)
    ELSE IF value.text = "code:" /\ value.number \in 0..MaxCode THEN Code(value.number)
    ELSE NoKey

----
(* Injection on Windows: a scan code with or without the extended flag.  The
   keys that answer to it, of which there is one at most. *)
windows_scan_code_for_physical_key(key) ==
    CASE key.name = "LeftShift"    -> <<42, FALSE>>
      [] key.name = "RightShift"   -> <<54, FALSE>>
      [] key.name = "LeftControl"  -> <<29, FALSE>>
      [] key.name = "RightControl" -> <<29, TRUE>>
      [] key.name = "LeftAlt"      -> <<56, FALSE>>
      [] key.name = "RightAlt"     -> <<56, TRUE>>
      [] key.name = "LeftMeta"     -> <<91, TRUE>>
      [] key.name = "RightMeta"    -> <<92, TRUE>>
      [] OTHER                     -> <<key.code, FALSE>>

WindowsInjects(key) ==
    {k \in Keyboard : <<k.scan, k.extended>> = windows_scan_code_for_physical_key(key)}

(* Mutant: the code is sent as the keycode. *)
KeycodeWithoutOffset(code) == IF code = 0 \/ code > 255 THEN NoKey ELSE code

(* Injection on X11: a modifier by its keysym, any other key by its keycode,
   an error for a code that has none. *)
linux_x11_keycode_from_physical_code(code) ==
    IF code = 0 \/ code + XORG_EVDEV_KEYCODE_OFFSET > 255 THEN NoKey
    ELSE code + XORG_EVDEV_KEYCODE_OFFSET

LinuxX11Injects(key) ==
    IF key.name # "Code" THEN {k \in Keyboard : k.name = key.name}
    ELSE {k \in Keyboard :
            k.evdev + XORG_EVDEV_KEYCODE_OFFSET = linux_x11_keycode_from_physical_code(key.code)}

----
(* Buttons are numbers on X11 and flags on Windows; the wheel is buttons 4 to
   7 on X11, and steps of 120 in both. *)
Buttons == {"Left", "Right", "Middle", "Back", "Forward"}
LINUX_X11_SCROLL_DELTA_PER_CLICK == 120

Scroll(dx, dy) == [kind |-> "scroll", dx |-> dx, dy |-> dy]
Button(b)      == [kind |-> "button", button |-> b]

captured_press_from_linux_x11_raw_button(detail) ==
    CASE detail = 1 -> Button("Left")
      [] detail = 2 -> Button("Middle")
      [] detail = 3 -> Button("Right")
      [] detail = 4 -> Scroll(0, LINUX_X11_SCROLL_DELTA_PER_CLICK)
      [] detail = 5 -> Scroll(0, -LINUX_X11_SCROLL_DELTA_PER_CLICK)
      [] detail = 6 -> Scroll(-LINUX_X11_SCROLL_DELTA_PER_CLICK, 0)
      [] detail = 7 -> Scroll(LINUX_X11_SCROLL_DELTA_PER_CLICK, 0)
      [] detail = 8 -> Button("Back")
      [] detail = 9 -> Button("Forward")
      [] OTHER      -> Button("Other")

linux_x11_mouse_button_number(b) ==
    CASE b = "Left" -> 1 [] b = "Middle" -> 2 [] b = "Right" -> 3
      [] b = "Back" -> 8 [] b = "Forward" -> 9 [] OTHER -> NoKey

linux_x11_scroll_click_count(delta) ==
    ((IF delta < 0 THEN -delta ELSE delta) + LINUX_X11_SCROLL_DELTA_PER_CLICK - 1)
        \div LINUX_X11_SCROLL_DELTA_PER_CLICK

ScrollClicks(delta, positive, negative) ==
    [i \in 1..linux_x11_scroll_click_count(delta) |-> IF delta > 0 THEN positive ELSE negative]

(* The buttons clicked, first vertically; each is pressed and lifted. *)
linux_x11_scroll_button_events(dx, dy) == ScrollClicks(dy, 4, 5) \o ScrollClicks(dx, 7, 6)

LinuxX11Clicks(input) ==
    IF input.kind = "scroll" THEN linux_x11_scroll_button_events(input.dx, input.dy)
    ELSE LET number == linux_x11_mouse_button_number(input.button)
         IN IF number = NoKey THEN << >> ELSE <<number>>

----
OnTheWire(key) == parse_physical_key_name(physical_key_name(key))

CapturedOn(platform, k) ==
    IF platform = "x11"
    THEN physical_key_from_linux_x11_keycode(k.evdev + XORG_EVDEV_KEYCODE_OFFSET)
    ELSE physical_key_from_windows_raw_keyboard(k)

InjectedOn(platform, key) ==
    IF platform = "x11" THEN LinuxX11Injects(key) ELSE WindowsInjects(key)

(* Keys whose plain code means the same on both ends. *)
CodeCarries(k, source, target) ==
    \/ source = "x11" /\ target = "x11"
    \/ ~k.extended /\ (source = target \/ k.scan = k.evdev)

(* A key that is captured on one platform and sent over the wire is injected
   on the other as itself exactly if it is a modifier, or if both ends are
   X11, or if it has no E0 prefix and, between Windows and X11, its scan code
   is its evdev code; any other key arrives as another key, or as none.  Both
   capture paths of Windows agree, Backspace of the panic hotkey is recognised
   on every platform, a button or wheel step of X11 is injected on X11 as the
   same, and a wheel movement of less than a step as one. *)
InputArrives ==
    /\ \A k \in Keyboard, source, target \in {"x11", "windows"} :
          InjectedOn(target, OnTheWire(CapturedOn(source, k))) = {k}
              <=> k.name \in Modifiers \/ CodeCarries(k, source, target)
    /\ \A k \in Keyboard :
          /\ physical_key_from_windows_hook(k) = physical_key_from_windows_raw_keyboard(k)
          /\ k.name = "Backspace" =>
                \A p \in {"x11", "windows"} : CapturedOn(p, k) = DEFAULT_PANIC_HOTKEY_KEY
    /\ \A n \in 1..9 : LinuxX11Clicks(captured_press_from_linux_x11_raw_button(n)) = <<n>>
    /\ \A d \in 1..LINUX_X11_SCROLL_DELTA_PER_CLICK :
          LinuxX11Clicks(Scroll(0, d)) = <<4>> /\ LinuxX11Clicks(Scroll(0, -d)) = <<5>>
=============================================================================
