----------------------------- MODULE MCLifecycle -----------------------------
(***************************************************************************)
(* Two daemons over time, the application's commands and one other client. *)
(***************************************************************************)
EXTENDS Lifecycle

CONSTANTS d1, d2, app, ctl

MCDaemons == {d1, d2}
MCCallers == {ctl}
MCClients == {app, ctl}
MCHeeding == {app}
MCKinds == {"os", "sidecar"}

MCColon == {"a:b"}
MCAt == {"a@b"}
MCBlank == {"a b"}
MCAddresses == {"ip:1", "ip:2"}

MCBodies == {"", "a", "b", "a:b", "a@b", "a b", "ip:1", "ip:2", "nowhere", "123456", "store",
             "name", "marker", "b$x", "b;x"}
(* An unset variable is read as nothing; a semicolon ends the command. *)
MCShellReads == [b \in MCBodies |-> IF b \in {"b$x", "b;x"} THEN "b" ELSE b]
MCEnding == {"b;x"}

MCTexts(bodies) == [body : bodies, padded : BOOLEAN]
MCPeers == MCTexts({"", "a", "b", "a:b", "a@b", "a b"})
MCBindings == [local : {"left"}, peer : MCPeers, remote : {"right", "top"}]
MCBindingLists == {<<>>} \cup {<<b>> : b \in MCBindings} \cup {<<b, c>> : b, c \in MCBindings}
MCListens == MCTexts({"", "ip:1", "nowhere", "a b"})
MCManual == [peer : MCTexts({"a", "b", "a@b"}), address : MCTexts({"", "ip:1", "ip:2", "nowhere"})]
MCManualLists == {<<e, f, g>> : e, f, g \in [peer : MCTexts({"a", "b"}), address : MCTexts({"", "ip:1", "ip:2"})]}
                 \cup {<<e>> : e \in MCManual}

MCOptions == [capture : BOOLEAN, listen : MCListens, bindings : MCBindingLists]
MCSettings ==
    [capture : {TRUE}, listen : MCTexts({"ip:1", "nowhere"}), bindings : MCBindingLists,
     manual : {<<>>}]
    \cup [capture : {FALSE}, listen : MCTexts({""}), bindings : {<<>>}, manual : MCManualLists]

MCWords == MCTexts({"", "a", "a b", "a:b", "b$x"})
MCArg(flag, values) == [flag : {flag}, value : values]
MCSessions == [peer : MCTexts({"a", "a@b"}), address : {Text("ip:1"), Text("nowhere")}]
MCArgs == MCArg("--capture-input", {Text("")})
          \cup MCArg("--edge-binding", [local : {"left"}, peer : MCWords, remote : {"right"}])
          \cup MCArg("--peer-listen", MCTexts({"ip:1", "nowhere"}))
          \cup MCArg("--peer-session", MCSessions)
          \cup UNION {MCArg(f, MCTexts({"a", "a b", "b$x", "b;x"})) : f \in WordFlags}
MCArgLists == UNION {[1..n -> MCArgs] : n \in 0..2}
              \cup {<<a, store, b>> : a, b \in MCArgs, store \in MCArg("--identity-store", {Text("a")})}
MCWordTexts == MCTexts({"", "a", "a b", "a@b", "ip:1", "123456"})
MCCodes == {"123456"}

MCSamples == {[i \in 1..n |-> ((i * 7 + 3) % n) * k] : n \in {1, 2, 4, 19, 20, 21, 100, 101},
                                                       k \in {0, 1, 3}}
=============================================================================
