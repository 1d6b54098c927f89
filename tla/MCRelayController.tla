-------------------------- MODULE MCRelayController --------------------------
(* A relay box that routes to itself, and a temperature box. *)
EXTENDS RelayController
CONSTANTS r, t, in

MCRelays == {r}
MCTemps == {t}
MCAddresses == <<r, t>>
MCInputs == {in}
To(v) == [box |-> r, put |-> [input |-> in, value |-> v]]
MCRoutings == {<<>>, <<To(1)>>, <<To(1), To(0)>>}
MCCommands ==
    {c \in [kind : {"set", "trigger", "getGate", "setGate", "status"},
            box : {r}, input : MCInputs, value : {0, 1}] :
        c.value = 1 => c.kind \in {"set", "setGate"}}
=============================================================================
