------------------------ MODULE MCDIOConfiguration ------------------------
(* Instances of DIOConfiguration for TLC. *)
EXTENDS DIOConfiguration, Integers, TLC

MCInputConfigs == {"IN_PU", "IN_PD"}
MCOutputConfigs == {"OUT_OD_PU", "OUT_STD"}
\* Milliseconds, with ticks of 10 ms.
MCSettings == {30, 45, 720}
MCInTicks == [v \in MCSettings |-> v \div 10]

\* All pins are inputs, with the bypass that the last command has left open.
MCDefaults == [i \in Items |-> CASE i[2] = "pinConfig" -> "IN_PU"
                                 [] i[2] = "inBypass"  -> TRUE
                                 [] i[2] = "outBypass" -> FALSE
                                 [] i[2] = "sync"      -> 720
                                 [] OTHER              -> 30]

MCPins == {"p1", "p2"}
Direction(pin, configs) == [kind : {"direction"}, pin : {pin}, config : configs]
Input(pin, configs) ==
    [kind : {"input"}, pin : {pin}, config : configs, settings : {45}, bypass : {TRUE}]
Output(pin, configs) ==
    [kind : {"output"}, pin : {pin}, config : configs, settings : {45}, bypass : {TRUE}, sync : {45}]

\* "NONE" is neither an input nor an output.  One pin has commands of all kinds.
MCCommands ==
    Direction("p1", {"IN_PD", "OUT_STD", "NONE"})
      \cup Input("p1", {"IN_PD", "NONE"}) \cup Output("p1", {"OUT_STD", "IN_PD"})
      \cup Direction("p2", {"OUT_STD"}) \cup Input("p2", {"IN_PD"})

Symmetry == Permutations(Workers)
===========================================================================
