-------------------------- MODULE MCDeviceMessages --------------------------
(* Instances of DeviceMessages for TLC. *)
EXTENDS DeviceMessages

CONSTANTS s1, s2, a, b, c, x, y, m1, m2, m3

MCSenders == {s1, s2}
(* Two devices with one identifier, and one that finds the list full. *)
MCDevices3 == {a, b, c}
MCDeviceID == [d \in MCDevices3 |-> IF d = c THEN y ELSE x]
MCIds2 == {x, y}
MCNodes3 == {m1, m2, m3}
MCNodes2 == {m1, m2}
(* The second task sends once. *)
MCMaxSent == [s \in MCSenders |-> IF s = s1 THEN 2 ELSE 1]
(* The AVDS and Rosen devices have the priority of the TCP workers.  Or the
   devices are TCP remote controllers (5), to which ALTO Multinet devices (6)
   respond, which preempt them anywhere. *)
PriorityOf(senders, devices) ==
    [t \in MCSenders \cup MCDevices3 |-> IF t \in MCSenders THEN senders ELSE devices]
MCPriorities == {PriorityOf(2, 2), PriorityOf(6, 5)}

(* The TCP remote controller alone. *)
MCMaxSent2 == [s \in MCSenders |-> 2]
MCDevices1 == {a}
MCDeviceID1 == [d \in MCDevices1 |-> x]
MCIds1 == {x}
MCPrioritiesTCPRCBin ==
    {[t \in MCSenders \cup MCDevices1 |-> IF t = a THEN 5 ELSE IF t = s1 THEN 6 ELSE 2]}
=============================================================================
