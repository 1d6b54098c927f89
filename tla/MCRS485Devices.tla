---------------------------- MODULE MCRS485Devices ----------------------------
(* An AVDS and a Rosen device on one port. *)
EXTENDS RS485Devices

MCTasks == {avds, rosen}
MCKinds == {"initialise", "ping", "command", "lift", "get"}
MCTells == {"lift"}
MCPlain == {"lift"}
MCRaw == {"get"}
=============================================================================
