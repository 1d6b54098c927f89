------------------------- MODULE MCDiscreteOutputs -------------------------
(* Instances of DiscreteOutputs for TLC. *)
EXTENDS DiscreteOutputs

Config(mode, blink, a, b, syncMax) ==
    [mode |-> mode, inv |-> FALSE, bypass |-> FALSE, bypassEn |-> FALSE,
     blink |-> blink, a |-> a, b |-> b, syncMax |-> syncMax]

(* Blinking in both modes, with periods of two lengths; steady outputs; the
   bypass.  A command may switch between any two of them. *)
MCConfigs == {Config("BLINK_ASYNC", "EN", 0, 3, 3), Config("BLINK_ASYNC", "NORMAL", 1, 2, 3),
              Config("BLINK_SYNC", "INV", 1, 2, 2),
              [Config("BLINK_SYNC", "EN", 0, 3, 1) EXCEPT !.inv = TRUE],
              Config("HIGH", "EN", 0, 0, 0), Config("LOW", "EN", 0, 0, 0),
              Config("DIRECT", "EN", 0, 0, 0)}
             \cup {[Config("DIRECT", "EN", 0, 0, 0) EXCEPT !.bypass = b, !.inv = ~b,
                                                          !.bypassEn = TRUE] : b \in BOOLEAN}
=============================================================================
