-------------------------- MODULE MCDiscreteInputs --------------------------
(* Instances of DiscreteInputs for TLC. *)
EXTENDS DiscreteInputs

Config(mode, debounceEn, bypassEn) ==
    [mode |-> mode, bypassEn |-> bypassEn, val |-> 2,
     debounceDly |-> 2, rptStartDly |-> 2, rptDly |-> 1, debounceEn |-> debounceEn]

(* Debounced or not, bypassed or not, in several modes and with two sets of
   delays.  A command may switch between any two of them. *)
MCConfigs == {Config(m, d, FALSE) : m \in {"DIRECT", "EDGE_LOW_GOING", "EDGE_BOTH"},
                                    d \in BOOLEAN}
             \cup {Config("TOGGLE_LOW_GOING", TRUE, FALSE), Config("INV", FALSE, FALSE)}
             \cup {[Config("DIRECT", d, TRUE) EXCEPT !.val = 1] : d \in BOOLEAN}
             \cup {[Config("EDGE_LOW_GOING", TRUE, TRUE) EXCEPT !.debounceDly = 1,
                                                  !.rptStartDly = 0, !.rptDly = 0]}
=============================================================================
