--------------------------- MODULE AcceptanceProbe ---------------------------
(***************************************************************************)
(* The measurement that direct keying must pass before it is used          *)
(* (desktop/transmit/direct_keying_acceptance_probe.cpp): with the radio   *)
(* disconnected and a plug that loops RTS to CTS and DTR to DSR, each line *)
(* is raised and lowered and both inputs are read.  A bench is the plug    *)
(* and the port it is on: what it feeds back and which writes it refuses.  *)
(***************************************************************************)
EXTENDS Naturals, Sequences

Lines == {"rts", "dtr"}
Plugs == {"straight", "crossed", "joined", "absent"}
Benches == [plug : Plugs, opens : BOOLEAN, refuses : SUBSET (Lines \X BOOLEAN)]

(* What the inputs show of the outputs: CTS answers to RTS, DSR to DTR.     *)
ReadInputs(bench, out) ==
  CASE bench.plug = "straight" -> out
    [] bench.plug = "crossed" -> [rts |-> out.dtr, dtr |-> out.rts]
    [] bench.plug = "joined" -> [line \in Lines |-> out.rts \/ out.dtr]
    [] bench.plug = "absent" -> [line \in Lines |-> FALSE]

Quiet == [line \in Lines |-> FALSE]
SetOutput(bench, out, line, level) ==
  IF <<line, level>> \in bench.refuses THEN out ELSE [out EXCEPT ![line] = level]

(* Defect: the other input is not looked at. *)
SenseOwnInput(bench, out, line, expected) == ReadInputs(bench, out)[line] = expected

WaitForSense(bench, out, line, expected) ==
  LET inputs == ReadInputs(bench, out)
  IN  /\ inputs[line] = expected
      /\ \A other \in Lines \ {line} : ~inputs[other]

ValidConfig(config) == config.ptt # config.key

(* The steps of a measurement: a line driven, or one read.                  *)
Drive(line, level) == [op |-> "drive", line |-> line, level |-> level]
Sense(line, level) == [op |-> "sense", line |-> line, level |-> level]
Baseline(config) ==
  <<Drive(config.key, FALSE), Drive(config.ptt, FALSE),
    Sense(config.ptt, FALSE), Sense(config.key, FALSE)>>
Pulse(line) ==
  <<Drive(line, TRUE), Sense(line, TRUE), Drive(line, FALSE), Sense(line, FALSE)>>

(* KEY and then PTT are lowered however the measurement ended, and a        *)
(* refused KEY does not keep PTT from being tried.                          *)
ReleaseAndClose(bench, config, out) ==
  SetOutput(bench, SetOutput(bench, out, config.key, FALSE), config.ptt, FALSE)
Released(bench, config) ==
  \A line \in {config.key, config.ptt} : <<line, FALSE>> \notin bench.refuses

ProbeStep(bench, r, step) ==
  IF ~r.passed THEN r
  ELSE IF step.op = "drive"
    THEN [passed |-> <<step.line, step.level>> \notin bench.refuses,
          out |-> SetOutput(bench, r.out, step.line, step.level)]
    ELSE [r EXCEPT !.passed = WaitForSense(bench, r.out, step.line, step.level)]

Measurement(config) == Baseline(config) \o Pulse(config.ptt) \o Pulse(config.key)
(* What was found, and how the lines were left, after each step.            *)
Measured(config, bench) ==
  LET after[n \in 0..Len(Measurement(config))] ==
        IF n = 0 THEN [passed |-> TRUE, out |-> Quiet]
        ELSE ProbeStep(bench, after[n - 1], Measurement(config)[n])
  IN  after

RunProbe(config, bench, confirmed) ==
  IF ~confirmed \/ ~ValidConfig(config) \/ ~bench.opens THEN [passed |-> FALSE, out |-> Quiet]
  ELSE LET ended == Measured(config, bench)[Len(Measurement(config))]
       IN  [passed |-> ended.passed /\ Released(bench, config),
            out |-> ReleaseAndClose(bench, config, ended.out)]
=============================================================================
