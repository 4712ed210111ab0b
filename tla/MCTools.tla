------------------------------- MODULE MCTools -------------------------------
(* Parts that have nothing to do with each other, each with the operator's   *)
(* tool beside it, checked one at a time: `part` is the one that moves.      *)
EXTENDS Clock, Start, FanTools, Port, Panel, Gauge, Setup

VARIABLE part
Parts == {"clock", "start", "fan", "port", "panel", "gauge", "setup"}

MCVendors == {"argononed", "argononeupsd", "argonupsrtcd", "argononeupd"}

Default ==
    [mode |-> "full", curve |-> <<<<55, 30>>, <<60, 55>>, <<65, 100>>>>, safe |-> 55, poll |-> 5,
     lid_action |-> "power-save", lid_delay |-> 1, button |-> "shutdown", refresh |-> 5,
     dialect |-> "legacy", low |-> 20, critical |-> 10, recover_margin |-> 5, confirmations |-> 3,
     delay |-> 2, source |-> "serial", sync |-> TRUE, oled |-> TRUE,
     telemetry |-> FALSE, listens |-> TRUE]

Good ==
    {[Default EXCEPT !.mode = m, !.source = s, !.sync = c] :
       m \in {"read-only", "managed", "full"}, s \in {"serial", "oneup", "hid"}, c \in BOOLEAN}

Odd ==
    {[Default EXCEPT !.curve = c] : c \in {<<>>, <<<<60, 55>>, <<55, 30>>>>, <<<<55, 30>>, <<55, 30>>>>,
                                          <<<<60, 30>>, <<55, 55>>>>, <<<<55, 101>>>>}}
    \cup {[Default EXCEPT !.mode = "ful"], [Default EXCEPT !.safe = 0], [Default EXCEPT !.poll = 15],
          [Default EXCEPT !.low = 101], [Default EXCEPT !.critical = 20], [Default EXCEPT !.confirmations = 0],
          [Default EXCEPT !.recover_margin = 0], [Default EXCEPT !.delay = 31], [Default EXCEPT !.dialect = "auto"],
          [Default EXCEPT !.source = "usb"], [Default EXCEPT !.lid_delay = 61], [Default EXCEPT !.refresh = 0],
          [Default EXCEPT !.telemetry = TRUE, !.listens = FALSE]}

MCConfigs == Good \cup Odd

I2c(s, c) == [section |-> s, what |-> "i2c_arm=on", commented |-> c]
MCBootFiles ==
    {[lines |-> {I2c("", TRUE)}, tail |-> "all"], [lines |-> {I2c("pi5", FALSE)}, tail |-> "pi5"],
     [lines |-> {I2c("pi5", FALSE)}, tail |-> "all"]}

MCCurrents == {-3008, -200, -199, 0, 200}

-----------------------------------------------------------------------------
(* What a part that does not move is: one of its initial states.            *)

Still(p, at_rest) == part # p => at_rest

MCInit ==
    /\ part \in Parts
    /\ Init /\ Still("clock", ups = 0 /\ obeys)
    /\ StartInit /\ Still("start", file = Default /\ running = {})
    /\ FanToolsInit /\ Still("fan", dialect = "legacy" /\ firmware = "none" /\ ~writable)
    /\ PortInit /\ Still("port", unit = NoUnit /\ ~vendor)
    /\ PanelInit /\ Still("panel", page = CHOOSE p \in Pages : TRUE)
    /\ GaugeInit /\ Still("gauge", soc = CHOOSE s \in Socs : TRUE)
    /\ Still("gauge", current = 0 /\ chip = "nothing")
    /\ SetupInit /\ (readable \/ startable)   \* one of them at a time
    /\ Still("setup", /\ board = "pi4" /\ readable /\ startable
                      /\ tail = "all" /\ lines = {I2c("", TRUE)} /\ devices = {}
                      /\ fitted = {} /\ ~installed /\ guests = {})

MCNext ==
    /\ UNCHANGED part
    /\ \/ part = "clock" /\ Next /\ UNCHANGED <<startVars, fanToolVars, portVars, panelVars, gaugeVars, setupVars>>
       \/ part = "start" /\ StartNext /\ UNCHANGED <<vars, fanToolVars, portVars, panelVars, gaugeVars, setupVars>>
       \/ part = "fan" /\ FanToolsNext /\ UNCHANGED <<vars, startVars, portVars, panelVars, gaugeVars, setupVars>>
       \/ part = "port" /\ PortNext /\ UNCHANGED <<vars, startVars, fanToolVars, panelVars, gaugeVars, setupVars>>
       \/ part = "panel" /\ PanelNext /\ UNCHANGED <<vars, startVars, fanToolVars, portVars, gaugeVars, setupVars>>
       \/ part = "gauge" /\ GaugeNext /\ UNCHANGED <<vars, startVars, fanToolVars, portVars, panelVars, setupVars>>
       \/ part = "setup" /\ SetupNext /\ UNCHANGED <<vars, startVars, fanToolVars, portVars, panelVars, gaugeVars>>

toolsVars == <<part, vars, startVars, fanToolVars, portVars, panelVars, gaugeVars, setupVars>>

\* The fairness of Spec, StartSpec, PanelSpec and SetupSpec, for the part that moves.
MCSpec ==
    /\ MCInit /\ [][MCNext]_toolsVars
    /\ WF_vars(part = "clock" /\ Check) /\ WF_vars(part = "clock" /\ ArgondStarts)
    /\ WF_vars(part = "clock" /\ Tick) /\ WF_vars(part = "clock" /\ NtpSyncs)
    /\ WF_vars(part = "clock" /\ Experiment) /\ WF_vars(part = "clock" /\ WakeExperiment)
    /\ WF_startVars(part = "start" /\ Run)
    /\ WF_panelVars(part = "panel" /\ Draws) /\ WF_panelVars(part = "panel" /\ StartDrawing)
    /\ WF_panelVars(part = "panel" /\ StopPost1306) /\ WF_panelVars(part = "panel" /\ Attach)
    /\ WF_setupVars(part = "setup" /\ RunSetup) /\ WF_setupVars(part = "setup" /\ Follow)
=============================================================================
