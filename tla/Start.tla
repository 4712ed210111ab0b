-------------------------------- MODULE Start --------------------------------
(***************************************************************************)
(* How argond starts: the configuration (crates/argon-device/src/config.rs *)
(* and what it calls), the decisions of argon-daemon/src/startup.rs, and   *)
(* the order in which main.rs and the spawn functions make them, beside    *)
(* vendor services that start and stop and a systemctl that may not        *)
(* answer.  What a thread then does is the other modules' matter: here it  *)
(* is what it may touch.                                                   *)
(***************************************************************************)
EXTENDS Integers, Sequences, FiniteSets

CONSTANTS
    Configs,      \* configuration files: records of the keys below
    Vendors,      \* the vendor services that may be running
    MaxMoves      \* bound: starts and stops of those, questions unanswered, services missed

VARIABLES
    at,           \* the step of run: "load", "fan", "mode", "battery", "oled",
                  \* "button", "sensor", then "drives", "reports", "ups_only", "exit"
    file,         \* the configuration
    plan,         \* FanPlan, once it is known
    running,      \* the vendor services that are
    mode,         \* the mode adopted for the fan
    may,          \* what the daemon's threads may touch
    watched,      \* a battery thread runs
    left,         \* history: the battery was left to what does, or seems to, hold it
    unseen,       \* history: services that ran and that the last question did not show
    moves

startVars == <<at, file, plan, running, mode, may, watched, left, unseen, moves>>

StartInit ==
    /\ at = "load" /\ file \in Configs /\ plan = "unknown" /\ mode = "unknown"
    /\ running \in SUBSET Vendors
    /\ may = {} /\ watched = FALSE /\ left = FALSE /\ unseen = {} /\ moves = 0

-----------------------------------------------------------------------------
(* The configuration. *)

\* FanCurve::new, of points <<temperature, duty>> in the order of the file; the
\* same temperature twice is refused, whatever the duties.
CurveIsValid(points) ==
    /\ points # <<>>
    /\ \A i \in DOMAIN points : points[i][2] \in 0..100
    /\ \A i, j \in DOMAIN points : i # j =>
         /\ points[i][1] # points[j][1]
         /\ points[i][1] < points[j][1] => points[i][2] <= points[j][2]

\* PolicyConfig::validate
PolicyIsValid(f) ==
    /\ f.low <= 100 /\ f.critical < f.low /\ f.confirmations > 0 /\ f.recover_margin > 0

\* LidConfig::validate
LidIsValid(f) == f.lid_action \in {"power-save", "shutdown"} /\ f.lid_delay <= 60

\* validate
IsValid(f) ==
    /\ f.mode \in {"read-only", "managed", "full"} /\ CurveIsValid(f.curve)
    /\ LidIsValid(f)
    /\ f.button \in {"none", "shutdown"} /\ f.refresh # 0
    /\ f.dialect \in {"legacy", "register"} /\ PolicyIsValid(f)
    /\ f.delay \in 1..30 /\ f.source \in {"serial", "oneup", "hid", "none"}
    /\ f.safe # 0 /\ (f.telemetry => f.listens) /\ f.poll \in 1..14

-----------------------------------------------------------------------------
(* The decisions. *)

AllowsWrites(m) == m \in {"managed", "full"}

FanPlan(mcu, kernel) == IF mcu THEN "Mcu" ELSE IF kernel THEN "KernelReportOnly" ELSE "NoFan"

\* decide
Decide(f, active, p) ==
    IF p # "Mcu" \/ f.mode = "read-only" \/ "argononed" \notin active THEN f.mode ELSE "read-only"

\* contention: whose logic decides about the battery.
UpsRivals == {"argonupsrtcd", "argononeupsd"}
OneupRivals == {"argononeupd"}

\* active_vendor_units: what contends. A systemctl that cannot be run says
\* "unknown", which does; one that is killed, or gives up with nothing said, says
\* "not-installed", which does not, nor does "deactivating" or "reloading".
ActiveVendorUnits(unknown, silent) == (running \ silent) \cup unknown

\* Some of the questions may go unanswered, and some services be missed.
Ask(unknown, silent) ==
    /\ silent \cap unknown = {} /\ unseen' = silent
    /\ moves' = moves + Cardinality(silent) + IF unknown = {} THEN 0 ELSE 1
    /\ moves' <= MaxMoves

NoQuestion == unseen' = {}

\* gauge::spawn
SpawnGauge(active) ==
    \E bus \in BOOLEAN :
      /\ watched' = bus /\ left' = ~bus
      /\ may' = may \cup IF bus /\ file.mode = "full" /\ OneupRivals \cap active = {}
                         THEN {"poweroff"} ELSE {}

\* ups::spawn
SpawnUps(active) ==
    /\ watched' = (file.source = "serial" /\ "argonupsrtcd" \notin active)
    /\ left' = (file.source # "serial" \/ "argonupsrtcd" \in active)
    /\ may' = may \cup IF watched' /\ file.mode = "full"
                       THEN {"port", "wake"} \cup (IF file.sync THEN {"clock"} ELSE {})
                            \cup (IF UpsRivals \cap active = {} THEN {"poweroff"} ELSE {})
                       ELSE IF watched' THEN {"port"} ELSE {}

-----------------------------------------------------------------------------
(* run, step by step. *)

Then(step) == at' = step /\ UNCHANGED <<file, running>> /\ (at # "battery" => UNCHANGED <<watched, left>>)

\* A file that does not validate ends the daemon.
LoadConfig ==
    /\ at = "load" /\ Then(IF IsValid(file) THEN "fan" ELSE "exit")
    /\ UNCHANGED <<plan, mode, may, moves>> /\ NoQuestion

\* A bus that cannot be resolved means no MCU.
FindFan ==
    /\ at = "fan" /\ Then("mode")
    /\ \E mcu, kernel \in BOOLEAN : plan' = FanPlan(mcu, kernel)
    /\ UNCHANGED <<mode, may, moves>> /\ NoQuestion

AnnounceMode ==
    /\ at = "mode" /\ Then("battery")
    /\ \E unknown \in SUBSET Vendors, silent \in SUBSET running :
         Ask(unknown, silent) /\ mode' = Decide(file, ActiveVendorUnits(unknown, silent), plan)
    /\ UNCHANGED <<plan, may>>

\* start_workers: each asks for itself.
StartBattery ==
    /\ at = "battery" /\ Then("oled")
    /\ \E unknown \in SUBSET Vendors, silent \in SUBSET running :
         /\ Ask(unknown, silent)
         /\ IF file.source = "oneup" THEN SpawnGauge(ActiveVendorUnits(unknown, silent))
            ELSE SpawnUps(ActiveVendorUnits(unknown, silent))
    /\ UNCHANGED <<plan, mode>>

\* oled::spawn: under the mode of the file, whatever the fan's is.
StartOled ==
    /\ at = "oled" /\ Then("button")
    /\ \E unknown \in SUBSET Vendors, silent \in SUBSET running, panel \in BOOLEAN :
         /\ Ask(unknown, silent)
         /\ may' = may \cup IF /\ file.oled /\ AllowsWrites(file.mode)
                               /\ "argononed" \notin ActiveVendorUnits(unknown, silent) /\ panel
                            THEN {"panel"} ELSE {}
    /\ UNCHANGED <<plan, mode>>

\* button::spawn: argononed, while it runs, holds the line.
StartButton ==
    /\ at = "button" /\ Then("sensor")
    /\ \E chip \in BOOLEAN :
         may' = may \cup IF /\ file.button = "shutdown" /\ file.mode = "full"
                           /\ chip /\ "argononed" \notin running
                        THEN {"button"} ELSE {}
    /\ UNCHANGED <<plan, mode, moves>> /\ NoQuestion

\* Mutant: no sensor, no daemon.
StartFanOrExit ==
    /\ at = "sensor"
    /\ \E sensor, opens \in BOOLEAN :
         Then(CASE ~sensor -> "exit" [] ~AllowsWrites(mode) \/ plan # "Mcu" -> "reports"
                [] opens -> "drives" [] OTHER -> "ups_only")
    /\ may' = IF at' = "drives" THEN may \cup {"fan"} ELSE may
    /\ UNCHANGED <<plan, mode, moves>> /\ NoQuestion

\* prepare_fan: no sensor, or a bus that does not open, leaves the rest running.
StartFan ==
    /\ at = "sensor"
    /\ \E sensor, opens \in BOOLEAN :
         Then(IF ~sensor THEN "ups_only" ELSE IF ~AllowsWrites(mode) \/ plan # "Mcu" THEN "reports"
              ELSE IF opens THEN "drives" ELSE "ups_only")
    /\ may' = IF at' = "drives" THEN may \cup {"fan"} ELSE may
    /\ UNCHANGED <<plan, mode, moves>> /\ NoQuestion

\* systemd, or the operator with systemctl.
VendorMoves ==
    /\ moves < MaxMoves /\ moves' = moves + 1 /\ at # "exit"
    /\ \E v \in Vendors : running' = IF v \in running THEN running \ {v} ELSE running \cup {v}
    /\ UNCHANGED <<at, file, plan, mode, may, watched, left>> /\ NoQuestion

Run == LoadConfig \/ FindFan \/ AnnounceMode \/ StartBattery \/ StartOled \/ StartButton \/ StartFan
StartNext == Run \/ VendorMoves
StartSpec == StartInit /\ [][StartNext]_startVars /\ WF_startVars(Run)

-----------------------------------------------------------------------------
Rivals(what) ==
    CASE what \in {"panel", "button"} -> {"argononed"}
      [] what \in {"port", "clock", "wake"} -> {"argonupsrtcd"}
      [] what = "poweroff" -> IF file.source = "oneup" THEN OneupRivals ELSE UpsRivals

\* Nothing is taken that the mode of the file does not allow, nor while a vendor
\* service that is responsible for it runs, unless that very question was answered
\* with nothing, or while the service was deactivating or reloading: a systemctl
\* that cannot be run is taken for running, and no earlier answer is used again.
\* The fan is decided by its mode.
OnlyWhatIsOurs ==
    [][/\ \A what \in may' \ (may \cup {"fan"}) :
            /\ what = "panel" => AllowsWrites(file.mode)
            /\ what \notin {"panel", "port"} => file.mode = "full"
            /\ Rivals(what) \cap running \subseteq unseen'
       /\ AnnounceMode /\ plan = "Mcu" /\ AllowsWrites(mode') => "argononed" \notin running \ unseen'
       /\ "fan" \in may' => AllowsWrites(mode) /\ plan = "Mcu"]_startVars

\* Whatever fails of the fan, its sensor and the panel, a daemon that has a valid
\* file comes up and watches the battery, unless it was told to leave it.
BatteryIsWatched ==
    [](at # "load" => <>[](IF IsValid(file)
                           THEN at \in {"drives", "reports", "ups_only"} /\ (watched \/ left)
                           ELSE at = "exit" /\ may = {}))

StartIsRight == OnlyWhatIsOurs /\ BatteryIsWatched
=============================================================================
