-------------------------------- MODULE Setup --------------------------------
(***************************************************************************)
(* `argonctl setup` (crates/argon-cli/src/setup.rs) and the reading of     *)
(* config.txt behind it (argon-device/src/boot_config.rs), on a machine    *)
(* whose operator runs the commands it prints, one after another, and      *)
(* reboots.  What a command does is the system's, or the package's.        *)
(***************************************************************************)
EXTENDS Integers, FiniteSets

CONSTANTS
    Boards,       \* "pi4", "pi5", "cm5" or "other"
    BootFiles,    \* config.txt as found: its lines and the section it ends in
    Guests,       \* vendor units that may be there
    MaxWhims      \* bound: optional commands run, commands that fail, vendor units started

VARIABLES
    board,
    readable,     \* config.txt can be read
    startable,    \* argond comes up when it is started: its file validates, it is not disabled
    lines,        \* config.txt: a set of [section, what, commented]
    tail,         \* the section at its end, where a line is appended; "" before any
    devices,      \* of the boot: "bus", "hub", "lirc", "lid"
    fitted,       \* what answers on the bus or hangs off the hub: "mcu", "oled", "gauge", "ups"
    groups,
    installed,    \* the package, with its udev rules
    irctl,        \* v4l-utils
    daemon,       \* argond runs
    guests,       \* vendor units that run
    enabled,      \* those that run again after a reboot
    advised,      \* the commands of the last review not run yet
    whims

machine == <<board, readable, startable>>
setupVars == <<machine, lines, tail, devices, fitted, groups, installed, irctl, daemon, guests,
               enabled, advised, whims>>

Whats == {"i2c_arm=on", "dwc2", "gpio-ir", "argon-oneup-lid"}
\* What the firmware makes of a line that is in force.
DeviceOf == [w \in Whats |-> CASE w = "i2c_arm=on" -> "bus" [] w = "dwc2" -> "hub"
                               [] w = "gpio-ir" -> "lirc" [] OTHER -> "lid"]

-----------------------------------------------------------------------------
(* boot_config *)

\* sections_for
SectionsFor(b) ==
    {"", "all"} \cup (CASE b = "cm5" -> {"cm5", "pi5"} [] b = "pi5" -> {"pi5"} [] b = "pi4" -> {"pi4"}
                        [] OTHER -> {})

\* Directive::applies_to
AppliesTo(d, sections) == ~d.commented /\ d.section \in sections

\* Mutant: a line counts wherever it stands.
IsActiveAnywhere(w) == \E d \in lines : d.what = w /\ ~d.commented

\* is_active and is_active_prefix
IsActive(w) == \E d \in lines : d.what = w /\ AppliesTo(d, SectionsFor(board))

\* The firmware, which reads the file as it is.
Booted == {DeviceOf[w] : w \in {v \in Whats : \E d \in lines : d.what = v /\ AppliesTo(d, SectionsFor(board))}}

SetupInit ==
    /\ board \in Boards /\ readable \in BOOLEAN /\ startable \in BOOLEAN
    /\ \E f \in BootFiles : lines = f.lines /\ tail = f.tail
    /\ devices \in {Booted, Booted \cup {"lirc"}}
    /\ fitted \in SUBSET {"mcu", "gauge", "ups"}
    /\ groups = {"gpio"} /\ installed \in BOOLEAN /\ irctl = FALSE
    /\ daemon = FALSE
    /\ guests \in SUBSET Guests /\ enabled = guests
    /\ advised = {} /\ whims = 0

-----------------------------------------------------------------------------
(* gather: what is seen of the machine. *)

\* None without a bus, which is no answer.
Answers(device) == "bus" \in devices /\ device \in fitted
UpsPresent == "ups" \in fitted /\ "hub" \in devices
IsOneUp == Answers("gauge") \/ board = "cm5"
IsPi5 == board \in {"pi5", "cm5"}
Lirc == "lirc" \in devices

-----------------------------------------------------------------------------
(* review.  A check is its name, its state and the command beside it. *)

Verdict(name, state, fix) == [name |-> name, state |-> state, fix |-> fix]

\* A command: a line to append, with or without a reboot, or another.
Cmd(name) == [run |-> name, line |-> "none", reboot |-> name = "reboot"]
TeeA(line, reboot) == [run |-> "append", line |-> line, reboot |-> reboot]

Fine(name) == Verdict(name, "Ok", Cmd("none"))
NotHere(name) == Verdict(name, "NotApplicable", Cmd("none"))

HeaderBus ==
    CASE "bus" \in devices -> Fine("bus")
      [] "bus" \notin devices /\ IsActive("i2c_arm=on") -> Verdict("bus", "Missing", Cmd("reboot"))
      [] "bus" \notin devices /\ ~IsActive("i2c_arm=on") ->
           IF Answers("mcu") \/ IsOneUp \/ Answers("oled")
           THEN Verdict("bus", "Missing", TeeA("i2c_arm=on", TRUE))
           ELSE Verdict("bus", "Optional", TeeA("i2c_arm=on", FALSE))

InternalHub ==
    IF UpsPresent \/ IsActive("dwc2") THEN Fine("hub")
    ELSE IF IsPi5 THEN Verdict("hub", "Optional", TeeA("dwc2", FALSE)) ELSE NotHere("hub")

IrReceiver ==
    CASE IsActive("gpio-ir") /\ Lirc -> Fine("ir")
      [] IsActive("gpio-ir") /\ ~Lirc -> Verdict("ir", "Missing", Cmd("reboot"))
      [] ~IsActive("gpio-ir") /\ Lirc -> Verdict("ir", "Missing", TeeA("gpio-ir", FALSE))
      [] ~IsActive("gpio-ir") /\ ~Lirc -> Verdict("ir", "Optional", TeeA("gpio-ir", TRUE))

LidSwitch ==
    IF ~IsOneUp THEN NotHere("lid")
    ELSE IF IsActive("argon-oneup-lid") THEN Fine("lid") ELSE Verdict("lid", "Optional", Cmd("takeover"))

Software ==
    {IF installed THEN Fine("package") ELSE Verdict("package", "Optional", Cmd("install")),
     IF irctl THEN Fine("ir-ctl")
     ELSE IF Lirc \/ ~IsPi5 THEN Verdict("ir-ctl", "Optional", Cmd("v4l-utils")) ELSE NotHere("ir-ctl")}

Needed == [i2c |-> "bus" \in devices, gpio |-> TRUE, video |-> Lirc]

Access ==
    {IF g \in groups THEN Fine(g)
     ELSE IF Needed[g] THEN Verdict(g, "Optional", Cmd(g)) ELSE NotHere(g) : g \in DOMAIN Needed}
        \cup {IF installed THEN Fine("udev")
              ELSE IF UpsPresent THEN Verdict("udev", "Missing", Cmd("install")) ELSE NotHere("udev")}

Services ==
    {IF daemon THEN Fine("argond")
     ELSE IF installed THEN Verdict("argond", "Missing", Cmd("start argond")) ELSE NotHere("argond"),
     IF guests = {} THEN Fine("vendor") ELSE Verdict("vendor", "Missing", Cmd("stop vendor"))}

\* boot_checks: one and no other where config.txt cannot be read, with no command.
BootChecks ==
    IF readable THEN {HeaderBus, InternalHub, IrReceiver, LidSwitch}
    ELSE {Verdict("config.txt", "Missing", Cmd("none"))}

Review == BootChecks \cup Software \cup Access \cup Services

Lacking == {c \in Review : c.state = "Missing"}
Offered == {c \in Review : c.state = "Optional"}

-----------------------------------------------------------------------------
(* The commands. *)

\* tee -a appends to whatever section is the last.
WithLine(line) ==
    lines \cup IF line = "none" THEN {} ELSE {[section |-> tail, what |-> line, commented |-> FALSE]}

\* Everything that is enabled starts again; argond where it is installed and can
\* be, which stops the vendor's UPS daemons.
Reboots ==
    /\ devices' = {DeviceOf[w] : w \in {v \in Whats : \E d \in lines' : d.what = v /\ AppliesTo(d, SectionsFor(board))}}
    /\ daemon' = (installed /\ startable)
    /\ guests' = IF installed THEN enabled \ {"ups"} ELSE enabled
    /\ advised' = {}

\* The package retires the vendor's UPS daemons and starts argond, which stops
\* them. The takeover comes with it: it retires the ONE UP's, restarts argond, and
\* has a section [all] of its own. Where it refuses it changes nothing.
TakesOver(fix) == fix.run = "takeover" /\ installed
StartsArgond(fix) == fix.run = "install" \/ (installed /\ fix.run \in {"start argond", "takeover"})

RunsCommand(fix) ==
    /\ lines' = IF TakesOver(fix)
                THEN lines \cup {[section |-> "all", what |-> "argon-oneup-lid", commented |-> FALSE]}
                ELSE WithLine(fix.line)
    /\ tail' = IF TakesOver(fix) THEN "all" ELSE tail
    /\ installed' = (installed \/ fix.run = "install")
    /\ irctl' = (irctl \/ fix.run = "v4l-utils")
    /\ groups' = groups \cup ({fix.run} \cap DOMAIN Needed)
    /\ enabled' = enabled \ ((IF fix.run = "install" THEN {"ups"} ELSE {})
                             \cup IF TakesOver(fix) THEN {"oneup"} ELSE {})
    /\ IF fix.reboot THEN Reboots
       ELSE /\ daemon' = (daemon \/ (startable /\ StartsArgond(fix)))
            /\ guests' = IF fix.run = "stop vendor" THEN {}
                         ELSE guests \ ((IF StartsArgond(fix) THEN {"ups"} ELSE {})
                                        \cup IF TakesOver(fix) THEN {"oneup"} ELSE {})
            /\ advised' = advised \ {fix}
            /\ UNCHANGED devices
    /\ UNCHANGED <<machine, fitted>>

\* The output is read once, and its commands are run in any order.
RunSetup ==
    /\ advised = {} /\ Lacking # {}
    /\ advised' = {c.fix : c \in Lacking} \ {Cmd("none")}
    /\ UNCHANGED <<machine, lines, tail, devices, fitted, groups, installed, irctl, daemon, guests, enabled, whims>>

Follow == \E fix \in advised : RunsCommand(fix) /\ UNCHANGED whims

\* It fails, and changes nothing.
CommandFails ==
    /\ whims < MaxWhims /\ whims' = whims + 1
    /\ \E fix \in advised : advised' = advised \ {fix}
    /\ UNCHANGED <<machine, lines, tail, devices, fitted, groups, installed, irctl, daemon, guests, enabled>>

\* Also what is only offered; or the vendor's software is started again.
FollowOffer ==
    /\ whims < MaxWhims /\ whims' = whims + 1
    /\ \E c \in Offered : RunsCommand(c.fix)

GuestStarts ==
    /\ whims < MaxWhims /\ whims' = whims + 1
    /\ \E g \in Guests :
         /\ guests' = guests \cup {g} /\ enabled' \in {enabled, enabled \cup {g}}
         /\ daemon' = (daemon /\ g # "ups")
    /\ UNCHANGED <<machine, lines, tail, devices, fitted, groups, installed, irctl, advised>>

SetupNext == RunSetup \/ Follow \/ CommandFails \/ FollowOffer \/ GuestStarts
SetupSpec == SetupInit /\ [][SetupNext]_setupVars /\ WF_setupVars(RunSetup) /\ WF_setupVars(Follow)

-----------------------------------------------------------------------------
NamesOf(checks) == {c.name : c \in checks}

\* No command helps with these.
Beyond ==
    (IF readable THEN {} ELSE {"config.txt"}) \cup IF startable THEN {} ELSE {"argond"}

\* "the precise line to run": whoever runs what is beside the things MISSING, and
\* looks again, comes to where nothing is, but a config.txt that cannot be read
\* and an argond that does not come up, where config.txt ends in a section of this
\* board. Only a reboot brings a check back: of a vendor unit that is enabled.
FixesFix ==
    [](tail \in SectionsFor(board)) => <>[](NamesOf(Lacking) \subseteq Beyond)

\* "The header I2C bus: every Argon device but the UPS sits on it"
NeededIsMissing == "mcu" \in fitted /\ "bus" \notin devices => HeaderBus.state = "Missing"
=============================================================================
