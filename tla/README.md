# Formal models of argon-utils

TLA+ modules, TLC configurations and TLAPS proofs about argon-utils, the
support software for Argon40 cases: a fan, a UPS with a battery and a real-time
clock, a lid, a power button, a small display. The modules are translated from
the Rust sources under `src/crates/`; each definition that stands for code is
listed with its file and lines in `PROJECT.json` ("map").

Contents: [the system](#the-system), [what each module models](#the-modules),
[the runs](#the-runs), [assumptions](#assumptions-bounds-and-fairness),
[proofs](#what-is-proved), [disagreements](#where-code-and-documentation-disagree),
[what is left out](#not-modelled), [plan](#plan).

## The system

| part | state it keeps | operations | interacts with | what is hard |
|---|---|---|---|---|
| battery policy, `argon-proto/src/ups/policy.rs` | level remembered, two saturating streaks | `observe` one poll or a gap | UPS thread, gauge, shutdown coordinator | debouncing, hysteresis and gaps together over long sequences; saturation |
| shutdown coordinator, `argon-device/src/power.rs` | the poweroff on record, stood-down, dry-run flag | `on_decision` with `advised`, `recovered` | logind through `shutdown` and `busctl`; every other user of logind | every question and command is a subprocess that may fail; others act in between; restarts |
| UPS thread, `argon-daemon/src/ups.rs`, `argon-device/src/{ups,ups_service,ups_seen}.rs` | open port, failure count, policy, coordinator, next looks, the UPS last seen | open, poll, housekeeping, publish, serve requests, sleep, stop | the UPS over a serial line, status file, control relay, watchdog of `main.rs`; other readers of the port | reopening, absence against failure, a held port |
| control relay, `argon-daemon/src/control.rs` | channel, `waiting` flag | `relay`, `serve_requests`, `sleep_unless` | socket thread, D-Bus service, UPS thread | lost wake-ups, timeouts racing answers, stop |
| scheduled wake, `argon-device/src/wake.rs`, `ups.rs` `check_wake`, `handle_request` | one register in the UPS, one poweroff in logind | look, park, request | UPS, logind, operator | a wake coming due while the machine runs; partial failure of a request |
| serial link, `argon-hal/src/serial.rs`, `argon-proto/src/ups/`, `argon-device/src/ups.rs` | the byte stream, a partial frame | request, read, resynchronise, set a wake and read it back | the UPS | late replies matched to later requests; noise that looks like a start |
| UPS clock, `argon-device/src/{clock_sync,drift}.rs`, `argon-cli/src/rtc.rs` | next check, drift record; the experiments' step | judge, set, verify, append, rate; T15, T17 | UPS, system clock, the operator's experiments | which clock to believe; a rate taken across a correction |
| status file and notices, `argon-device/src/{status,shutdown_notice}.rs`, `argon-cli/src/notify.rs` | the file, what was last announced | publish, interpret, watch | UPS thread writes, agents read; logind | two sources announce one poweroff |
| power button, `argon-device/src/button.rs`, `argon-daemon/src/button.rs` | last edge, poweroff placed | press, cancel | GPIO, logind | the second press cancels; bounce; others use logind between two questions |
| tray, `argon-tray/src/` | what is shown, what is pending, what is ours | poll, push, menu | logind, status file, D-Bus service | a menu that writes into what the poll loop writes |
| lid agent and CPU cap, `argon-device/src/lid.rs`, `argon-cli/src/lid_agent.rs`, `argon-daemon/src/cpu_cap.rs` | the effects in force, radios switched off, CPU cap | report, tick, undo | session, rfkill, D-Bus service | restore exactly what was changed, across failures and restarts |
| D-Bus service, `argon-daemon/src/dbus.rs` | caps and display held for clients | set, release, poweroff | polkit, logind, relay | authority; a daemon that goes while a cap is held |
| fan, `argon-device/src/{fan,safety,mcu}.rs`, `argon-proto/src/fan/`, `argon-hal/src/i2c.rs`, `argon-daemon/src/main.rs`, `argon-cli/src/fan.rs` | last duty written, curve with hysteresis, failure counts | tick, safe write, stop; `argonctl fan` | i2c bus, thermal zone, systemd; two firmwares | whatever fails, the fan must end up safe; two writers |
| start of argond, `argon-daemon/src/{main,startup}.rs`, `argon-device/src/config.rs`, `argon-hal/src/{mode,foreign}.rs` | configuration, mode adopted, what threads may touch | load, decide, spawn | vendor services through systemctl | questions that fail or whose answer changes between two threads |
| fuel gauge, `argon-proto/src/cw2217.rs`, `argon-device/src/gauge.rs`, `argon-daemon/src/gauge.rs` | failure count, policy | open, poll, refuse requests | i2c bus, battery policy | mains or battery, from the sign and size of a current |
| display, `argon-daemon/src/oled.rs`, `argon-device/src/{oled,oled_page}.rs`, `argon-cli/src/oled.rs` | what is believed to be shown, the switch | draw, switch, blank | i2c bus, desktop, ExecStopPost | half-written frames, a panel pulled and back |
| setup, `argon-cli/src/setup.rs`, `argon-device/src/boot_config.rs` | none: it reads the machine | review, offer a fix | the operator, config.txt, the package, the vendor's services | commands, reboots and sections in any order |
| telemetry, reports, discovery, drawing, packaging | see [not modelled](#not-modelled) | | | |

The daemon `argond` runs one thread per device; threads share nothing but the
stop flag, the heartbeats and the channels named above. What makes the system
hard is outside it: logind has one pending shutdown that everybody may replace;
the UPS has one wake register and answers late or not at all; the daemon is
restarted by systemd at any point; the operator's tools use the same devices.

    UPS --serial--> UPS thread --> BatteryPolicy --> ShutdownCoordinator --> logind
                       |  ^                                                   ^   ^
                status |  | control relay <-- socket, D-Bus                   |   |
                       v  +--- wake request and look ------------------------+   |
               notices, tray, display            operator, button, tray, lid ----+

The hazards found in reading the code, each at its line and with the properties
that cover it, are in `PROJECT.json` ("hazards").

## The modules

Three groups are composed: the battery (BatteryPolicy, ShutdownCoordinator,
UpsThread), the desktop (StatusFile, Desk, Notices, Button, Tray, Desktop) and the
lid (Daemon1, LidAgent). FanController is used by Fan, UpsTime by Link and
Calendar. The others stand alone: what they have in common with the rest is a
value or two, which is arbitrary in them.

### BatteryPolicy

`Observed(p, o)` is `BatteryPolicy::observe` as a function of the policy record
and one observation; `DecisionOn` is the `Decision` it returns. The variables
are the policy, the decision, the uptime and the whole sequence of polls. The
properties are said in terms of that sequence, never of the counters: a battery
is *confirmed critical* when there is a stretch of polls with only critical
readings and mains blips, with enough critical readings and no mains run as
long as a recovery (`ConfirmedAt`). Percentages above 100 and saturating
counters are kept. `changed_from` is derived from two successive levels and is
only logged, so it is left out.

### ShutdownCoordinator

One action per subprocess of `on_decision`: `call` is the place in the code,
`seen` what `pending_state` returned, `due` the local deadline, `ours`,
`stood_down`, `dry_pending` the struct. `pending` is logind's only scheduled
shutdown; it carries the wall message and, for the properties only, the life of
the daemon that placed it. Others schedule and cancel (`OthersSchedule`,
`OthersCancel`) even between two subprocesses of one decision; questions and
commands fail; the daemon restarts anywhere. The policy's advice is arbitrary:
what it can be is BatteryPolicy's subject. Time is kept as ticks left, so the
tolerance of `same_shutdown` (90 s) is compared as in the code. Parsing the
output of `busctl` is abstracted to *readable or not*.

### UpsThread

The loop of `run`, one action per thing that can fail on its own: opening the
port, a poll, the policy's decision, each of the coordinator's subprocesses,
publishing the file, which may not be written (`phase`). It extends
ShutdownCoordinator, whose variables are the coordinator's part of the state, and
uses BatteryPolicy's `Observed` and `DecisionOn` for the policy, so both are the
same definitions that are checked and proved alone. The environment is the supply
(what the battery would report), the port, faults of the link, other users of
logind and restarts of the daemon. The refinement is the composition's claim:
`DrivesCoordinator` is the coordinator's own specification, whose advice is
arbitrary, and ThreadSpec implements it. The history variables `critRun` and
`mainsRun` count the readings since the link last failed, for
`ActsOnConfirmedReadings`; a file that could not be written is `Outdated` until it
is. The thread's other duties are modules of their own: Wake, ControlRelay, Clock,
and Port for the record of the unit last seen.

### Wake

The register of the UPS, logind's poweroff, and the work of the UPS thread on
them, one exchange at a time (`phase`). `MustPark` is `assess`, `ScheduleFor`
is `schedule_for` with its rounding down to a minute. A write has three
outcomes: carried out and acknowledged, carried out with the acknowledgement
lost, and lost. The register is read by its own clock, which may be ahead
(`Skew`). The de-duplication of journal lines (`Seen`) is left out.

### ControlRelay

The interleaving of `relay` in several threads with the UPS thread: send, raise
the flag, wait; open, poll, clear the flag, drain, sleep. What a request does
is module Wake's `Request`; here only that it takes time. A poll's result is
arbitrary, since it only decides whether the port stays open. The reading and
writing of the socket's lines is left out.

### UpsTime, Calendar and Link

`UpsTime` is what the bytes of the UPS mean: BCD, payloads of battery, clock and
schedule, and `FromUnix` and `ToUnix` between a calendar date and seconds, with
the device's range of years. `Calendar` counts the days of that range one by one,
as a calendar does, for the conversions to be compared with. `Link` is the
exchange itself: the line holds bytes in flight, the frame reader takes them one
by one, and `request` waits for a reply of the kind it asked for, with a deadline.
`Read` is one byte: `read_matching` leaves its loop at the frame that matches and
drops what is left of the chunk, so a chunk shows in the model only there, where
any number of the bytes on the line go with the match. The environment loses
requests, replies and single bytes, changes a byte (by one of `Changes`), puts one
first that looks like the start of a frame, sends a frame nobody asked for, and
delays a reply past its deadline, in all MaxFaults times. `spoiled` counts how
often since the request under way. The host polls the battery, or sets a wake,
reads it back and parks it when they differ.

### Clock

A clock is its difference from the true time. `Judge` is `judge`; the check of
argond is `BeginCheck`, `ReadClock`, `SetClock`, `Verify`, with an
acknowledgement that may be lost after the clock was set; `Appended`, `Stretch`
and `Rate` are the drift record, its cut and its rate. The experiments of
`argonctl rtc`, T15 which sets the clock wrong and back, and T17 which writes
two wakes, run with argond stopped and may be interrupted anywhere. A deep
discharge, NTP, restarts and a device that does not store what it is told are
the environment. `jumped` is a history variable: a clock was stepped and the
record could not say so.

### StatusFile, Desk, Notices, Button, Tray, Desktop

`StatusFile` is `status.rs` as functions of one or two snapshots: what a reader
may take a file for, when it is stale, which change is worth a notice. `Desk` is
what the programs of a session look at, logind's one shutdown and the file, with
the UPS thread reduced to the steps they can see and an operator who schedules
and cancels. On it stand three programs: `Notices`, the agent that reads the
file and then logind with the world moving in between, and whose notices may not
be delivered (`unheard`); `Button`, the thread that takes pulses from the kernel's
queue and asks logind what is pending and whose message it carries before it acts,
and reads back what it placed after it placed it (`ReadsBack`; `mistaken` says that
it came upon somebody else's); `Tray`, the poll loop and the menu in another
thread, which share what is shown. Each says what the rest of the machine does to
it (`NoticesBystander`, `ButtonBystander`, `TrayBystander`), and `Desktop`
composes those of a session: every step is a step of one, and the bystander's
for the others. A time is a number of ticks of half a minute; a notice is a
token.

### Daemon1 and LidAgent

`Daemon1` is the part of the D-Bus service that changes state without the UPS
thread: the CPU cap policy by policy, with writes that fail in the middle, and
the display's switch with its marker file; polkit answers yes, no, challenge or
with an error. `LidAgent` extends it: the policy of `lid.rs` as functions, and
the agent's loop that carries out effects one at a time while the lid goes on
moving (`queue`). SIGKILL, a reboot, a restart of argond under a cap and the
record of radios, which outlives the agent, are modelled. Each effect may fail
and is then only logged: the radios may not be listed, or only some of them
(`Listings`), the record may not be read, written or removed, a radio may not obey,
the screen may not wake. `lost`, `passed` and `unlit` are the history variables that
say so. An effect may take up to `MaxBlock` ticks.

### FanController and Fan

`FanController` is the curve and its hysteresis as functions: `IsCurve` is what
`FanCurve::new` accepts, `DutyFor` is `duty_for`, `Update` and `Floored` are
`update` and `apply_floor`. `Fan` is a life of the process after another: the
main thread (`main`: the safe write at the start, the loop, the join of the
other threads, the drop of the guard), the signal handler's thread (`handler`:
restore, raise the flag, drop the closure), the rate limiter (`recent`), systemd
(the watchdog, ExecStopPost, the restart, possibly with another configuration)
and the MCU, which keeps the last duty it was sent. A write is refused by the
rate limiter, works, fails, or is taken by the MCU while an error is returned.
The time of the limiter and of the heartbeat is abstracted to *has passed or
not*. The UPS-only loop and the read-only stack appear as a process that never
writes (`idle`). `warm` and `unsure` are history variables for the properties.

### FanTools

The bytes that reach the MCU, and from whom. Both firmwares are functions from a
frame to what it does (`LegacyTakes`, `RegisterTakes`: a duty, harm, or
nothing), and the dialect is the configuration's, which may be the wrong one.
The writers are argond (start, a duty of the curve, its leaving; each may fail, and
argond goes on) and `argonctl fan` (`--set`, `--safe`, T5), whose look for argond
and whose write are two steps. argond is `activating` before it is ready, which
`unit_active` takes for not active, as it does a systemctl that cannot say. `asked`
is the duty last asked for by anybody; `crossed` says that a tool wrote beside
argond, or that one of argond's writes failed and took effect.

### Start

A configuration is a record of the keys that validation and the decisions read;
`IsValid` is `Config::validate` with all it calls. `at` is the place in `run`:
each thread's spawn is a step that asks systemctl anew, vendor services start and
stop between two of them. A question has three outcomes besides the truth:
systemctl cannot be run, which is taken for *running*; it is killed or says
nothing, which is taken for *not installed*; and a service that is deactivating or
reloading is not active (`unseen` holds the running services that were missed that
way). `may` is what the threads have been allowed to touch.

### Port

Who has the serial port: argond's thread, the vendor's `argonupsrtcd`, and
`argonctl ups --serial` or `rtc`, as root or as another user, who look through
`/proc` (where only root sees other users' descriptors) and then open under
TIOCEXCL. The record of the UPS last seen (`Due`, at most once per
RefreshEvery), what is published of one that is gone, and `--forget` are part of
the same module, since restarts and pulled plugs happen to both. `raced` is a
history variable: a port was opened between another's look and its open, or
without a look.

### Panel, Gauge, Setup

`Panel` is the display's thread against a panel that is pulled, comes back
uninitialised and takes half a frame; a start that finds none, after which there
is no thread as long as argond runs (`without`); the switch; `argonctl oled`,
which writes a pattern, the status page or nothing, and is also ExecStopPost.
`touched` says that argonctl changed the panel, `pulled` that it was pulled, each
until the thread set it up anew or a write failed. A page is an opaque value.
`Gauge` is the thread of the ONE UP's battery: the raw current decides mains or
battery (`Flow`), the policy behind it is BatteryPolicy's, instantiated, and the
chip may be another one or absent. `Setup` is the checks of `argonctl setup` on a
machine described by its board, its config.txt (lines, each in a section, and the
section the file ends in), what is fitted and which services run; config.txt may
be unreadable (`readable`), and argond may not come up when it is started
(`startable`). The commands setup offers are run by an operator in any order, with
reboots; any of them may fail.

### MCTools

The seven modules Clock, Start, FanTools, Port, Panel, Gauge and Setup do not
interact, and one run checks them one at a time: `part` says which one moves, and
the others rest in one of their initial states.

### MCLink

The line and the calendar do not interact either: `part` says which one moves.

### The proof modules

`WakeProofs`, `ControlRelayProofs`, `FanProofs`, `LidProofs` and `DesktopProofs`
extend the module they are about; `UpsThreadProofs` also holds the coordinator's
proofs, `UpsProofs` extends BatteryPolicy, Link and Calendar, and `ToolsProofs`
Clock, Start, FanTools, Port, Gauge, Panel and Setup. See
[what is proved](#what-is-proved).

## The runs

| run | question | bounds |
|---|---|---|
| MCBatteryPolicy | Do the counters and the hysteresis mean what the levels say? | default thresholds; a reading on either side of each; all sequences of six polls, enough for two confirmations, a recovery and a second episode; streaks saturate at three, one above the confirmations |
| MCShutdownCoordinator | Is a poweroff ever lost track of, pushed back, left standing or forced on an operator? | a tick is 30 s; delay two minutes; three acts of others, two restarts; deadlines near ours and far from it; subprocesses up to a minute |
| MCUpsThread | Does the whole loop, from a reading to logind and the file, act on confirmed readings only, implement the coordinator, tell the truth in the file, and power a machine with a critical battery off? | mains, and a battery that is critical, within the recovery margin, and neither; two confirmations; the port given up after two failures; the file written or not; one restart, one act of others |
| MCWake | Can a wake come due, go missing or survive an error? | a unit is a minute, with the constants of `wake.rs` (the minute of the register is two units, so that rounding shows); one request around the shortest lead, one restart, one act of others, 20 minutes: more than the lead and three looks |
| MCWakeTwice | The first disagreement below | a second request |
| MCControlRelay | Is a wake-up lost, an answer late, a caller left behind? | two callers with two calls each; the interval longer than the answer timeout, so that only the flag can make an answer timely |
| MCFan | Does the controller answer with enough, is what the loop believes it wrote what the MCU holds, and does a process that must stop do so? | a curve of two points, of which the floor raises the first; five temperatures on both sides of each point, within the margin and beyond it; unlimited faults of the bus, signals, panics, kills, restarts |
| MCDesktop | Is a poweroff announced and taken back truly, does a press spare what is not the button's, does the tray show what is pending? | the button alone with two acts of supply, starter and operators and two presses, the agent with three acts, the tray with one, agent and button together with one act and one press, or with two presses; one click; notices that are delivered or not; three ticks, one more than the button's delay; a file is stale after two; others' shutdowns one and two ticks from ours, within the tolerance of one and beyond it |
| MCLid | Is everything undone that closing the lid did, and does only a lid that stays shut power off? | two radios, listed or not, two CPU policies, both actions; three moves of the lid, one fault or kill; a countdown of two ticks and effects of up to one |
| MCLidSlow | The second disagreement below | effects of up to two ticks |
| MCLink | Is an answer the truth, whatever the line does, and are the time conversions the calendar? | three requests, two faults in all, noise that is a start byte or a length; a changed byte is one more (the proofs have every change); a reply cut into reads in every way; two schedules a minute apart; beside it all 36 525 days of 2000 to 2099, at three times of day |
| MCTools | Seven questions, below | below |

MCTools asks of each part, one at a time:

* *Clock.* Is the rate on record the drift (`RateIsDrift`); does argond ever set
  a clock wrong, do the experiments say how they left it, does the clock come
  right (`ClockIsKept`)? Five ticks with checks every two, a record of three
  lines cut to two, two faults; a threshold of two seconds against a drift of
  one in a tick, so that a correction falls due within the run.
* *Start.* Is anything taken that is not ours, and is the battery watched
  whatever else fails (`StartIsRight`)? Every mode and source, and every key out
  of its range in turn; all subsets of four vendor services; two of them moving,
  not answering or missed.
* *Fan.* Do only duties reach the MCU, at least the one asked for
  (`FanIsArgonds`)? Bytes to either side of each special command; two commands.
* *Port.* Is a lost UPS named, and is there one reader (`PortIsKept`)? Two units,
  four events, two ticks with a record every two.
* *Panel.* Does the panel show what there is to show, or nothing (`PanelIsRight`)?
  Two pages, four upsets.
* *Gauge.* Is a battery that drains at its end acted on (`DrainIsSeen`)? Currents
  around the threshold of 200 counts, both signs; a percentage on and above
  critical, and 255; two confirmations, four perturbations.
* *Setup.* Does following the offered commands end with nothing lacking
  but what no command helps with (`FixesFix`)? A Pi 4 and a CM5, three files, a
  config.txt that cannot be read or an argond that does not start, two vendor
  services, one whim.

Every property has a mutant of the code that breaks it ("mutants"): the operator
beside the real one in the module, marked as such in its comment.

## Assumptions, bounds and fairness

ShutdownCoordinator. The subprocesses of one decision take less than the
tolerance (`PromptAssumption`); they have no timeout in the code, so this is an
assumption on the machine. A shutdown of somebody else within 90 s of ours
counts as ours, as in the code: `CancelsOnlyOurs` says so in its third case.

UpsThread. `CriticalEndsInPoweroff` is about a link that holds from some moment
on and a battery that stays critical: it says nothing of a link that keeps
failing, whose policy may rightly never confirm. Fairness: the thread runs, time
passes, the machine reaches `min_uptime`, logind fires (weak), and what is tried
in every round for ever succeeds at some time, be it reading the uptime, the
command that places the poweroff, or the question that finds it overridden
(strong). Nothing is assumed of the supply, the port and the link beyond the
property's premise; what others do and restarts are bounded, so they end.

Wake. `lookBy` assumes that a look ends within `Slack` of its being due. The
code does not enforce it: looks hang on the polls, whose interval comes from
the configuration without an upper bound (`config.rs:303`), and they stop while
the port is held or the UPS absent. Within the default constants the window of
ten minutes leaves five for all of that. A look whose query fails is not
repeated before the next one is due, so `NeverDue` is conditional on the last
look having been carried through (`looked`). The poweroff takes no time once it
fires. The system clock advances evenly; a step of the clock larger than the
window is not covered. Without write access (any mode but full) the look only
warns, and the property says nothing.

ControlRelay. A slice of the sleep and the steps without I/O take no time; a
poll and a request take bounded time; no time passes between a caller's send
and its raising the flag. Memory is sequentially consistent. Fairness: the
threads run and time passes.

Fan. The set of readings is any set of integers; that `update` does not overflow
is assumed (`hysteresis_c` is not range-checked, `config.rs`). Fairness: the two
threads run, the write interval passes, a heartbeat that stays silent is found
too old, systemd kills what does not feed its watchdog (or does not end within
TimeoutStopSec) and runs ExecStopPost. Nothing is assumed of the bus, the
sensor, signals or the UPS thread.

Desktop. The agent looks every two seconds at what is published every ten, so it
misses no publication (`looked`). `NoFalseRelief` and `NothingUnsaid` except what
happens after a restart of the daemon or a UPS that goes missing while a poweroff
is announced (`excused`); `PressSparesOthers` excepts a press during which others
use logind (`disturbed`), and one whose poweroff was confused with another's
when it was read back (`mistaken`); `NothingUnsaid` excepts a notice that was not
delivered (`unheard`). `TrayFollows` is checked with `Hasty = FALSE`: nobody
uses logind between a click on the menu and the loop's next push; the
disagreements below say what happens otherwise. Fairness: the daemon publishes,
the agent and the tray's loop go round, the daemon answers the menu (weak), and
logind answers the agent again and again (strong). Sessions are checked as the
agents alone and the two that touch the same poweroff together.

Lid. Bounded: moves of the lid and faults. `ComesBack` is about an agent at work
with the lid open and nothing waiting in its queue; an agent that was killed with
something turned down is excepted (`orphaned`), a radio on which a restore
failed (`lost`) or that a restore did not see (`passed`), and a screen that did not
wake (`unlit`). `CapIsUndone` excepts a limit that could not be written back and
a daemon killed (`slipped`). Fairness: the agent's loop and time go on.

Link. Payloads fit a frame, schedules are of the device's years in two digits, and
a refusal is neither (`LinkAssumption`, `NoneIsRefusal`). A byte is lost, changed
(`Changes`, any difference of two bytes) or added at most MaxFaults times together
with lost requests and replies and deadlines missed. `AnswerIsTrue` and
`QuietLineAnswers` are about a request sent when no byte is in flight and no reply
owed (`clean`): nothing but the port being opened anew discards what came late.
`ConfirmedIsHeld` holds for up to two faults, whatever they are, and fails with
three (see below).

Tools. Clock: the system clock is right once it is synchronised, and does not
become unsynchronised again; a clock stepped behind the record's back excepts
`RateIsDrift` (`jumped`). Fairness: argond is started again, its checks go on,
time passes and NTP synchronises in the end, an experiment that is not
interrupted goes on (weak). Start: the daemon goes on. Panel: the thread draws,
ExecStopPost runs, argond is started again and a panel that was pulled is put
back. Setup: argonctl is run and what it offers is followed. Port, FanTools and
Gauge have safety properties only. `FixesFix` is about a config.txt that ends in
a section of this board, and comes to where nothing is lacking but what no command
helps with (`Beyond`): the config.txt itself where it cannot be read, and an argond
that does not come up. `PanelFollows` is about a thread that is there, on a panel
nobody else changed and that was not pulled and put back between two writes.

## What is proved

All theorems hold for every value of the constants that satisfies the named
assumptions of the module.

* **BatteryPolicy.** Both properties of MCBatteryPolicy, and two that no run
  checks: `RecoveryIsARun` (a recovery is a run of mains polls) and `LowIsSticky`.
  The invariant relates each counter to the polls: the mains streak is the length
  of the run of mains at the end, cut off at the saturation; the critical streak
  is the number of critical readings in the longest unbroken stretch, cut off;
  what is remembered is `CriticalEarned` or `LowEarned` modulo a gap at the end.
  It is needed because the properties do not mention counters.
* **ShutdownCoordinator.** All five properties of MCShutdownCoordinator;
  `PublishedIsReal`, `DryRunTouchesNothing`, and `OnlyOursCancelledWhenQuiet`: the
  sentence "Only our own shutdowns are cancelled" holds if logind is readable and
  others neither act within a call nor near our deadline. The invariant says for
  each value of `call` what may be pending: that nothing of this life is pending
  while a call is about to schedule, that what was read back is within the ticks
  of the call of what logind holds, that a cancel is only reached with a record
  that agrees with what was read.
* **UpsThread.** `DrivesCoordinatorAlways`: every step of the thread is a step of
  the coordinator or leaves it alone, for any thresholds and faults. With it the
  coordinator's theorems hold of the thread, and the rest is proved on top:
  `ActsOnConfirmedReadings`, `MainsWithdraws` and `FileHonest`. The invariant
  ties the policy's counters to the readings since the link last failed, and
  says for each phase what the decision at hand was taken from. It is needed
  because the policy is remade when the port is, while the coordinator is not.
* **Wake.** `NeverDue` and `ParkingSparesTheRequested` if looks and work are
  prompt (`Prompt`, an inequality between the constants), whatever fails;
  `NoLiveAfterError` if no write is lost; `OffWithItsWake` if nothing fails. The
  invariant bounds the register from below by the time of the last look plus
  the window, and says what the register holds in each phase of a request.
* **ControlRelay.** Types, and `NoLostWakeup` for any number of callers. Then the
  time: `AnsweredInTimeAlways` says that while no more than k calls have met a
  held port, every other answer comes within `AnswerTimeout`, provided a poll,
  one request of each caller and k more fit into it; `OwnPortNeverTimesOut` says
  the same without k for a port nobody else holds. The invariant `Timely` is an
  account: what a call has waited, what is ahead of it in the thread and what is
  ahead of it in the channel are together within the allowance. It needs the
  channel in the order of the calls (`InOrder`), no call forgotten
  (`NotForgotten`), and that nothing in the channel is stale but the calls of a
  held port (`OnlyBlockedAreStale`), since a stale request is carried out all the
  same: the channel has no bound, so without k there is none on the answer.
* **Fan.** Types; `NeverBelowCurve`, `BelievedIsHeld` and `MarginKept` for every
  valid curve, margin, floor and set of temperatures. `DutyForMonotone` is the
  lemma they rest on: that `duty_for` takes the last point reached needs a
  largest element of a set of indices, which is the well-foundedness of the
  naturals (`LastReached`). The invariant adds that the duty in force is what
  the curve called for at the reading remembered (`WarmOK`), and that a process
  that has not stepped remembers nothing (`Fresh`).
* **Lid.** `CapIsUndone` and `RecordedUntilRestored` for any radios and policies and
  whatever the effects make of them (`lost` and `passed` name the radios that a
  restore came to nothing for, or did not see),
  and `PowerOffOnlyShut` when an effect takes less than the countdown
  (`MaxBlock < Delay`; MCLidSlow shows that it fails otherwise). The cap's
  invariant says that what is on record is the machine's own limit. The radios'
  says what is left of the effects being carried out (`Todos`): nothing the agent
  switched off may be forgotten while effects are still to come that record anew
  what is on. For the poweroff it says that the signals not yet taken alternate
  and end where the lid is now, so that a countdown with an empty queue runs on a
  shut lid, and that an alert under way has used up no more of the countdown than
  the ticks spent on it.
* **Port.** Types, and `PortIsKept` for any set of units and any bounds. The
  invariant relates three copies of one fact, the unit last read, the one on
  record and the one argond last wrote: they differ only in how recent they are,
  by less than RefreshEvery, unless a save failed or the record was forgotten. It
  is needed because what is said of a lost UPS comes from the record, after a
  restart that knows nothing else. For `OneReader` it says that a second reader
  came in through a look older than the first one's open.
* **FanTools.** `FanIsArgonds` for every byte asked for and every curve. The two
  lemmas `SetFanIsTaken` and `ByteIsTaken` say what a frame does on each firmware
  in each dialect: never harm, and at least the duty asked for. What is left is
  who wrote last, which the invariant says with `crossed`: an experiment, an
  operator's safe duty, a command that looked too early or was told that argond is
  not active, or a write of argond's that failed and took effect.
* **Clock and Start.** `NeverSetWrong`: a check that sets has found the system
  clock synchronised, and it still is. `RateIsDriftAlways`: the rate on record is
  the drift. `LogIsTrue` is its invariant: every point since the last correction
  on record lies on one line through what the clock says now; `Stretch` is defined
  by what follows a line, so a line more and a record cut to its end need no
  induction (`StretchOfAppended`). `ExperimentsTellAlways`: what T15 and T17
  report of how they leave the clock is so, if the error T15 sets is more than
  twice the threshold. `OnlyWhatIsOurs`: what a step adds to what the daemon may
  touch is its own to touch, for every configuration file and any vendor services;
  a systemctl that cannot be run counts as one that runs, and what is excepted is
  a service for which that very question was answered with nothing, or that was
  deactivating or reloading; what drives the fan has an MCU and a mode that lets
  it.
* **Gauge.** `DrainIsSeenAlways` for any thresholds and currents. The policy's
  streak is at least the history's (`drained <= critical_streak`): it outlives a
  blip of mains, which the history does not.
* **Panel.** `PanelIsTrueAlways`, the safety part of `PanelIsRight`. The panel's
  memory holds the frame taken to be shown, lit or not, and a thread that is down
  has left it dark or without a page; both need that a panel in need of
  initialisation shows nothing the thread relies on, and except what argonctl
  wrote and a panel that was pulled, until a write comes upon that.
* **Setup.** The safety behind `FixesFix`, for any board, file and services: a
  command printed beside something missing takes its check off the list
  (`FixIsNotAskedAgain`, with config.txt ending in a section of this board and an
  argond that comes up), and puts nothing else onto it (`NothingElseGoesMissing`),
  whatever was run before it. A reboot may: the UPS is seen once its hub is there,
  and an enabled vendor unit runs again. `LackingIs` reduces a review to five
  conditions. The invariant says that a bus that is there has its line in the
  file, since otherwise a reboot would lose it; and that the commands still to be
  run are those a review prints for something missing, the receiver's overlay only
  while a receiver is there.
* **Desktop.** `PressSparesOthers`, `NoFalseRelief` and `NothingUnsaid` for any
  deadlines, any number of presses and any composition of sessions. The button's
  invariant says that what it read is what is scheduled unless others have used
  logind since, and that what it takes for its own was placed by it unless others
  replaced it before it was read back (`mistaken`). The agent's follows a poweroff
  from the coordinator's record to the file, to the watcher's last snapshot, to
  the notice (`PublishedOK`, `SeenOK`, `SeenHeard`), and for logind's side says
  that the one last announced, or left to the UPS notices, is close to one a
  person has been told of (`KnownHeard`), or whose notice could not be delivered.
  It is close, not equal: a replacement within the tolerance is not announced, and
  it may be the one the next is compared with. `TrayIsTrueAlways` is the safety
  part of `TrayFollows`, with `Hasty = FALSE`: two threads write what is pending,
  the loop only when its reading differs from its last push. The invariant
  `MenuOK` says why that is enough: what the menu wrote and no push has replaced
  is what logind holds. A wake is promised only of this tray's poweroff; the
  converse fails for one round when the loop has taken `ours` before the menu
  writes it.
* **Link.** `QuietLineAnswers` for any payloads, schedules, noise and number of
  faults. The invariant `OnItsWay` says where the answer is to a request on a
  line with nothing left over and nothing gone wrong: still to come, owed by the
  device, or its first k bytes in the reader and the others on the wire. Around
  it are lemmas on frames: what a reader makes of each proper part of one, and of
  the whole (`FrameBytes` and those after it). `UnspoiledAnswerIsTrue`: such an
  answer is the truth, and a wake it confirms is the wake held; with `HeldStill`,
  because a wake read back must not have moved since it was asked for.

  `OneFaultIsSeen` is about what the byte sum is for. After one fault the line
  holds what that fault can make of the reply (`AfterOne`), and whatever the
  reader takes for a frame stands there byte by byte (`ReaderTakesFrames`,
  `AlongFinds`). `DamageIsSeen` is the arithmetic: a reply with one byte changed,
  lost, or put before it, or with an acknowledgement before it, holds no frame as
  long as the reply but the reply. One byte that differs changes the sum of the
  bytes (`OneByteTells`), and all else moves the start byte. The sum is a
  recursive function; that it has a value, and only one, is an induction whose
  hypothesis is a set (`SetInduction`, from the well-foundedness of the naturals),
  which the provers can instantiate where an operator they cannot. From it
  follow `AnswerIsTrue` with one fault in all; that a wake read back on a quiet
  line with one fault at most is held, and stays so, after any number of earlier
  faults (`ConfirmedStaysHeld`); and `ConfirmedIsHeld` where nothing fails. The
  theorem on polls assumes payloads of two bytes, as the device's are:
  `DecodeBattery` takes no others. `ReaderNeverOverflows` holds for any bytes.
* **Calendar.** `ConversionIsCalendarAlways`. The run checks every day at three
  times; the proof adds all seconds of the day and says why: `DayOf`, the day that
  `to_unix_seconds` computes, grows by one from each date to the next
  (`DayAfter`), and `from_unix_seconds` undoes it (`YearIsFound`, `MonthOfYear`);
  of the 400-year eras, whose years begin in March, the device's century reaches
  the last year of one and the first century of the next. `TimeIsKept`
  is that two digits survive BCD, used for the link as well.

Model-checked only. The liveness properties (`CriticalEndsInPoweroff`,
`StopEndsEverything`, `StopsWhenItMust`, `TrayFollows`, `ComesBack`, `FixesFix`,
the liveness part of `PanelIsRight`, `ClockComesRight` of `ClockIsKept` and
`BatteryIsWatched` of `StartIsRight`): liveness under fairness is beyond the
prover.

Beyond the theorems: `AnswerIsTrue` with two faults and `ConfirmedIsHeld` with one
or two are checked by MCLink within its bounds and not proved. With two bytes
changed, or other payloads and noise, a damaged frame may pass the eight-bit sum,
so `AnswerIsTrue` is no theorem for two faults; `ConfirmedIsHeld` fails with
three.

## Where code and documentation disagree

Each of these has a run whose counterexample shows it ("findings"):

1. MCWakeTwice. A second wake request that fails parks the wake of the first,
   whose poweroff stays pending: the machine goes off with no wake to come.
   The answer (`ups.rs:661`) is that the parked wake "cannot come due on a running
   machine", as if it stayed on; the branch before it (`:639`) says so.
2. MCLidSlow. The lid agent delivers the alert of a poweroff, and then looks at
   the deadline before it looks for an opening: with the default delay of a second
   and a delivery as long, the machine powers off with the lid open. `lid.rs:9`
   says "unless the lid was opened in the meantime".

Seen in the models, or while they were written, and left without a run. In each
module the property or exception that names it is given.

Poweroffs and wakes:

* `recovered()` cancels when it cannot read what is pending (`power.rs:379`), so
  another user's shutdown may be cancelled; `power.rs:11` says only our own are.
  `CancelsOnlyOurs` excepts it.
* A daemon restarted between scheduling and recovery has no record and does not
  cancel its earlier life's poweroff, unless a critical decision comes first;
  `power.rs:63` says it is recognised.
* `pending()` in `power.rs` drops the kind: somebody's reboot is published and
  announced as a poweroff.
* A poweroff of somebody else within 90 s of ours is taken for ours
  (`power.rs:380`).
* A wake write carried out with its acknowledgement lost is an error with a
  live schedule (`ups.rs:629`); `ups.rs:610` calls that the outcome that must
  never be. `NoLiveAfterError` is checked and proved with no write lost.
* One look that fails lets a schedule come due (`ups.rs:256`); the UPS poll
  interval has no upper bound (`config.rs:303`).
* A request made while the port is held by another process is not answered in
  time, and carried out later (`ups.rs:232`); `control.rs:29` says it is.
  `AnsweredInTime` excepts that case.
* After one late reply the answers lag by one request until the port is opened
  anew; with three faults a wake can then be confirmed by the read-back of an
  earlier one (`ConfirmedIsHeld` with MaxFaults = 3).

Notices, button and tray:

* When the UPS is unplugged while our poweroff is pending, or argond is
  restarted, the file says that none is (`ups.rs:487`), and the notifier says
  "Scheduled shutdown cancelled." (`NoFalseReliefAtAll`).
* A low-battery poweroff is announced twice if the agent looks between its
  placing and the publication. An agent started on a stale file whose deadline is
  logind's never announces it. A deadline moved more than 90 s after a restart, or
  replaced by another within 90 s, is not announced. After a poweroff that was
  left to the UPS notices the replacement is compared with what logind held then,
  not with what was announced, so two replacements can move it by three minutes
  unsaid: `NothingUnsaid` allows twice the tolerance.
* A shutdown that replaces the button's between its question and its cancel is
  cancelled in its place (`button.rs:13`; `disturbed`). One that is placed between
  the button's and the question that reads it back (`power.rs:82`) is recorded as
  the button's, and the next press cancels it (`mistaken`).
* A notice that cannot be delivered is logged and not repeated, since the watcher
  has moved on (`notify.rs:82`): that poweroff stays unannounced (`unheard`).
* A status file that cannot be written keeps what it held (`ups.rs:568`), and may
  name a poweroff that is gone, or none; the D-Bus service, which answers from
  memory, does not (`Outdated`).
* Cancelling before the tray's next poll after a poweroff with wake leaves the
  gone poweroff shown until something else changes (`TrayFollows` with
  `Hasty = TRUE`).

Lid:

* A limit whose restoring write fails is forgotten, since `lift` empties `saved`
  first (`cpu_cap.rs:62`); an argond killed leaves its cap (`slipped`).
* An agent killed with the lid closed, the lid opened before the next one starts:
  the screen is not woken and the cap not lifted (`orphaned`). `powering_off` is
  never reset after a refused poweroff. A failed restore is recorded over by the
  next closing (`lid_agent.rs:305`; `lost`, `passed`).
* A restore that cannot list the radios, or sees none that it recorded, removes
  the record with nothing switched on (`lid_agent.rs:275`, `rfkill.rs:48`): those
  stay off, and nothing tries again (`passed`).
* A screen whose waking fails is only logged, and stays dark with the lid open
  (`lid_agent.rs:369`; `unlit`).

Fan:

* When a lowest curve point is below `min_duty` and stopping is allowed, the fan
  stops and starts again without any margin; `curve.rs:197` promises one
  (`MarginKept` excepts a raised duty).
* A write that the MCU took although it returned an error leaves the task with
  an older belief; the next write of the believed duty is skipped, even the safe
  one of a lost sensor. `fan.rs:28` says the fan is then forced to a safe duty
  (`unsure`).
* `main.rs:11` and `:521` rely on the guard's `Drop` for a panic or any other
  unwind; a clone of the guard lives in the signal thread until a signal comes,
  so that `Drop` does not run on a panic nor on the exit of a daemon whose UPS
  thread stalled (`Leave` in module Fan). ExecStopPost covers both.
* `hot_threshold_c` is documented as "At or above this temperature, a stopping
  daemon restores full duty"; `FanSafeGuard::for_temperature` has no caller.
* `argonctl fan --t5 --write` does not look for argond and `--set` looks before it
  writes, so `shadow_duty` can be stale although `mcu.rs:60` says "We are the only
  writer" (`SoleWriter`, without `crossed`). `--set` also goes ahead while argond
  is activating, which includes its first write, and where systemctl cannot say
  (`fan.rs:354`). argond goes on when its first write fails (`main.rs:536`): the
  MCU then keeps what it had until the first duty of the curve. `--set --write`
  ignores the mode.

Clock:

* T15 whose write is neither confirmed nor undone leaves a wrong clock without
  the warning that `rtc.rs:359` ("must not be left that way") announces
  (`WrongClockIsSaid`).
* The rate is wrong over corrections that were carried out and not recorded, and
  deep discharges; `drift.rs` says of the stretch "Within it, the UPS clock is
  running free" (`RateIsAlwaysDrift`). An implausible UPS clock is never corrected;
  the 31st of February is plausible (`IsPlausible`).

Ports, start and tools:

* A vendor service started after argond is not noticed by what `Start` decided;
  systemd's `Conflicts=` covers the UPS ones. A systemctl that runs and says
  nothing is taken for *not installed* (`foreign.rs:76`), and a service that is
  deactivating or reloading does not contend (`foreign.rs:38`), although it may
  still have its device (`unseen`). `argonctl ups --serial` takes an unknown state
  for *not running* where `rtc` takes it for *running* (`foreign.rs:44`); neither
  refuses when systemctl says nothing. An argonctl run as another user does not
  see root's descriptors, and only TIOCEXCL keeps it out.
* A record forgotten, and the same UPS plugged in again within the hour, is not
  recorded, although `argonctl ups --forget` says the next one is
  (`NextIsRecorded`). A failed save is tried again an hour later.
* A failed switching-off of the display is never retried; `argonctl oled --off`
  beside argond leaves it dark; ExecStopPost's refuses when the vendor's daemon
  was started meanwhile (`left_on`, `unsent`, `touched`).
* A panel that was pulled and put back between two writes of argond is off and not
  set up, and as long as the page stays the same nothing is written that would
  fail: it stays dark, and a new page is sent to a panel that is not set up.
  `oled.rs:267` speaks of a panel "unplugged and plugged back in" and covers the one
  that a write came upon (`pulled`). One that is not there when argond starts has no
  thread until argond is restarted (`oled.rs:168`).
* `argonctl oled --status --write` leaves a status page with argond down, which
  nothing takes away (`touched`).
* A battery that drains by less than 200 counts is taken for mains
  (`cw2217.rs:97`).
* setup never reports the header bus as MISSING on a Pi 4 case with an MCU or a
  display, because both are looked for over that bus (`NeededIsMissing`).
  `tee -a` appends to whatever section config.txt ends in, so with a foreign last
  section the fix never takes effect. A vendor unit stopped with
  `systemctl stop` is back after a reboot. A config.txt that cannot be read is
  MISSING with no command beside it (`setup.rs:194`), and the rest of the boot checks
  are not made; `systemctl start argond` is offered again as long as argond does not
  come up (`Beyond`).

## Not modelled

`PROJECT.json` ("components") lists every part.

* *Telemetry* exports what other threads publish; it writes to no device, and no
  other part waits for it.
* *Reports.* `argonctl` doctor, zigbee, battery, button and what the other
  commands print: input and output, with no state that lasts.
* *Parsers and encoders* whose value no property tells apart: HID report
  descriptors, fonts and pixels, Zigbee coordinator names, fan configuration of
  the kernel. They are pure functions with exhaustive unit tests.
* *Discovery.* Reading `/sys` and `/proc`: its failures are the failing readings,
  ports and buses of the modules.
* *Drawing* of the tray's icon and menu, and of pages; a page is a value.
* *Packaging* beyond the unit file, the postinst and the ONE UP takeover: polkit
  and udev rules are data.
* *Modes of main without a device loop*: `--once`, `--print-man`.

Not covered by a property, although the code is modelled: a step of the system
clock between two looks at the wake register.

## Plan

Done: the parts listed under [the modules](#the-modules), and the proofs listed
under [what is proved](#what-is-proved). What would come next, in this order:

1. `ConfirmedIsHeld` with one fault, for every line: what is left over from an
   earlier request has to be followed through the reader, too.
2. The composition of LidAgent and Tray with Wake: three more users of logind's
   one poweroff, against an abstract logind they all implement.
3. A system clock that steps, in Wake and Clock together.
