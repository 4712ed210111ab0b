-------------------------------- MODULE Port --------------------------------
(***************************************************************************)
(* The serial port of the UPS and who reads it: argond's UPS thread        *)
(* (crates/argon-daemon/src/ups.rs), `argonctl ups --serial` and `argonctl *)
(* rtc` (argon-cli/src/ups.rs, rtc.rs), the vendor's argonupsrtcd; how each *)
(* looks for the others (argon-hal/src/foreign.rs); and the record of the  *)
(* UPS that was seen (argon-device/src/ups_seen.rs), with what argond says *)
(* of one that is gone and `argonctl ups --forget`.                        *)
(***************************************************************************)
EXTENDS Integers, FiniteSets

CONSTANTS
    NoUnit,
    Units,        \* the UPSs that may be plugged in
    ReopenAfter,  \* REOPEN_AFTER
    RefreshEvery, \* REFRESH_EVERY, in ticks
    MaxTicks,     \* bound
    MaxEvents     \* bound: units plugged and pulled, restarts, tools, questions unanswered

ASSUME PortAssumption ==
    /\ ReopenAfter \in Nat \ {0} /\ RefreshEvery \in Nat \ {0}
    /\ NoUnit \notin Units /\ NoUnit \notin [unit : Units, seen : Nat]

VARIABLES
    unit,         \* what is plugged in, or NoUnit
    thread,       \* argond's UPS thread: "off" or "on"
    monitor,      \* its link: "none", "open", or "dead" since its unit was pulled
    connected,    \* what the link's unit was identified as
    failures,
    written,      \* Recorder: what it wrote and when, or NoUnit
    record,       \* the file: a unit and when it was seen, or NoUnit
    latest,       \* what argond answers with: a level and, of a missing unit, the record
    tool,         \* argonctl with the port: none, or what it is, whose, and
                  \* whether it "looked" or has it "open"
    vendor,       \* argonupsrtcd runs, and holds the port
    clock,
    last,         \* history: the unit read last and when, or NoUnit
    excused,      \* history: "forgotten" or "unsaved", and not written since; or "no"
    raced,        \* history: a look was overtaken, or not told of the vendor's unit
    events

portVars == <<unit, thread, monitor, connected, failures, written, record, latest, tool, vendor,
              clock, last, excused, raced, events>>
threadLink == <<monitor, connected, failures, written, latest>>
history == <<last, excused, raced>>

NoTool == [kind |-> "none", user |-> "none", has |-> "none"]
Says(level, missing) == [level |-> level, missing |-> missing]

PortInit ==
    /\ unit \in Units \cup {NoUnit} /\ thread = "off" /\ monitor = "none"
    /\ connected = NoUnit /\ failures = 0 /\ written = NoUnit /\ record = NoUnit
    /\ latest = Says("none", NoUnit)
    /\ tool = NoTool /\ vendor \in BOOLEAN /\ clock = 0
    /\ last = NoUnit /\ excused = "no" /\ raced = FALSE /\ events = 0

Event == events < MaxEvents /\ events' = events + 1

-----------------------------------------------------------------------------
(* Who holds the port. *)

Readers ==
    (IF monitor = "open" THEN {"argond"} ELSE {})
        \cup (IF tool.has = "open" THEN {"tool"} ELSE {}) \cup (IF vendor /\ unit # NoUnit THEN {"vendor"} ELSE {})

\* The packaged daemon is user argon; a tool is run as that user or as root.
UserOf(reader) == IF reader = "argond" THEN "argon" ELSE IF reader = "tool" THEN tool.user ELSE "root"

\* Mutant: the scan finds nobody.
PortOwnersUnseen(user) == {}

\* port_owners: of other users' processes only root sees any.
PortOwners(user) == {r \in Readers : user = "root" \/ UserOf(r) = user}

\* The serialport library opens exclusively (TIOCEXCL), which root overrides;
\* the vendor's does not.
OpensFor(user) == unit # NoUnit /\ (user = "root" \/ Readers \subseteq {"vendor"})

-----------------------------------------------------------------------------
(* The record. *)

\* Mutant: what is written is not compared with what is read.
DueByTime(u) == written = NoUnit \/ clock - written.seen >= RefreshEvery

\* due, with same_unit
Due(u) == written = NoUnit \/ written.unit # u \/ clock - written.seen >= RefreshEvery

Seen(u) == [unit |-> u, seen |-> clock]

\* remember: what could not be saved counts as written.
Remember ==
    IF ~Due(connected) THEN UNCHANGED <<written, record, excused, events>>
    ELSE /\ written' = Seen(connected)
         /\ \/ record' = Seen(connected) /\ excused' = "no" /\ UNCHANGED events
            \/ UNCHANGED record /\ excused' = "unsaved" /\ Event

\* absence
Absent == IF record = NoUnit THEN Says("absent", NoUnit) ELSE Says("missing", record)

-----------------------------------------------------------------------------
(* A round of argond's thread. *)

\* open_link
OpenLink ==
    /\ thread = "on" /\ monitor = "none"
    /\ \/ /\ unit = NoUnit /\ latest' = Absent
          /\ UNCHANGED <<monitor, connected, failures, raced>>
       \/ \* Held by a process it can see, or not to be opened: it says nothing.
          /\ unit # NoUnit
          /\ UNCHANGED <<monitor, connected, failures, latest, raced>>
       \/ /\ PortOwners("argon") = {} /\ OpensFor("argon")
          /\ monitor' = "open" /\ failures' = 0
          /\ connected' = unit
          /\ raced' = (raced \/ tool.has = "looked")
          /\ UNCHANGED latest
    /\ UNCHANGED <<unit, thread, written, record, tool, vendor, clock, last, excused, events>>

\* A poll that is answered.
PollAnswered ==
    /\ thread = "on" /\ monitor = "open"
    /\ failures' = 0 /\ latest' = Says("reading", NoUnit)
    /\ Remember
    /\ last' = Seen(connected)
    /\ UNCHANGED <<unit, thread, monitor, connected, tool, vendor, clock, raced>>

\* One that is not, for whatever reason; after REOPEN_AFTER of them the port is
\* given up.
PollFails ==
    /\ thread = "on" /\ monitor \in {"open", "dead"}
    /\ failures' = IF failures + 1 >= ReopenAfter THEN 0 ELSE failures + 1
    /\ monitor' = IF failures + 1 >= ReopenAfter THEN "none" ELSE monitor
    /\ connected' = IF monitor' = "none" THEN NoUnit ELSE connected
    /\ latest' = Says("failed", NoUnit)
    /\ UNCHANGED <<unit, thread, written, record, tool, vendor, clock, history, events>>

\* systemd: argond and the vendor's units stop each other.
ThreadStarts ==
    /\ thread = "off" /\ thread' = "on" /\ vendor' = FALSE
    /\ UNCHANGED <<unit, threadLink, record, tool, clock, history, events>>

ThreadStops ==
    /\ thread = "on" /\ thread' = "off"
    /\ monitor' = "none" /\ connected' = NoUnit /\ failures' = 0 /\ written' = NoUnit
    /\ latest' = Says("none", NoUnit)
    /\ UNCHANGED <<unit, record, tool, clock, last, excused>>

Restart == ThreadStops /\ Event /\ UNCHANGED <<vendor, raced>>

-----------------------------------------------------------------------------
(* argonctl. *)

\* serial_path asks of the vendor's unit whether it is active; port_is_free takes
\* a systemctl that cannot be run for a yes, but not one that says nothing.
VendorRefuses(kind, answer) ==
    \/ answer = "told" /\ vendor
    \/ answer = "unknown" /\ kind = "rtc"

\* serial_path and port_is_free, which also asks for argond and takes no answer
\* for a no.
ToolLooks(kind, user) ==
    /\ tool = NoTool /\ unit # NoUnit /\ Event
    /\ \E answer \in {"told", "unknown", "nothing"}, answered \in BOOLEAN :
         /\ IF \/ VendorRefuses(kind, answer)
               \/ kind = "rtc" /\ thread = "on" /\ answered
               \/ PortOwners(user) # {}
            THEN UNCHANGED tool
            ELSE tool' = [kind |-> kind, user |-> user, has |-> "looked"]
         /\ raced' = (raced \/ (vendor /\ ~VendorRefuses(kind, answer) /\ user # "root"))
    /\ UNCHANGED <<unit, thread, threadLink, record, vendor, clock, last, excused>>

ToolOpens ==
    /\ tool.has = "looked"
    /\ tool' = IF OpensFor(tool.user) THEN [tool EXCEPT !.has = "open"] ELSE NoTool
    /\ UNCHANGED <<unit, thread, threadLink, record, vendor, clock, history, events>>

\* A watch is interrupted, an experiment is over.
ToolEnds ==
    /\ tool.has = "open" /\ tool' = NoTool
    /\ UNCHANGED <<unit, thread, threadLink, record, vendor, clock, history, events>>

\* forget
Forget ==
    /\ record # NoUnit /\ record' = NoUnit /\ excused' = "forgotten" /\ Event
    /\ UNCHANGED <<unit, thread, threadLink, tool, vendor, clock, last, raced>>

-----------------------------------------------------------------------------
(* The rest. *)

\* The vendor's unit looks for nobody.
VendorStarts ==
    /\ ~vendor /\ vendor' = TRUE /\ Event
    /\ IF thread = "on" THEN ThreadStops
       ELSE UNCHANGED <<unit, thread, threadLink, record, tool, clock, last, excused>>
    /\ raced' = (raced \/ tool # NoTool)

VendorStops ==
    /\ vendor /\ vendor' = FALSE
    /\ UNCHANGED <<unit, thread, threadLink, record, tool, clock, history, events>>

Pull ==
    /\ unit # NoUnit /\ unit' = NoUnit /\ Event
    /\ monitor' = IF monitor = "open" THEN "dead" ELSE monitor
    /\ tool' = IF tool.has = "open" THEN NoTool ELSE tool
    /\ UNCHANGED <<thread, connected, failures, written, latest, record, vendor, clock, history>>

Plug ==
    /\ unit = NoUnit /\ Event
    /\ unit' \in Units
    /\ raced' = (raced \/ tool.has = "looked")
    /\ UNCHANGED <<thread, threadLink, record, tool, vendor, clock, last, excused>>

PortTick ==
    /\ clock < MaxTicks /\ clock' = clock + 1
    /\ UNCHANGED <<unit, thread, threadLink, record, tool, vendor, history, events>>

PortNext ==
    \/ OpenLink \/ PollAnswered \/ PollFails \/ ThreadStarts \/ Restart
    \/ \E kind \in {"ups", "rtc"}, user \in {"root", "argon"} : ToolLooks(kind, user)
    \/ ToolOpens \/ ToolEnds \/ Forget
    \/ VendorStarts \/ VendorStops \/ Pull \/ Plug \/ PortTick

PortSpec == PortInit /\ [][PortNext]_portVars

-----------------------------------------------------------------------------
\* The types of the variables.
PortTypeOK ==
    LET Records == [unit : Units, seen : Nat] \cup {NoUnit} IN
    /\ unit \in Units \cup {NoUnit} /\ connected \in Units \cup {NoUnit}
    /\ thread \in {"off", "on"} /\ monitor \in {"none", "open", "dead"}
    /\ written \in Records /\ record \in Records /\ last \in Records
    /\ tool \in [kind : {"none", "ups", "rtc"}, user : {"none", "root", "argon"},
                 has : {"none", "looked", "open"}]
    /\ clock \in Nat /\ excused \in {"no", "forgotten", "unsaved"}
    /\ vendor \in BOOLEAN /\ raced \in BOOLEAN

\* argond that cannot find a UPS names the one it read last, and when, however
\* often it was started since; unless that one was forgotten or not saved.
LossIsReported ==
    latest.level \in {"absent", "missing"} /\ excused = "no" =>
        IF last = NoUnit THEN latest.level = "absent"
        ELSE /\ latest.level = "missing" /\ latest.missing.unit = last.unit
             /\ last.seen - latest.missing.seen \in 0..(RefreshEvery - 1)

\* "argond reports no UPS now, and records the next one it reads."
NextIsRecorded ==
    [][latest.level = "absent" /\ latest'.level = "reading" /\ excused' # "unsaved"
         => record' # NoUnit]_portVars

\* "Two readers corrupt each other's frames": there is one, unless it opened the
\* port between another's look and its open, or did not look.
OneReader == Cardinality(Readers) > 1 => raced

\* The port has one reader, and one that loses its UPS knows which it was.
PortIsKept == LossIsReported /\ OneReader
=============================================================================
