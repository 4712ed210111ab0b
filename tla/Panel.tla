-------------------------------- MODULE Panel --------------------------------
(***************************************************************************)
(* The status page on the case's display: the thread of crates/argon-      *)
(* daemon/src/oled.rs, the panel's driver (argon-device/src/oled.rs), the  *)
(* switch of the desktop, and `argonctl oled` (argon-cli/src/oled.rs),     *)
(* which is also systemd's ExecStopPost.  A page is a number: what         *)
(* oled_page.rs makes of the status, the temperature and the burn-in       *)
(* shift at that moment.                                                   *)
(***************************************************************************)
EXTENDS Integers

CONSTANTS
    Pages,         \* the pages there are to show
    MaxUpsets      \* bound: changes of the page, the switch and the panel, writes
                   \* that fail, kills, uses of the tool

\* What a panel shows that is no page.
ASSUME PanelAssumption == Pages \intersect {"none", "blank", "dark", "torn", "pattern"} = {}

VARIABLES
    page,          \* what there is to show
    lit, ram,      \* the panel: it displays, and what
    attached,      \* it answers
    on, remembered,   \* OledControl's switch, and the record that it is off
    drawing,       \* the thread: "gone" (argond has ended), "down" after ExecStopPost,
                   \* "without" where argond found no panel to draw on, "look", "init",
                   \* "flush", "off", or "leave" for its last write
    shown,         \* the frame it takes to be shown, or "none"
    needs_init, dark,
    inHand,        \* the frame being drawn
    touched,       \* history: argonctl changed the panel, and it was not set up or put out
                   \* since, nor has a write failed
    pulled,        \* history: the panel was pulled, and no write has failed since
    unsent,        \* history: the last switching off could not be sent
    left_on,       \* history: nor could ExecStopPost's
    upsets

panelState == <<lit, ram, attached>>
drawer == <<shown, needs_init, dark, inHand>>
excuses == <<touched, pulled, unsent, left_on>>
panelVars == <<page, panelState, on, remembered, drawing, drawer, excuses, upsets>>

PanelInit ==
    /\ page \in Pages /\ lit = FALSE /\ ram = "blank" /\ attached = TRUE
    /\ on = TRUE /\ remembered = FALSE /\ drawing = "down"
    /\ shown = "none" /\ needs_init = TRUE /\ dark = FALSE /\ inHand = "none"
    /\ touched = FALSE /\ pulled = FALSE /\ unsent = FALSE /\ left_on = FALSE /\ upsets = 0

Upset == upsets < MaxUpsets /\ upsets' = upsets + 1

Looks == IF lit THEN ram ELSE "dark"

-----------------------------------------------------------------------------
(* The driver.  A write fails on a panel that does not answer, or may. *)

Fails == IF attached THEN Upset ELSE UNCHANGED upsets
Works == attached /\ UNCHANGED upsets

\* init and set_contrast: it displays what it holds.
Init1306 == lit' = TRUE /\ UNCHANGED <<ram, attached>>
Init1306Fails == lit' \in {lit, attached} /\ UNCHANGED <<ram, attached>>

\* flush, in chunks: it may end in the middle.
Flush(frame) == ram' = frame /\ UNCHANGED <<lit, attached>>
FlushFails == ram' \in {ram, "torn"} /\ UNCHANGED <<lit, attached>>

\* off: a blank frame, then the power.
Off1306 == ram' = "blank" /\ lit' = FALSE /\ UNCHANGED attached
Off1306Fails == ram' \in {ram, "torn", "blank"} /\ UNCHANGED <<lit, attached>>

-----------------------------------------------------------------------------
(* run *)

\* systemd starts argond; spawn opens the bus and looks whether the panel answers.
\* If it does not, or cannot be asked, there is no thread as long as argond runs.
StartDrawing ==
    /\ drawing = "down"
    /\ \/ Works /\ drawing' = "look"
       \/ Fails /\ drawing' = "without"
    /\ on' = ~remembered
    /\ shown' = "none" /\ needs_init' = TRUE /\ dark' = FALSE /\ inHand' = "none"
    /\ UNCHANGED <<page, panelState, remembered, excuses>>

\* A round: off, back on, a new picture, or nothing to do.
LookAtSwitch ==
    /\ drawing = "look"
    /\ \/ /\ ~on /\ ~dark /\ drawing' = "off" /\ dark' = TRUE /\ shown' = "none"
          /\ UNCHANGED <<needs_init, inHand>>
       \/ /\ on /\ (dark \/ needs_init \/ shown # page)
          /\ dark' = FALSE /\ needs_init' = (needs_init \/ dark) /\ inHand' = page
          /\ drawing' = IF needs_init' THEN "init" ELSE "flush"
          /\ UNCHANGED shown
    /\ UNCHANGED <<page, panelState, on, remembered, excuses, upsets>>

SwitchOff ==
    /\ drawing = "off" /\ drawing' = "look"
    /\ \/ Works /\ Off1306 /\ unsent' = FALSE
       \/ Fails /\ Off1306Fails /\ unsent' = TRUE
    /\ UNCHANGED <<page, on, remembered, drawer, touched, pulled, left_on>>

\* Mutant: it goes on where it was.
DrawAgain == needs_init' = FALSE /\ shown' = "none"

\* A panel that has been away has to be set up again.
DrawFailed == needs_init' = TRUE /\ shown' = "none"

SetUp ==
    /\ drawing = "init"
    /\ \/ Works /\ Init1306 /\ drawing' = "flush" /\ UNCHANGED <<needs_init, shown>>
       \/ Fails /\ Init1306Fails /\ drawing' = "look" /\ DrawFailed
    /\ touched' = FALSE /\ pulled' = FALSE
    /\ UNCHANGED <<page, on, remembered, dark, inHand, unsent, left_on>>

DrawFrame ==
    /\ drawing = "flush" /\ drawing' = "look"
    /\ \/ Works /\ Flush(inHand) /\ shown' = inHand /\ needs_init' = FALSE /\ UNCHANGED <<touched, pulled>>
       \/ Fails /\ FlushFails /\ DrawFailed /\ touched' = FALSE /\ pulled' = FALSE
    /\ UNCHANGED <<page, on, remembered, dark, inHand, unsent, left_on>>

\* The stop flag: the panel is blanked on the way out.
Stopping ==
    /\ drawing = "look" /\ Upset /\ drawing' = "leave"
    /\ UNCHANGED <<page, panelState, on, remembered, drawer, excuses>>

BlankOnLeaving ==
    /\ drawing = "leave" /\ drawing' = "gone"
    /\ (Works /\ Off1306) \/ (Fails /\ Off1306Fails)
    /\ UNCHANGED <<page, on, remembered, drawer, excuses>>

KillDrawing ==
    /\ drawing \notin {"gone", "down"} /\ Upset /\ drawing' = "gone"
    /\ UNCHANGED <<page, panelState, on, remembered, drawer, excuses>>

-----------------------------------------------------------------------------
(* argonctl oled, which looks for the vendor's daemon and not for argond. *)

\* Mutant: it does not know of the display.
StopPostIdle ==
    /\ drawing = "gone" /\ drawing' = "down"
    /\ UNCHANGED <<page, panelState, on, remembered, drawer, excuses, upsets>>

\* --off --if-enabled, after argond has ended in whatever way; it also fails where
\* the vendor's daemon has been started meanwhile.
StopPost1306 ==
    /\ drawing = "gone" /\ drawing' = "down"
    /\ \/ Works /\ Off1306 /\ left_on' = FALSE /\ touched' = FALSE
       \/ Fails /\ Off1306Fails /\ left_on' = TRUE /\ UNCHANGED touched
    /\ UNCHANGED <<page, on, remembered, drawer, pulled, unsent>>

\* --write, --status --write and --off, done or failing in the middle.
ToolWrites ==
    /\ attached /\ Upset
    /\ \/ lit' = TRUE /\ ram' \in {ram, "torn", "pattern", page} /\ UNCHANGED attached
       \/ Off1306
       \/ Off1306Fails
    /\ touched' = TRUE
    /\ UNCHANGED <<page, on, remembered, drawing, drawer, pulled, unsent, left_on>>

\* set: the switch, and then the record, which may fail; refused with no thread.
SetSwitch ==
    /\ drawing \notin {"gone", "down", "without"} /\ Upset
    /\ on' = ~on /\ remembered' \in {remembered, on}
    /\ UNCHANGED <<page, panelState, drawing, drawer, excuses>>

-----------------------------------------------------------------------------
PageChanges ==
    /\ Upset /\ page' \in Pages \ {page}
    /\ UNCHANGED <<panelState, on, remembered, drawing, drawer, excuses>>

\* Pulled, and plugged in again: it is off then, and holds anything.
Detach ==
    /\ attached /\ Upset /\ attached' = FALSE /\ lit' = FALSE /\ ram' = "torn"
    /\ pulled' = TRUE
    /\ UNCHANGED <<page, on, remembered, drawing, drawer, touched, unsent, left_on>>

Attach ==
    /\ ~attached /\ attached' = TRUE
    /\ UNCHANGED <<page, lit, ram, on, remembered, drawing, drawer, excuses, upsets>>

Draws == LookAtSwitch \/ SwitchOff \/ SetUp \/ DrawFrame \/ BlankOnLeaving
PanelNext ==
    \/ StartDrawing \/ Draws \/ Stopping \/ KillDrawing \/ StopPost1306
    \/ ToolWrites \/ SetSwitch \/ PageChanges \/ Detach \/ Attach

PanelSpec ==
    /\ PanelInit /\ [][PanelNext]_panelVars
    /\ WF_panelVars(Draws) /\ WF_panelVars(StartDrawing)
    /\ WF_panelVars(StopPost1306) /\ WF_panelVars(Attach)

-----------------------------------------------------------------------------
\* In the end the panel of a running thread shows what there is to show, or
\* nothing once it was switched off, through failed writes and restarts: unless
\* argonctl changed it, or it was pulled and put back between two writes, or
\* switching it off could not be sent, which is not tried again.
PanelFollows ==
    drawing # "without" =>
        /\ on /\ ~touched /\ ~pulled => Looks = page
        /\ ~on /\ ~unsent /\ ~touched => Looks \in {"dark", "blank"}

\* "a status page left on the panel would go on claiming whatever it last said":
\* without a thread there is none but one that argonctl put there.
NothingLeftShown ==
    drawing \in {"down", "without"} /\ ~left_on /\ ~touched => Looks \notin Pages

\* A frame is not drawn again while it is taken to be shown, so it has to be what
\* is to be seen there, unless argonctl has changed the panel, or it was pulled
\* and no write has come upon that yet.
TakenIsShown ==
    drawing \in {"look", "init", "flush", "off"} /\ shown # "none" /\ ~touched /\ ~pulled => Looks = shown

PanelIsRight == [](NothingLeftShown /\ TakenIsShown) /\ [](drawing # "down" => <>[]PanelFollows)
=============================================================================
