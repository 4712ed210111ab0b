------------------------------ MODULE Desktop ------------------------------
(***************************************************************************)
(* The case button, the notification agent and the panel icon beside the   *)
(* daemon: three programs that look at one logind and one status file, at  *)
(* their own pace, and of which two also schedule and cancel.              *)
(***************************************************************************)
EXTENDS Notices, Button, Tray

CONSTANT Sessions    \* which of the three run together, the acts and the pulses there
ASSUME SessionsAssumption == Sessions \subseteq (SUBSET {"button", "agent", "tray"}) \X Nat \X Nat

VARIABLE session     \* those that run

vars == <<session, deskVars, noticeVars, buttonVars, trayVars>>

Init ==
    /\ DeskInit /\ NoticesInit /\ ButtonInit /\ TrayInit
    /\ \E s \in Sessions : session = s[1] /\ acts = s[2] /\ presses = s[3]

\* A program that does not run sees nothing.
BesideButton == UNCHANGED session /\ IF "button" \in session THEN ButtonBystander ELSE UNCHANGED buttonVars
BesideAgent == UNCHANGED session /\ IF "agent" \in session THEN NoticesBystander ELSE UNCHANGED noticeVars
BesideTray == UNCHANGED session /\ IF "tray" \in session THEN TrayBystander ELSE UNCHANGED trayVars

ButtonStep == "button" \in session /\ (Pulse \/ MinGapPasses \/ Press) /\ BesideAgent /\ BesideTray
AgentStep == "agent" \in session /\ Agent /\ BesideButton /\ BesideTray
TrayStep == "tray" \in session /\ (Loop \/ Menu) /\ BesideButton /\ BesideAgent
OtherStep == (Ups \/ World) /\ BesideButton /\ BesideAgent /\ BesideTray

Next == ButtonStep \/ AgentStep \/ TrayStep \/ OtherStep

\* The loops of the daemon, the agent and the tray go on; logind answers again
\* and again.
Spec ==
    /\ Init /\ [][Next]_vars
    /\ WF_vars(OtherStep /\ Publish)
    /\ WF_vars(AgentStep /\ ReadFile)
    /\ SF_vars(AgentStep /\ ReadLogind)
    /\ WF_vars(TrayStep /\ Loop)
    /\ WF_vars(TrayStep /\ NotePowerOff)

-----------------------------------------------------------------------------
\* A press never cancels a shutdown that is not the button's, unless others
\* have used logind while the press was handled, or replaced the button's
\* before it was read back, and it never replaces one that was pending when it
\* was made: whatever was recognised after a restart, forgotten after a failure
\* or recorded as intended.
PressSparesOthers ==
    [][ButtonStep /\ sched # None /\ sched' # sched /\ ~disturbed /\ ~mistaken =>
         sched.by = "button" /\ sched' = None]_vars

\* Neither is further from the other than two that are close to a third.
NearTwice(a, b) == a - b <= 2 * Tolerance /\ b - a <= 2 * Tolerance

\* After a look at logind, a person has been told of the poweroff that is
\* pending, or the notice of it could not be delivered: by the UPS notices or by
\* the schedule's, whichever saw it first.  A schedule's notice may be of one
\* that it replaced, which the UPS notice was taken for: each within the
\* tolerance of the next.
NothingUnsaid ==
    [][ReadLogind /\ ~excused /\ sched # None =>
         \E at \in heard' \cup unheard' : NearTwice(at, sched.at)]_vars

\* No notice says that a poweroff is cancelled while it stands.
NoFalseRelief == cried => excused
NoFalseReliefAtAll == ~cried

\* While logind keeps saying the same to the tray, the tray shows it.
TrayFollows ==
    <>[](on /\ ~blind /\ menu = "closed")
      => <>[](IF sched = None THEN tray_pending = None
              ELSE tray_pending # None /\ tray_pending.at = sched.at)
=============================================================================
