------------------------------ MODULE Notices ------------------------------
(***************************************************************************)
(* crates/argon-cli/src/notify.rs and argon-device/src/shutdown_notice.rs: *)
(* the agent in a desktop session that turns the status file and logind's  *)
(* schedule into notifications.  One look reads the file, then logind,     *)
(* with the world moving in between.                                       *)
(***************************************************************************)
EXTENDS Desk

VARIABLES
    looked,     \* it has looked since the last publication or tick
    agent,      \* "file" or "logind": what the loop reads next
    watcher,    \* the Watcher
    known,      \* ShutdownWatcher: the poweroff last announced
    ups_at,     \* ups_shutdown_at, read from the file in this look
    heard,      \* history: the poweroffs a person has been told of
    unheard,    \* history: those whose notice could not be delivered
    standing,   \* history: the poweroff last published has stood since
    cried,      \* history: the last look at the file called a poweroff cancelled
                \* that was pending
    excused     \* history: the daemon stopped or lost the UPS with a poweroff on
                \* record or published

noticeVars == <<looked, agent, watcher, known, ups_at, heard, unheard, standing, cried, excused>>

NoticesInit ==
    /\ looked = TRUE /\ agent = "file"
    /\ watcher = NewWatcher
    /\ known = None /\ ups_at = None
    /\ heard = {} /\ unheard = {} /\ standing = FALSE /\ cried = FALSE /\ excused = FALSE

\* send: a notice reaches a person, or cannot be delivered, which is logged; the
\* watcher has moved on, and it is not repeated.
Hear(notice, at) ==
    IF notice # None /\ notice.text \in {"powering off", "button", "scheduled"}
    THEN \/ heard' = heard \cup {at} /\ UNCHANGED unheard
         \/ unheard' = unheard \cup {at} /\ UNCHANGED heard
    ELSE UNCHANGED <<heard, unheard>>

\* The first half of the loop: the file, through the Watcher.
ReadFile ==
    /\ on /\ agent = "file"
    /\ Hear(SaidOf(watcher, file, now), IF file = None THEN None ELSE file.shutdown_at)
    /\ watcher' = Observed(watcher, file, now)
    /\ ups_at' = IF file = None THEN None ELSE file.shutdown_at
    /\ agent' = "logind" /\ looked' = TRUE
    /\ cried' = (/\ SaidOf(watcher, file, now) # None
                  /\ SaidOf(watcher, file, now).text \in {"restored, cancelled", "cancelled"}
                  /\ standing)
    /\ UNCHANGED <<deskVars, known, standing, excused>>

\* Mutant: a poweroff is announced only when there was none.
AnnouncedFirst(p) ==
    IF known # None \/ (ups_at # None /\ Close(ups_at, p.at))
    THEN None
    ELSE Notice("Critical", IF p.by = "button" THEN "button" ELSE "scheduled")

\* ShutdownWatcher::observe on a poweroff.  The one the UPS notices cover is
\* remembered, and left to them.
Announced(p) ==
    IF \/ known # None /\ Close(known, p.at)
       \/ ups_at # None /\ Close(ups_at, p.at)
    THEN None
    ELSE Notice("Critical", IF p.by = "button" THEN "button" ELSE "scheduled")

KnownAfter(p) == IF known # None /\ Close(known, p.at) THEN known ELSE p.at

\* The second half: logind, which may be unreadable.
ReadLogind ==
    /\ on /\ agent = "logind"
    /\ IF sched = None
       THEN /\ Hear(IF known = None THEN None ELSE Notice("Normal", "cancelled"), None)
            /\ known' = None
       ELSE /\ Hear(Announced(sched), sched.at)
            /\ known' = KnownAfter(sched)
    /\ agent' = "file"
    /\ UNCHANGED <<deskVars, looked, watcher, ups_at, standing, cried, excused>>

LogindUnreadable ==
    /\ on /\ agent = "logind"
    /\ agent' = "file"
    /\ UNCHANGED <<deskVars, looked, watcher, known, ups_at, heard, unheard, standing, cried, excused>>

\* What the rest of the machine does to the agent, which looks every two
\* seconds at what is published every ten: it misses no publication.
NoticesBystander ==
    /\ (file' # file \/ now' # now) => looked
    /\ looked' = (looked /\ file' = file /\ now' = now)
    /\ standing' = (/\ sched' = sched /\ sched # None
                    /\ IF file' # file /\ file'.shutdown_at # None
                       THEN Close(file'.shutdown_at, sched.at) ELSE standing)
    /\ excused' = \/ excused
                  \/ /\ recorded # None \/ (file # None /\ file.shutdown_at # None)
                     /\ ~up' \/ level' = MISSING
    /\ UNCHANGED <<agent, watcher, known, ups_at, heard, unheard, cried>>

Agent == ReadFile \/ ReadLogind \/ LogindUnreadable
=============================================================================
