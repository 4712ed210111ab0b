---------------------------- MODULE ControlRelay ----------------------------
(***************************************************************************)
(* How a control request reaches the thread that owns the UPS port and     *)
(* comes back: relay in crates/argon-daemon/src/control.rs, called by the  *)
(* control socket's thread and by the D-Bus service, and the loop of the   *)
(* UPS thread in crates/argon-daemon/src/ups.rs with serve_requests and    *)
(* sleep_unless.  What a request does on the UPS is module Wake.           *)
(*                                                                         *)
(* A tick is long against a slice of sleep_unless and against a step that  *)
(* does no I/O, so those take no time; a poll and a request take up to     *)
(* PollTicks and RequestTicks.                                             *)
(***************************************************************************)
EXTENDS Integers, Sequences

CONSTANTS
    Callers,        \* threads that relay: the control socket's, D-Bus's
    Interval,       \* the poll interval
    AnswerTimeout,  \* ANSWER_TIMEOUT
    StaleAfter,     \* Workers::stale_after
    PollTicks,      \* bound: one monitoring cycle and its housekeeping
    RequestTicks,   \* bound: one request's exchanges
    Ports,          \* what opening the port may come to
    MaxCalls        \* bound: requests of one caller

ASSUME RelayAssumption ==
    /\ {Interval, AnswerTimeout, StaleAfter, PollTicks, RequestTicks} \subseteq Nat \ {0}
    /\ Ports \subseteq {"opened", "absent", "held"}
    /\ MaxCalls \in Nat

VARIABLES
    pc,        \* where the UPS thread stands
    monitor,   \* whether it has the port open
    spent,     \* ticks spent in the present step
    queue,     \* the channel: <<caller, number of its call>>
    current,   \* the request being handled
    waiting,   \* Requests::waiting, the flag that ends a sleep early
    stopping,  \* the daemon's stop flag
    caller,    \* where each caller stands
    calls,     \* how many calls each has made
    replied,   \* the last of its calls that each was replied to
    age,       \* how long each has waited for its reply
    outcome,   \* what each caller's last call came to
    quiet,     \* ticks since the UPS thread last stored its heartbeat
    blocked    \* history: the calls under way while the port was held

thread == <<pc, monitor, spent, current>>
clients == <<caller, calls, age, outcome>>
vars == <<thread, queue, waiting, stopping, clients, replied, quiet, blocked>>

ThreadSteps == {"top", "poll", "clear", "drain", "work", "sleep", "held", "gone"}
Outcomes == {"none", "answer", "timeout", "refused", "dropped"}

Init ==
    /\ pc = "top" /\ monitor = FALSE /\ spent = 0 /\ current = <<>>
    /\ queue = <<>> /\ waiting = FALSE /\ stopping = FALSE
    /\ caller = [c \in Callers |-> "idle"]
    /\ calls = [c \in Callers |-> 0]
    /\ replied = [c \in Callers |-> 0]
    /\ age = [c \in Callers |-> 0]
    /\ outcome = [c \in Callers |-> "none"]
    /\ quiet = 0
    /\ blocked = {}

Goto(step) == pc' = step /\ spent' = 0

-----------------------------------------------------------------------------
(* relay. *)

Return(c, o) ==
    /\ caller' = [caller EXCEPT ![c] = "idle"]
    /\ outcome' = [outcome EXCEPT ![c] = o]

\* to_ups.send fails once the UPS thread has dropped its end.
Send(c) ==
    /\ caller[c] = "idle" /\ calls[c] < MaxCalls
    /\ calls' = [calls EXCEPT ![c] = @ + 1]
    /\ IF pc = "gone"
       THEN Return(c, "refused") /\ UNCHANGED queue
       ELSE /\ queue' = Append(queue, <<c, calls'[c]>>)
            /\ caller' = [caller EXCEPT ![c] = "sent"]
            /\ UNCHANGED outcome
    /\ age' = [age EXCEPT ![c] = 0]
    /\ blocked' = IF pc = "held" THEN blocked \cup {<<c, calls'[c]>>} ELSE blocked
    /\ UNCHANGED <<thread, waiting, stopping, replied, quiet>>

\* Mutant: the sleeping thread is not told.
FlagForgotten(c) ==
    /\ caller[c] = "sent"
    /\ caller' = [caller EXCEPT ![c] = "waiting"]
    /\ UNCHANGED <<thread, queue, waiting, stopping, calls, age, outcome, replied, quiet, blocked>>

\* Only after the send: the flag says that there is something in the channel.
Flag(c) ==
    /\ caller[c] = "sent"
    /\ waiting' = TRUE
    /\ caller' = [caller EXCEPT ![c] = "waiting"]
    /\ UNCHANGED <<thread, queue, stopping, calls, age, outcome, replied, quiet, blocked>>

\* recv_timeout: the reply, or else the thread's end dropped, or time is up.
Receive(c) ==
    /\ caller[c] = "waiting"
    /\ IF replied[c] = calls[c] THEN Return(c, "answer")
       ELSE IF pc = "gone" THEN Return(c, "dropped")
       ELSE age[c] >= AnswerTimeout /\ Return(c, "timeout")
    /\ UNCHANGED <<thread, queue, waiting, stopping, calls, age, replied, quiet, blocked>>

-----------------------------------------------------------------------------
(* The UPS thread: run. *)

UnderWay == {<<c, calls[c]>> : c \in {d \in Callers : caller[d] # "idle"}}

\* Mutant: a thread that waits for the port does not look at the stop flag.
TopDeaf ==
    /\ pc = "top"
    /\ quiet' = 0
    /\ \E port \in Ports : Goto("held") /\ monitor' = FALSE
    /\ blocked' = blocked \cup UnderWay
    /\ UNCHANGED <<queue, current, waiting, stopping, clients, replied>>

\* The top of the loop: stop, or store the heartbeat, and open the port if it
\* is not.  Stopping drops the channel with whatever is in it.  A port held by
\* somebody else is waited for without serving requests.
Top ==
    /\ pc = "top"
    /\ IF stopping
       THEN Goto("gone") /\ queue' = <<>> /\ UNCHANGED <<monitor, quiet>>
       ELSE /\ quiet' = 0
            /\ IF monitor THEN Goto("poll") /\ UNCHANGED monitor
               ELSE \E port \in Ports :
                      /\ monitor' = (port = "opened")
                      /\ Goto(CASE port = "opened" -> "poll"
                                [] port = "absent" -> "clear"
                                [] port = "held"   -> "held")
            /\ UNCHANGED queue
    /\ blocked' = IF pc' = "held" THEN blocked \cup UnderWay ELSE blocked
    /\ UNCHANGED <<current, waiting, stopping, clients, replied>>

\* A monitoring cycle ends; after REOPEN_AFTER failures the port is given up.
Poll ==
    /\ pc = "poll"
    /\ Goto("clear")
    /\ monitor' \in BOOLEAN
    /\ UNCHANGED <<queue, current, waiting, stopping, clients, replied, quiet, blocked>>

\* serve_requests: the flag is cleared before the channel is drained.
Clear ==
    /\ pc = "clear"
    /\ waiting' = FALSE
    /\ Goto("drain")
    /\ UNCHANGED <<monitor, queue, current, stopping, clients, replied, quiet, blocked>>

Drain ==
    /\ pc = "drain"
    /\ IF queue = <<>>
       THEN Goto("sleep") /\ UNCHANGED <<queue, current>>
       ELSE Goto("work") /\ current' = Head(queue) /\ queue' = Tail(queue)
    /\ UNCHANGED <<monitor, waiting, stopping, clients, replied, quiet, blocked>>

\* Mutant: one request is served, not all of them.
WorkOne ==
    /\ pc = "work"
    /\ Goto("sleep")
    /\ replied' = [replied EXCEPT ![current[1]] = current[2]]
    /\ current' = <<>>
    /\ UNCHANGED <<monitor, queue, waiting, stopping, clients, quiet, blocked>>

\* handle_request, or the error that the UPS is not reachable, and the reply,
\* which is lost on a caller that has given up.
Work ==
    /\ pc = "work"
    /\ Goto("drain")
    /\ replied' = [replied EXCEPT ![current[1]] = current[2]]
    /\ current' = <<>>
    /\ UNCHANGED <<monitor, queue, waiting, stopping, clients, quiet, blocked>>

\* sleep_unless
SleepOver ==
    /\ pc = "sleep"
    /\ spent >= Interval \/ stopping \/ waiting
    /\ Goto("top")
    /\ UNCHANGED <<monitor, queue, current, waiting, stopping, clients, replied, quiet, blocked>>

\* sleep_unless_stopping, and `continue`
HeldOver ==
    /\ pc = "held"
    /\ spent >= Interval \/ stopping
    /\ Goto("top")
    /\ UNCHANGED <<monitor, queue, current, waiting, stopping, clients, replied, quiet, blocked>>

-----------------------------------------------------------------------------

Stop ==
    /\ ~stopping
    /\ stopping' = TRUE
    /\ UNCHANGED <<thread, queue, waiting, clients, replied, quiet, blocked>>

\* How long the thread may stay where it stands.
Patience ==
    CASE pc = "poll" -> PollTicks
      [] pc = "work" -> RequestTicks
      [] pc = "sleep" -> IF stopping \/ waiting THEN 0 ELSE Interval
      [] pc = "held" -> IF stopping THEN 0 ELSE Interval
      [] pc = "gone" -> spent + 1
      [] OTHER -> 0

\* How long a caller may stay where it stands: no time between send and flag.
Prompt(c) ==
    CASE caller[c] = "idle" -> TRUE
      [] caller[c] = "sent" -> FALSE
      [] OTHER -> age[c] < AnswerTimeout /\ replied[c] # calls[c] /\ pc # "gone"

Tick ==
    /\ spent < Patience
    /\ \A c \in Callers : Prompt(c)
    /\ spent' = IF pc = "gone" THEN 0 ELSE spent + 1
    /\ age' = [c \in Callers |-> IF caller[c] = "idle" THEN 0 ELSE age[c] + 1]
    /\ quiet' = IF pc = "gone" THEN quiet ELSE quiet + 1
    /\ UNCHANGED <<pc, monitor, current, queue, waiting, stopping, caller, calls,
                   outcome, replied, blocked>>

Thread == Top \/ Poll \/ Clear \/ Drain \/ Work \/ SleepOver \/ HeldOver
Relay(c) == Send(c) \/ Flag(c) \/ Receive(c)

Next == Thread \/ (\E c \in Callers : Relay(c)) \/ Stop \/ Tick

Spec == Init /\ [][Next]_vars

\* The threads run, time passes, and a call that has begun goes on; nobody has
\* to call or to stop the daemon.
Fairness ==
    /\ WF_vars(Thread) /\ WF_vars(Tick)
    /\ \A c \in Callers : WF_vars(Flag(c) \/ Receive(c))

FairSpec == Spec /\ Fairness

-----------------------------------------------------------------------------
(* Properties. *)

FlagsOK == {monitor, waiting, stopping} \subseteq BOOLEAN

\* The thread, the channel and the callers have their types.
TypeOK ==
    /\ FlagsOK
    /\ pc \in ThreadSteps
    /\ {spent, quiet} \subseteq Nat
    /\ queue \in Seq(Callers \X Nat)
    /\ current \in (Callers \X Nat) \cup {<<>>}
    /\ pc = "work" => current # <<>>
    /\ caller \in [Callers -> {"idle", "sent", "waiting"}]
    /\ outcome \in [Callers -> Outcomes]
    /\ {calls, replied, age} \subseteq [Callers -> Nat]
    /\ blocked \subseteq Callers \X Nat

\* A request in the channel of a sleeping thread has raised the flag, or is
\* about to: it is "not left waiting a whole interval" (serve_requests).
NoLostWakeup ==
    pc = "sleep" /\ queue # <<>> => waiting \/ \E c \in Callers : caller[c] = "sent"

\* The UPS thread answers within ANSWER_TIMEOUT whatever comes before the
\* request, unless the port is held (its comment: "this covers one poll
\* interval plus the device exchanges a request makes").
AnsweredInTime ==
    \A c \in Callers :
        caller[c] = "idle" /\ outcome[c] = "timeout" => <<c, calls[c]>> \in blocked

\* A stop ends the UPS thread, and no caller is left behind (run, relay).
StopEndsEverything ==
    stopping ~> (pc = "gone" /\ \A c \in Callers : caller[c] = "idle")

=============================================================================
