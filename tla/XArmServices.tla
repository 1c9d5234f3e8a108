--------------------------- MODULE XArmServices -----------------------------
(***************************************************************************)
(* Programs that command the arm through XArmROSClient, and the driver's   *)
(* services that carry their calls out.                                    *)
(*                                                                         *)
(* A wrapper assigns its fields of the request object of its type, waits   *)
(* for the service for as long as it takes, sends the object and blocks    *)
(* until the answer is there.  The driver spins its node in one thread, so *)
(* it serves one request at a time; a motion with "wait" holds it up until *)
(* the arm is there.                                                       *)
(*                                                                         *)
(* Calls are numbered, and a field holds the number of the call whose      *)
(* argument it carries: 0 is the default of the message definition.        *)
(***************************************************************************)
EXTENDS Integers, Sequences, XArmServiceTable

CONSTANTS
    Callers,        \* programs; each has one thread and one client
    Wrappers,       \* the wrappers they use
    Enabled,        \* the services the driver's parameters switch on
    NoCaller,       \* stands for none of them
    MaxCalls,       \* bound on the calls made altogether
    MaxStops        \* bound on the times the driver goes down

ASSUME WrappersAssumption == Wrappers # {} /\ Wrappers \subseteq DOMAIN Gives
ASSUME CallersAssumption == NoCaller \notin Callers
ASSUME BoundsAssumption == MaxCalls \in Nat /\ MaxStops \in Nat

Slots == UNION {Gives[w] \cup Reads[Service(w)] : w \in Wrappers}

NoMessage == [s \in Slots |-> 0]

VARIABLES
    calls,          \* the number of calls made so far
    mine,           \* the number of each caller's last call
    wrapper,        \* the wrapper it went through
    fits,           \* its lists and names have the length the handler asks for
    req,            \* the request objects of each client, by field
    sent,           \* the copy of them that is with the driver
    stage,          \* where the call is
    ret,            \* the return code on its way back, "none" before it is known
    ok,             \* rclcpp::ok() of each program
    up,             \* the driver runs
    stops,          \* how often it has gone down
    serving,        \* the caller whose request the driver's thread works on
    commands,       \* the calls of the SDK that carry out a request, in order
    stopped,        \* the arm is in state STOP, or another that is not READY
    stopFailed      \* the set_state(STOP) of the set_mode in progress failed

clientVars == <<calls, mine, wrapper, fits, req, ok>>
driverVars == <<up, stops, serving>>
armVars    == <<commands, stopped, stopFailed>>
vars == <<clientVars, sent, stage, ret, driverVars, armVars>>

\* The stages of a call.  "checked": the service was there when it was looked
\* for; "stopping": set_mode has sent its set_state(STOP); "done": the SDK has
\* returned; "over": the program has called exit().
InDriver == {"taken", "stopping", "done"}
Stages == {"idle", "waiting", "checked", "queued", "answered", "lost", "over"}
          \cup InDriver
Returns == {"none", "0", "sdk_error", "PARAM_ERROR"}

Command == [call : Nat, wrapper : Wrappers, args : [Slots -> Nat]]

TypeOK ==
    /\ calls \in Nat
    /\ mine \in [Callers -> Nat]
    /\ wrapper \in [Callers -> Wrappers]
    /\ fits \in [Callers -> BOOLEAN]
    /\ req \in [Callers -> [Slots -> Nat]]
    /\ sent \in [Callers -> [Slots -> Nat]]
    /\ stage \in [Callers -> Stages]
    /\ ret \in [Callers -> Returns]
    /\ ok \in [Callers -> BOOLEAN]
    /\ up \in BOOLEAN
    /\ stops \in Nat
    /\ serving \in Callers \cup {NoCaller}
    /\ commands \in Seq(Command)
    /\ stopped \in BOOLEAN
    /\ stopFailed \in BOOLEAN
    \* The driver works on one request, and on it alone.
    /\ \A c \in Callers : stage[c] \in InDriver <=> serving = c
    \* A request that carries another call's argument carries an earlier one's.
    /\ \A c \in Callers : mine[c] <= calls /\ \A s \in Slots : req[c][s] <= mine[c]

Init ==
    /\ calls = 0
    /\ mine = [c \in Callers |-> 0]
    /\ wrapper = [c \in Callers |-> CHOOSE w \in Wrappers : TRUE]
    /\ fits = [c \in Callers |-> TRUE]
    /\ req = [c \in Callers |-> NoMessage]
    /\ sent = [c \in Callers |-> NoMessage]
    /\ stage = [c \in Callers |-> "idle"]
    /\ ret = [c \in Callers |-> "none"]
    /\ ok = [c \in Callers |-> TRUE]
    /\ up \in BOOLEAN
    /\ stops = 0
    /\ serving = NoCaller
    /\ commands = <<>>
    /\ stopped \in BOOLEAN
    /\ stopFailed = FALSE
-----------------------------------------------------------------------------
\* The client.

Offered(w) == up /\ Service(w) \in Enabled /\ SameType(w)

\* Slip: a wrapper that only assigns what is not yet assigned.
BugFill(r, w, n) == [s \in Slots |-> IF s \in Gives[w] /\ r[s] = 0 THEN n ELSE r[s]]

\* The wrapper assigns its fields to the request object.
Fill(r, w, n) == [s \in Slots |-> IF s \in Gives[w] THEN n ELSE r[s]]

\* A wrapper is called, with arguments that have the right length or not.
Call(c) ==
    /\ stage[c] = "idle" /\ ok[c]
    /\ calls < MaxCalls
    /\ \E w \in Wrappers :
         /\ wrapper' = [wrapper EXCEPT ![c] = w]
         /\ \E f \in (IF Service(w) \in Checked THEN BOOLEAN ELSE {TRUE}) :
              fits' = [fits EXCEPT ![c] = f]
         /\ req' = [req EXCEPT ![c] = Fill(req[c], w, calls + 1)]
    /\ calls' = calls + 1
    /\ mine' = [mine EXCEPT ![c] = calls + 1]
    /\ stage' = [stage EXCEPT ![c] = "waiting"]
    /\ UNCHANGED <<sent, ret, ok, driverVars, armVars>>

\* wait_for_service() returns true.
ServiceFound(c) ==
    /\ stage[c] = "waiting" /\ Offered(wrapper[c])
    /\ stage' = [stage EXCEPT ![c] = "checked"]
    /\ UNCHANGED <<clientVars, sent, ret, driverVars, armVars>>

\* It returns false and the context is shut down: exit(1).
Interrupted(c) ==
    /\ stage[c] = "waiting" /\ ~ok[c]
    /\ stage' = [stage EXCEPT ![c] = "over"]
    /\ UNCHANGED <<clientVars, sent, ret, driverVars, armVars>>

\* async_send_request(): the object is copied into the message.  A driver that
\* has gone down since it was found does not get it.
Send(c) ==
    /\ stage[c] = "checked"
    /\ stage' = [stage EXCEPT ![c] = IF up THEN "queued" ELSE "lost"]
    /\ sent' = [sent EXCEPT ![c] = IF up THEN req[c] ELSE NoMessage]
    /\ UNCHANGED <<clientVars, ret, driverVars, armVars>>

\* The answer completes the future, as long as the client's node is spun.
Receive(c) ==
    /\ stage[c] = "answered" /\ ok[c]
    /\ stage' = [stage EXCEPT ![c] = "idle"]
    /\ ret' = [ret EXCEPT ![c] = "none"]
    /\ UNCHANGED <<clientVars, sent, driverVars, armVars>>

\* The context of the program is shut down.
Shutdown(c) ==
    /\ ok[c]
    /\ ok' = [ok EXCEPT ![c] = FALSE]
    /\ UNCHANGED <<calls, mine, wrapper, fits, req, sent, stage, ret, driverVars, armVars>>
-----------------------------------------------------------------------------
\* The driver.

\* The executor takes a request that has arrived.
Take(c) ==
    /\ up /\ serving = NoCaller
    /\ stage[c] = "queued"
    /\ serving' = c
    /\ stage' = [stage EXCEPT ![c] = "taken"]
    /\ UNCHANGED <<clientVars, sent, ret, up, stops, armVars>>

\* Slip: a handler that gives up without an answer.
BugRefuse(c) ==
    /\ stage[c] = "taken" /\ ~fits[c]
    /\ serving' = NoCaller
    /\ UNCHANGED <<clientVars, sent, stage, ret, up, stops, armVars>>

\* The handler answers PARAM_ERROR to a list or a name of the wrong length.
Refuse(c) ==
    /\ stage[c] = "taken" /\ ~fits[c]
    /\ ret' = [ret EXCEPT ![c] = "PARAM_ERROR"]
    /\ stage' = [stage EXCEPT ![c] = "answered"]
    /\ serving' = NoCaller
    /\ sent' = [sent EXCEPT ![c] = NoMessage]
    /\ UNCHANGED <<clientVars, up, stops, armVars>>

\* set_mode sends set_state(STOP), whatever becomes of it, and sleeps 10 ms.
StopFirst(c) ==
    /\ stage[c] = "taken" /\ Service(wrapper[c]) = "set_mode"
    /\ stage' = [stage EXCEPT ![c] = "stopping"]
    /\ stopFailed' \in BOOLEAN
    /\ stopped' = (stopped \/ ~stopFailed')
    /\ UNCHANGED <<clientVars, sent, ret, driverVars, commands>>

\* Slip: set_mode without its set_state(STOP).
BugReadyForSDK(c) == stage[c] \in {"taken", "stopping"} /\ fits[c]

\* The handler has come to the call of the SDK that the request is for.
ReadyForSDK(c) ==
    IF Service(wrapper[c]) = "set_mode" THEN stage[c] = "stopping"
                                        ELSE stage[c] = "taken" /\ fits[c]

\* What a handler passes on; the rest of the slots is not looked at.
Arguments(c) ==
    [s \in Slots |-> IF s \in Reads[Service(wrapper[c])] THEN sent[c][s] ELSE 0]

\* The call of the SDK; the message is not looked at afterwards.  set_state may
\* stop the arm or make it ready; a call may fail.
CallSDK(c) ==
    /\ ReadyForSDK(c)
    /\ commands' = Append(commands, [call |-> mine[c], wrapper |-> wrapper[c],
                                     args |-> Arguments(c)])
    /\ \E r \in {"0", "sdk_error"} :
         /\ ret' = [ret EXCEPT ![c] = r]
         /\ IF r = "0" /\ Service(wrapper[c]) = "set_state"
              THEN stopped' \in BOOLEAN
              ELSE UNCHANGED stopped
    /\ sent' = [sent EXCEPT ![c] = NoMessage]
    /\ stopFailed' = FALSE
    /\ stage' = [stage EXCEPT ![c] = "done"]
    /\ UNCHANGED <<clientVars, driverVars>>

\* The handler returns and the executor sends its response.
Respond(c) ==
    /\ stage[c] = "done"
    /\ stage' = [stage EXCEPT ![c] = "answered"]
    /\ serving' = NoCaller
    /\ UNCHANGED <<clientVars, sent, ret, up, stops, armVars>>

\* The driver goes down, and with it every request it had.
DriverStops ==
    /\ up /\ stops < MaxStops
    /\ up' = FALSE
    /\ stops' = stops + 1
    /\ serving' = NoCaller
    /\ stage' = [c \in Callers |->
                   IF stage[c] \in InDriver \cup {"queued"} THEN "lost" ELSE stage[c]]
    /\ sent' = [c \in Callers |-> NoMessage]
    /\ stopFailed' = FALSE
    /\ UNCHANGED <<clientVars, ret, commands, stopped>>

DriverStarts ==
    /\ ~up
    /\ up' = TRUE
    /\ UNCHANGED <<clientVars, sent, stage, ret, stops, serving, armVars>>

\* The arm stops by itself: an error, the emergency stop button.
ArmStops ==
    /\ ~stopped
    /\ stopped' = TRUE
    /\ UNCHANGED <<clientVars, sent, stage, ret, driverVars, commands, stopFailed>>

ClientStep(c) == ServiceFound(c) \/ Interrupted(c) \/ Send(c) \/ Receive(c)
DriverStep(c) == Refuse(c) \/ StopFirst(c) \/ CallSDK(c) \/ Respond(c)

Next == \/ \E c \in Callers : Call(c) \/ Shutdown(c) \/ ClientStep(c)
                              \/ Take(c) \/ DriverStep(c)
        \/ DriverStops \/ DriverStarts \/ ArmStops

Spec == Init /\ [][Next]_vars

\* Client threads run, the executor gets to every request in the end, and calls
\* of the SDK return.  Nobody has to start a driver that has gone down.
FairSpec ==
    /\ Spec
    /\ \A c \in Callers : WF_vars(ClientStep(c)) /\ WF_vars(DriverStep(c)) /\ SF_vars(Take(c))
-----------------------------------------------------------------------------
\* The arguments of a command that its wrapper was given are those of its call.
Genuine(k) == \A s \in Gives[k.wrapper] \cap Reads[Service(k.wrapper)] : k.args[s] = k.call

\* What a caller may think of a call in stage st with return code r.
Abstractly(st, r) ==
    CASE st = "idle" -> "idle"
      [] st \in {"lost", "over"} -> "lost"
      [] st = "done" \/ (st = "answered" /\ r # "PARAM_ERROR") -> "executed"
      [] st = "answered" /\ r = "PARAM_ERROR" -> "refused"
      [] OTHER -> "asked"

\* What the commands the arm has got mean to the callers.
Effects(sdk) ==
    [i \in DOMAIN sdk |-> [call |-> sdk[i].call, genuine |-> Genuine(sdk[i])]]

Calls == INSTANCE ArmCalls WITH
             asked    <- calls,
             current  <- mine,
             state    <- [c \in Callers |-> Abstractly(stage[c], ret[c])],
             executed <- Effects(commands)

\* A call of the client takes effect at most once, between its start and its
\* return, with the arguments the wrapper was given, and not at all if the
\* handler refuses it (_call_request() and the handlers of the driver).
CallsAreAtomic == Calls!Spec

\* set_mode() reaches an arm that has been told to stop and has done so, or has
\* refused to: nothing is served between the two calls of _set_mode(), so no
\* set_state() makes the arm ready in between.
ModeChangesWhenStopped ==
    [][\A c \in Callers : CallSDK(c) /\ Service(wrapper[c]) = "set_mode"
                             => stopped \/ stopFailed]_vars

\* Every call of a program that is not shut down returns, if its service is
\* offered and the driver, from some time on, stays up; but for the calls whose
\* request went down with a driver, which block for ever.
EveryCallReturns ==
    \A c \in Callers :
        <>[]up => ((stage[c] # "idle" /\ Service(wrapper[c]) \in Enabled /\ SameType(wrapper[c]))
                      ~> (stage[c] \in {"idle", "lost"} \/ ~ok[c]))

\* A field that a wrapper does not assign has the default of its message
\* definition when the arm gets it.
UnassignedFieldsAreDefault ==
    \A i \in DOMAIN commands :
        LET k == commands[i]
        IN  \A s \in Reads[Service(k.wrapper)] \ Gives[k.wrapper] : k.args[s] = 0
=============================================================================
