------------------------ MODULE XArmServices_proof --------------------------
(***************************************************************************)
(* For any number of programs, wrappers, calls and restarts of the driver: *)
(* the calls of XArmROSClient are atomic (XArmServices implements          *)
(* ArmCalls), and set_mode reaches an arm that was told to stop.           *)
(***************************************************************************)
EXTENDS XArmServices, TLAPS

\* What is on its way to the arm carries the arguments of its call.
FilledInv ==
    \A c \in Callers : \A s \in Gives[wrapper[c]] \cap Slots :
        /\ stage[c] \in {"waiting", "checked"} => req[c][s] = mine[c]
        /\ stage[c] \in {"queued", "taken", "stopping"} => sent[c][s] = mine[c]

\* The SDK has no return code that a refusal could be taken for.
ReturnInv == \A c \in Callers : stage[c] = "done" => ret[c] # "PARAM_ERROR"

\* Between its two calls set_mode has the driver to itself.
ModeInv == \A c \in Callers : stage[c] = "stopping" => stopped \/ stopFailed

IInv == TypeOK /\ FilledInv /\ ReturnInv /\ ModeInv
-----------------------------------------------------------------------------
LEMMA FillType ==
    ASSUME NEW r \in [Slots -> Nat], NEW w, NEW n \in Nat
    PROVE  /\ Fill(r, w, n) \in [Slots -> Nat]
           /\ \A s \in Slots : Fill(r, w, n)[s] = IF s \in Gives[w] THEN n ELSE r[s]
BY DEF Fill

LEMMA NoMessageType == NoMessage \in [Slots -> Nat] /\ \A s \in Slots : NoMessage[s] = 0
BY DEF NoMessage

LEMMA InitTypeOK == Init => TypeOK
<1> SUFFICES ASSUME Init PROVE TypeOK
  OBVIOUS
<1>1. (CHOOSE w \in Wrappers : TRUE) \in Wrappers
  BY WrappersAssumption
<1>2. /\ calls \in Nat /\ mine \in [Callers -> Nat] /\ wrapper \in [Callers -> Wrappers]
      /\ stage \in [Callers -> Stages] /\ ret \in [Callers -> Returns] /\ stops \in Nat
  BY <1>1 DEF Init, Stages, Returns
<1>3. req \in [Callers -> [Slots -> Nat]] /\ sent \in [Callers -> [Slots -> Nat]]
  BY NoMessageType DEF Init
<1>4. fits \in [Callers -> BOOLEAN] /\ ok \in [Callers -> BOOLEAN]
  BY DEF Init
<1>5. up \in BOOLEAN /\ stopped \in BOOLEAN /\ stopFailed \in BOOLEAN
  BY DEF Init
<1>6. serving \in Callers \cup {NoCaller} /\ commands \in Seq(Command)
  BY DEF Init
<1>7. \A c \in Callers : stage[c] \in InDriver <=> serving = c
  BY CallersAssumption DEF Init, InDriver
<1>8. \A c \in Callers : mine[c] <= calls /\ \A s \in Slots : req[c][s] <= mine[c]
  BY NoMessageType DEF Init
<1> QED
  BY <1>2, <1>3, <1>4, <1>5, <1>6, <1>7, <1>8 DEF TypeOK

LEMMA InitIInv == Init => IInv
<1> SUFFICES ASSUME Init PROVE IInv
  OBVIOUS
<1>1. \A c \in Callers : stage[c] = "idle"
  BY DEF Init
<1> QED
  BY <1>1, InitTypeOK DEF IInv, FilledInv, ReturnInv, ModeInv
-----------------------------------------------------------------------------
LEMMA ArgumentsType ==
    ASSUME TypeOK, NEW c \in Callers
    PROVE  /\ Arguments(c) \in [Slots -> Nat]
           /\ \A s \in Slots \cap Reads[Service(wrapper[c])] : Arguments(c)[s] = sent[c][s]
BY DEF TypeOK, Arguments

LEMMA TypeOKInductive == TypeOK /\ [Next]_vars => TypeOK'
<1> SUFFICES ASSUME TypeOK, [Next]_vars PROVE TypeOK'
  OBVIOUS
<1> USE DEF TypeOK, Stages, InDriver, Returns
<1>1. ASSUME NEW c \in Callers, Call(c) PROVE TypeOK'
  <2>1. PICK w \in Wrappers :
            /\ wrapper' = [wrapper EXCEPT ![c] = w]
            /\ req' = [req EXCEPT ![c] = Fill(req[c], w, calls + 1)]
    BY <1>1 DEF Call
  <2>2. fits' \in [Callers -> BOOLEAN]
    <3>1. PICK f \in BOOLEAN : fits' = [fits EXCEPT ![c] = f]
      BY <1>1 DEF Call
    <3> QED
      BY <3>1
  <2>3. /\ Fill(req[c], w, calls + 1) \in [Slots -> Nat]
        /\ \A s \in Slots : Fill(req[c], w, calls + 1)[s] <= calls + 1
    <3>1. req[c] \in [Slots -> Nat] /\ calls + 1 \in Nat
      OBVIOUS
    <3>2. \A s \in Slots : req[c][s] <= calls + 1
      OBVIOUS
    <3> HIDE DEF TypeOK, Stages, InDriver, Returns
    <3> DEFINE r == req[c]
               n == calls + 1
    <3>3. r \in [Slots -> Nat] /\ n \in Nat /\ \A s \in Slots : r[s] <= n
      BY <3>1, <3>2
    <3> HIDE DEF r, n
    <3>4. Fill(r, w, n) \in [Slots -> Nat] /\ \A s \in Slots : Fill(r, w, n)[s] <= n
      BY <3>3, FillType
    <3> QED
      BY <3>4 DEF r, n
  <2>4. /\ calls' \in Nat /\ mine' \in [Callers -> Nat] /\ wrapper' \in [Callers -> Wrappers]
        /\ stage' \in [Callers -> Stages] /\ req' \in [Callers -> [Slots -> Nat]]
    BY <1>1, <2>1, <2>3 DEF Call
  <2>5. \A d \in Callers : mine'[d] <= calls' /\ \A s \in Slots : req'[d][s] <= mine'[d]
    <3> TAKE d \in Callers
    <3>1. CASE d = c
      BY <3>1, <1>1, <2>1, <2>3 DEF Call
    <3>2. CASE d # c
      BY <3>2, <1>1, <2>1 DEF Call
    <3> QED
      BY <3>1, <3>2
  <2>6. \A d \in Callers : stage'[d] \in InDriver <=> serving' = d
    BY <1>1 DEF Call, driverVars
  <2>7. UNCHANGED <<sent, ret, ok, up, stops, serving, commands, stopped, stopFailed>>
    BY <1>1 DEF Call, driverVars, armVars
  <2> QED
    BY <2>2, <2>4, <2>5, <2>6, <2>7
<1>2. ASSUME NEW c \in Callers, ClientStep(c) PROVE TypeOK'
  <2>1. /\ UNCHANGED <<calls, mine, wrapper, fits, req, ok, up, stops, serving, commands,
                       stopped, stopFailed>>
        /\ ret' \in [Callers -> Returns]
    BY <1>2 DEF ClientStep, ServiceFound, Interrupted, Send, Receive,
                clientVars, driverVars, armVars
  <2>2. sent' \in [Callers -> [Slots -> Nat]]
    BY <1>2, NoMessageType DEF ClientStep, ServiceFound, Interrupted, Send, Receive
  <2>3. /\ stage' \in [Callers -> Stages]
        /\ \A d \in Callers : stage'[d] \in InDriver <=> stage[d] \in InDriver
    BY <1>2 DEF ClientStep, ServiceFound, Interrupted, Send, Receive
  <2> QED
    BY <2>1, <2>2, <2>3
<1>3. ASSUME NEW c \in Callers, Shutdown(c) PROVE TypeOK'
  <2>1. ok' \in [Callers -> BOOLEAN]
    BY <1>3 DEF Shutdown
  <2>2. UNCHANGED <<calls, mine, wrapper, fits, req, sent, stage, ret, up, stops, serving,
                    commands, stopped, stopFailed>>
    BY <1>3 DEF Shutdown, driverVars, armVars
  <2> QED
    BY <2>1, <2>2
<1>4. ASSUME NEW c \in Callers, Take(c) PROVE TypeOK'
  <2>1. UNCHANGED <<calls, mine, wrapper, fits, req, ok, sent, ret, up, stops, commands,
                    stopped, stopFailed>>
    BY <1>4 DEF Take, clientVars, armVars
  <2>2. /\ stage' \in [Callers -> Stages] /\ serving' \in Callers \cup {NoCaller}
        /\ \A d \in Callers : stage'[d] \in InDriver <=> serving' = d
    BY <1>4, CallersAssumption DEF Take
  <2> QED
    BY <2>1, <2>2
<1>5. ASSUME NEW c \in Callers, DriverStep(c) PROVE TypeOK'
  <2>1. UNCHANGED <<calls, mine, wrapper, fits, req, ok, up, stops>>
    BY <1>5 DEF DriverStep, Refuse, StopFirst, CallSDK, Respond, clientVars, driverVars, armVars
  <2>2. sent' \in [Callers -> [Slots -> Nat]]
    BY <1>5, NoMessageType DEF DriverStep, Refuse, StopFirst, CallSDK, Respond
  <2>3. /\ stage' \in [Callers -> Stages] /\ serving' \in Callers \cup {NoCaller}
        /\ \A d \in Callers : stage'[d] \in InDriver <=> serving' = d
    BY <1>5, CallersAssumption
    DEF DriverStep, Refuse, StopFirst, CallSDK, Respond, ReadyForSDK, driverVars
  <2>4. stopped' \in BOOLEAN /\ stopFailed' \in BOOLEAN
    BY <1>5 DEF DriverStep, Refuse, StopFirst, CallSDK, Respond, armVars
  <2>5. ret' \in [Callers -> Returns]
    BY <1>5 DEF DriverStep, Refuse, StopFirst, CallSDK, Respond
  <2>6. commands' \in Seq(Command)
    <3>1. CASE CallSDK(c)
      <4> DEFINE k == [call |-> mine[c], wrapper |-> wrapper[c], args |-> Arguments(c)]
      <4>1. k \in Command
        BY ArgumentsType DEF Command
      <4>2. commands' = Append(commands, k)
        BY <3>1 DEF CallSDK
      <4> QED
        BY <4>1, <4>2
    <3>2. CASE ~CallSDK(c)
      BY <1>5, <3>2 DEF DriverStep, Refuse, StopFirst, Respond, armVars
    <3> QED
      BY <3>1, <3>2
  <2> QED
    BY <2>1, <2>2, <2>3, <2>4, <2>5, <2>6
<1>6. CASE DriverStops
  <2>1. UNCHANGED <<calls, mine, wrapper, fits, req, ok, ret, commands, stopped>>
    BY <1>6 DEF DriverStops, clientVars
  <2>2. sent' \in [Callers -> [Slots -> Nat]]
    BY <1>6, NoMessageType DEF DriverStops
  <2>3. /\ stage' \in [Callers -> Stages] /\ serving' \in Callers \cup {NoCaller}
        /\ \A d \in Callers : stage'[d] \in InDriver <=> serving' = d
    BY <1>6, CallersAssumption DEF DriverStops
  <2>4. stops' \in Nat
    BY <1>6 DEF DriverStops
  <2>5. up' \in BOOLEAN /\ stopFailed' \in BOOLEAN
    BY <1>6, Zenon DEF DriverStops
  <2> QED
    BY <2>1, <2>2, <2>3, <2>4, <2>5
<1>7. CASE DriverStarts
  BY <1>7 DEF DriverStarts, clientVars, armVars
<1>8. CASE ArmStops
  BY <1>8 DEF ArmStops, clientVars, driverVars
<1>9. CASE UNCHANGED vars
  BY <1>9 DEF vars, clientVars, driverVars, armVars
<1> QED
  BY <1>1, <1>2, <1>3, <1>4, <1>5, <1>6, <1>7, <1>8, <1>9 DEF Next

\* The driver serves one request at a time, and what a request object carries
\* is at most as new as its client's last call (_call_request(), the driver's
\* single-threaded executor).
THEOREM TypeCorrect == Spec => []TypeOK
<1> QED
  BY InitTypeOK, TypeOKInductive, PTL DEF Spec
-----------------------------------------------------------------------------
LEMMA FilledInductive == TypeOK /\ FilledInv /\ [Next]_vars => FilledInv'
<1> SUFFICES ASSUME TypeOK, FilledInv, [Next]_vars PROVE FilledInv'
  OBVIOUS
<1>1. ASSUME NEW c \in Callers, Call(c) PROVE FilledInv'
  <2>1. PICK w \in Wrappers :
            /\ wrapper' = [wrapper EXCEPT ![c] = w]
            /\ req' = [req EXCEPT ![c] = Fill(req[c], w, calls + 1)]
    BY <1>1 DEF Call
  <2>2. \A s \in Gives[w] \cap Slots : Fill(req[c], w, calls + 1)[s] = calls + 1
    BY DEF Fill
  <2>3. /\ wrapper'[c] = w /\ req'[c] = Fill(req[c], w, calls + 1)
        /\ mine'[c] = calls + 1 /\ stage'[c] = "waiting"
    BY <1>1, <2>1 DEF Call, TypeOK
  <2>4. \A d \in Callers \ {c} : /\ wrapper'[d] = wrapper[d] /\ req'[d] = req[d]
                                 /\ mine'[d] = mine[d] /\ stage'[d] = stage[d]
                                 /\ sent'[d] = sent[d]
    BY <1>1, <2>1 DEF Call, TypeOK
  <2> QED
    BY <2>2, <2>3, <2>4 DEF FilledInv
<1>2. ASSUME NEW c \in Callers, ClientStep(c) PROVE FilledInv'
  <2>1. UNCHANGED <<wrapper, req, mine>>
    BY <1>2 DEF ClientStep, ServiceFound, Interrupted, Send, Receive, clientVars
  <2>2. \A d \in Callers \ {c} : stage'[d] = stage[d] /\ sent'[d] = sent[d]
    BY <1>2 DEF ClientStep, ServiceFound, Interrupted, Send, Receive, TypeOK
  <2>3. \/ stage'[c] \in {"over", "lost", "idle"}
        \/ stage[c] = "waiting" /\ stage'[c] = "checked"
        \/ stage[c] = "checked" /\ stage'[c] = "queued" /\ sent'[c] = req[c]
    BY <1>2 DEF ClientStep, ServiceFound, Interrupted, Send, Receive, TypeOK
  <2> QED
    BY <2>1, <2>2, <2>3 DEF FilledInv
<1>3. ASSUME NEW c \in Callers, Shutdown(c) PROVE FilledInv'
  BY <1>3 DEF Shutdown, FilledInv
<1>4. ASSUME NEW c \in Callers, Take(c) PROVE FilledInv'
  <2>1. UNCHANGED <<wrapper, req, mine, sent>>
    BY <1>4 DEF Take, clientVars
  <2>2. /\ \A d \in Callers \ {c} : stage'[d] = stage[d]
        /\ stage[c] = "queued" /\ stage'[c] = "taken"
    BY <1>4 DEF Take, TypeOK
  <2> QED
    BY <2>1, <2>2 DEF FilledInv
<1>5. ASSUME NEW c \in Callers, DriverStep(c) PROVE FilledInv'
  <2>1. UNCHANGED <<wrapper, req, mine>>
    BY <1>5 DEF DriverStep, Refuse, StopFirst, CallSDK, Respond, clientVars
  <2>2. \A d \in Callers \ {c} : stage'[d] = stage[d] /\ sent'[d] = sent[d]
    BY <1>5 DEF DriverStep, Refuse, StopFirst, CallSDK, Respond, TypeOK
  <2>3. \/ stage'[c] \in {"answered", "done"}
        \/ stage[c] = "taken" /\ stage'[c] = "stopping" /\ sent' = sent
    BY <1>5 DEF DriverStep, Refuse, StopFirst, CallSDK, Respond, TypeOK
  <2> QED
    BY <2>1, <2>2, <2>3 DEF FilledInv
<1>6. CASE DriverStops
  <2>1. UNCHANGED <<wrapper, req, mine>>
    BY <1>6 DEF DriverStops, clientVars
  <2>2. \A d \in Callers : \/ stage'[d] = "lost"
                           \/ /\ stage'[d] = stage[d]
                              /\ stage[d] \notin {"queued", "taken", "stopping"}
    BY <1>6 DEF DriverStops, InDriver
  <2> QED
    BY <2>1, <2>2 DEF FilledInv
<1>7. CASE DriverStarts \/ ArmStops \/ UNCHANGED vars
  BY <1>7 DEF DriverStarts, ArmStops, vars, clientVars, FilledInv
<1> QED
  BY <1>1, <1>2, <1>3, <1>4, <1>5, <1>6, <1>7 DEF Next

LEMMA ReturnInductive == TypeOK /\ ReturnInv /\ [Next]_vars => ReturnInv'
<1> SUFFICES ASSUME TypeOK, ReturnInv, [Next]_vars PROVE ReturnInv'
  OBVIOUS
<1>1. ASSUME NEW c \in Callers,
             Call(c) \/ Shutdown(c) \/ ClientStep(c) \/ Take(c) \/ DriverStep(c)
      PROVE  ReturnInv'
  <2>1. \A d \in Callers \ {c} : stage'[d] = stage[d] /\ ret'[d] = ret[d]
    BY <1>1 DEF Call, Shutdown, ClientStep, ServiceFound, Interrupted, Send, Receive, Take,
                DriverStep, Refuse, StopFirst, CallSDK, Respond, TypeOK
  <2>2. \/ stage'[c] # "done"
        \/ stage'[c] = stage[c] /\ ret'[c] = ret[c]
        \/ ret'[c] \in {"0", "sdk_error"}
    BY <1>1 DEF Call, Shutdown, ClientStep, ServiceFound, Interrupted, Send, Receive, Take,
                DriverStep, Refuse, StopFirst, CallSDK, Respond, TypeOK
  <2> QED
    BY <2>1, <2>2 DEF ReturnInv
<1>2. CASE DriverStops \/ DriverStarts \/ ArmStops \/ UNCHANGED vars
  BY <1>2 DEF DriverStops, DriverStarts, ArmStops, vars, ReturnInv
<1> QED
  BY <1>1, <1>2 DEF Next

LEMMA ModeInductive == TypeOK /\ ModeInv /\ [Next]_vars => ModeInv'
<1> SUFFICES ASSUME TypeOK, ModeInv, [Next]_vars PROVE ModeInv'
  OBVIOUS
<1>1. ASSUME NEW c \in Callers, Call(c) \/ Shutdown(c) \/ ClientStep(c) \/ Take(c)
      PROVE  ModeInv'
  <2>1. UNCHANGED <<stopped, stopFailed>>
    BY <1>1 DEF Call, Shutdown, ClientStep, ServiceFound, Interrupted, Send, Receive, Take,
                armVars
  <2>2. \A d \in Callers : stage'[d] = "stopping" => stage[d] = "stopping"
    BY <1>1 DEF Call, Shutdown, ClientStep, ServiceFound, Interrupted, Send, Receive, Take,
                TypeOK
  <2> QED
    BY <2>1, <2>2, Zenon DEF ModeInv
<1>2. ASSUME NEW c \in Callers, DriverStep(c) PROVE ModeInv'
  \* Whatever this does to the arm, no other request is with the driver.
  <2>1. \A d \in Callers \ {c} : stage'[d] # "stopping"
    BY <1>2 DEF DriverStep, Refuse, StopFirst, CallSDK, Respond, ReadyForSDK, TypeOK, InDriver
  <2>2. stage'[c] = "stopping" => stopped' \/ stopFailed'
    BY <1>2 DEF DriverStep, Refuse, StopFirst, CallSDK, Respond, TypeOK
  <2> QED
    BY <2>1, <2>2, Zenon DEF ModeInv
<1>3. CASE DriverStops
  BY <1>3 DEF DriverStops, InDriver, ModeInv
<1>4. CASE ArmStops
  BY <1>4, Zenon DEF ArmStops, ModeInv
<1>5. CASE DriverStarts \/ UNCHANGED vars
  <2>1. UNCHANGED <<stopped, stopFailed>>
    BY <1>5 DEF DriverStarts, vars, armVars
  <2>2. \A d \in Callers : stage'[d] = "stopping" => stage[d] = "stopping"
    BY <1>5 DEF DriverStarts, vars
  <2> QED
    BY <2>1, <2>2, Zenon DEF ModeInv
<1> QED
  BY <1>1, <1>2, <1>3, <1>4, <1>5 DEF Next

LEMMA Inductive == IInv /\ [Next]_vars => IInv'
BY TypeOKInductive, FilledInductive, ReturnInductive, ModeInductive DEF IInv

\* set_mode() reaches an arm that was told to stop, however many programs call
\* set_state() at the same time (_set_mode() and the single-threaded executor).
THEOREM ModeIsSafe == Spec => ModeChangesWhenStopped
<1>1. ModeInv => [\A c \in Callers : CallSDK(c) /\ Service(wrapper[c]) = "set_mode"
                                        => stopped \/ stopFailed]_vars
  BY DEF ModeInv, CallSDK, ReadyForSDK
<1> QED
  BY <1>1, InitIInv, Inductive, PTL DEF Spec, IInv, ModeChangesWhenStopped
-----------------------------------------------------------------------------
\* How a step of the call shows in the abstract state.
LEMMA AbstractState ==
    ASSUME NEW st \in Stages, NEW r
    PROVE  /\ st = "idle" => Abstractly(st, r) = "idle"
           /\ st \in {"waiting", "checked", "queued", "taken", "stopping"}
                 => Abstractly(st, r) = "asked"
           /\ st = "done" => Abstractly(st, r) = "executed"
           /\ st = "answered" => Abstractly(st, r) = IF r = "PARAM_ERROR" THEN "refused"
                                                                         ELSE "executed"
           /\ st \in {"lost", "over"} => Abstractly(st, r) = "lost"
BY DEF Abstractly, Stages, InDriver

LEMMA EffectsAppend ==
    ASSUME NEW sdk \in Seq(Command), NEW k \in Command
    PROVE  Effects(Append(sdk, k))
              = Append(Effects(sdk), [call |-> k.call, genuine |-> Genuine(k)])
BY DEF Effects

\* What reaches the arm is what the wrapper was given.
LEMMA CommandIsGenuine ==
    ASSUME TypeOK, FilledInv, NEW c \in Callers, ReadyForSDK(c)
    PROVE  Genuine([call |-> mine[c], wrapper |-> wrapper[c], args |-> Arguments(c)]) = TRUE
<1>1. stage[c] \in {"taken", "stopping"}
  BY DEF ReadyForSDK
<1>2. wrapper[c] \in Wrappers
  BY DEF TypeOK
<1>3. Gives[wrapper[c]] \subseteq Slots
  BY <1>2 DEF Slots
<1>4. \A s \in Gives[wrapper[c]] : sent[c][s] = mine[c]
  BY <1>1, <1>3 DEF FilledInv
<1>5. \A s \in Gives[wrapper[c]] \cap Reads[Service(wrapper[c])] : Arguments(c)[s] = mine[c]
  BY <1>3, <1>4, ArgumentsType
<1> QED
  BY <1>5 DEF Genuine

\* What became of each call, for its caller.
AState == [c \in Callers |-> Abstractly(stage[c], ret[c])]

LEMMA InitImplements == Init => Calls!Init
<1> SUFFICES ASSUME Init PROVE Calls!Init
  OBVIOUS
<1>1. "idle" \in Stages
  BY DEF Stages
<1>2. AState = [c \in Callers |-> "idle"]
  BY <1>1, AbstractState DEF Init, AState
<1>3. Effects(commands) = <<>>
  BY DEF Init, Effects
<1> QED
  BY <1>2, <1>3 DEF Init, Calls!Init, AState

LEMMA NextImplements == IInv /\ IInv' /\ [Next]_vars => [Calls!Next]_Calls!vars
<1> SUFFICES ASSUME IInv, IInv', [Next]_vars PROVE [Calls!Next]_Calls!vars
  OBVIOUS
<1> DEFINE A(c) == Abstractly(stage[c], ret[c])
           Same == UNCHANGED <<calls, mine, commands>>
           \* The call of c goes from one abstract state to another.
           Moves(c, from, to) ==
               /\ AState[c] \in from
               /\ AState' = [AState EXCEPT ![c] = to]
<1>0. /\ \A c \in Callers : stage[c] \in Stages /\ stage'[c] \in Stages
      /\ AState \in [Callers -> {A(c) : c \in Callers}]
      /\ \A c \in Callers : AState[c] = Abstractly(stage[c], ret[c])
      /\ \A c \in Callers : AState'[c] = Abstractly(stage'[c], ret'[c])
  BY DEF IInv, TypeOK, AState
\* It is enough to look at the caller of the step.
<1>1. ASSUME NEW c \in Callers,
             \A d \in Callers \ {c} : stage'[d] = stage[d] /\ ret'[d] = ret[d]
      PROVE  AState' = [AState EXCEPT ![c] = Abstractly(stage'[c], ret'[c])]
  BY <1>0, <1>1 DEF AState
<1>2. ASSUME NEW c \in Callers, Call(c) PROVE Calls!Ask(c)
  <2>1. \A d \in Callers \ {c} : stage'[d] = stage[d] /\ ret'[d] = ret[d]
    BY <1>2 DEF Call, IInv, TypeOK
  <2>2. stage[c] = "idle" /\ stage'[c] = "waiting"
    BY <1>2 DEF Call, IInv, TypeOK
  <2>3. Moves(c, {"idle"}, "asked")
    <3>1. /\ Abstractly(stage[c], ret[c]) \in {"idle"}
          /\ Abstractly(stage'[c], ret'[c]) = "asked"
      BY <1>0, <2>2, AbstractState
    <3> QED
      BY <1>0, <1>1, <2>1, <3>1
  <2>4. /\ calls' = calls + 1 /\ mine' = [mine EXCEPT ![c] = calls + 1]
        /\ commands' = commands
    BY <1>2 DEF Call, armVars
  <2> QED
    BY <2>3, <2>4 DEF Calls!Ask, AState
<1>3. ASSUME NEW c \in Callers, ClientStep(c)
      PROVE  Calls!Lose({c}) \/ Calls!Return(c) \/ UNCHANGED Calls!vars
  <2>1. \A d \in Callers \ {c} : stage'[d] = stage[d] /\ ret'[d] = ret[d]
    BY <1>3 DEF ClientStep, ServiceFound, Interrupted, Send, Receive, IInv, TypeOK
  <2>2. Same
    BY <1>3 DEF ClientStep, ServiceFound, Interrupted, Send, Receive, clientVars, armVars
  <2>3. CASE ServiceFound(c) \/ (Send(c) /\ up)
    <3>1. stage[c] \in {"waiting", "checked"} /\ stage'[c] \in {"checked", "queued"}
      BY <2>3 DEF ServiceFound, Send, IInv, TypeOK
    <3>2. AState' = AState
      BY <1>0, <2>1, <3>1, AbstractState DEF AState
    <3> QED
      BY <2>2, <3>2 DEF Calls!vars, AState
  <2>4. CASE Interrupted(c) \/ (Send(c) /\ ~up)
    <3>1. stage[c] \in {"waiting", "checked"} /\ stage'[c] \in {"over", "lost"}
      BY <2>4 DEF Interrupted, Send, IInv, TypeOK
    <3>2. Moves(c, {"asked"}, "lost")
      <4>1. /\ Abstractly(stage[c], ret[c]) \in {"asked"}
            /\ Abstractly(stage'[c], ret'[c]) = "lost"
        BY <1>0, <3>1, AbstractState
      <4> QED
        BY <1>0, <1>1, <2>1, <4>1
    <3>3. AState' = [d \in Callers |-> IF d \in {c} THEN "lost" ELSE AState[d]]
      BY <1>0, <3>2 DEF AState
    <3> QED
      BY <2>2, <3>2, <3>3 DEF Calls!Lose, AState
  <2>5. CASE Receive(c)
    <3>1. stage[c] = "answered" /\ stage'[c] = "idle"
      BY <2>5 DEF Receive, IInv, TypeOK
    <3>2. Moves(c, {"executed", "refused"}, "idle")
      <4>1. /\ Abstractly(stage[c], ret[c]) \in {"executed", "refused"}
            /\ Abstractly(stage'[c], ret'[c]) = "idle"
        BY <1>0, <3>1, AbstractState
      <4> QED
        BY <1>0, <1>1, <2>1, <4>1
    <3> QED
      BY <2>2, <3>2 DEF Calls!Return, AState
  <2> QED
    BY <1>3, <2>3, <2>4, <2>5 DEF ClientStep, Send
<1>4. ASSUME NEW c \in Callers, Shutdown(c) \/ Take(c) \/ StopFirst(c) \/ Respond(c)
      PROVE  UNCHANGED Calls!vars
  <2>1. \A d \in Callers \ {c} : stage'[d] = stage[d] /\ ret'[d] = ret[d]
    BY <1>4 DEF Shutdown, Take, StopFirst, Respond, IInv, TypeOK
  <2>2. ret'[c] = ret[c] /\ Same
    BY <1>4 DEF Shutdown, Take, StopFirst, Respond, clientVars, armVars
  <2>3. \/ stage'[c] = stage[c]
        \/ stage[c] \in {"queued", "taken"} /\ stage'[c] \in {"taken", "stopping"}
        \/ stage[c] = "done" /\ stage'[c] = "answered" /\ ret[c] # "PARAM_ERROR"
    BY <1>4 DEF Shutdown, Take, StopFirst, Respond, IInv, TypeOK, ReturnInv
  <2>4. Abstractly(stage'[c], ret'[c]) = Abstractly(stage[c], ret[c])
    BY <1>0, <2>2, <2>3, AbstractState
  <2>5. AState' = AState
    BY <1>0, <2>1, <2>4 DEF AState
  <2> QED
    BY <2>2, <2>5 DEF Calls!vars, AState
<1>5. ASSUME NEW c \in Callers, Refuse(c) PROVE Calls!Refuse(c)
  <2>1. \A d \in Callers \ {c} : stage'[d] = stage[d] /\ ret'[d] = ret[d]
    BY <1>5 DEF Refuse, IInv, TypeOK
  <2>2. stage[c] = "taken" /\ stage'[c] = "answered" /\ ret'[c] = "PARAM_ERROR"
    BY <1>5 DEF Refuse, IInv, TypeOK
  <2>3. Moves(c, {"asked"}, "refused")
    <3>1. /\ Abstractly(stage[c], ret[c]) \in {"asked"}
          /\ Abstractly(stage'[c], ret'[c]) = "refused"
      BY <1>0, <2>2, AbstractState
    <3> QED
      BY <1>0, <1>1, <2>1, <3>1
  <2>4. Same
    BY <1>5 DEF Refuse, clientVars, armVars
  <2> QED
    BY <2>3, <2>4 DEF Calls!Refuse, AState
<1>6. ASSUME NEW c \in Callers, CallSDK(c) PROVE Calls!Execute(c)
  <2> DEFINE k == [call |-> mine[c], wrapper |-> wrapper[c], args |-> Arguments(c)]
  <2>1. \A d \in Callers \ {c} : stage'[d] = stage[d] /\ ret'[d] = ret[d]
    BY <1>6 DEF CallSDK, IInv, TypeOK
  <2>2. stage[c] \in {"taken", "stopping"} /\ stage'[c] = "done"
    BY <1>6 DEF CallSDK, ReadyForSDK, IInv, TypeOK
  <2>3. Moves(c, {"asked"}, "executed")
    <3>1. /\ Abstractly(stage[c], ret[c]) \in {"asked"}
          /\ Abstractly(stage'[c], ret'[c]) = "executed"
      BY <1>0, <2>2, AbstractState
    <3> QED
      BY <1>0, <1>1, <2>1, <3>1
  <2>4. commands' = Append(commands, k) /\ UNCHANGED <<calls, mine>>
    BY <1>6 DEF CallSDK, clientVars
  <2>5. k \in Command /\ commands \in Seq(Command)
    BY ArgumentsType DEF Command, IInv, TypeOK
  <2>6. Genuine(k) = TRUE
    BY <1>6, CommandIsGenuine DEF CallSDK, IInv
  <2>7. Effects(commands')
           = Append(Effects(commands), [call |-> mine[c], genuine |-> TRUE])
    BY <2>4, <2>5, <2>6, EffectsAppend
  <2> QED
    BY <2>3, <2>4, <2>7 DEF Calls!Execute, AState
<1>7. CASE DriverStops
  <2> DEFINE lost == {c \in Callers : stage[c] \in InDriver \cup {"queued"}}
  <2>1. \A d \in lost : stage'[d] = "lost" /\ AState[d] # "idle"
    BY <1>0, <1>7, AbstractState DEF DriverStops, InDriver
  <2>2. \A d \in Callers \ lost : stage'[d] = stage[d] /\ ret'[d] = ret[d]
    BY <1>7 DEF DriverStops
  <2>3. AState' = [d \in Callers |-> IF d \in lost THEN "lost" ELSE AState[d]]
    BY <1>0, <2>1, <2>2, AbstractState DEF AState
  <2>4. Same
    BY <1>7 DEF DriverStops, clientVars
  <2>5. Calls!Lose(lost)
    BY <2>1, <2>3, <2>4 DEF Calls!Lose, AState
  <2> QED
    BY <2>5 DEF Calls!Next
<1>8. CASE DriverStarts \/ ArmStops \/ UNCHANGED vars
  BY <1>8 DEF DriverStarts, ArmStops, vars, clientVars, armVars, Calls!vars
<1> QED
  BY <1>2, <1>3, <1>4, <1>5, <1>6, <1>7, <1>8 DEF Next, DriverStep, Calls!Next

\* XArmServices implements ArmCalls: a call of the client takes effect at one
\* moment, at most once, with its own arguments, and not at all if it is
\* refused (_call_request(), the wrappers and the driver's handlers).
THEOREM Implements == Spec => CallsAreAtomic
<1>1. Init /\ [][Next]_vars => Calls!Init /\ [][Calls!Next]_Calls!vars
  BY InitIInv, Inductive, InitImplements, NextImplements, PTL
<1> QED
  BY <1>1 DEF Spec, CallsAreAtomic, Calls!Spec
=============================================================================
