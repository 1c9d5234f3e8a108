------------------------------ MODULE RobotHW ------------------------------
(***************************************************************************)
(* The ros2_control hardware plugin UFRobotSystemHardware                   *)
(* (xarm_controller/src/hardware/uf_robot_system_hardware.cpp) together     *)
(* with the three things it interacts with:                                 *)
(*   - the arm, which faults, is moved by hand and is restored by an        *)
(*     operator or a script;                                                *)
(*   - the report thread of XArmDriver, which refreshes the cached curr_*   *)
(*     members the plugin decides on;                                       *)
(*   - the controller manager, whose update() runs in the same loop between *)
(*     read() and write() and which executes the switch requests the plugin *)
(*     and the launch files' spawners send it.                              *)
(* read(), update() and write() follow each other in one thread; pc says    *)
(* where that thread is.  write() blocks in service calls, so the other     *)
(* actors run between its steps.                                            *)
(***************************************************************************)
EXTENDS Integers, Sequences

CONSTANTS
  Controllers,      \* controllers the launch files may spawn
  ArmControllers,   \* those that claim the arm's command interfaces
  MaxPos,           \* joint positions (and velocities) are 0..MaxPos
  NaN,              \* the quiet_NaN of a state interface never written
  VelocityControl,  \* the member velocity_control_
  Sites,            \* the places an arm may work at
  MaxRequests       \* bound: switch requests waiting in the manager

Pos == 0..MaxPos

\* What is around the plugin: the controllers that are spawned, whether every
\* service call is answered within its second, whether the arm is restored
\* only after the plugin has let go of it and whether a spawner may activate
\* its controller during a reset.
Site == [controllers : SUBSET Controllers, reliable : BOOLEAN,
         operatorWaits : BOOLEAN, spawnerRaces : BOOLEAN]

ASSUME ConstantsAssumption ==
  /\ ArmControllers \subseteq Controllers
  /\ MaxPos \in Nat /\ MaxRequests \in Nat
  /\ NaN \notin Pos
  /\ VelocityControl \in BOOLEAN
  /\ Sites \subseteq Site

VARIABLES
  site,             \* where the arm works, which does not change
  arm,              \* the controller box: err, stopped (state > 2), mode
  pos,              \* where the arm is
  curr,             \* cached curr_err, curr_state > 2 and curr_mode
  pc,               \* where the control loop is
  hw_active,        \* lifecycle state of the hardware component
  read_ready,       \* read_ready_
  read_code,        \* read_code_
  measured,         \* joint_state_msg_->position
  position_states,  \* position_states_
  cmds,             \* position_cmds_ (velocity_cmds_ if VelocityControl)
  prev_cmds,        \* prev_cmds_float_
  initialized,      \* initialized_
  reactivate_later, \* reactivate_controller_later_
  listed,           \* controller names in the switch request being built
  loaded,           \* manager: controllers it lists
  active,           \* manager: those in state "active"
  requests,         \* manager: switch requests, the oldest first
  picked,           \* manager: the oldest is ready for the next update()
  spawned,          \* spawners that have asked for their activation
  setpoint,         \* what an active arm controller commands
  wrote,            \* history: an arm controller wrote cmds in this cycle
  first,            \* history: no command was sent since the last reset
  displaced         \* history: the arm was moved by hand since the last command

armVars  == <<site, arm, pos, displaced>>
loopVars == <<pc, read_ready, read_code, measured, position_states, initialized>>
cmdVars  == <<cmds, prev_cmds, first>>
mgrVars  == <<loaded, active, requests, picked, spawned, setpoint>>
vars == <<armVars, curr, loopVars, hw_active, cmdVars, reactivate_later, listed,
          mgrVars, wrote>>

ArmStatus == [err : BOOLEAN, stopped : BOOLEAN, mode : {"servo", "other"}]
Request   == [op : {"activate", "deactivate"}, names : SUBSET Controllers]

ReadyStatus == [err |-> FALSE, stopped |-> FALSE, mode |-> "servo"]

\* The arm executes servo commands.
ArmReady == arm = ReadyStatus

\* _xarm_is_ready_read() and _xarm_is_ready_write() on the cached values.
XarmIsReadyRead  == ~curr.err
XarmIsReadyWrite == XarmIsReadyRead /\ ~curr.stopped /\ curr.mode = "servo"

\* Mutant: the readiness read() has sampled is not looked at.
BugNeedReset == ~XarmIsReadyWrite \/ read_code # "ok"

\* _need_reset(): write_code_ is initialised to 0 and never assigned again.
NeedReset == ~XarmIsReadyWrite \/ read_code # "ok" \/ ~read_ready

\* The command that makes the arm stay where a successful read() found it.
HoldCommand(p) == IF VelocityControl THEN 0 ELSE p

SomeArmControllerActive == active \cap ArmControllers # {}

----------------------------------------------------------------------------
(* The arm, its operator and the report thread.                             *)

\* A collision or the emergency stop, a set_state(STOP), a set_mode() away
\* from servo by another client of the driver's services.
ArmDisturbed ==
  /\ arm' \in { [arm EXCEPT !.err = TRUE, !.stopped = TRUE],
                [arm EXCEPT !.stopped = TRUE],
                [arm EXCEPT !.mode = "other"] }
  /\ UNCHANGED <<site, pos, displaced, curr, loopVars, hw_active, cmdVars, reactivate_later,
                 listed, mgrVars, wrote>>

\* With an operator who waits the arm is brought back only once the plugin has seen
\* the fault and a cycle has gone by without a controller writing commands.
RestoreAllowed ==
  site.operatorWaits => /\ ~initialized
                        /\ ~SomeArmControllerActive /\ ~wrote
                        /\ requests = <<>>

\* clean_error, set_mode(SERVO) (the box then waits for a state) or
\* set_state(START) through the driver's services.
ArmRestored ==
  /\ RestoreAllowed
  /\ \/ arm.err /\ arm' = [arm EXCEPT !.err = FALSE]
     \/ arm.mode # "servo" /\ arm' = [arm EXCEPT !.mode = "servo", !.stopped = TRUE]
     \/ ~arm.err /\ arm.stopped /\ arm' = [arm EXCEPT !.stopped = FALSE]
  /\ UNCHANGED <<site, pos, displaced, curr, loopVars, hw_active, cmdVars, reactivate_later,
                 listed, mgrVars, wrote>>

\* An arm that does not servo sags or is moved by hand.  The displacement
\* between the measurement and the end of an unblocked cycle, a few
\* milliseconds, is below the resolution of Pos.
ArmMovedByHand ==
  /\ ~ArmReady
  /\ pc \notin {"update", "write", "send"}
  /\ pos' \in Pos \ {pos}
  /\ displaced' = TRUE
  /\ UNCHANGED <<site, arm, curr, loopVars, hw_active, cmdVars, reactivate_later,
                 listed, mgrVars, wrote>>

\* XArmDriver::_report_data_callback stores curr_state, curr_err and curr_mode
\* one by one while the loop reads them: each is refreshed on its own.
Report(field) ==
  /\ curr[field] # arm[field]
  /\ curr' = [curr EXCEPT ![field] = arm[field]]
  /\ UNCHANGED <<armVars, loopVars, hw_active, cmdVars, reactivate_later,
                 listed, mgrVars, wrote>>

----------------------------------------------------------------------------
(* Lifecycle transitions, between two cycles of the loop.                   *)

\* on_activate(): clean_error .. set_state(START) bring the arm to servo
\* unless it cannot leave its error (their results are not looked at); the
\* commands start from the states, which are 0 if they were never read.
FirstState == IF position_states = NaN THEN 0 ELSE position_states

OnActivate ==
  /\ ~hw_active
  /\ pc \in {"init", "read"}
  /\ pc = "read" => RestoreAllowed
  /\ arm' \in IF arm.err THEN {ReadyStatus, arm} ELSE {ReadyStatus}
  /\ position_states' = FirstState
  /\ cmds' \in IF VelocityControl /\ position_states # NaN THEN Pos ELSE {FirstState}
  /\ hw_active' = TRUE
  /\ pc' = "read"
  /\ UNCHANGED <<site, pos, displaced, curr, read_ready, read_code, measured, initialized,
                 prev_cmds, first, reactivate_later, listed, mgrVars, wrote>>

\* on_deactivate(): set_mode(POSE).  The manager goes on reading and writing
\* an inactive component.
OnDeactivate ==
  /\ hw_active
  /\ pc = "read"
  /\ hw_active' = FALSE
  /\ arm' = [arm EXCEPT !.mode = "other"]
  /\ UNCHANGED <<site, pos, displaced, curr, loopVars, cmdVars, reactivate_later, listed, mgrVars,
                 wrote>>

----------------------------------------------------------------------------
(* read(): the readiness is sampled first, then the joints are asked.       *)

ReadReady ==
  /\ pc = "read"
  /\ read_ready' = XarmIsReadyRead
  /\ pc' = "measure"
  /\ UNCHANGED <<armVars, curr, read_code, measured, position_states, initialized,
                 hw_active, cmdVars, reactivate_later, listed, mgrVars, wrote>>

\* update_joint_states() answers: the states follow the measurement, and the
\* commands too until write() has found the arm ready.
MeasureOk ==
  /\ pc = "measure"
  /\ read_code' = "ok"
  /\ measured' = pos
  /\ position_states' = IF read_ready THEN measured' ELSE position_states
  /\ cmds' = IF read_ready /\ ~initialized THEN HoldCommand(measured') ELSE cmds
  /\ pc' = "update"
  /\ UNCHANGED <<armVars, curr, read_ready, initialized, hw_active, prev_cmds, first,
                 reactivate_later, listed, mgrVars, wrote>>

\* It fails: nothing is updated.  A disconnected robot ends the process.
MeasureFails ==
  /\ pc = "measure"
  /\ \/ read_code' = "failed" /\ pc' = "update"
     \/ read_code' = "disconnected" /\ pc' = "exited"
  /\ UNCHANGED <<armVars, curr, read_ready, measured, position_states, initialized,
                 hw_active, cmdVars, reactivate_later, listed, mgrVars, wrote>>

----------------------------------------------------------------------------
(* The controller manager: ControllerManager::update() and its services.    *)

\* Active controllers write their commands, then the switch that is ready is
\* carried out; a controller that becomes active starts by holding the state.
Near(p) == {q \in Pos : q - p \in -1..1}

ActiveAfter(r) ==
  IF r.op = "activate" THEN active \cup (r.names \cap loaded) ELSE active \ r.names

Update ==
  /\ pc = "update"
  /\ wrote' = SomeArmControllerActive
  /\ cmds' \in IF SomeArmControllerActive THEN Near(setpoint) ELSE {cmds}
  /\ IF picked
     THEN /\ active' = ActiveAfter(Head(requests))
          /\ requests' = Tail(requests)
          /\ picked' = (site.reliable /\ requests' # <<>>)
     ELSE UNCHANGED <<active, requests, picked>>
  /\ setpoint' = IF (active' \ active) \cap ArmControllers # {}
                 THEN HoldCommand(position_states)
                 ELSE IF SomeArmControllerActive THEN cmds' ELSE setpoint
  /\ pc' = "write"
  /\ UNCHANGED <<armVars, curr, read_ready, read_code, measured, position_states,
                 initialized, hw_active, prev_cmds, first, reactivate_later, listed,
                 loaded, spawned>>

\* The service thread of the manager prepares the oldest request.
PickUp ==
  /\ requests # <<>> /\ ~picked
  /\ picked' = TRUE
  /\ UNCHANGED <<armVars, curr, loopVars, hw_active, cmdVars, reactivate_later,
                 listed, loaded, active, requests, spawned, setpoint, wrote>>

Enqueue(op, names) ==
  /\ Len(requests) < MaxRequests
  /\ requests' = Append(requests, [op |-> op, names |-> names])
  /\ picked' = (picked \/ site.reliable)

\* A spawner loads its controller and asks for its activation, once.
Spawn(c) ==
  /\ c \in site.controllers \ spawned
  /\ pc # "init"
  /\ site.spawnerRaces \/ (initialized /\ ~reactivate_later)
  /\ \/ /\ c \notin loaded
        /\ loaded' = loaded \cup {c}
        /\ UNCHANGED <<requests, picked, spawned>>
     \/ /\ c \in loaded
        /\ spawned' = spawned \cup {c}
        /\ Enqueue("activate", {c})
        /\ UNCHANGED loaded
  /\ UNCHANGED <<armVars, curr, loopVars, hw_active, cmdVars, reactivate_later,
                 listed, active, setpoint, wrote>>

----------------------------------------------------------------------------
(* write()                                                                  *)

\* Not ready: forget the commands and, unless that was done already, take the
\* controllers down.
WriteReset ==
  /\ pc = "write"
  /\ NeedReset
  /\ initialized' = FALSE
  /\ first' = TRUE
  /\ pc' = IF reactivate_later THEN "read" ELSE "list_deactivate"
  /\ UNCHANGED <<armVars, curr, read_ready, read_code, measured, position_states,
                 hw_active, cmds, prev_cmds, reactivate_later, listed, mgrVars, wrote>>

WriteReady ==
  /\ pc = "write"
  /\ ~NeedReset
  /\ initialized' = TRUE
  /\ pc' = IF reactivate_later THEN "list_activate" ELSE "send"
  /\ UNCHANGED <<armVars, curr, read_ready, read_code, measured, position_states,
                 hw_active, cmdVars, reactivate_later, listed, mgrVars, wrote>>

\* The list_controllers call of either branch.  Its handler may be stuck
\* behind a switch in progress, which this very loop has to carry out.
ListFails == ~site.reliable \/ requests # <<>>

ListToDeactivate ==
  /\ pc = "list_deactivate"
  /\ \/ /\ active \cap loaded # {}      \* valid_operation
        /\ listed' = loaded
        /\ pc' = "switch_deactivate"
     \/ /\ ListFails \/ active \cap loaded = {}
        /\ pc' = "read"
        /\ UNCHANGED listed
  /\ UNCHANGED <<armVars, curr, read_ready, read_code, measured, position_states,
                 initialized, hw_active, cmdVars, reactivate_later, mgrVars, wrote>>

\* Mutants: the names of the last request stay in its activate_controllers;
\* only active controllers are named, as for a valid_operation.
BugStaleRequest(op) == Enqueue("activate", listed)
BugOnlyActive(op)   == Enqueue(op, listed \cap active)

\* The switch call, whose result is not looked at: where calls are lost it may
\* never reach the manager.
SwitchCall(op) ==
  \/ Enqueue(op, listed)
  \/ ~site.reliable /\ UNCHANGED <<requests, picked>>

SwitchToDeactivate ==
  /\ pc = "switch_deactivate"
  /\ SwitchCall("deactivate")
  /\ reactivate_later' = TRUE
  /\ listed' = {}
  /\ pc' = "read"
  /\ UNCHANGED <<armVars, curr, read_ready, read_code, measured, position_states,
                 initialized, hw_active, cmdVars, loaded, active, spawned, setpoint,
                 wrote>>

\* _activate_controller(): write() clears the flag when it returns, whatever
\* became of its calls.
ListToActivate ==
  /\ pc = "list_activate"
  /\ \/ /\ loaded # {}
        /\ listed' = loaded
        /\ pc' = "switch_activate"
        /\ UNCHANGED reactivate_later
     \/ /\ ListFails \/ loaded = {}
        /\ reactivate_later' = FALSE
        /\ pc' = "send"
        /\ UNCHANGED listed
  /\ UNCHANGED <<armVars, curr, read_ready, read_code, measured, position_states,
                 initialized, hw_active, cmdVars, mgrVars, wrote>>

SwitchToActivate ==
  /\ pc = "switch_activate"
  /\ SwitchCall("activate")
  /\ reactivate_later' = FALSE
  /\ listed' = {}
  /\ pc' = "send"
  /\ UNCHANGED <<armVars, curr, read_ready, read_code, measured, position_states,
                 initialized, hw_active, cmdVars, loaded, active, spawned, setpoint,
                 wrote>>

\* set_servo_angle_j() when the commands changed or a second has passed: a
\* ready arm goes there; any other arm ignores it, with or without an error.
SendPosition ==
  /\ ~VelocityControl
  /\ \/ cmds = prev_cmds /\ UNCHANGED <<pos, prev_cmds>>     \* nothing to send
     \/ ArmReady /\ pos' = cmds /\ prev_cmds' = cmds
     \/ ~ArmReady /\ prev_cmds' = cmds /\ UNCHANGED pos      \* lost in the arm
     \/ UNCHANGED <<pos, prev_cmds>>                         \* cmd_ret # 0

\* vc_set_joint_velocity() in every cycle.
SendVelocity ==
  /\ VelocityControl
  /\ pos' \in IF ArmReady /\ cmds # 0 THEN Pos ELSE {pos}
  /\ UNCHANGED prev_cmds

Send ==
  /\ pc = "send"
  /\ SendPosition \/ SendVelocity
  /\ first' = FALSE
  /\ displaced' = FALSE
  /\ pc' = "read"
  /\ UNCHANGED <<site, arm, curr, read_ready, read_code, measured, position_states,
                 initialized, hw_active, cmds, reactivate_later, listed, mgrVars,
                 wrote>>

----------------------------------------------------------------------------
Init ==
  /\ site \in Sites
  /\ arm \in ArmStatus
  /\ pos \in Pos
  /\ curr = [err |-> FALSE, stopped |-> TRUE, mode |-> "other"]
  /\ pc = "init"
  /\ hw_active = FALSE
  /\ read_ready \in BOOLEAN      \* read_ready_ is not initialised
  /\ read_code = "ok"
  /\ measured = 0
  /\ position_states = NaN
  /\ cmds = NaN
  /\ prev_cmds = 0
  /\ initialized = FALSE
  /\ reactivate_later = FALSE
  /\ listed = {}
  /\ loaded = {} /\ active = {} /\ spawned = {}
  /\ requests = <<>>
  /\ picked = FALSE
  /\ setpoint = 0
  /\ wrote = FALSE
  /\ first = TRUE
  /\ displaced = FALSE

Loop ==
  \/ ReadReady \/ MeasureOk \/ Update \/ WriteReset \/ WriteReady
  \/ ListToDeactivate \/ SwitchToDeactivate
  \/ ListToActivate \/ SwitchToActivate
  \/ Send

Environment ==
  \/ ArmDisturbed \/ ArmRestored \/ ArmMovedByHand
  \/ OnActivate \/ OnDeactivate
  \/ MeasureFails

Next ==
  \/ Loop
  \/ Environment
  \/ \E f \in {"err", "stopped", "mode"} : Report(f)
  \/ PickUp
  \/ \E c \in Controllers : Spawn(c)

Spec == Init /\ [][Next]_vars

\* The control loop runs at update_rate, reports keep coming and the manager's
\* service thread runs.  Nothing is assumed of the arm or of its operator.
Fairness ==
  /\ WF_vars(Loop)
  /\ \A f \in {"err", "stopped", "mode"} : WF_vars(Report(f))
  /\ WF_vars(PickUp)
  /\ \A c \in Controllers : WF_vars(Spawn(c))

FairSpec == Spec /\ Fairness

----------------------------------------------------------------------------
(* Properties.                                                              *)

\* The values the state takes.
TypeOK ==
  /\ site \in Sites
  /\ arm \in ArmStatus /\ curr \in ArmStatus /\ pos \in Pos
  /\ pc \in {"init", "read", "measure", "update", "write", "list_deactivate",
             "switch_deactivate", "list_activate", "switch_activate", "send", "exited"}
  /\ {hw_active, read_ready, initialized, reactivate_later, picked, wrote, first,
   displaced} \subseteq BOOLEAN
  /\ read_code \in {"ok", "failed", "disconnected"}
  /\ measured \in Pos /\ prev_cmds \in Pos /\ setpoint \in Pos
  /\ position_states \in Pos \cup {NaN} /\ cmds \in Pos \cup {NaN}
  /\ (pc # "init" => position_states # NaN /\ cmds # NaN)
  /\ active \subseteq loaded /\ spawned \subseteq loaded
  /\ loaded \subseteq Controllers /\ listed \subseteq loaded
  /\ requests \in Seq(Request) /\ Len(requests) <= MaxRequests
  /\ picked => requests # <<>>

\* The first command after a reset (write(), lines 341-346) is the position
\* read() measured in that same cycle (lines 310-321), whatever was commanded
\* before the fault, whenever reports arrive and however long write() was
\* blocked, unless a controller that was still active overwrote it.
FreshFirstCommand ==
  pc = "send" /\ first /\ ~wrote => cmds = HoldCommand(measured)

\* The services answer and no spawner activates a controller in a reset.
Calm == site.reliable /\ ~site.spawnerRaces

\* An arm that was moved during a fault is not snapped back by the recovery,
\* where the site is calm and the operator waits: the first command it can
\* execute is where it is now.
NoJumpOnRecovery ==
  Calm /\ site.operatorWaits =>
    (pc = "send" /\ first /\ displaced /\ ArmReady => cmds = HoldCommand(pos))

\* "Not setting this indicator until activated controller disabled!"
\* (line 421): once no switch is outstanding, the flag says that the
\* controllers are down.
FlagMeansDisabled ==
  reactivate_later /\ requests = <<>> => active = {}

\* It does so at every site that is calm, however often the arm is disturbed
\* and restored between two switches.
CalmFlagMeansDisabled == Calm => FlagMeansDisabled

\* No spawner is at work when a reset has listed the controllers: each has asked
\* for its activation, and for ThroughAndServed has also got it.
SpawnersThrough == pc = "switch_deactivate" => spawned = site.controllers

ThroughAndServed ==
  pc = "switch_deactivate" => spawned = site.controllers /\ requests = <<>>

\* Once the arm stays ready and answers, the controllers a reset has taken
\* down are all active again (_activate_controller, lines 426-441), provided no
\* reset met a spawner: with a spawner's request still in the manager the
\* recovery's list call may fail, and line 350 forgets about the controllers.
ControllersComeBack ==
  []ThroughAndServed =>
    (<>[](ArmReady /\ hw_active /\ read_code = "ok") => <>[](active = site.controllers))

\* While the arm stays in error nothing goes on commanding it
\* (_deactivate_controller, lines 398-424), provided the reset listed every
\* controller: with the flag set (line 421) a later spawner is not looked at.
ControllersAreTakenDown ==
  []SpawnersThrough =>
    (<>[](arm.err /\ hw_active /\ pc # "exited") => <>[]~SomeArmControllerActive)

=============================================================================
