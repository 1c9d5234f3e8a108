----------------------------- MODULE ArmCalls -------------------------------
(***************************************************************************)
(* What a caller of XArmROSClient may rely on, without services, requests  *)
(* or a driver: a call takes effect at one moment between its start and    *)
(* its return, at most once, with the arguments it was given.  A call that *)
(* the driver refuses has no effect at all, and a call may be lost, before *)
(* or after its effect; then it never returns.                             *)
(***************************************************************************)
EXTENDS Naturals, Sequences

CONSTANT Callers        \* programs, each with a client of its own

VARIABLES
    asked,              \* the number of calls made so far
    current,            \* the number of each caller's last call
    state,              \* and what became of it
    executed            \* the effects on the arm, in order

vars == <<asked, current, state, executed>>

Init == /\ asked = 0
        /\ current = [c \in Callers |-> 0]
        /\ state = [c \in Callers |-> "idle"]
        /\ executed = <<>>

Ask(c) == /\ state[c] = "idle"
          /\ asked' = asked + 1
          /\ current' = [current EXCEPT ![c] = asked + 1]
          /\ state' = [state EXCEPT ![c] = "asked"]
          /\ UNCHANGED executed

\* genuine: the arguments the arm got are those of this call
Execute(c) == /\ state[c] = "asked"
              /\ state' = [state EXCEPT ![c] = "executed"]
              /\ executed' = Append(executed, [call |-> current[c], genuine |-> TRUE])
              /\ UNCHANGED <<asked, current>>

Refuse(c) == /\ state[c] = "asked"
             /\ state' = [state EXCEPT ![c] = "refused"]
             /\ UNCHANGED <<asked, current, executed>>

Return(c) == /\ state[c] \in {"executed", "refused"}
             /\ state' = [state EXCEPT ![c] = "idle"]
             /\ UNCHANGED <<asked, current, executed>>

\* Several calls are lost together if they were with the same driver.
Lose(lost) == /\ \A c \in lost : state[c] # "idle"
              /\ state' = [c \in Callers |-> IF c \in lost THEN "lost" ELSE state[c]]
              /\ UNCHANGED <<asked, current, executed>>

Next == \/ \E c \in Callers : Ask(c) \/ Execute(c) \/ Refuse(c) \/ Return(c)
        \/ \E lost \in SUBSET Callers : Lose(lost)

Spec == Init /\ [][Next]_vars
=============================================================================
