---------------------------- MODULE RecoveryGate ----------------------------
(***************************************************************************)
(* The gate of apps/recovery-control: one Durable Object that decides      *)
(* which recovery drill may run.  Requests wait for one another (`serial`) *)
(* and the one inside reads the stored "active" operation, asks the        *)
(* workflow service about it, and then answers with it, refuses, or stores *)
(* a new one and creates its workflow.  A call of the workflow service can *)
(* fail with or without having had its effect, and the object itself can   *)
(* be evicted between two storage calls: the request is lost, the stored   *)
(* value stays and `serial` starts anew.                                   *)
(***************************************************************************)
EXTENDS Naturals, FiniteSets

CONSTANTS
  Callers,    \* requests to start a drill, each sent once
  Ops,        \* operation identities drawn by crypto.randomUUID
  Drills,     \* the payloads (drill kind and source point) asked for
  NoOp,       \* no operation
  Faults,     \* how many calls of the workflow service fail, and evictions
  LostLookups,\* whether a lookup may fail for an operation that exists
  MaxAge      \* days after which an operation that cannot be looked up is dropped

GateAssumption ==
  /\ NoOp \notin Ops \cup Callers \cup {"started", "refused", "failed"}
  /\ Faults \in Nat
  /\ MaxAge \in Nat
  /\ LostLookups \in BOOLEAN

VARIABLES
  active,     \* the stored operation: NoOp or [op, drill, age]
  flows,      \* the workflow service: the status of each created operation
  req,        \* what each caller asked, where its request is, what it heard
  inside,     \* the caller holding `serial`, if any
  faults

vars == <<active, flows, req, inside, faults>>

Running == {"running"}
Terminal == {"complete", "errored"}
NoActive == [op |-> NoOp, drill |-> NoOp, age |-> 0]

Init ==
  /\ active = NoActive
  /\ flows = [o \in Ops |-> "none"]
  /\ req \in [Callers -> [at : {"waiting"}, drill : Drills, answer : {NoOp}, op : {NoOp}]]
  /\ inside = NoOp
  /\ faults = 0

CanFail == faults < Faults
Fail == CanFail /\ faults' = faults + 1

Answer(c, what, op) ==
  /\ req' = [req EXCEPT ![c].at = "answered", ![c].answer = what, ![c].op = op]
  /\ inside' = NoOp

(* The handler enters when every earlier request has left. *)
Enter(c) ==
  /\ inside = NoOp
  /\ req[c].at = "waiting"
  /\ inside' = c
  /\ req' = [req EXCEPT ![c].at = IF active = NoActive THEN "fresh" ELSE "lookup"]
  /\ UNCHANGED <<active, flows, faults>>

(* Mutant: the status of the active operation is not looked at. *)
LookedUpUnasked(c) ==
  /\ req[c].at = "lookup" /\ inside = c
  /\ flows[active.op] # "none"
  /\ IF req[c].drill = active.drill
       THEN Answer(c, "started", active.op)
       ELSE req' = [req EXCEPT ![c].at = "fresh"] /\ UNCHANGED inside
  /\ UNCHANGED <<active, flows, faults>>

(* An active operation is found: the same payload gets it again whatever    *)
(* its status, another payload is refused until it has ended.               *)
LookedUp(c) ==
  /\ req[c].at = "lookup" /\ inside = c
  /\ flows[active.op] # "none"
  /\ IF req[c].drill = active.drill
       THEN Answer(c, "started", active.op)
       ELSE IF flows[active.op] \notin Terminal
              THEN Answer(c, "refused", NoOp)
              ELSE req' = [req EXCEPT ![c].at = "fresh"] /\ UNCHANGED inside
  /\ UNCHANGED <<active, flows, faults>>

(* The lookup rejects, because the operation was never created or because   *)
(* the service failed: an operation older than MaxAge is dropped, a younger *)
(* one makes the request fail and stays.                                    *)
LookupFails(c) ==
  /\ req[c].at = "lookup" /\ inside = c
  /\ \/ flows[active.op] = "none" /\ UNCHANGED faults
     \/ flows[active.op] # "none" /\ LostLookups /\ Fail
  /\ IF active.age > MaxAge
       THEN /\ active' = NoActive
            /\ req' = [req EXCEPT ![c].at = "fresh"]
            /\ UNCHANGED inside
       ELSE Answer(c, "failed", NoOp) /\ UNCHANGED active
  /\ UNCHANGED flows

FreshOps == {o \in Ops : flows[o] = "none" /\ o # active.op
                        /\ \A d \in Callers : req[d].op # o}

(* A new operation is stored before its workflow is created. *)
Store(c) ==
  /\ req[c].at = "fresh" /\ inside = c
  /\ \E o \in FreshOps :
       /\ active' = [op |-> o, drill |-> req[c].drill, age |-> 0]
       /\ req' = [req EXCEPT ![c].at = "create", ![c].op = o]
  /\ UNCHANGED <<flows, inside, faults>>

Create(c) ==
  /\ req[c].at = "create" /\ inside = c
  /\ flows' = [flows EXCEPT ![active.op] = "running"]
  /\ Answer(c, "started", active.op)
  /\ UNCHANGED <<active, faults>>

(* The call fails, perhaps after it created the workflow. *)
CreateFails(c) ==
  /\ req[c].at = "create" /\ inside = c
  /\ Fail
  /\ \E done \in BOOLEAN :
       flows' = IF done THEN [flows EXCEPT ![active.op] = "running"] ELSE flows
  /\ req' = [req EXCEPT ![c].at = "confirm"]
  /\ UNCHANGED <<active, inside>>

(* The lookup after a failed creation: found, the drill runs; rejected, the *)
(* stored operation is taken back.                                          *)
Confirmed(c) ==
  /\ req[c].at = "confirm" /\ inside = c
  /\ flows[active.op] # "none"
  /\ Answer(c, "started", active.op)
  /\ UNCHANGED <<active, flows, faults>>

(* Mutant: a creation that failed is answered as a start all the same. *)
NotConfirmedStarted(c) ==
  /\ req[c].at = "confirm" /\ inside = c
  /\ \/ flows[active.op] = "none" /\ UNCHANGED faults
     \/ flows[active.op] # "none" /\ LostLookups /\ Fail
  /\ Answer(c, "started", active.op)
  /\ UNCHANGED <<active, flows>>

NotConfirmed(c) ==
  /\ req[c].at = "confirm" /\ inside = c
  /\ \/ flows[active.op] = "none" /\ UNCHANGED faults
     \/ flows[active.op] # "none" /\ LostLookups /\ Fail
  /\ active' = NoActive
  /\ Answer(c, "failed", NoOp)
  /\ UNCHANGED flows

(* Not in the code of the gate: the object is evicted under a request, the  *)
(* runner asks again after a failure, a workflow ends, a day passes.        *)
Evict ==
  /\ inside # NoOp /\ Fail
  /\ flows' \in IF req[inside].at = "create"
                 THEN {flows, [flows EXCEPT ![active.op] = "running"]}
                 ELSE {flows}
  /\ Answer(inside, "failed", NoOp)
  /\ UNCHANGED active

AskAgain(c) ==
  /\ req[c].at = "answered" /\ req[c].answer \in {"failed", "refused"}
  /\ req' = [req EXCEPT ![c].at = "waiting", ![c].answer = NoOp, ![c].op = NoOp]
  /\ UNCHANGED <<active, flows, inside, faults>>

End(o) ==
  /\ flows[o] = "running"
  /\ \E s \in Terminal : flows' = [flows EXCEPT ![o] = s]
  /\ UNCHANGED <<active, req, inside, faults>>

Day ==
  /\ active # NoActive /\ active.age <= MaxAge
  /\ active' = [active EXCEPT !.age = @ + 1]
  /\ UNCHANGED <<flows, req, inside, faults>>

Step(c) ==
  \/ Enter(c) \/ LookedUp(c) \/ LookupFails(c) \/ Store(c)
  \/ Create(c) \/ CreateFails(c) \/ Confirmed(c) \/ NotConfirmed(c)

Next ==
  \/ \E c \in Callers : Step(c) \/ AskAgain(c)
  \/ \E o \in Ops : End(o)
  \/ Evict \/ Day

Spec == Init /\ [][Next]_vars

(* A request inside the object goes on, `serial` lets every waiting request *)
(* in, the runner asks again, workflows end and days pass.                  *)
Fairness ==
  /\ \A c \in Callers : WF_vars(Step(c)) /\ SF_vars(Enter(c)) /\ WF_vars(AskAgain(c))
  /\ \A o \in Ops : WF_vars(End(o))
  /\ WF_vars(Day)

FairSpec == Spec /\ Fairness

-----------------------------------------------------------------------------
(* What the gate of the recovery drills promises. *)

(* Every record keeps its form: the stored operation, the statuses of the   *)
(* workflow service and the requests of apps/recovery-control/src/index.ts. *)
TypeOK ==
  /\ active \in [op : Ops \cup {NoOp}, drill : Drills \cup {NoOp}, age : 0..(MaxAge + 1)]
  /\ flows \in [Ops -> {"none"} \cup Running \cup Terminal]
  /\ req \in [Callers -> [at : {"waiting", "lookup", "fresh", "create", "confirm", "answered"},
                          drill : Drills, answer : {NoOp, "started", "refused", "failed"},
                          op : Ops \cup {NoOp}]]
  /\ inside \in Callers \cup {NoOp}
  /\ faults \in 0..Faults

(* Two drills never run at once: "a Durable Object serializes runs"         *)
(* (docs/architecture.md).                                                  *)
OneRun == Cardinality({o \in Ops : flows[o] \in Running}) <= 1

(* Whoever is told that a drill was started is told of one that exists:     *)
(* the answer 202 is never given for an operation that was only stored.     *)
StartedExists ==
  \A c \in Callers : req[c].answer = "started" => flows[req[c].op] # "none"

(* A drill that runs is the one the gate remembers: no running workflow is  *)
(* forgotten, whichever call failed and wherever the object was evicted.    *)
Remembered == \A o \in Ops : flows[o] \in Running => active.op = o

(* A gate whose stored operation was never created (evicted between the     *)
(* storage put and the creation) opens again: the operation is dropped      *)
(* after its age, and somebody who keeps asking starts a drill.             *)
Reopens == \A c \in Callers : (req[c].at = "waiting") ~> (\E d \in Callers : req[d].answer = "started")
=============================================================================
