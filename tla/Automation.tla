----------------------------- MODULE Automation -----------------------------
(***************************************************************************)
(* automation: the control plane that runs one decision point through the  *)
(* stages (AutomationOrchestrator.run), with its idempotent RunStateStore  *)
(* and its EventBus, as concurrent callers use one orchestrator.           *)
(*                                                                         *)
(* A decision point stands for a symbol and a timestamp; with the mode it  *)
(* is the idempotency key.  A stage's handler does what it does or raises, *)
(* and so does any subscriber of an event.  Each call of the store is      *)
(* atomic, under its lock.                                                 *)
(***************************************************************************)
EXTENDS Naturals, Sequences, SequencesExt

CONSTANTS Callers,   \* threads that call run
          Points,    \* decision points
          Order,     \* the canonical order of the stages
          Handled,   \* stages that have a handler
          MaxRuns    \* bound: runs created

ASSUME OrderAssumption ==
  /\ Order \in Seq(Range(Order)) /\ Handled \subseteq Range(Order)
  /\ \A i, j \in DOMAIN Order : Order[i] = Order[j] => i = j
  /\ MaxRuns \in Nat

Modes == {"paper", "shadow"}

VARIABLES
  records,    \* the store's runs: [point, mode, status, events]
  job,        \* per caller: the run it drives, or NoRun
  stage,      \* per caller: the position in Order
  step,       \* per caller: where run is
  executed    \* the runs whose EXECUTION handler was called, in order

automationVars == <<records, job, stage, step, executed>>

NoRun == 0

AutomationInit ==
  /\ records = <<>> /\ executed = <<>>
  /\ job = [c \in Callers |-> NoRun] /\ stage = [c \in Callers |-> 0]
  /\ step = [c \in Callers |-> "idle"]

To(c, s, n) ==
  /\ step' = [step EXCEPT ![c] = s] /\ stage' = [stage EXCEPT ![c] = n]
  /\ UNCHANGED job
Return(c) ==
  /\ step' = [step EXCEPT ![c] = "idle"] /\ stage' = [stage EXCEPT ![c] = 0]
  /\ job' = [job EXCEPT ![c] = NoRun]
Here(c) == Order[stage[c]]

(* create: the key is looked up and taken at once; a key that is taken     *)
(* ends the call with REJECTED and changes nothing.                        *)
TakenUnlessFailed(p, m) ==             \* mutant: a failed run frees its key
  \E r \in DOMAIN records :
    records[r].point = p /\ records[r].mode = m /\ records[r].status # "FAILED"
Taken(p, m) == \E r \in DOMAIN records : records[r].point = p /\ records[r].mode = m
CreateRun(c, p, m) ==
  /\ step[c] = "idle" /\ ~Taken(p, m) /\ Len(records) < MaxRuns
  /\ records' = Append(records, [point |-> p, mode |-> m, status |-> "CREATED", events |-> <<>>])
  /\ job' = [job EXCEPT ![c] = Len(records')]
  /\ step' = [step EXCEPT ![c] = "created"] /\ stage' = [stage EXCEPT ![c] = 1]
  /\ UNCHANGED executed

WithStatus(c, s) == records' = [records EXCEPT ![job[c]].status = s]

Running(c) ==
  /\ step[c] = "created" /\ WithStatus(c, "RUNNING")
  /\ To(c, "stage", 1) /\ UNCHANGED executed

(* _emit: the event is stored, and then a subscriber may raise.            *)
Emit(c, s, type, next, n) ==
  /\ records' = [records EXCEPT ![job[c]].events = Append(@, <<s, type>>)]
  /\ \/ To(c, next, n)
     \/ To(c, "failing", n)
  /\ UNCHANGED executed

Skip(c) ==
  /\ step[c] = "stage" /\ stage[c] <= Len(Order) /\ Here(c) \notin Handled
  /\ Emit(c, Here(c), "STAGE_SKIPPED", "stage", stage[c] + 1)

(* AutomationGateError: execution outside the paper mode.                  *)
ModeRefused(c) == Here(c) = "EXECUTION" /\ records[job[c]].mode # "paper"

Refuse(c) ==
  /\ step[c] = "stage" /\ stage[c] <= Len(Order) /\ Here(c) \in Handled
  /\ ModeRefused(c)
  /\ To(c, "failing", stage[c]) /\ UNCHANGED <<records, executed>>

Begin(c) ==
  /\ step[c] = "stage" /\ stage[c] <= Len(Order) /\ Here(c) \in Handled
  /\ ~ModeRefused(c)
  /\ Emit(c, Here(c), "STAGE_STARTED", "handler", stage[c])

(* The handler is called, and returns or raises.                           *)
Handle(c) ==
  /\ step[c] = "handler"
  /\ executed' = IF Here(c) = "EXECUTION" THEN Append(executed, job[c]) ELSE executed
  /\ To(c, "completed", stage[c]) \/ To(c, "failing", stage[c])
  /\ UNCHANGED records

StageDone(c) ==
  /\ step[c] = "completed"
  /\ Emit(c, Here(c), "STAGE_COMPLETED", "stage", stage[c] + 1)

Succeed(c) ==
  /\ step[c] = "stage" /\ stage[c] > Len(Order)
  /\ WithStatus(c, "SUCCEEDED") /\ Return(c) /\ UNCHANGED executed

FailQuietly(c) ==                      \* mutant: the status is not stored
  /\ step[c] = "failing" /\ UNCHANGED records
  /\ To(c, "report", stage[c]) /\ UNCHANGED executed
Fail(c) ==
  /\ step[c] = "failing" /\ WithStatus(c, "FAILED")
  /\ To(c, "report", stage[c]) /\ UNCHANGED executed

(* RUN_FAILED is stored; a subscriber that raises there replaces the       *)
(* result by its exception.                                                *)
Report(c) ==
  /\ step[c] = "report"
  /\ records' = [records EXCEPT ![job[c]].events = Append(@, <<"MONITORING", "RUN_FAILED">>)]
  /\ Return(c) /\ UNCHANGED executed

AutomationNext ==
  \E c \in Callers :
    \/ \E p \in Points, m \in Modes : CreateRun(c, p, m)
    \/ Running(c) \/ Skip(c) \/ Refuse(c) \/ Begin(c) \/ Handle(c) \/ StageDone(c)
    \/ Succeed(c) \/ Fail(c) \/ Report(c)

-----------------------------------------------------------------------------
(* Properties                                                              *)

(* docs/AUTOMATION_ENGINE.md, invariants 4 and 5: a decision point is      *)
(* executed at most once, in paper mode only, whoever asks again, also     *)
(* after a failure behind the execution.                                   *)
ExecutedOnce ==
  /\ \A i, j \in DOMAIN executed :
       i # j => records[executed[i]].point # records[executed[j]].point
  /\ \A i \in DOMAIN executed : records[executed[i]].mode = "paper"

(* What a stage contributes to a run without failures.                     *)
Trace(s) == IF s \in Handled THEN <<<<s, "STAGE_STARTED">>, <<s, "STAGE_COMPLETED">>>>
                             ELSE <<<<s, "STAGE_SKIPPED">>>>
FullTrace == FlattenSeq([i \in DOMAIN Order |-> Trace(Order[i])])

(* A run nobody drives is closed, and its events tell its fate: all of the *)
(* stages in order, or a beginning of them and the failure; the stages     *)
(* before the execution have always been gone through.                     *)
RunsTold ==
  \A r \in DOMAIN records :
    LET e == records[r].events IN
    /\ (\A c \in Callers : job[c] # r) =>
         \/ records[r].status = "SUCCEEDED" /\ e = FullTrace
         \/ records[r].status = "FAILED" /\ Last(e) = <<"MONITORING", "RUN_FAILED">>
    /\ e # <<>> => IsPrefix(IF Last(e)[2] = "RUN_FAILED" THEN Front(e) ELSE e, FullTrace)
=============================================================================
