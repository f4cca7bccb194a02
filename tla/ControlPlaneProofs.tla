------------------------- MODULE ControlPlaneProofs -------------------------
(***************************************************************************)
(* Theorems about ControlPlane for any candidates, versions and callers,   *)
(* any number of runs, of failed writes and of deaths, and any order of    *)
(* the stages without a repetition.                                        *)
(***************************************************************************)
EXTENDS ControlPlane, CollectionLemmas

-----------------------------------------------------------------------------
(* The champion store                                                      *)

(* Only a process that died leaves a line cut, or the pointer behind.      *)
ChampionInv ==
  /\ history \in Seq(Range(history)) /\ deaths \in Nat
  /\ \A i \in DOMAIN history : i > 1 => history[i].parent = history[i - 1].version
  /\ torn => deaths > 0
  /\ pointing \/ deaths > 0 \/ pointer = Newest

LEMMA ChampionStep ==
  ASSUME ChampionInv, ChampionNext \/ UNCHANGED championVars PROVE ChampionInv'
<1> USE DEF ChampionInv
<1>1. ASSUME NEW v, NEW p, Activate(v, p) PROVE ChampionInv'
  <2> DEFINE n == Len(history)
             line == [version |-> v, parent |-> p]
  <2>1. /\ n \in Nat /\ DOMAIN history = 1..n /\ DOMAIN history' = 1..(n + 1)
        /\ history' \in Seq(Range(history')) /\ history'[n + 1] = line
        /\ \A i \in 1..n : history'[i] = history[i]
    BY <1>1, Appended DEF Activate
  <2>2. n > 0 => line.parent = history[n].version
    <3>1. n > 0 => history # <<>>
      BY EmptyListed
    <3> QED
      BY <1>1, <3>1 DEF Activate, Newest
  <2>3. \A i \in DOMAIN history' : i > 1 => history'[i].parent = history'[i - 1].version
    BY <2>1, <2>2
  <2> QED
    BY <1>1, <2>1, <2>3 DEF Activate
<1>2. ASSUME WritePointer PROVE ChampionInv'
  BY <1>2 DEF WritePointer, Newest
<1>3. ASSUME Dies PROVE ChampionInv'
  BY <1>3 DEF Dies
<1>4. ASSUME UNCHANGED championVars PROVE ChampionInv'
  BY <1>4 DEF championVars, Newest
<1> QED
  BY <1>1, <1>2, <1>3, <1>4 DEF ChampionNext

(* Whatever is promoted, activated and interrupted: a store that can be    *)
(* read stays readable, unless a process dies between the two writes of    *)
(* activate, or the very first record names a parent.                      *)
THEOREM ChampionAlwaysKnown == Spec => []ChampionKnown
<1>1. Init => ChampionInv
  BY EmptyListed DEF Init, GovernanceInit, ChampionInit, ChampionInv, Newest
<1>2. ChampionInv /\ [Next]_vars => ChampionInv'
  BY ChampionStep DEF Next, GovernanceNext, RegistryNext, Register, ApproveModel, Retire, Recorded,
     vars, governanceVars
<1>3. ChampionInv => ChampionKnown
  BY DEF ChampionInv, ChampionKnown, Readable, Chained
<1> QED
  BY <1>1, <1>2, <1>3, PTL DEF Spec
-----------------------------------------------------------------------------
(* The automation: at most one execution of a decision point               *)

Fields == {"point", "mode", "status", "events"}

(* The key of a run is taken once and never changes.                       *)
Keys ==
  /\ records \in Seq(Range(records))
  /\ \A r \in DOMAIN records : DOMAIN records[r] = Fields
  /\ \A r, q \in DOMAIN records :
       records[r].point = records[q].point /\ records[r].mode = records[q].mode => r = q

(* A run under way has one caller.                                         *)
Driven ==
  /\ DOMAIN step = Callers /\ stage \in [Callers -> Nat] /\ DOMAIN job = Callers
  /\ \A c \in Callers : step[c] # "idle" => job[c] \in DOMAIN records /\ stage[c] # 0
  /\ \A c \in Callers : step[c] = "created" => stage[c] = 1
  /\ \A c, d \in Callers : step[c] # "idle" /\ step[d] # "idle" /\ job[c] = job[d] => c = d

(* A run was executed at most once, in paper mode, and its caller is past  *)
(* that stage.                                                             *)
Past(c) ==
  \E k \in DOMAIN Order :
    /\ Order[k] = "EXECUTION"
    /\ stage[c] > k \/ (stage[c] = k /\ step[c] \in {"completed", "failing", "report"})
Executions ==
  /\ executed \in Seq(Range(executed))
  /\ \A r \in Range(executed) : r \in DOMAIN records /\ records[r].mode = "paper"
  /\ \A i, j \in DOMAIN executed : executed[i] = executed[j] => i = j
  /\ \A c \in Callers : step[c] # "idle" /\ job[c] \in Range(executed) => Past(c)
  /\ \A c \in Callers : step[c] = "handler" => stage[c] \in DOMAIN Order /\ ~ModeRefused(c)

AutomationInv == Keys /\ Driven /\ Executions

(* The runs are those of before, with the same keys.                       *)
SameKeys ==
  /\ records' \in Seq(Range(records')) /\ DOMAIN records' = DOMAIN records
  /\ \A r \in DOMAIN records :
       /\ DOMAIN records'[r] = Fields
       /\ records'[r].point = records[r].point /\ records'[r].mode = records[r].mode

(* A step of one caller that leaves the keys alone and goes forward.       *)
LEMMA CallerStep ==
  ASSUME AutomationInv, NEW c \in Callers, step[c] # "idle",
         UNCHANGED <<job, executed>>,
         SameKeys,
         NEW s, s # "created", NEW n \in Nat \ {0},
         step' = [step EXCEPT ![c] = s], stage' = [stage EXCEPT ![c] = n],
         n > stage[c] \/ (n = stage[c] /\ (\/ s \in {"completed", "failing", "report"}
                                               \/ step[c] \notin {"completed", "failing", "report"})),
         s = "handler" => n \in DOMAIN Order /\ (Order[n] = "EXECUTION" => records[job[c]].mode = "paper")
  PROVE  AutomationInv'
<1> USE DEF AutomationInv
<1>1. Keys'
  BY DEF Keys, SameKeys
<1>2. /\ DOMAIN step' = Callers /\ stage' \in [Callers -> Nat] /\ step'[c] = s /\ stage'[c] = n
      /\ \A d \in Callers \ {c} : step'[d] = step[d] /\ stage'[d] = stage[d]
  BY DEF Driven
<1>3. Driven'
  BY <1>2 DEF Driven, SameKeys
<1>4. ASSUME NEW d \in Callers, step'[d] # "idle", job'[d] \in Range(executed') PROVE Past(d)'
  <2>1. CASE d = c
    <3>1. Past(c) /\ stage[c] \in Nat
      BY <1>4, <2>1 DEF Executions, Driven
    <3>2. PICK k \in DOMAIN Order :
            /\ Order[k] = "EXECUTION"
            /\ stage[c] > k \/ (stage[c] = k /\ step[c] \in {"completed", "failing", "report"})
      BY <3>1 DEF Past
    <3>3. k \in Nat
      BY OrderAssumption
    <3> QED
      BY <1>2, <2>1, <3>1, <3>2, <3>3 DEF Past
  <2>2. CASE d # c
    BY <1>2, <1>4, <2>2 DEF Executions, Past
  <2> QED
    BY <2>1, <2>2
<1>5. ASSUME NEW d \in Callers, step'[d] = "handler"
      PROVE  stage'[d] \in DOMAIN Order /\ ~ModeRefused(d)'
  <2>1. job[d] \in DOMAIN records
    BY <1>2, <1>5 DEF Driven
  <2> QED
    BY <1>2, <1>5, <2>1 DEF Executions, ModeRefused, Here, SameKeys
<1>6. Executions'
  BY <1>4, <1>5 DEF Executions, SameKeys
<1> QED
  BY <1>1, <1>3, <1>6
(* What is stored of a run under way is its status and its events.         *)
LEMMA RecordKept ==
  ASSUME Keys, NEW j \in DOMAIN records, NEW v,
         \/ records' = [records EXCEPT ![j].status = v]
         \/ records' = [records EXCEPT ![j].events = v]
  PROVE  SameKeys
<1>1. PICK n \in Nat : DOMAIN records = 1..n
  BY DEF Keys
<1>2. PICK record : records' = [records EXCEPT ![j] = record]
        /\ DOMAIN record = Fields
        /\ record.point = records[j].point /\ record.mode = records[j].mode
  <2>1. CASE records' = [records EXCEPT ![j].status = v]
    <3> DEFINE record == [records[j] EXCEPT !.status = v]
    <3>1. /\ DOMAIN record = Fields
          /\ record.point = records[j].point /\ record.mode = records[j].mode
      BY DEF Keys, Fields
    <3> QED
      BY <2>1, <3>1
  <2>2. CASE records' = [records EXCEPT ![j].events = v]
    <3> DEFINE record == [records[j] EXCEPT !.events = v]
    <3>1. /\ DOMAIN record = Fields
          /\ record.point = records[j].point /\ record.mode = records[j].mode
      BY DEF Keys, Fields
    <3> QED
      BY <2>2, <3>1
  <2> QED
    BY <2>1, <2>2
<1>3. records' \in [1..n -> Range(records')]
  BY <1>1, <1>2 DEF Range
<1>4. records' \in Seq(Range(records'))
  BY <1>3
<1> QED
  BY <1>2, <1>4 DEF Keys, SameKeys

LEMMA Stored ==
  ASSUME Keys, NEW c, job[c] \in DOMAIN records,
         \/ \E s : WithStatus(c, s)
         \/ \E e : records' = [records EXCEPT ![job[c]].events = Append(@, e)]
         \/ \E s, type, next, n : Emit(c, s, type, next, n)
  PROVE  SameKeys
<1>1. ASSUME NEW s, WithStatus(c, s) PROVE SameKeys
  BY <1>1, RecordKept DEF WithStatus
<1>2. ASSUME NEW e, records' = [records EXCEPT ![job[c]].events = Append(@, e)] PROVE SameKeys
  <2>1. records' = [records EXCEPT ![job[c]].events = Append(records[job[c]].events, e)]
    BY <1>2
  <2> QED
    BY <2>1, RecordKept
<1> QED
  BY <1>1, <1>2 DEF Emit

LEMMA CreateStep ==
  ASSUME AutomationInv, NEW c \in Callers, NEW p \in Points, NEW m \in Modes, CreateRun(c, p, m)
  PROVE  AutomationInv'
<1> USE DEF AutomationInv
<1> DEFINE n == Len(records)
           run == [point |-> p, mode |-> m, status |-> "CREATED", events |-> <<>>]
<1>1. /\ n \in Nat /\ DOMAIN records = 1..n /\ DOMAIN records' = 1..(n + 1) /\ Len(records') = n + 1
      /\ records' \in Seq(Range(records')) /\ records'[n + 1] = run
      /\ \A r \in 1..n : records'[r] = records[r]
  BY Appended DEF CreateRun, Keys
<1>2. /\ step'[c] = "created" /\ stage'[c] = 1 /\ job'[c] = n + 1 /\ executed' = executed
      /\ DOMAIN step' = Callers /\ stage' \in [Callers -> Nat] /\ DOMAIN job' = Callers
      /\ \A d \in Callers \ {c} : step'[d] = step[d] /\ stage'[d] = stage[d] /\ job'[d] = job[d]
  BY <1>1 DEF CreateRun, Driven
<1>3. Keys'
  <2>1. DOMAIN run = Fields /\ run.point = p /\ run.mode = m
    BY DEF Fields
  <2>2. \A r \in 1..n : records[r].point # p \/ records[r].mode # m
    BY <1>1 DEF CreateRun, Taken
  <2> HIDE DEF run
  <2>3. \A r \in DOMAIN records' : r \in 1..n \/ r = n + 1
    BY <1>1
  <2>4. \A r \in DOMAIN records' : DOMAIN records'[r] = Fields
    BY <1>1, <2>1, <2>3 DEF Keys
  <2>5. ASSUME NEW r \in DOMAIN records', NEW q \in DOMAIN records',
               records'[r].point = records'[q].point, records'[r].mode = records'[q].mode
        PROVE  r = q
    BY <1>1, <2>1, <2>2, <2>3, <2>5 DEF Keys
  <2> QED
    BY <1>1, <2>4, <2>5 DEF Keys
<1>4. Driven'
  <2>1. \A d \in Callers : step'[d] # "idle" => job'[d] \in DOMAIN records' /\ stage'[d] # 0
    BY <1>1, <1>2 DEF Driven
  <2>2. \A d \in Callers : step'[d] = "created" => stage'[d] = 1
    BY <1>2 DEF Driven
  <2>3. ASSUME NEW d \in Callers, NEW e \in Callers,
               step'[d] # "idle", step'[e] # "idle", job'[d] = job'[e]
        PROVE  d = e
    <3>1. \A q \in Callers \ {c} : step[q] # "idle" => job[q] # n + 1
      BY <1>1 DEF Driven
    <3> QED
      BY <1>2, <2>3, <3>1 DEF Driven
  <2> QED
    BY <1>2, <2>1, <2>2, <2>3 DEF Driven
<1>5. Executions'
  <2>1. \A r \in Range(executed) : r \in 1..n
    BY <1>1 DEF Executions
  <2>2. \A d \in Callers \ {c} : Past(d) => Past(d)'
    BY <1>2 DEF Past
  <2>3. \A d \in Callers \ {c} : step[d] = "handler" => ModeRefused(d)' = ModeRefused(d)
    BY <1>1, <1>2 DEF ModeRefused, Here, Driven
  <2>4. \A r \in Range(executed) : r \in DOMAIN records' /\ records'[r].mode = "paper"
    BY <1>1, <2>1 DEF Executions
  <2>5. ASSUME NEW d \in Callers, step'[d] # "idle", job'[d] \in Range(executed) PROVE Past(d)'
    <3>1. d # c
      BY <1>1, <1>2, <2>1, <2>5
    <3> QED
      BY <1>2, <2>2, <2>5, <3>1 DEF Executions
  <2>6. \A d \in Callers : step'[d] = "handler" => stage'[d] \in DOMAIN Order /\ ~ModeRefused(d)'
    BY <1>2, <2>3 DEF Executions
  <2> QED
    BY <1>2, <2>4, <2>5, <2>6 DEF Executions
<1> QED
  BY <1>3, <1>4, <1>5
(* The handler of EXECUTION is called for a run whose caller is not past   *)
(* that stage, so never before.                                            *)
LEMMA HandleStep ==
  ASSUME AutomationInv, NEW c \in Callers, Handle(c) PROVE AutomationInv'
<1> USE DEF AutomationInv
<1>1. /\ step[c] = "handler" /\ stage[c] \in DOMAIN Order /\ job[c] \in DOMAIN records
      /\ UNCHANGED <<records, job, stage>>
      /\ DOMAIN step' = Callers /\ step'[c] \in {"completed", "failing"}
      /\ \A d \in Callers \ {c} : step'[d] = step[d]
  <2>1. UNCHANGED <<records, job>> /\ stage' = [stage EXCEPT ![c] = stage[c]]
    BY DEF Handle, To
  <2>2. stage' = stage
    BY <2>1 DEF Driven
  <2> QED
    BY <2>1, <2>2 DEF Handle, To, Driven, Executions
<1>2. Keys' /\ Driven'
  BY <1>1 DEF Keys, Driven
<1>3. \A d \in Callers : Past(d) => Past(d)'
  BY <1>1 DEF Past
<1>4. \A d \in Callers : step'[d] = "handler" => stage'[d] \in DOMAIN Order /\ ~ModeRefused(d)'
  BY <1>1 DEF Executions, ModeRefused, Here
<1>5. CASE Here(c) # "EXECUTION"
  BY <1>1, <1>2, <1>3, <1>4, <1>5 DEF Handle, Executions
<1>6. CASE Here(c) = "EXECUTION"
  <2>1. job[c] \notin Range(executed)
    <3>1. ASSUME job[c] \in Range(executed) PROVE FALSE
      <4>1. PICK k \in DOMAIN Order : Order[k] = "EXECUTION" /\ stage[c] > k
        BY <1>1, <3>1 DEF Executions, Past
      <4>2. k = stage[c] /\ stage[c] \in Nat
        BY <1>1, <1>6, <4>1, OrderAssumption DEF Here, Driven
      <4> QED
        BY <4>1, <4>2
    <3> QED
      BY <3>1
  <2>2. executed' = Append(executed, job[c]) /\ records[job[c]].mode = "paper"
    BY <1>1, <1>6 DEF Handle, Executions, ModeRefused
  <2>3. /\ executed' \in Seq(Range(executed')) /\ Range(executed') = Range(executed) \cup {job[c]}
        /\ \A i, j \in DOMAIN executed' : executed'[i] = executed'[j] => i = j
    <3>1. /\ \A i \in DOMAIN executed : executed[i] \in Range(executed)
          /\ executed \in Seq(Range(executed))
      BY DEF Executions, Range
    <3> QED
      BY <2>1, <2>2, <3>1, Appended DEF Executions
  <2>4. Past(c)'
    BY <1>1, <1>6 DEF Past, Here
  <2>5. \A d \in Callers : step'[d] # "idle" /\ job'[d] \in Range(executed') => Past(d)'
    BY <1>1, <1>3, <2>3, <2>4 DEF Executions, Driven
  <2> QED
    BY <1>1, <1>2, <1>4, <2>2, <2>3, <2>5 DEF Executions
<1> QED
  BY <1>5, <1>6

LEMMA ReturnStep ==
  ASSUME AutomationInv, NEW c \in Callers, Return(c), UNCHANGED executed,
         SameKeys
  PROVE  AutomationInv'
<1> USE DEF AutomationInv
<1>1. /\ DOMAIN step' = Callers /\ stage' \in [Callers -> Nat] /\ DOMAIN job' = Callers
      /\ step'[c] = "idle"
      /\ \A d \in Callers \ {c} : step'[d] = step[d] /\ stage'[d] = stage[d] /\ job'[d] = job[d]
  BY DEF Return, Driven
<1>2. Keys' /\ Driven'
  <2>1. Keys'
    BY DEF Keys, SameKeys
  <2>2. \A d \in Callers : step'[d] # "idle" => d # c
    BY <1>1
  <2>3. \A d \in Callers : step'[d] # "idle" => job'[d] \in DOMAIN records' /\ stage'[d] # 0
    BY <1>1, <2>2 DEF Driven, SameKeys
  <2>4. \A d \in Callers : step'[d] = "created" => stage'[d] = 1
    BY <1>1, <2>2 DEF Driven
  <2>5. \A d, e \in Callers : step'[d] # "idle" /\ step'[e] # "idle" /\ job'[d] = job'[e] => d = e
    BY <1>1, <2>2 DEF Driven
  <2> QED
    BY <1>1, <2>1, <2>3, <2>4, <2>5 DEF Driven
<1>3. \A d \in Callers \ {c} : Past(d) => Past(d)'
  BY <1>1 DEF Past
<1>4. \A d \in Callers : step'[d] = "handler" => stage'[d] \in DOMAIN Order /\ ~ModeRefused(d)'
  <2>1. ASSUME NEW d \in Callers, step'[d] = "handler"
        PROVE  stage'[d] \in DOMAIN Order /\ ~ModeRefused(d)'
    <3>1. /\ d # c /\ step[d] = "handler" /\ stage'[d] = stage[d] /\ job'[d] = job[d]
          /\ job[d] \in DOMAIN records
      BY <1>1, <2>1 DEF Driven
    <3> QED
      BY <3>1 DEF Executions, ModeRefused, Here, SameKeys
  <2> QED
    BY <2>1
<1> QED
  BY <1>1, <1>2, <1>3, <1>4 DEF Executions, SameKeys

LEMMA AutomationStep == ASSUME AutomationInv, AutomationNext PROVE AutomationInv'
<1> USE DEF AutomationInv
<1>1. \A c \in Callers : step[c] # "idle" => job[c] \in DOMAIN records /\ stage[c] \in Nat \ {0}
  BY DEF Driven
<1>2. UNCHANGED records => SameKeys
  BY DEF Keys, SameKeys
<1>3. ASSUME NEW c \in Callers, Running(c) PROVE AutomationInv'
  <2>1. step[c] = "created" /\ stage[c] = 1 /\ SameKeys
    BY <1>1, <1>3, Stored DEF Running, Driven
  <2>2. /\ step' = [step EXCEPT ![c] = "stage"] /\ stage' = [stage EXCEPT ![c] = stage[c]]
        /\ stage[c] \in Nat \ {0} /\ UNCHANGED <<job, executed>>
    BY <1>3, <2>1 DEF Running, To
  <2> QED
    BY <2>1, <2>2, CallerStep
<1>4. ASSUME NEW c \in Callers, Skip(c) \/ StageDone(c) PROVE AutomationInv'
  <2>1. stage[c] + 1 \in Nat \ {0} /\ stage[c] + 1 > stage[c] /\ SameKeys
    BY <1>1, <1>4, Stored DEF Skip, StageDone
  <2>2. \E s \in {"stage", "failing"} :
          step' = [step EXCEPT ![c] = s] /\ stage' = [stage EXCEPT ![c] = stage[c] + 1]
    BY <1>4 DEF Skip, StageDone, Emit, To
  <2> QED
    BY <1>4, <2>1, <2>2, CallerStep DEF Skip, StageDone, Emit, To
<1>5. ASSUME NEW c \in Callers, Refuse(c) PROVE AutomationInv'
  BY <1>1, <1>2, <1>5, CallerStep DEF Refuse, To
<1>6. ASSUME NEW c \in Callers, Begin(c) PROVE AutomationInv'
  <2>1. stage[c] \in DOMAIN Order /\ (Order[stage[c]] = "EXECUTION" => records[job[c]].mode = "paper")
    <3>1. stage[c] \in 1..Len(Order)
      <4>1. stage[c] \in Nat /\ stage[c] # 0
        BY <1>1, <1>6 DEF Begin, Driven
      <4> QED
        BY <1>6, <4>1, OrderAssumption DEF Begin
    <3> QED
      BY <1>6, <3>1, OrderAssumption DEF Begin, ModeRefused, Here
  <2>2. SameKeys
    BY <1>1, <1>6, Stored DEF Begin
  <2>3. PICK s \in {"handler", "failing"} :
          step' = [step EXCEPT ![c] = s] /\ stage' = [stage EXCEPT ![c] = stage[c]]
    BY <1>6 DEF Begin, Emit, To
  <2>4. step[c] = "stage" /\ stage[c] \in Nat \ {0} /\ UNCHANGED <<job, executed>>
    BY <1>1, <1>6 DEF Begin, Emit, To
  <2>5. s # "created" /\ step[c] # "idle" /\ step[c] \notin {"completed", "failing", "report"}
    BY <2>4
  <2>6. /\ stage[c] > stage[c] \/ (stage[c] = stage[c] /\ (\/ s \in {"completed", "failing", "report"}
                                               \/ step[c] \notin {"completed", "failing", "report"}))
        /\ s = "handler" => /\ stage[c] \in DOMAIN Order
                            /\ Order[stage[c]] = "EXECUTION" => records[job[c]].mode = "paper"
    BY <2>1, <2>5
  <2> HIDE DEF AutomationInv
  <2>7. AutomationInv
    OBVIOUS
  <2> QED
    BY <2>2, <2>3, <2>4, <2>5, <2>6, <2>7, CallerStep
<1>7. ASSUME NEW c \in Callers, Fail(c) PROVE AutomationInv'
  <2>1. SameKeys
    BY <1>1, <1>7, Stored DEF Fail
  <2> QED
    BY <1>1, <1>7, <2>1, CallerStep DEF Fail, To
<1>8. ASSUME NEW c \in Callers, Succeed(c) \/ Report(c) PROVE AutomationInv'
  <2>1. SameKeys
    BY <1>1, <1>8, Stored DEF Succeed, Report
  <2> QED
    BY <1>8, <2>1, ReturnStep DEF Succeed, Report
<1> QED
  BY <1>3, <1>4, <1>5, <1>6, <1>7, <1>8, CreateStep, HandleStep DEF AutomationNext

(* Whoever asks again, in whatever mode, at the same time or after a       *)
(* failure: a decision point is executed at most once, and in paper mode.  *)
THEOREM AlwaysExecutedOnce == Spec => []ExecutedOnce
<1>1. Init => AutomationInv
  BY EmptyListed DEF Init, AutomationInit, AutomationInv, Keys, Driven, Executions
<1>2. ASSUME AutomationInv, [Next]_vars PROVE AutomationInv'
  <2>1. ASSUME UNCHANGED automationVars PROVE AutomationInv'
    BY <1>2, <2>1 DEF AutomationInv, automationVars, Keys, Driven, Executions, Past, ModeRefused, Here
  <2> QED
    BY <1>2, <2>1, AutomationStep DEF Next, vars
<1>3. ASSUME AutomationInv PROVE ExecutedOnce
  <2>1. ASSUME NEW i \in DOMAIN executed
        PROVE  executed[i] \in DOMAIN records /\ records[executed[i]].mode = "paper"
    BY <1>3 DEF AutomationInv, Executions, Range
  <2>2. ASSUME NEW i \in DOMAIN executed, NEW j \in DOMAIN executed, i # j
        PROVE  records[executed[i]].point # records[executed[j]].point
    <3>1. executed[i] # executed[j]
      BY <1>3, <2>2 DEF AutomationInv, Executions
    <3>2. \A r, q \in DOMAIN records :
            records[r].point = records[q].point /\ records[r].mode = records[q].mode => r = q
      BY <1>3 DEF AutomationInv, Keys
    <3>3. /\ executed[i] \in DOMAIN records /\ executed[j] \in DOMAIN records
          /\ records[executed[i]].mode = records[executed[j]].mode
      BY <2>1, <2>2
    <3> QED
      BY <3>1, <3>2, <3>3
  <2> QED
    BY <2>1, <2>2 DEF ExecutedOnce
<1> QED
  BY <1>1, <1>2, <1>3, PTL DEF Spec
-----------------------------------------------------------------------------
(* The automation: what the stored events of a run tell                    *)

(* What a run has told when it has gone through the first stages.          *)
Events == Range(Order) \X {"STAGE_STARTED", "STAGE_COMPLETED", "STAGE_SKIPPED"}
Stages == Len(Order)
Traces(t, n) ==
  /\ t \in [0..n -> Seq(Events)] /\ t[0] = <<>>
  /\ \A i \in 1..n : t[i] = t[i - 1] \o Trace(Order[i])
Through == CHOOSE t : Traces(t, Stages)

LEMMA TraceType ==
  /\ Stages \in Nat /\ DOMAIN Order = 1..Stages
  /\ \A i \in 1..Stages : Order[i] \in Range(Order) /\ Trace(Order[i]) \in Seq(Events)
<1>1. Stages \in Nat /\ DOMAIN Order = 1..Stages
  BY OrderAssumption DEF Stages
<1>2. ASSUME NEW i \in 1..Stages PROVE Order[i] \in Range(Order)
  BY <1>1, OrderAssumption DEF Range
<1>3. ASSUME NEW s \in Range(Order) PROVE Trace(s) \in Seq(Events)
  <2>1. /\ <<s, "STAGE_STARTED">> \in Events /\ <<s, "STAGE_COMPLETED">> \in Events
        /\ <<s, "STAGE_SKIPPED">> \in Events
    BY DEF Events
  <2> HIDE DEF Events
  <2> QED
    BY <2>1 DEF Trace
<1> QED
  BY <1>1, <1>2, <1>3

LEMMA ThroughTraces == Traces(Through, Stages)
<1> USE TraceType
<1> DEFINE Q == {n \in 0..Stages : \E t : Traces(t, n)}
<1>1. 0 \in Q
  <2> DEFINE t == [i \in 0..0 |-> <<>>]
  <2>1. t \in [0..0 -> Seq(Events)] /\ t[0] = <<>>
    OBVIOUS
  <2>2. Traces(t, 0)
    BY <2>1 DEF Traces
  <2> QED
    BY <2>2
<1>2. ASSUME NEW n \in 0..(Stages - 1), n \in Q PROVE n + 1 \in Q
  <2>1. PICK t : Traces(t, n)
    BY <1>2
  <2> DEFINE u == [i \in 0..(n + 1) |-> IF i = n + 1 THEN t[n] \o Trace(Order[n + 1]) ELSE t[i]]
  <2>2. n \in Nat /\ n + 1 \in 1..Stages /\ Trace(Order[n + 1]) \in Seq(Events)
    OBVIOUS
  <2>3. t[n] \in Seq(Events) /\ t[n] \o Trace(Order[n + 1]) \in Seq(Events)
    BY <2>1, <2>2 DEF Traces
  <2>4. u \in [0..(n + 1) -> Seq(Events)] /\ u[0] = <<>>
    BY <2>1, <2>2, <2>3 DEF Traces
  <2>5. u[n + 1] = t[n] \o Trace(Order[n + 1]) /\ \A i \in 0..n : u[i] = t[i]
    <3>1. n + 1 \in 0..(n + 1) /\ \A i \in 0..n : i \in 0..(n + 1) /\ i # n + 1
      BY <2>2
    <3> QED
      BY <3>1
  <2> HIDE DEF u
  <2>6. ASSUME NEW i \in 1..(n + 1) PROVE u[i] = u[i - 1] \o Trace(Order[i])
    <3>1. CASE i = n + 1
      <4>1. i - 1 = n /\ n \in 0..n
        BY <2>2, <3>1
      <4> QED
        BY <2>5, <3>1, <4>1
    <3>2. CASE i \in 1..n
      <4>1. i \in 0..n /\ i - 1 \in 0..n
        BY <3>2
      <4>2. t[i] = t[i - 1] \o Trace(Order[i])
        BY <2>1, <3>2 DEF Traces
      <4> QED
        BY <2>5, <4>1, <4>2
    <3>3. i = n + 1 \/ i \in 1..n
      BY <2>2
    <3> QED
      BY <3>1, <3>2, <3>3
  <2>7. Traces(u, n + 1)
    BY <2>4, <2>6 DEF Traces
  <2> QED
    BY <2>2, <2>7
<1>3. Stages \in Q
  <2> HIDE DEF Q
  <2>1. 0..Stages \subseteq Q
    BY <1>1, <1>2, Counted
  <2> QED
    BY <2>1
<1>4. \E t : Traces(t, Stages)
  BY <1>3
<1> QED
  BY <1>4 DEF Through

LEMMA ThroughAll == Through[Stages] = FullTrace
<1> DEFINE seqs == [i \in DOMAIN Order |-> Trace(Order[i])]
           g == [i \in 1..Stages |-> Through[i]]
<1> USE TraceType
<1>1. seqs \in Seq(Seq(Events)) /\ Len(seqs) = Stages
  <2>1. seqs \in [1..Stages -> Seq(Events)]
    OBVIOUS
  <2> QED
    BY <2>1
<1>2. CASE Stages = 0
  <2>1. seqs = <<>>
    BY <1>1, <1>2
  <2>2. Through[0] = <<>>
    BY ThroughTraces DEF Traces
  <2> QED
    BY <1>1, <1>2, <2>1, <2>2 DEF FullTrace, FlattenSeq
<1>3. CASE Stages # 0
  <2>1. ASSUME NEW i \in 1..Stages
        PROVE  g[i] = IF i = 1 THEN seqs[i] ELSE g[i - 1] \o seqs[i]
    <3>1. Through[i] = Through[i - 1] \o seqs[i] /\ Through[0] = <<>>
      BY ThroughTraces DEF Traces
    <3>2. seqs[i] \in Seq(Events)
      OBVIOUS
    <3>3. <<>> \o seqs[i] = seqs[i]
      BY <3>2
    <3>4. i # 1 => i - 1 \in 1..Stages
      OBVIOUS
    <3>5. i = 1 => i - 1 = 0
      OBVIOUS
    <3>6. g[i] = Through[i] /\ (i # 1 => g[i - 1] = Through[i - 1])
      BY <3>4
    <3> HIDE DEF seqs, g
    <3> QED
      BY <3>1, <3>3, <3>5, <3>6
  <2>2. g = [i \in 1..Len(seqs) |-> IF i = 1 THEN seqs[i] ELSE g[i - 1] \o seqs[i]]
    <3> HIDE DEF seqs
    <3>1. g = [i \in 1..Stages |-> g[i]]
      OBVIOUS
    <3> QED
      BY <1>1, <2>1, <3>1
  <2>3. g[Stages] = Through[Stages]
    BY <1>3
  <2>4. Len(seqs) \in Nat \ {0}
    BY <1>1, <1>3
  <2> HIDE DEF g, seqs
  <2>5. FlattenSeq(seqs) = g[Len(seqs)]
    BY <2>2, <2>4, Flattened
  <2> QED
    BY <1>1, <2>3, <2>5 DEF FullTrace, seqs
<1> QED
  BY <1>2, <1>3

(* What a run has told is a beginning of all there is to tell.             *)
Begins(e, t) == Len(e) <= Len(t) /\ \A i \in 1..Len(e) : e[i] = t[i]
Begun(e)     == e \in Seq(Events) /\ Begins(e, FullTrace)

LEMMA BegunAll ==
  /\ FullTrace \in Seq(Events)
  /\ \A n \in 0..Stages : Begun(Through[n])
<1> USE TraceType
<1> DEFINE Q == {m \in 0..Stages : \A k \in 0..m : Begins(Through[k], Through[m])}
<1>1. \A n \in 0..Stages : Through[n] \in Seq(Events)
  BY ThroughTraces DEF Traces
<1>2. 0 \in Q
  BY <1>1 DEF Begins
<1>3. ASSUME NEW m \in 0..(Stages - 1), m \in Q PROVE m + 1 \in Q
  <2>1. m + 1 \in 1..Stages /\ (m + 1) - 1 = m
    OBVIOUS
  <2>2. Through[m + 1] = Through[m] \o Trace(Order[m + 1])
    BY <2>1, ThroughTraces DEF Traces
  <2>3. Through[m] \in Seq(Events) /\ Trace(Order[m + 1]) \in Seq(Events) /\ Through[m + 1] \in Seq(Events)
    BY <1>1, <2>1
  <2>4. Begins(Through[m], Through[m + 1])
    <3>1. ASSUME NEW a \in Seq(Events), NEW b \in Seq(Events) PROVE Begins(a, a \o b)
      BY DEF Begins
    <3> QED
      BY <2>2, <2>3, <3>1
  <2>5. ASSUME NEW k \in 0..m PROVE Begins(Through[k], Through[m + 1])
    <3>1. Begins(Through[k], Through[m]) /\ Through[k] \in Seq(Events)
      BY <1>1, <1>3
    <3> QED
      BY <2>3, <2>4, <3>1 DEF Begins
  <2>6. Begins(Through[m + 1], Through[m + 1])
    BY <2>3 DEF Begins
  <2> QED
    BY <2>1, <2>5, <2>6
<1>4. 0..Stages \subseteq Q
  <2> HIDE DEF Q
  <2> QED
    BY <1>2, <1>3, Counted
<1>5. \A n \in 0..Stages : Begins(Through[n], Through[Stages])
  BY <1>4
<1> QED
  BY <1>1, <1>5, ThroughAll DEF Begun

(* What one more stage adds to it.                                         *)
LEMMA OneMore ==
  ASSUME NEW n \in 1..Stages
  PROVE  LET s == Order[n]  e == Through[n - 1]
             started == Append(e, <<s, "STAGE_STARTED">>)
         IN IF s \in Handled
            THEN Begun(started) /\ Through[n] = Append(started, <<s, "STAGE_COMPLETED">>)
            ELSE Through[n] = Append(e, <<s, "STAGE_SKIPPED">>)
<1> DEFINE s == Order[n]
           e == Through[n - 1]
           a == <<s, "STAGE_STARTED">>
           b == <<s, "STAGE_COMPLETED">>
           k == <<s, "STAGE_SKIPPED">>
<1>1. n - 1 \in 0..Stages /\ n \in 0..Stages /\ s \in Range(Order)
  BY TraceType
<1>2. a \in Events /\ b \in Events /\ k \in Events
  BY <1>1 DEF Events
<1>3. e \in Seq(Events) /\ Through[n] = e \o Trace(s) /\ Begun(Through[n])
  BY <1>1, ThroughTraces, BegunAll DEF Traces
<1> HIDE DEF e, a, b, k, s
<1>4. s \in Handled => Trace(s) = <<a, b>>
  BY DEF Trace, a, b
<1>5. s \notin Handled => Trace(s) = <<k>>
  BY DEF Trace, k
<1>6. e \o <<a, b>> = Append(Append(e, a), b) /\ e \o <<k>> = Append(e, k)
  BY <1>2, <1>3
<1>7. ASSUME Through[n] = Append(Append(e, a), b) PROVE Begun(Append(e, a))
  <2> DEFINE t == Append(e, a)
  <2>1. t \in Seq(Events) /\ Begins(t, Append(t, b)) /\ Append(t, b) \in Seq(Events)
    BY <1>2, <1>3 DEF Begins
  <2>2. Begins(Append(t, b), FullTrace)
    BY <1>3, <1>7 DEF Begun
  <2> HIDE DEF t
  <2>3. FullTrace \in Seq(Events)
    BY BegunAll
  <2>4. Begins(t, FullTrace)
    BY <2>1, <2>2, <2>3 DEF Begins
  <2> QED
    BY <2>1, <2>4 DEF Begun, t
<1> QED
  BY <1>3, <1>4, <1>5, <1>6, <1>7 DEF e, a, b, k, s

(* The callers' runs have told what they went through, and the others are  *)
(* closed.                                                                 *)
Telling(c) ==
  LET n == stage[c]  e == records[job[c]].events
  IN /\ step[c] \in {"created", "stage", "handler", "completed", "failing", "report"}
     /\ step[c] = "created" => e = <<>>
     /\ step[c] = "stage" => n \in 1..(Stages + 1) /\ e = Through[n - 1]
     /\ step[c] \in {"handler", "completed"} =>
          /\ n \in 1..Stages /\ Here(c) \in Handled
          /\ e = Append(Through[n - 1], <<Here(c), "STAGE_STARTED">>)
     /\ step[c] \in {"failing", "report"} => Begun(e)
     /\ step[c] = "report" => records[job[c]].status = "FAILED"
ToldToTheEnd(e) == \E p : Begun(p) /\ e = Append(p, <<"MONITORING", "RUN_FAILED">>)
Closed(r) ==
  \/ records[r].status = "SUCCEEDED" /\ records[r].events = FullTrace
  \/ records[r].status = "FAILED" /\ ToldToTheEnd(records[r].events)
ToldInv ==
  /\ \A c \in Callers : step[c] # "idle" => Telling(c)
  /\ \A r \in DOMAIN records : (\E c \in Callers : step[c] # "idle" /\ job[c] = r) \/ Closed(r)

(* A caller under way tells its own run, and only that.                    *)
LEMMA TellingStep ==
  ASSUME AutomationInv, ToldInv, NEW c \in Callers, step[c] # "idle", UNCHANGED job,
         DOMAIN records' = DOMAIN records, step'[c] # "idle", Telling(c)',
         \A d \in Callers \ {c} : step'[d] = step[d] /\ stage'[d] = stage[d],
         \A r \in DOMAIN records : r # job[c] => records'[r] = records[r]
  PROVE  ToldInv'
<1>1. ASSUME NEW d \in Callers, step'[d] # "idle" PROVE Telling(d)'
  <2>1. CASE d = c
    BY <2>1
  <2>2. CASE d # c
    <3>1. step[d] # "idle" /\ job[d] \in DOMAIN records /\ job[d] # job[c]
      BY <1>1, <2>2 DEF AutomationInv, Driven
    <3>2. Telling(d) /\ records'[job[d]] = records[job[d]] /\ step'[d] = step[d] /\ stage'[d] = stage[d]
      BY <2>2, <3>1 DEF ToldInv
    <3> QED
      BY <3>2 DEF Telling, Here
  <2> QED
    BY <2>1, <2>2
<1>2. ASSUME NEW r \in DOMAIN records
      PROVE  (\E d \in Callers : step'[d] # "idle" /\ job'[d] = r) \/ Closed(r)'
  <2>1. CASE r = job[c]
    BY <2>1
  <2>2. CASE r # job[c]
    <3>1. records'[r] = records[r]
      BY <2>2
    <3>2. Closed(r) => Closed(r)'
      BY <3>1 DEF Closed
    <3>3. \A d \in Callers : step[d] # "idle" /\ job[d] = r => step'[d] # "idle" /\ job'[d] = r
      BY <2>2
    <3> QED
      BY <3>2, <3>3 DEF ToldInv
  <2> QED
    BY <2>1, <2>2
<1> QED
  BY <1>1, <1>2 DEF ToldInv

(* A caller that returns leaves its run closed.                            *)
LEMMA ClosingStep ==
  ASSUME AutomationInv, ToldInv, NEW c \in Callers, step[c] # "idle", Return(c),
         DOMAIN records' = DOMAIN records, NEW run, run = job[c], Closed(run)',
         \A r \in DOMAIN records : r # run => records'[r] = records[r]
  PROVE  ToldInv'
<1>1. /\ step'[c] = "idle"
      /\ \A d \in Callers \ {c} : step'[d] = step[d] /\ stage'[d] = stage[d] /\ job'[d] = job[d]
  BY DEF Return, AutomationInv, Driven
<1>2. ASSUME NEW d \in Callers, step'[d] # "idle" PROVE Telling(d)'
  <2>1. d # c /\ step[d] # "idle"
    BY <1>1, <1>2
  <2>2. job[d] \in DOMAIN records /\ job[d] # job[c]
    BY <2>1 DEF AutomationInv, Driven
  <2>3. Telling(d) /\ records'[job[d]] = records[job[d]]
    BY <2>1, <2>2 DEF ToldInv
  <2>4. step'[d] = step[d] /\ stage'[d] = stage[d] /\ job'[d] = job[d]
    BY <1>1, <2>1
  <2> QED
    BY <2>3, <2>4 DEF Telling, Here
<1>3. ASSUME NEW r \in DOMAIN records
      PROVE  (\E d \in Callers : step'[d] # "idle" /\ job'[d] = r) \/ Closed(r)'
  <2>1. CASE r = run
    BY <2>1
  <2>2. CASE r # run
    <3>1. records'[r] = records[r]
      BY <2>2
    <3>2. Closed(r) => Closed(r)'
      BY <3>1 DEF Closed
    <3>3. \A d \in Callers : step[d] # "idle" /\ job[d] = r => step'[d] # "idle" /\ job'[d] = r
      BY <1>1, <2>2
    <3> QED
      BY <3>2, <3>3 DEF ToldInv
  <2> QED
    BY <2>1, <2>2
<1> QED
  BY <1>2, <1>3 DEF ToldInv

(* An event more, and what is stored otherwise.                            *)
LEMMA EventStored ==
  ASSUME AutomationInv, NEW c \in Callers, step[c] # "idle", NEW s, NEW type, NEW next, NEW n,
         Emit(c, s, type, next, n)
  PROVE  /\ DOMAIN records' = DOMAIN records /\ UNCHANGED job
         /\ records'[job[c]].events = Append(records[job[c]].events, <<s, type>>)
         /\ \A r \in DOMAIN records : r # job[c] => records'[r] = records[r]
         /\ step'[c] \in {next, "failing"} /\ stage'[c] = n
         /\ \A d \in Callers \ {c} : step'[d] = step[d] /\ stage'[d] = stage[d]
<1>1. /\ DOMAIN records[job[c]] = Fields /\ job[c] \in DOMAIN records
      /\ DOMAIN step = Callers /\ DOMAIN stage = Callers
  BY DEF AutomationInv, Keys, Driven
<1>2. "events" \in Fields
  BY DEF Fields
<1>3. records' = [records EXCEPT ![job[c]].events = Append(@, <<s, type>>)]
  BY DEF Emit
<1>4. /\ DOMAIN records' = DOMAIN records
      /\ records'[job[c]].events = Append(records[job[c]].events, <<s, type>>)
      /\ \A r \in DOMAIN records : r # job[c] => records'[r] = records[r]
  BY <1>1, <1>2, <1>3
<1>5. UNCHANGED job /\ stage' = [stage EXCEPT ![c] = n]
      /\ \E x \in {next, "failing"} : step' = [step EXCEPT ![c] = x]
  BY DEF Emit, To
<1> QED
  BY <1>1, <1>4, <1>5

LEMMA StatusStored ==
  ASSUME AutomationInv, NEW c \in Callers, step[c] # "idle", NEW s, WithStatus(c, s)
  PROVE  /\ DOMAIN records' = DOMAIN records
         /\ records'[job[c]].events = records[job[c]].events
         /\ records'[job[c]].status = s
         /\ \A r \in DOMAIN records : r # job[c] => records'[r] = records[r]
<1>1. DOMAIN records[job[c]] = Fields /\ job[c] \in DOMAIN records
  BY DEF AutomationInv, Keys, Driven
<1>2. "events" \in Fields /\ "status" \in Fields /\ "events" # "status"
  BY DEF Fields
<1> QED
  BY <1>1, <1>2 DEF WithStatus

LEMMA Moved ==
  ASSUME AutomationInv, NEW c \in Callers, NEW s, NEW n, To(c, s, n)
  PROVE  /\ UNCHANGED job /\ step'[c] = s /\ stage'[c] = n
         /\ \A d \in Callers \ {c} : step'[d] = step[d] /\ stage'[d] = stage[d]
BY DEF To, AutomationInv, Driven

(* A caller that emits an event goes on, or fails, with what it then has   *)
(* told.                                                                   *)
LEMMA EmitTells ==
  ASSUME AutomationInv, ToldInv, NEW c \in Callers, step[c] # "idle", NEW s, NEW type, NEW next, NEW n,
         Emit(c, s, type, next, n), NEW e, e = Append(records[job[c]].events, <<s, type>>), Begun(e),
         \/ next = "stage" /\ n \in 1..(Stages + 1) /\ e = Through[n - 1]
         \/ /\ next = "handler" /\ n \in 1..Stages /\ Order[n] \in Handled
            /\ e = Append(Through[n - 1], <<Order[n], "STAGE_STARTED">>)
  PROVE  ToldInv'
<1>1. /\ DOMAIN records' = DOMAIN records /\ UNCHANGED job
      /\ records'[job[c]].events = Append(records[job[c]].events, <<s, type>>)
      /\ \A r \in DOMAIN records : r # job[c] => records'[r] = records[r]
      /\ step'[c] \in {next, "failing"} /\ stage'[c] = n
      /\ \A d \in Callers \ {c} : step'[d] = step[d] /\ stage'[d] = stage[d]
  BY EventStored
<1>2. step'[c] \in {next, "failing"} /\ stage'[c] = n
  BY <1>1
<1>3. records'[job'[c]].events = e
  BY <1>1
<1>4. CASE step'[c] = "failing"
  <2>1. Telling(c)'
    BY <1>3, <1>4 DEF Telling
  <2> QED
    BY <1>1, <1>2, <1>4, <2>1, TellingStep
<1>5. CASE step'[c] = "stage"
  <2>1. Telling(c)'
    BY <1>2, <1>3, <1>5 DEF Telling
  <2> QED
    BY <1>1, <1>2, <1>5, <2>1, TellingStep
<1>6. CASE step'[c] = "handler"
  <2>1. Telling(c)'
    BY <1>2, <1>3, <1>6 DEF Telling, Here
  <2> QED
    BY <1>1, <1>2, <1>6, <2>1, TellingStep
<1> QED
  BY <1>2, <1>4, <1>5, <1>6

LEMMA ToldCreate ==
  ASSUME AutomationInv, ToldInv, NEW c \in Callers, NEW p \in Points, NEW m \in Modes, CreateRun(c, p, m)
  PROVE  ToldInv'
<1> DEFINE n == Len(records)
           run == [point |-> p, mode |-> m, status |-> "CREATED", events |-> <<>>]
<1>1. /\ n \in Nat /\ DOMAIN records = 1..n /\ DOMAIN records' = 1..(n + 1) /\ Len(records') = n + 1
      /\ records'[n + 1] = run /\ run.events = <<>>
      /\ \A r \in 1..n : records'[r] = records[r]
  BY Appended DEF CreateRun, AutomationInv, Keys
<1>2. /\ step[c] = "idle" /\ step'[c] = "created" /\ job'[c] = n + 1
      /\ \A d \in Callers \ {c} : step'[d] = step[d] /\ stage'[d] = stage[d] /\ job'[d] = job[d]
  BY <1>1 DEF CreateRun, AutomationInv, Driven
<1> HIDE DEF n, run
<1>3. ASSUME NEW d \in Callers, step'[d] # "idle" PROVE Telling(d)'
  <2>1. CASE d = c
    BY <1>1, <1>2, <2>1 DEF Telling
  <2>2. CASE d # c
    <3>1. step[d] # "idle" /\ job[d] \in 1..n
      BY <1>1, <1>2, <1>3, <2>2 DEF AutomationInv, Driven
    <3>2. /\ Telling(d) /\ records'[job[d]] = records[job[d]]
          /\ step'[d] = step[d] /\ stage'[d] = stage[d] /\ job'[d] = job[d]
      BY <1>1, <1>2, <2>2, <3>1 DEF ToldInv
    <3> QED
      BY <3>2 DEF Telling, Here
  <2> QED
    BY <2>1, <2>2
<1>4. ASSUME NEW r \in DOMAIN records'
      PROVE  (\E d \in Callers : step'[d] # "idle" /\ job'[d] = r) \/ Closed(r)'
  <2>1. CASE r = n + 1
    BY <1>2, <2>1
  <2>2. CASE r \in 1..n
    <3>1. records'[r] = records[r]
      BY <1>1, <2>2
    <3>2. Closed(r) => Closed(r)'
      BY <3>1 DEF Closed
    <3>3. \A d \in Callers : step[d] # "idle" /\ job[d] = r => step'[d] # "idle" /\ job'[d] = r
      BY <1>2
    <3> QED
      BY <1>1, <2>2, <3>2, <3>3 DEF ToldInv
  <2>3. r = n + 1 \/ r \in 1..n
    BY <1>1
  <2> QED
    BY <2>1, <2>2, <2>3
<1> QED
  BY <1>3, <1>4 DEF ToldInv

LEMMA ToldStep == ASSUME AutomationInv, ToldInv, AutomationNext PROVE ToldInv'
<1>0. /\ Stages \in Nat /\ DOMAIN Order = 1..Stages /\ Len(Order) = Stages
      /\ \A c \in Callers : step[c] # "idle" => job[c] \in DOMAIN records
      /\ \A c \in Callers : step[c] # "idle" => Telling(c)
  BY TraceType DEF AutomationInv, Driven, ToldInv, Stages
<1>1. ASSUME NEW c \in Callers, Running(c) PROVE ToldInv'
  <2>1. step[c] = "created" /\ records[job[c]].events = <<>>
    BY <1>0, <1>1 DEF Running, Telling
  <2>2. /\ DOMAIN records' = DOMAIN records
        /\ records'[job[c]].events = <<>>
        /\ \A r \in DOMAIN records : r # job[c] => records'[r] = records[r]
    BY <1>1, <2>1, StatusStored DEF Running
  <2>3. /\ UNCHANGED job /\ step'[c] = "stage" /\ stage'[c] = 1
        /\ \A d \in Callers \ {c} : step'[d] = step[d] /\ stage'[d] = stage[d]
    BY <1>1, Moved DEF Running
  <2>4. Through[1 - 1] = <<>> /\ 1 \in 1..(Stages + 1)
    BY <1>0, ThroughTraces DEF Traces
  <2>5. Telling(c)'
    BY <2>2, <2>3, <2>4 DEF Telling
  <2> QED
    BY <2>1, <2>2, <2>3, <2>5, TellingStep
<1>2. ASSUME NEW c \in Callers, Skip(c) PROVE ToldInv'
  <2>1. PICK n, e : n = stage[c] /\ e = records[job[c]].events
    OBVIOUS
  <2>2. step[c] = "stage" /\ n <= Stages /\ Telling(c) /\ Order[n] \notin Handled
    BY <1>0, <1>2, <2>1 DEF Skip, Here
  <2>3. n \in 1..(Stages + 1) /\ e = Through[n - 1]
    BY <2>1, <2>2 DEF Telling
  <2>4. n \in 1..Stages /\ n + 1 \in 1..(Stages + 1) /\ n + 1 - 1 = n /\ n \in 0..Stages
    BY <1>0, <2>2, <2>3
  <2>5. PICK f : f = Append(e, <<Order[n], "STAGE_SKIPPED">>)
    OBVIOUS
  <2>6. f = Through[n] /\ Begun(f)
    BY <2>2, <2>3, <2>4, <2>5, OneMore, BegunAll
  <2>7. Emit(c, Order[n], "STAGE_SKIPPED", "stage", n + 1)
    BY <1>2, <2>1 DEF Skip, Here
  <2>8. step[c] # "idle" /\ f = Through[(n + 1) - 1]
    BY <2>2, <2>4, <2>6
  <2>9. f = Append(records[job[c]].events, <<Order[n], "STAGE_SKIPPED">>)
    BY <2>1, <2>5, Zenon
  <2> QED
    BY <2>4, <2>6, <2>7, <2>8, <2>9, EmitTells
<1>3. ASSUME NEW c \in Callers, Refuse(c) PROVE ToldInv'
  <2>1. step[c] = "stage" /\ UNCHANGED records
    BY <1>3 DEF Refuse
  <2>2. /\ UNCHANGED job /\ step'[c] = "failing"
        /\ \A d \in Callers \ {c} : step'[d] = step[d] /\ stage'[d] = stage[d]
    BY <1>3, Moved DEF Refuse
  <2>3. Begun(records[job[c]].events)
    <3>1. stage[c] \in 1..(Stages + 1) /\ records[job[c]].events = Through[stage[c] - 1]
      BY <1>0, <2>1 DEF Telling
    <3>2. stage[c] - 1 \in 0..Stages
      BY <1>0, <3>1
    <3> QED
      BY <3>1, <3>2, BegunAll
  <2>4. Telling(c)'
    BY <2>1, <2>2, <2>3 DEF Telling
  <2> QED
    BY <2>1, <2>2, <2>4, TellingStep
<1>4. ASSUME NEW c \in Callers, Begin(c) PROVE ToldInv'
  <2>1. PICK n, e : n = stage[c] /\ e = records[job[c]].events
    OBVIOUS
  <2>2. step[c] = "stage" /\ n <= Stages /\ Telling(c) /\ Order[n] \in Handled
    BY <1>0, <1>4, <2>1 DEF Begin, Here
  <2>3. n \in 1..(Stages + 1) /\ e = Through[n - 1]
    BY <2>1, <2>2 DEF Telling
  <2>4. n \in 1..Stages
    BY <1>0, <2>2, <2>3
  <2>5. PICK f : f = Append(e, <<Order[n], "STAGE_STARTED">>)
    OBVIOUS
  <2>6. f = Append(Through[n - 1], <<Order[n], "STAGE_STARTED">>) /\ Begun(f)
    BY <2>2, <2>3, <2>4, <2>5, OneMore
  <2>7. Emit(c, Order[n], "STAGE_STARTED", "handler", n)
    BY <1>4, <2>1 DEF Begin, Here
  <2> QED
    BY <2>1, <2>2, <2>4, <2>5, <2>6, <2>7, EmitTells
<1>5. ASSUME NEW c \in Callers, Handle(c) PROVE ToldInv'
  <2>1. step[c] = "handler" /\ UNCHANGED records
    BY <1>5 DEF Handle
  <2>2. /\ UNCHANGED job /\ step'[c] \in {"completed", "failing"} /\ stage'[c] = stage[c]
        /\ \A d \in Callers \ {c} : step'[d] = step[d] /\ stage'[d] = stage[d]
    BY <1>5, Moved DEF Handle
  <2>3. /\ stage[c] \in 1..Stages /\ Here(c) \in Handled
        /\ records[job[c]].events = Append(Through[stage[c] - 1], <<Here(c), "STAGE_STARTED">>)
    BY <1>0, <2>1 DEF Telling
  <2>4. Begun(records[job[c]].events)
    BY <2>3, OneMore DEF Here
  <2>5. Telling(c)'
    BY <2>1, <2>2, <2>3, <2>4 DEF Telling, Here
  <2> QED
    BY <2>1, <2>2, <2>5, TellingStep
<1>6. ASSUME NEW c \in Callers, StageDone(c) PROVE ToldInv'
  <2>1. PICK n, e : n = stage[c] /\ e = records[job[c]].events
    OBVIOUS
  <2>2. step[c] = "completed" /\ Telling(c)
    BY <1>0, <1>6 DEF StageDone
  <2>3. n \in 1..Stages /\ Order[n] \in Handled /\ e = Append(Through[n - 1], <<Order[n], "STAGE_STARTED">>)
    BY <2>1, <2>2 DEF Telling, Here
  <2>4. n + 1 \in 1..(Stages + 1) /\ n + 1 - 1 = n /\ n \in 0..Stages
    BY <1>0, <2>3
  <2>5. PICK f : f = Append(e, <<Order[n], "STAGE_COMPLETED">>)
    OBVIOUS
  <2>6. f = Through[n] /\ Begun(f)
    BY <2>3, <2>4, <2>5, OneMore, BegunAll
  <2>7. Emit(c, Order[n], "STAGE_COMPLETED", "stage", n + 1)
    BY <1>6, <2>1 DEF StageDone, Here
  <2>8. step[c] # "idle" /\ f = Through[(n + 1) - 1]
    BY <2>2, <2>4, <2>6
  <2>9. f = Append(records[job[c]].events, <<Order[n], "STAGE_COMPLETED">>)
    BY <2>1, <2>5, Zenon
  <2> QED
    BY <2>4, <2>6, <2>7, <2>8, <2>9, EmitTells
<1>7. ASSUME NEW c \in Callers, Succeed(c) PROVE ToldInv'
  <2>0. PICK run : run = job[c]
    OBVIOUS
  <2>1. step[c] = "stage" /\ step[c] # "idle" /\ WithStatus(c, "SUCCEEDED") /\ Return(c)
    BY <1>7 DEF Succeed
  <2>2. records[run].events = FullTrace
    <3>1. stage[c] \in 1..(Stages + 1) /\ records[run].events = Through[stage[c] - 1] /\ stage[c] > Stages
      BY <1>0, <1>7, <2>0, <2>1 DEF Telling, Succeed
    <3>2. stage[c] - 1 = Stages
      BY <1>0, <3>1
    <3> QED
      BY <3>1, <3>2, ThroughAll
  <2>3. /\ DOMAIN records' = DOMAIN records
        /\ records'[run].events = FullTrace /\ records'[run].status = "SUCCEEDED"
        /\ \A r \in DOMAIN records : r # run => records'[r] = records[r]
    BY <2>0, <2>1, <2>2, StatusStored
  <2>4. Closed(run)'
    BY <2>3 DEF Closed
  <2> QED
    BY <2>0, <2>1, <2>3, <2>4, ClosingStep
<1>8. ASSUME NEW c \in Callers, Fail(c) PROVE ToldInv'
  <2>1. step[c] = "failing" /\ Begun(records[job[c]].events)
    BY <1>0, <1>8 DEF Fail, Telling
  <2>2. /\ DOMAIN records' = DOMAIN records
        /\ records'[job[c]].events = records[job[c]].events /\ records'[job[c]].status = "FAILED"
        /\ \A r \in DOMAIN records : r # job[c] => records'[r] = records[r]
    BY <1>8, <2>1, StatusStored DEF Fail
  <2>3. /\ UNCHANGED job /\ step'[c] = "report"
        /\ \A d \in Callers \ {c} : step'[d] = step[d] /\ stage'[d] = stage[d]
    BY <1>8, Moved DEF Fail
  <2>4. Telling(c)'
    BY <2>1, <2>2, <2>3 DEF Telling
  <2> QED
    BY <2>1, <2>2, <2>3, <2>4, TellingStep
<1>9. ASSUME NEW c \in Callers, Report(c) PROVE ToldInv'
  <2>1. /\ step[c] = "report" /\ Begun(records[job[c]].events) /\ records[job[c]].status = "FAILED"
        /\ Return(c) /\ job[c] \in DOMAIN records
    BY <1>0, <1>9 DEF Report, Telling
  <2>2. PICK run : run = job[c]
    OBVIOUS
  <2>3. /\ DOMAIN records[run] = Fields /\ run \in DOMAIN records
        /\ "events" \in Fields /\ "status" \in Fields /\ "events" # "status"
    BY <2>1, <2>2 DEF AutomationInv, Keys, Fields
  <2>4. records' = [records EXCEPT ![run].events = Append(@, <<"MONITORING", "RUN_FAILED">>)]
    BY <1>9, <2>2 DEF Report
  <2>5. /\ DOMAIN records' = DOMAIN records
        /\ records'[run].events = Append(records[run].events, <<"MONITORING", "RUN_FAILED">>)
        /\ records'[run].status = records[run].status
        /\ \A r \in DOMAIN records : r # run => records'[r] = records[r]
    BY <2>3, <2>4
  <2>6. Closed(run)'
    BY <2>1, <2>2, <2>5 DEF Closed, ToldToTheEnd
  <2> QED
    BY <2>1, <2>2, <2>5, <2>6, ClosingStep
<1> QED
  BY <1>1, <1>2, <1>3, <1>4, <1>5, <1>6, <1>7, <1>8, <1>9, ToldCreate DEF AutomationNext

(* Whatever the handlers do and whichever subscriber raises, for any order *)
(* of the stages and any of them handled: a run nobody drives is closed,   *)
(* and its events are what happened, in order.                             *)
THEOREM RunsAlwaysTold == Spec => []RunsTold
<1>1. Init => AutomationInv /\ ToldInv
  BY EmptyListed DEF Init, AutomationInit, AutomationInv, Keys, Driven, Executions, ToldInv
<1>2. ASSUME AutomationInv, ToldInv, [Next]_vars PROVE AutomationInv' /\ ToldInv'
  <2>1. ASSUME UNCHANGED automationVars PROVE AutomationInv' /\ ToldInv'
    BY <1>2, <2>1 DEF AutomationInv, automationVars, Keys, Driven, Executions, Past, ModeRefused, Here,
       ToldInv, Telling, Closed
  <2> QED
    BY <1>2, <2>1, AutomationStep, ToldStep DEF Next, vars
<1>3. ASSUME AutomationInv, ToldInv PROVE RunsTold
  <2>1. ASSUME NEW e, Begun(e), e # <<>>
        PROVE  Last(e)[2] # "RUN_FAILED" /\ IsPrefix(e, FullTrace)
    <3>1. e \in Seq(Events) /\ FullTrace \in Seq(Events) /\ Len(e) > 0
      BY <2>1, BegunAll DEF Begun
    <3>2. Last(e) \in Events
      BY <3>1 DEF Last
    <3>3. Last(e)[2] # "RUN_FAILED"
      BY <3>2 DEF Events
    <3>4. SubSeq(e, 1, Len(e)) = SubSeq(FullTrace, 1, Len(e))
      BY <2>1, <3>1 DEF Begun, Begins
    <3> QED
      BY <2>1, <3>3, <3>4 DEF IsPrefix, Begun, Begins
  <2>2. ASSUME NEW e, ToldToTheEnd(e)
        PROVE  Last(e) = <<"MONITORING", "RUN_FAILED">> /\ IsPrefix(Front(e), FullTrace)
    <3>1. PICK p : Begun(p) /\ e = Append(p, <<"MONITORING", "RUN_FAILED">>)
      BY <2>2 DEF ToldToTheEnd
    <3>2. p \in Seq(Events) /\ FullTrace \in Seq(Events)
      BY <3>1, BegunAll DEF Begun
    <3>3. Front(e) = p /\ Last(e) = <<"MONITORING", "RUN_FAILED">>
      BY <3>1, <3>2 DEF Front, Last
    <3>4. SubSeq(p, 1, Len(p)) = SubSeq(FullTrace, 1, Len(p)) /\ Len(p) <= Len(FullTrace)
      BY <3>1, <3>2 DEF Begun, Begins
    <3> QED
      BY <3>3, <3>4 DEF IsPrefix
  <2>3. Begun(FullTrace)
    BY BegunAll, ThroughAll, TraceType
  <2>4. ASSUME NEW r \in DOMAIN records, Closed(r)
        PROVE  \/ records[r].status = "SUCCEEDED" /\ records[r].events = FullTrace
               \/ records[r].status = "FAILED" /\ Last(records[r].events) = <<"MONITORING", "RUN_FAILED">>
    BY <2>2, <2>4 DEF Closed
  <2>5. ASSUME NEW r \in DOMAIN records, NEW e, e = records[r].events, e # <<>>
        PROVE  IsPrefix(IF Last(e)[2] = "RUN_FAILED" THEN Front(e) ELSE e, FullTrace)
    <3>1. Begun(e) \/ ToldToTheEnd(e)
      <4>1. CASE Closed(r)
        BY <2>3, <2>5, <4>1 DEF Closed
      <4>2. ASSUME NEW c \in Callers, step[c] # "idle", job[c] = r PROVE Begun(e)
        <5>1. Telling(c)
          BY <1>3, <4>2 DEF ToldInv
        <5>2. CASE step[c] = "stage"
          <6>1. stage[c] - 1 \in 0..Stages /\ e = Through[stage[c] - 1]
            BY <2>5, <4>2, <5>1, <5>2, TraceType DEF Telling
          <6> QED
            BY <6>1, BegunAll
        <5>3. CASE step[c] \in {"handler", "completed"}
          <6>1. /\ stage[c] \in 1..Stages /\ Order[stage[c]] \in Handled
                /\ e = Append(Through[stage[c] - 1], <<Order[stage[c]], "STAGE_STARTED">>)
            BY <2>5, <4>2, <5>1, <5>3 DEF Telling, Here
          <6> QED
            BY <6>1, OneMore
        <5>4. CASE step[c] \in {"failing", "report"}
          BY <2>5, <4>2, <5>1, <5>4 DEF Telling
        <5>5. step[c] # "created"
          BY <2>5, <4>2, <5>1 DEF Telling
        <5> QED
          BY <5>1, <5>2, <5>3, <5>4, <5>5 DEF Telling
      <4> QED
        BY <1>3, <4>1, <4>2 DEF ToldInv
    <3>2. CASE Begun(e)
      BY <2>1, <2>5, <3>2
    <3>3. CASE ToldToTheEnd(e)
      BY <2>2, <3>3
    <3> QED
      BY <3>1, <3>2, <3>3
  <2>6. \A r \in DOMAIN records : (\A c \in Callers : job[c] # r) => Closed(r)
    BY <1>3 DEF ToldInv
  <2> QED
    BY <2>4, <2>5, <2>6 DEF RunsTold
<1> QED
  BY <1>1, <1>2, <1>3, PTL DEF Spec
-----------------------------------------------------------------------------
(* The ledger: a life told once and in order                               *)

(* The state a life has before another.                                    *)
Earlier ==
  [VALIDATING |-> "CANDIDATE", PAPER |-> "VALIDATING", PROMOTION_REVIEW |-> "PAPER",
   PROMOTED |-> "PROMOTION_REVIEW", RETIRED |-> "PROMOTED"]

(* l tells each life in order.                                             *)
Told(l) ==
  /\ l \in Seq(Range(l)) /\ \A m \in Range(l) : m \in [candidate : Candidates, state : States]
  /\ \A i, j \in DOMAIN l : l[i] = l[j] => i = j
  /\ \A j \in DOMAIN l : l[j].state \in DOMAIN Earlier =>
       \E i \in 1..(j - 1) : l[i] = In(l[j].candidate, Earlier[l[j].state])

(* One more record: a new one, behind the state it follows.                *)
Follows(m, l) ==
  /\ m \in [candidate : Candidates, state : States] /\ m \notin Range(l)
  /\ m.state \in DOMAIN Earlier => In(m.candidate, Earlier[m.state]) \in Range(l)

LEMMA ToldAppend ==
  ASSUME NEW l, Told(l), NEW m, Follows(m, l)
  PROVE  Told(Append(l, m)) /\ Range(Append(l, m)) = Range(l) \cup {m}
<1> DEFINE n == Len(l)
           a == Append(l, m)
<1>1. /\ n \in Nat /\ DOMAIN l = 1..n /\ DOMAIN a = 1..(n + 1) /\ a \in Seq(Range(a))
      /\ a[n + 1] = m /\ Range(a) = Range(l) \cup {m}
      /\ \A i \in 1..n : a[i] = l[i] /\ l[i] \in Range(l)
  BY Appended DEF Told, Range
<1> HIDE DEF a, n
<1>2. \A i, j \in DOMAIN a : a[i] = a[j] => i = j
  <2>1. \A i \in 1..n : a[i] # m
    BY <1>1 DEF Follows
  <2>2. \A i \in 1..(n + 1) : i \in 1..n \/ i = n + 1
    BY <1>1
  <2> QED
    BY <1>1, <2>1, <2>2 DEF Told
<1>3. ASSUME NEW j \in DOMAIN a, a[j].state \in DOMAIN Earlier
      PROVE  \E i \in 1..(j - 1) : a[i] = In(a[j].candidate, Earlier[a[j].state])
  <2>1. CASE j \in 1..n
    <3>1. PICK i \in 1..(j - 1) : l[i] = In(l[j].candidate, Earlier[l[j].state])
      BY <1>1, <1>3, <2>1 DEF Told
    <3> QED
      BY <1>1, <2>1, <3>1
  <2>2. CASE j = n + 1
    <3>1. PICK i \in 1..n : l[i] = In(m.candidate, Earlier[m.state])
      BY <1>1, <1>3, <2>2 DEF Follows, Range
    <3> QED
      BY <1>1, <2>2, <3>1
  <2> QED
    BY <1>1, <2>1, <2>2
<1>4. \A r \in Range(a) : r \in [candidate : Candidates, state : States]
  BY <1>1 DEF Told, Follows
<1> QED
  BY <1>1, <1>2, <1>3, <1>4 DEF Told, a

(* Objects, evidence and decisions are of candidates on file, and whatever *)
(* was promoted or activated had its own eligible review.                  *)
Eligible(c) == [of |-> In(c, "PROMOTION_REVIEW"), state |-> "ELIGIBLE"] \in decisions
LedgerInv ==
  /\ Told(ledger) /\ held \subseteq Range(ledger)
  /\ \A run \in runs : run.of \in Range(ledger) /\ run.of.state = "VALIDATING"
  /\ \A d \in decisions :
       /\ d.of \in Range(ledger) /\ d.of.state = "PROMOTION_REVIEW"
       /\ d = [of |-> d.of, state |-> d.state]
       /\ d.state = "PROMOTED" => Eligible(d.of.candidate)
  /\ \A m \in Range(ledger) : m.state = "PROMOTED" => Eligible(m.candidate)
Reviewed ==
  /\ history \in Seq(Range(history))
  /\ \A line \in Range(history) : line.version \in Candidates => Eligible(line.version)

(* The transitions a candidate object may make follow the ledger's order.  *)
LEMMA AllowedFollows ==
  ASSUME NEW s \in States, NEW t \in Allowed[s]
  PROVE  /\ t \in States \ {"PROMOTED", "CANDIDATE"}
         /\ t \in DOMAIN Earlier => s = Earlier[t]
BY DEF States, Allowed, Earlier

(* A record more that is no promotion leaves the rest as it is.            *)
LEMMA LedgerAppend ==
  ASSUME LedgerInv, NEW m, Follows(m, ledger), ledger' = Append(ledger, m),
         held' \subseteq held \cup {m}, UNCHANGED <<runs, decisions>>,
         m.state = "PROMOTED" => Eligible(m.candidate)
  PROVE  LedgerInv'
<1>1. Told(ledger') /\ Range(ledger') = Range(ledger) \cup {m}
  BY ToldAppend DEF LedgerInv
<1> QED
  BY <1>1 DEF LedgerInv, Eligible

(* A record is the candidate it is of and its state.                       *)
LEMMA RecordIs ==
  ASSUME NEW m \in [candidate : Candidates, state : States]
  PROVE  m = In(m.candidate, m.state)
BY DEF In

LEMMA DecisionStep ==
  ASSUME LedgerInv, NEW m \in Range(ledger), m.state = "PROMOTION_REVIEW",
         NEW s, s = "PROMOTED" => Eligible(m.candidate),
         Decided(m, s), UNCHANGED <<ledger, held, runs>>
  PROVE  LedgerInv' /\ \A c : Eligible(c) => Eligible(c)'
BY DEF LedgerInv, Eligible, Decided

LEMMA LedgerStep ==
  ASSUME LedgerInv, LedgerNext
  PROVE  LedgerInv' /\ decisions \subseteq decisions'
<1> USE DEF Persist, States
<1>1. ASSUME NEW c \in Candidates, Create(c) PROVE LedgerInv' /\ decisions \subseteq decisions'
  <2>1. Follows(In(c, "CANDIDATE"), ledger)
    BY <1>1 DEF Create, Follows, In, Earlier
  <2>2. In(c, "CANDIDATE").state = "CANDIDATE"
    BY DEF In
  <2> QED
    BY <1>1, <2>1, <2>2, LedgerAppend DEF Create
<1>2. ASSUME NEW m \in held, NEW t \in Allowed[m.state], Transition(m, t)
      PROVE  LedgerInv' /\ decisions \subseteq decisions'
  <2>1. m \in Range(ledger) /\ m \in [candidate : Candidates, state : States]
    BY DEF LedgerInv, Told
  <2>2. t \in States \ {"PROMOTED", "CANDIDATE"} /\ (t \in DOMAIN Earlier => m.state = Earlier[t])
    BY <2>1, AllowedFollows
  <2>3. In(m.candidate, t).candidate = m.candidate /\ In(m.candidate, t).state = t
    BY DEF In
  <2>4. Follows(In(m.candidate, t), ledger)
    BY <1>2, <2>1, <2>2, <2>3, RecordIs DEF Transition, Follows, In
  <2> QED
    BY <1>2, <2>2, <2>3, <2>4, LedgerAppend DEF Transition
<1>3. ASSUME NEW m \in held, NEW valid \in Verdicts, Collect(m, valid)
      PROVE  LedgerInv' /\ decisions \subseteq decisions'
  BY <1>3 DEF Collect, LedgerInv, Eligible
<1>4. ASSUME NEW m \in held, NEW valid \in Verdicts, Review(m, valid)
      PROVE  LedgerInv' /\ decisions \subseteq decisions'
  BY <1>4, DecisionStep DEF Review, Decided, LedgerInv
<1>5. ASSUME NEW d \in decisions, Approve(d) PROVE LedgerInv' /\ decisions \subseteq decisions'
  <2>1. /\ d.of \in Range(ledger) /\ d.of.state = "PROMOTION_REVIEW"
        /\ d = [of |-> d.of, state |-> "ELIGIBLE"]
    BY <1>5 DEF Approve, LedgerInv
  <2>2. Eligible(d.of.candidate)
    BY <2>1, RecordIs DEF Eligible, LedgerInv, Told
  <2> QED
    BY <1>5, <2>1, <2>2, DecisionStep DEF Approve, Decided
<1>6. ASSUME NEW m \in held, NEW d \in decisions, ApplyPromotion(m, d)
      PROVE  LedgerInv' /\ decisions \subseteq decisions'
  <2> DEFINE p == In(m.candidate, "PROMOTED")
  <2>1. m \in Range(ledger) /\ m = In(m.candidate, "PROMOTION_REVIEW") /\ m.candidate \in Candidates
    BY <1>6, RecordIs DEF ApplyPromotion, LedgerInv, Told
  <2>2. p.candidate = m.candidate /\ p.state = "PROMOTED" /\ Eligible(m.candidate)
    BY <1>6 DEF ApplyPromotion, LedgerInv, In
  <2>3. Follows(p, ledger)
    BY <1>6, <2>1, <2>2 DEF ApplyPromotion, Follows, Earlier, In
  <2> QED
    BY <1>6, <2>2, <2>3, LedgerAppend DEF ApplyPromotion
<1>7. ASSUME NEW run \in runs, Complete(run) PROVE LedgerInv' /\ decisions \subseteq decisions'
  <2> DEFINE paper  == In(run.of.candidate, "PAPER")
             review == In(run.of.candidate, "PROMOTION_REVIEW")
  <2>1. In(run.of.candidate, "VALIDATING") \in Range(ledger) /\ run.of.candidate \in Candidates
    BY RecordIs DEF LedgerInv, Told
  <2>2. Follows(paper, ledger)
    BY <1>7, <2>1 DEF Complete, Follows, Earlier, In
  <2>3. Told(Append(ledger, paper)) /\ Range(Append(ledger, paper)) = Range(ledger) \cup {paper}
    BY <2>2, ToldAppend DEF LedgerInv
  <2>4. Follows(review, Append(ledger, paper))
    BY <1>7, <2>1, <2>3 DEF Complete, Follows, Earlier, In
  <2>5. ledger' = Append(Append(ledger, paper), review)
    <3>1. ledger \in Seq(Range(ledger) \cup {paper, review})
      BY DEF LedgerInv, Told
    <3> QED
      BY <1>7, <3>1 DEF Complete
  <2>6. Told(ledger') /\ Range(ledger') = Range(ledger) \cup {paper, review}
    BY <2>3, <2>4, <2>5, ToldAppend
  <2>7. paper.state = "PAPER" /\ review.state = "PROMOTION_REVIEW"
    BY DEF In
  <2> QED
    BY <1>7, <2>6, <2>7 DEF Complete, LedgerInv, Eligible
<1>8. ASSUME NEW run \in runs, CompleteFails(run) PROVE LedgerInv' /\ decisions \subseteq decisions'
  <2> DEFINE paper == In(run.of.candidate, "PAPER")
  <2>1. In(run.of.candidate, "VALIDATING") \in Range(ledger) /\ run.of.candidate \in Candidates
    BY RecordIs DEF LedgerInv, Told
  <2>2. Follows(paper, ledger) /\ paper.state = "PAPER"
    BY <1>8, <2>1 DEF CompleteFails, Follows, Earlier, In
  <2> QED
    BY <1>8, <2>2, LedgerAppend DEF CompleteFails
<1> QED
  BY <1>1, <1>2, <1>3, <1>4, <1>5, <1>6, <1>7, <1>8 DEF LedgerNext
-----------------------------------------------------------------------------
(* The registry, and the theorem                                           *)

Statuses == {"RESEARCH_ONLY", "CANDIDATE", "APPROVED", "RETIRED"}
RegistryInv ==
  /\ registry \in [Versions -> Seq(Statuses)]
  /\ \A v \in Versions : \A i \in DOMAIN registry[v] :
       /\ registry[v][i] = "APPROVED" => i > 1 /\ registry[v][i - 1] = "CANDIDATE"
       /\ registry[v][i] = "RETIRED" => Status(v) = "RETIRED"

LEMMA RegistryStep == ASSUME RegistryInv, RegistryNext PROVE RegistryInv'
<1>1. ASSUME NEW v \in Versions, NEW s \in Statuses, Recorded(v, s),
             s = "APPROVED" => Status(v) = "CANDIDATE",
             Status(v) = "RETIRED" => s = "RETIRED"
      PROVE  RegistryInv'
  <2> DEFINE h == registry[v]
             n == Len(h)
  <2>1. /\ h \in Seq(Statuses) /\ n \in Nat /\ DOMAIN h = 1..n
        /\ registry' \in [Versions -> Seq(Statuses)] /\ registry'[v] = Append(h, s)
        /\ \A w \in Versions \ {v} : registry'[w] = registry[w]
    BY <1>1 DEF Recorded, RegistryInv
  <2>2. /\ DOMAIN Append(h, s) = 1..(n + 1) /\ Append(h, s)[n + 1] = s
        /\ Append(h, s) # <<>> /\ Len(Append(h, s)) = n + 1
        /\ \A i \in 1..n : Append(h, s)[i] = h[i]
    BY <2>1
  <2>3. Status(v)' = s
    BY <2>1, <2>2 DEF Status, Last
  <2>4. Status(v) = "CANDIDATE" => n > 0 /\ h[n] = "CANDIDATE"
    BY <2>1 DEF Status, Last
  <2>5. ASSUME NEW i \in DOMAIN registry'[v]
        PROVE  /\ registry'[v][i] = "APPROVED" => i > 1 /\ registry'[v][i - 1] = "CANDIDATE"
               /\ registry'[v][i] = "RETIRED" => Status(v)' = "RETIRED"
    <3>1. CASE i \in 1..n
      <4>1. /\ h[i] = "APPROVED" => i > 1 /\ h[i - 1] = "CANDIDATE"
            /\ h[i] = "RETIRED" => s = "RETIRED"
        BY <1>1, <2>1, <3>1 DEF RegistryInv
      <4>2. registry'[v][i] = h[i] /\ (i > 1 => registry'[v][i - 1] = h[i - 1])
        BY <2>1, <2>2, <3>1
      <4> QED
        BY <2>3, <4>1, <4>2
    <3>2. CASE i = n + 1
      BY <1>1, <2>1, <2>2, <2>3, <2>4, <3>2
    <3> QED
      BY <2>1, <2>2, <3>1, <3>2
  <2>6. \A w \in Versions \ {v} : Status(w)' = Status(w)
    BY <2>1 DEF Status
  <2>7. ASSUME NEW w \in Versions \ {v}, NEW i \in DOMAIN registry'[w]
        PROVE  /\ registry'[w][i] = "APPROVED" => i > 1 /\ registry'[w][i - 1] = "CANDIDATE"
               /\ registry'[w][i] = "RETIRED" => Status(w)' = "RETIRED"
    <3>1. registry'[w] = registry[w] /\ Status(w)' = Status(w) /\ i \in DOMAIN registry[w]
      BY <2>1, <2>6, <2>7
    <3>2. /\ registry[w][i] = "APPROVED" => i > 1 /\ registry[w][i - 1] = "CANDIDATE"
          /\ registry[w][i] = "RETIRED" => Status(w) = "RETIRED"
      BY <3>1 DEF RegistryInv
    <3> QED
      BY <3>1, <3>2
  <2> QED
    BY <2>1, <2>5, <2>7 DEF RegistryInv
<1>2. ASSUME NEW v \in Versions, NEW s \in {"RESEARCH_ONLY", "CANDIDATE", "RETIRED"}, Register(v, s)
      PROVE  RegistryInv'
  BY <1>1, <1>2 DEF Register, Statuses
<1>3. ASSUME NEW v \in Versions, ApproveModel(v) PROVE RegistryInv'
  BY <1>1, <1>3 DEF ApproveModel, Statuses
<1>4. ASSUME NEW v \in Versions, Retire(v) PROVE RegistryInv'
  BY <1>1, <1>4 DEF Retire, Statuses
<1> QED
  BY <1>2, <1>3, <1>4 DEF RegistryNext

(* Only what a promotion decision names is activated.                      *)
LEMMA ReviewedStep ==
  ASSUME LedgerInv, Reviewed, ChampionNext, UNCHANGED ledgerVars PROVE Reviewed'
<1>1. ASSUME NEW d \in decisions, d.state = "PROMOTED", NEW p, Activate(d.of.candidate, p)
      PROVE  Reviewed'
  <2>1. Eligible(d.of.candidate)
    BY <1>1 DEF LedgerInv
  <2> DEFINE line == [version |-> d.of.candidate, parent |-> p]
  <2>2. history' \in Seq(Range(history')) /\ Range(history') = Range(history) \cup {line}
    BY <1>1, Appended DEF Activate, Reviewed
  <2> QED
    BY <2>1, <2>2 DEF Reviewed, Eligible, ledgerVars
<1>2. ASSUME WritePointer \/ Dies PROVE Reviewed'
  BY <1>2 DEF WritePointer, Dies, Reviewed, Eligible, ledgerVars
<1> QED
  BY <1>1, <1>2 DEF ChampionNext

GovernanceInv == LedgerInv /\ Reviewed /\ RegistryInv

LEMMA GovernanceStep == ASSUME GovernanceInv, [Next]_vars PROVE GovernanceInv'
<1> USE DEF GovernanceInv
<1>1. ASSUME UNCHANGED <<ledgerVars, history>> PROVE LedgerInv' /\ Reviewed'
  BY <1>1 DEF LedgerInv, Reviewed, Eligible, ledgerVars
<1>2. ASSUME UNCHANGED registry PROVE RegistryInv'
  BY <1>2 DEF RegistryInv, Status
<1>3. ASSUME LedgerNext, UNCHANGED <<championVars, registry>> PROVE GovernanceInv'
  <2>1. LedgerInv' /\ decisions \subseteq decisions'
    BY <1>3, LedgerStep
  <2>2. Reviewed'
    BY <1>3, <2>1 DEF Reviewed, Eligible, championVars
  <2> QED
    BY <1>2, <1>3, <2>1, <2>2
<1>4. ASSUME ChampionNext, UNCHANGED <<ledgerVars, registry>> PROVE GovernanceInv'
  <2>1. LedgerInv'
    BY <1>4 DEF LedgerInv, Eligible, ledgerVars
  <2> QED
    BY <1>2, <1>4, <2>1, ReviewedStep
<1>5. ASSUME RegistryNext PROVE GovernanceInv'
  BY <1>1, <1>5, RegistryStep
  DEF RegistryNext, Register, ApproveModel, Retire, Recorded, championVars
<1>6. ASSUME UNCHANGED governanceVars PROVE GovernanceInv'
  BY <1>1, <1>2, <1>6 DEF governanceVars, championVars
<1> QED
  BY <1>3, <1>4, <1>5, <1>6 DEF Next, GovernanceNext, vars

LEMMA GovernanceInvInit == ASSUME Init PROVE GovernanceInv
<1>1. LedgerInv /\ Reviewed
  BY EmptyListed
  DEF Init, GovernanceInit, LedgerInit, ChampionInit, LedgerInv, Reviewed, Told
<1>2. RegistryInv
  <2>1. registry = [v \in Versions |-> <<>>]
    BY DEF Init, GovernanceInit
  <2>2. <<>> \in Seq(Statuses) /\ DOMAIN <<>> = {}
    OBVIOUS
  <2> QED
    BY <2>1, <2>2 DEF RegistryInv
<1> QED
  BY <1>1, <1>2 DEF GovernanceInv

LEMMA ToldIsTold == ASSUME GovernanceInv PROVE ToldInOrder
<1>1. ASSUME NEW c \in Candidates, NEW t \in DOMAIN Earlier PROVE Before(c, Earlier[t], t)
  <2>1. ASSUME NEW j \in DOMAIN ledger, ledger[j] = In(c, t)
        PROVE  \E i \in 1..(j - 1) : ledger[i] = In(c, Earlier[t])
    <3>1. ledger[j].candidate = c /\ ledger[j].state = t
      BY <2>1 DEF In
    <3> QED
      BY <3>1 DEF GovernanceInv, LedgerInv, Told
  <2> QED
    BY <2>1 DEF Before
<1>2. \A c \in Candidates :
        /\ Before(c, "CANDIDATE", "VALIDATING") /\ Before(c, "VALIDATING", "PAPER")
        /\ Before(c, "PAPER", "PROMOTION_REVIEW")
        /\ Before(c, "PROMOTION_REVIEW", "PROMOTED") /\ Before(c, "PROMOTED", "RETIRED")
  <2>1. /\ DOMAIN Earlier = {"VALIDATING", "PAPER", "PROMOTION_REVIEW", "PROMOTED", "RETIRED"}
        /\ Earlier["VALIDATING"] = "CANDIDATE" /\ Earlier["PAPER"] = "VALIDATING"
        /\ Earlier["PROMOTION_REVIEW"] = "PAPER" /\ Earlier["PROMOTED"] = "PROMOTION_REVIEW"
        /\ Earlier["RETIRED"] = "PROMOTED"
    BY DEF Earlier
  <2> QED
    BY <1>1, <2>1
<1> QED
  BY <1>2 DEF ToldInOrder, GovernanceInv, LedgerInv, Told, RegistryInv

(* Whatever older object is used again, whichever write fails and in       *)
(* whatever order promotions, activations and registrations are asked for: *)
(* each life is on file once and in order, a registered version is         *)
(* approved once and on its candidate record, and no version is promoted   *)
(* or made champion without an eligible review of its own.                 *)
THEOREM AlwaysLivesInOrder == Spec => []LivesInOrder
<1>1. ASSUME GovernanceInv PROVE ReviewedFirst
  <2>1. ASSUME NEW c \in Candidates,
               Filed(c, "PROMOTED") \/ \E i \in DOMAIN history : history[i].version = c
        PROVE  Eligible(c)
    <3>1. CASE Filed(c, "PROMOTED")
      <4>1. In(c, "PROMOTED").state = "PROMOTED" /\ In(c, "PROMOTED").candidate = c
        BY DEF In
      <4> QED
        BY <1>1, <3>1, <4>1 DEF GovernanceInv, LedgerInv, Filed
    <3>2. CASE \E i \in DOMAIN history : history[i].version = c
      BY <1>1, <3>2 DEF GovernanceInv, Reviewed, Range
    <3> QED
      BY <2>1, <3>1, <3>2
  <2>2. \A c \in Candidates : Eligible(c) => Filed(c, "PROMOTION_REVIEW")
    BY <1>1 DEF GovernanceInv, LedgerInv, Eligible, Filed
  <2> QED
    BY <2>1, <2>2 DEF ReviewedFirst, Eligible
<1>2. GovernanceInv => LivesInOrder
  BY <1>1, ToldIsTold DEF LivesInOrder
<1> QED
  BY <1>2, GovernanceInvInit, GovernanceStep, PTL DEF Spec
=============================================================================
