----------------------------- MODULE Conditions -----------------------------
(***************************************************************************)
(* src/src/conditions/engine.js: one condition with a trigger, a check of  *)
(* a value (Wenn) and two lists, Dann and Sonst, that the action runner    *)
(* plays.  Trigger and check read the same topic under keys of their own;  *)
(* an edit adds the trigger or takes it away.  Conditions share nothing    *)
(* but the reload and the timers.                                          *)
(*                                                                         *)
(* reload() awaits the database once, evaluateCondition() the list it      *)
(* plays and then the database; each segment between is an action.  The    *)
(* intervals of the checked loops are steps that may happen.               *)
(***************************************************************************)
EXTENDS ActionRunner, ValueBus

CONSTANTS Savers,         \* bound: edits of conditions saved at the same time
          Triggered,      \* the condition has the trigger from the start
          Checked,        \* the lists that hold a loop with a check
          Truthy,         \* the values the check accepts
          MaxExecutions   \* MAX_EXECUTIONS_PER_WINDOW

Branches == {"then", "else"}

ASSUME ConditionsAssumption ==
  /\ Keys = Branches /\ Lists = Branches
  /\ {"trigger", "when"} \subseteq AdHoc
  /\ Checked \subseteq Branches /\ Truthy \subseteq Values
  /\ Triggered \in BOOLEAN
  /\ MaxExecutions \in Nat \ {0}

VARIABLES
  saved,       \* the database has the trigger
  trigger,     \* the loaded condition has the trigger
  index,       \* triggerByCacheKey has the trigger
  armed,       \* armedTriggers has it
  armTimers,   \* running arm timers, and whether armTimer holds one
  loops,       \* the checked loops loaded
  saver,       \* saver -> [at, snap]
  reloading,   \* the flag
  pending,     \* the condition waits for flushPending()
  evaluation,  \* idle, in a list, or storing the result: else in `running`
  lastBranch,  \* the branch played last
  recent,      \* executions in the window, and whether they are blocked
  calm,        \* history: no two reloads overlapped since one alone
  edits        \* counter for the bound

conditionVars == <<saved, trigger, index, armed, armTimers, loops, saver, reloading,
                   pending, evaluation, lastBranch, recent, calm, edits>>

Own == {"trigger", "when"}

(* What reload() subscribes for a condition with or without the trigger.   *)
Wanted(has) == IF has THEN Own ELSE {"when"}

(* After init(), before the connection is made (app.js).                   *)
ConditionsInit ==
  /\ RunnerInit
  /\ target = "else" /\ last = "else"
  /\ saved = Triggered /\ trigger = Triggered /\ index = Triggered
  /\ armed = FALSE
  /\ armTimers = [running |-> 1, held |-> TRUE]
  /\ loops = Checked
  /\ saver = [s \in Savers |-> [at |-> "idle", snap |-> FALSE]]
  /\ reloading = FALSE /\ pending = FALSE
  /\ evaluation = "idle" /\ lastBranch = "none"
  /\ recent = [count |-> 0, blocked |-> FALSE]
  /\ calm = TRUE /\ edits = 0

-----------------------------------------------------------------------------
(* onValues(): the first value a trigger sees only arms it.                *)
OnValues(changed) ==
  /\ IF ~reloading /\ "trigger" \in changed /\ index
     THEN armed' = TRUE /\ pending' = (pending \/ armed)
     ELSE UNCHANGED <<armed, pending>>
  /\ UNCHANGED <<runnerVars, saved, trigger, index, armTimers, loops, saver, reloading,
                 evaluation, lastBranch, recent, calm, edits>>

(* The callback of an arm timer.                                           *)
Arm ==
  /\ armTimers.running > 0
  /\ armTimers' = [running |-> armTimers.running - 1, held |-> FALSE]
  /\ armed' = (armed \/ index)
  /\ UNCHANGED <<runnerVars, busVars, saved, trigger, index, loops, saver, reloading,
                 pending, evaluation, lastBranch, recent, calm, edits>>

-----------------------------------------------------------------------------
(* runBranch(k) has come to a pause or to its end.  An error, a refused    *)
(* write, leaves lastBranch alone; `early` says that writes were left.     *)
BranchRuns(k, early) ==
  IF \E r \in runs' : r.key = k
  THEN evaluation' = "branch" /\ UNCHANGED lastBranch
  ELSE /\ evaluation' = "mark"
       /\ lastBranch' \in CASE faults' = faults -> {k}
                            [] faults' # faults /\ early -> {lastBranch}
                            [] OTHER -> {k, lastBranch}

(* The check, and the branch it selects.                                   *)
Evaluate ==
  LET value == cache["when"]
      k     == IF value \in Truthy THEN "then" ELSE "else"
  IN  IF value = None
      THEN evaluation' = "mark" /\ UNCHANGED <<runnerVars, lastBranch>>
      ELSE Start(k, k, Segments) /\ BranchRuns(k, Segments > 1)

\* Mutant: a running condition is evaluated again.
Flush_Reentrant ==
  /\ pending /\ pending' = FALSE
  /\ ~recent.blocked /\ recent.count < MaxExecutions
  /\ recent' = [recent EXCEPT !.count = @ + 1]
  /\ Evaluate
  /\ UNCHANGED <<busVars, saved, trigger, index, armed, armTimers, loops, saver,
                 reloading, calm, edits>>

(* flushPending(), evaluateCondition() up to its first pause.              *)
Flush ==
  /\ pending /\ pending' = FALSE
  /\ \/ /\ evaluation # "idle" \/ recent.blocked
        /\ UNCHANGED <<runnerVars, evaluation, lastBranch, recent>>
     \/ /\ evaluation = "idle" /\ ~recent.blocked /\ recent.count >= MaxExecutions
        /\ recent' = [recent EXCEPT !.blocked = TRUE]
        /\ UNCHANGED <<runnerVars, evaluation, lastBranch>>
     \/ /\ evaluation = "idle" /\ ~recent.blocked /\ recent.count < MaxExecutions
        /\ recent' = [recent EXCEPT !.count = @ + 1]
        /\ Evaluate
  /\ UNCHANGED <<busVars, saved, trigger, index, armed, armTimers, loops, saver,
                 reloading, calm, edits>>

(* A pause of the branch is over.                                          *)
BranchResumes ==
  /\ \E r \in runs : Resume /\ BranchRuns(r.key, r.left > 1)
  /\ UNCHANGED <<busVars, saved, trigger, index, armed, armTimers, loops, saver,
                 reloading, pending, recent, calm, edits>>

(* markTriggered() is stored: the `finally` that frees the condition.      *)
Marked ==
  /\ evaluation = "mark"
  /\ evaluation' = "idle"
  /\ UNCHANGED <<runnerVars, busVars, saved, trigger, index, armed, armTimers, loops,
                 saver, reloading, pending, lastBranch, recent, calm, edits>>

(* A minute without an execution, or the end of the block.                 *)
WindowEnds ==
  /\ recent.count > 0
  /\ recent' = [count |-> 0, blocked |-> FALSE]
  /\ UNCHANGED <<runnerVars, busVars, saved, trigger, index, armed, armTimers, loops,
                 saver, reloading, pending, evaluation, lastBranch, calm, edits>>

-----------------------------------------------------------------------------
\* Mutant: the loops of both branches are checked.
Applicable_Any(l) == TRUE

(* checkLoops(): the branch whose loops are checked.  Without a trigger    *)
(* that is Dann from the start.                                            *)
Applicable(l) == lastBranch = l \/ (lastBranch = "none" /\ ~trigger /\ l = "then")

CheckLoop(l) ==
  /\ ~reloading
  /\ l \in loops /\ Applicable(l)
  /\ evaluation = "idle" /\ l \notin busyKeys
  /\ ~CheckFulfilled(l)
  /\ RunLoopOnce(l)
  /\ UNCHANGED <<busVars, conditionVars>>

LoopResumes == ResumeLoop /\ UNCHANGED <<busVars, conditionVars>>

-----------------------------------------------------------------------------
NoReload == \A s \in Savers : saver[s].at = "idle"

(* An edit is stored.                                                      *)
SaveEdit(s, has) ==
  /\ saver[s].at = "idle" /\ edits < limit.edits
  /\ edits' = edits + 1
  /\ saved' = has
  /\ saver' = [saver EXCEPT ![s].at = "saved"]
  /\ calm' = NoReload
  /\ UNCHANGED <<runnerVars, busVars, trigger, index, armed, armTimers, loops,
                 reloading, pending, evaluation, lastBranch, recent>>

(* clearTimeout() knows the timer set last, and none after one has fired.  *)
ArmTimersCleared ==
  IF armTimers.held THEN [running |-> armTimers.running - 1, held |-> FALSE] ELSE armTimers

(* reload() up to listConditions(): clearSubscriptions().                  *)
BeginReload(s) ==
  /\ saver[s].at = "saved"
  /\ saver' = [saver EXCEPT ![s].at = "list"]
  /\ reloading' = TRUE
  /\ ReplaceAdHoc(Own, {})
  /\ index' = FALSE /\ armed' = FALSE
  /\ armTimers' = ArmTimersCleared
  /\ UNCHANGED <<runnerVars, saved, trigger, loops, pending, evaluation, lastBranch,
                 recent, calm, edits>>

(* The database answers listConditions().                                  *)
ListConditions(s) ==
  /\ saver[s].at = "list"
  /\ saver' = [saver EXCEPT ![s] = [at |-> "listed", snap |-> saved]]
  /\ UNCHANGED <<runnerVars, busVars, saved, trigger, index, armed, armTimers, loops,
                 reloading, pending, evaluation, lastBranch, recent, calm, edits>>

\* Mutant: the triggers are subscribed, but not entered.
EndReload_NoIndex(s) ==
  /\ saver[s].at = "listed"
  /\ saver' = [saver EXCEPT ![s] = [at |-> "idle", snap |-> FALSE]]
  /\ reloading' = FALSE
  /\ ReplaceAdHoc({}, Wanted(saver[s].snap))
  /\ trigger' = saver[s].snap
  /\ loops' = Checked
  /\ armTimers' = [running |-> armTimers.running + 1, held |-> TRUE]
  /\ UNCHANGED <<runnerVars, saved, index, armed, pending, evaluation, lastBranch,
                 recent, calm, edits>>

(* reload() after listConditions().                                        *)
EndReload(s) ==
  LET has == saver[s].snap
  IN  /\ saver[s].at = "listed"
      /\ saver' = [saver EXCEPT ![s] = [at |-> "idle", snap |-> FALSE]]
      /\ reloading' = FALSE
      /\ ReplaceAdHoc({}, Wanted(has))
      /\ trigger' = has
      /\ index' = (index \/ has)
      /\ armed' = (armed \/ (has /\ cache["trigger"] # None))
      /\ loops' = Checked
      /\ armTimers' = [running |-> armTimers.running + 1, held |-> TRUE]
      /\ UNCHANGED <<runnerVars, saved, pending, evaluation, lastBranch, recent, calm,
                     edits>>

Reload(s) == BeginReload(s) \/ ListConditions(s) \/ EndReload(s)

ConditionStep ==
  \/ Arm
  \/ Flush
  \/ BranchResumes
  \/ Marked
  \/ WindowEnds
  \/ \E l \in Branches : CheckLoop(l)
  \/ LoopResumes
  \/ \E s \in Savers, has \in BOOLEAN : SaveEdit(s, has)
  \/ \E s \in Savers : Reload(s)

-----------------------------------------------------------------------------
ConditionsTypeOK ==
  /\ RunnerTypeOK
  /\ {saved, trigger, index, armed, reloading, pending, calm} \subseteq BOOLEAN
  /\ armTimers \in [running : 0..(limit.edits + 1), held : BOOLEAN]
  /\ loops \subseteq Checked
  /\ saver \in [Savers -> [at : {"idle", "saved", "list", "listed"}, snap : BOOLEAN]]
  /\ evaluation \in {"idle", "branch", "mark"}
  /\ lastBranch \in Branches \cup {"none"}
  /\ recent \in [count : 0..MaxExecutions, blocked : BOOLEAN]
  /\ edits \in 0..limit.edits
=============================================================================
