---------------------------- MODULE ActionRunner ----------------------------
(***************************************************************************)
(* src/src/automation/action-runner.js: sequences of writes and pauses,    *)
(* each under a key, and single loops that are played again.  A sequence   *)
(* is Segments writes with a pause after every one but the last; a loop is *)
(* Passes passes of one write and a pause.  Between two pauses everything  *)
(* is one step: the runner awaits nothing else.                            *)
(*                                                                         *)
(* A write goes to the one device these sequences switch.  It is abstracted*)
(* to the list that made it: target = l says that the device is in the     *)
(* state the writes of list l ask for.  MaxFaults bounds the writes that   *)
(* are lost on the way, and the ones publish() refuses.                    *)
(***************************************************************************)
EXTENDS Naturals

CONSTANTS Keys,        \* keys of sequences, a room of the home cinema
          Lists,       \* the action lists, one checked loop in each
          Segments,    \* bound: writes of a sequence
          Passes,      \* bound: passes of a loop
          MaxFaults    \* bound: writes that fail

ASSUME RunnerAssumption ==
  /\ Segments \in Nat \ {0}
  /\ Passes \in Nat \ {0}
  /\ MaxFaults \in Nat

VARIABLES
  runTokens,   \* key -> token of its latest run
  busyKeys,    \* keys with a run in progress
  busyLoops,   \* loop -> passes left of the rerun in progress, 0: none
  runs,        \* the runs that wait in a pause
  target,      \* the list whose state the device is in
  last,        \* history: the list whose write was made last
  faults       \* counter for the bound

runnerVars == <<runTokens, busyKeys, busyLoops, runs, target, last, faults>>

Run == [key : Keys, list : Lists, token : Nat, left : 1..Segments]

RunnerInit ==
  /\ runTokens = [k \in Keys |-> 0]
  /\ busyKeys = {}
  /\ busyLoops = [l \in Lists |-> 0]
  /\ runs = {}
  /\ faults = 0

-----------------------------------------------------------------------------
(* A write that arrives, or is lost behind publish(): the runner cannot    *)
(* tell one from the other.                                                *)
Write(l) ==
  /\ last' = l
  /\ \/ target' = l /\ UNCHANGED faults
     \/ faults < MaxFaults /\ faults' = faults + 1 /\ UNCHANGED target

(* publish() returns false: the list ends with an error.                   *)
Refused(l) ==
  /\ last' = l
  /\ faults < MaxFaults /\ faults' = faults + 1
  /\ UNCHANGED target

\* Mutant: a superseded run frees the key as well.
Released_Always(run, tokens) == busyKeys \ {run.key}

(* The `finally` of run(): only the latest run of a key frees it.          *)
Released(run, tokens) ==
  IF tokens[run.key] = run.token THEN busyKeys \ {run.key} ELSE busyKeys

(* run goes on with its next write, up to the next pause or its end.       *)
Proceed(run, others, tokens) ==
  \/ /\ Write(run.list)
     /\ IF run.left = 1
        THEN runs' = others /\ busyKeys' = Released(run, tokens)
        ELSE /\ runs' = others \cup {[run EXCEPT !.left = @ - 1]}
             /\ busyKeys' = busyKeys \cup {run.key}
  \/ Refused(run.list) /\ runs' = others /\ busyKeys' = Released(run, tokens)

NextToken(k) == runTokens[k] + 1

(* run(key, list) with n writes, up to its first pause.                    *)
Start(k, l, n) ==
  LET run    == [key |-> k, list |-> l, token |-> NextToken(k), left |-> n]
      tokens == [runTokens EXCEPT ![k] = run.token]
  IN  /\ runTokens' = tokens
      /\ IF n = 0
         THEN busyKeys' = Released(run, tokens) /\ UNCHANGED <<runs, target, last, faults>>
         ELSE Proceed(run, runs, tokens)
      /\ UNCHANGED busyLoops

\* Mutant: a pause ends without asking for the token.
Active_Always(run) == TRUE

(* ensureActive(), delay(): is this run still the latest of its key?       *)
Active(run) == runTokens[run.key] = run.token

(* The pause of a run is over.                                             *)
Resume ==
  \E run \in runs :
    /\ \/ Active(run) /\ Proceed(run, runs \ {run}, runTokens)
       \/ /\ ~Active(run)
          /\ runs' = runs \ {run}
          /\ busyKeys' = Released(run, runTokens)
          /\ UNCHANGED <<target, last, faults>>
    /\ UNCHANGED <<runTokens, busyLoops>>

(* A pass of loop l, of which `left` passes are to be made.  Its token is   *)
(* never another one's: busyLoops keeps a second rerun out, and this       *)
(* module does not call cancelLoop().                                      *)
Pass(l, left) ==
  /\ \/ Write(l) /\ busyLoops' = [busyLoops EXCEPT ![l] = left - 1]
     \/ Refused(l) /\ busyLoops' = [busyLoops EXCEPT ![l] = 0]
  /\ UNCHANGED <<runTokens, busyKeys, runs>>

RunLoopOnce(l) == busyLoops[l] = 0 /\ Pass(l, Passes)

(* The pause at the end of a pass is over.                                 *)
ResumeLoop == \E l \in Lists : busyLoops[l] > 0 /\ Pass(l, busyLoops[l])

(* checkFulfilled(): the checked state is the one this list asks for.      *)
CheckFulfilled(l) == target = l

-----------------------------------------------------------------------------
RunnerTypeOK ==
  /\ runTokens \in [Keys -> Nat]
  /\ busyKeys \subseteq Keys
  /\ busyLoops \in [Lists -> 0..(Passes - 1)]
  /\ runs \subseteq Run
  /\ {target, last} \subseteq Lists
  /\ faults \in 0..MaxFaults

(* A key is busy exactly while a run of it that has not been superseded is *)
(* in progress, and there is at most one: what the module asks the runner  *)
(* before it plays a loop again (isBusy).                                  *)
BusyWhileRunning ==
  \A k \in Keys :
    LET live == {r \in runs : r.key = k /\ Active(r)}
    IN  /\ \A r, s \in live : r = s
        /\ k \in busyKeys <=> live # {}
=============================================================================
