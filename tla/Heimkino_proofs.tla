-------------------------- MODULE Heimkino_proofs ---------------------------
(***************************************************************************)
(* The action runner and the home cinema for every value of the constants: *)
(* the types, what `busy` says of a key, that only the newest sequence      *)
(* writes, and that database, memory and published state agree at rest.    *)
(***************************************************************************)
EXTENDS Heimkino, TLAPS

USE RunnerAssumption DEF RunnerAssumption

\* A token is handed out once per key, and the paused runs hold old ones.
Distinct == \A r, s \in runs : r.key = s.key /\ r.token = s.token => r = s
Past == \A r \in runs : r.token <= runTokens[r.key]

RunnerInv == RunnerTypeOK /\ Distinct /\ Past /\ BusyWhileRunning

-----------------------------------------------------------------------------
LEMMA WriteTypes ==
  ASSUME RunnerTypeOK, NEW l \in Lists, Write(l) \/ Refused(l)
  PROVE  {target', last'} \subseteq Lists /\ faults' \in 0..MaxFaults
BY DEF RunnerTypeOK, Write, Refused

\* A run that goes on is the only active one of its key, before and after,
\* and of a key that ends its run nobody else is active.
LEMMA ProceedKeeps ==
  ASSUME RunnerTypeOK, NEW others \in SUBSET Run, NEW run \in Run,
         NEW tokens \in [Keys -> Nat],
         tokens[run.key] = run.token,
         \A r \in others : r.token <= tokens[r.key],
         \A r \in others : r.key = run.key => r.token # run.token,
         \A r, s \in others : r.key = s.key /\ r.token = s.token => r = s,
         \A k \in Keys \ {run.key} :
            k \in busyKeys <=> \E r \in others : r.key = k /\ tokens[k] = r.token,
         Proceed(run, others, tokens),
         runTokens' = tokens, UNCHANGED busyLoops
  PROVE  RunnerInv'
<1> DEFINE next == [run EXCEPT !.left = @ - 1]
<1>1. run.key \in Keys /\ run.list \in Lists /\ run.token \in Nat /\ run.left \in 1..Segments
  BY DEF Run
<1>2. {target', last'} \subseteq Lists /\ faults' \in 0..MaxFaults
  BY <1>1, WriteTypes DEF Proceed
<1>3. CASE runs' = others /\ busyKeys' = Released(run, tokens)
  <2>1. busyKeys' = busyKeys \ {run.key} BY <1>3 DEF Released
  <2>2. RunnerTypeOK' BY <1>2, <1>3, <2>1 DEF RunnerTypeOK
  <2>3. Distinct' /\ Past' BY <1>3 DEF Distinct, Past
  <2>4. BusyWhileRunning'
    BY <1>3, <2>1 DEF BusyWhileRunning, Active, Run
  <2> QED BY <2>2, <2>3, <2>4 DEF RunnerInv
<1>4. CASE /\ run.left # 1
           /\ runs' = others \cup {next}
           /\ busyKeys' = busyKeys \cup {run.key}
  <2>1. next \in Run BY <1>1, <1>4 DEF Run
  <2>2. next.key = run.key /\ next.token = run.token BY <1>1 DEF Run
  <2> HIDE DEF next
  <2>3. RunnerTypeOK' BY <1>1, <1>2, <1>4, <2>1 DEF RunnerTypeOK
  <2>4. Distinct' /\ Past' BY <1>1, <1>4, <2>2 DEF Distinct, Past
  <2>5. BusyWhileRunning'
    BY <1>1, <1>4, <2>2 DEF BusyWhileRunning, Active, Run
  <2> QED BY <2>3, <2>4, <2>5 DEF RunnerInv
<1> QED BY <1>3, <1>4 DEF Proceed

LEMMA BusyMeans ==
  ASSUME BusyWhileRunning
  PROVE  \A k \in Keys : k \in busyKeys <=> \E r \in runs : r.key = k /\ Active(r)
BY DEF BusyWhileRunning

LEMMA StartKeeps ==
  ASSUME RunnerInv, NEW k \in Keys, NEW l \in Lists, NEW n \in 0..Segments,
         Start(k, l, n)
  PROVE  RunnerInv' /\ \A r \in runs' : r.key = k /\ Active(r)' => r.list = l
<1> DEFINE run == [key |-> k, list |-> l, token |-> NextToken(k), left |-> n]
           tokens == [runTokens EXCEPT ![k] = NextToken(k)]
<1> USE DEF RunnerInv
<1>1. runTokens \in [Keys -> Nat] /\ NextToken(k) \in Nat /\ NextToken(k) = runTokens[k] + 1
  BY DEF RunnerTypeOK, NextToken
<1>2. tokens \in [Keys -> Nat] /\ tokens[k] = NextToken(k)
      /\ \A x \in Keys \ {k} : tokens[x] = runTokens[x]
  BY <1>1
<1>3. run.key = k /\ run.list = l /\ run.token = NextToken(k) /\ run.left = n OBVIOUS
<1>4. runTokens' = tokens BY DEF Start
<1> HIDE DEF tokens
<1>5. \A r \in runs : /\ r \in Run /\ r.key \in Keys /\ r.token \in Nat
                      /\ r.token <= tokens[r.key]
                      /\ r.key = k => r.token # NextToken(k)
  BY <1>1, <1>2 DEF RunnerTypeOK, Past, Run
<1>6. \A x \in Keys \ {k} :
        x \in busyKeys <=> \E r \in runs : r.key = x /\ tokens[x] = r.token
  <2> TAKE x \in Keys \ {k}
  <2>1. x \in busyKeys <=> \E r \in runs : r.key = x /\ Active(r) BY BusyMeans
  <2>2. tokens[x] = runTokens[x] BY <1>2
  <2>3. \A r \in runs : r.key = x => (Active(r) <=> tokens[x] = r.token) BY <2>2 DEF Active
  <2> HIDE DEF tokens
  <2> QED BY <2>1, <2>3
<1>7. CASE n = 0
  <2>1. /\ busyKeys' = busyKeys \ {k}
        /\ UNCHANGED <<runs, target, last, faults, busyLoops>>
    BY <1>2, <1>7 DEF Start, Released, tokens
  <2>2. RunnerTypeOK' BY <1>2, <1>4, <2>1 DEF RunnerTypeOK
  <2>3. Distinct' /\ Past' BY <1>4, <1>5, <2>1 DEF Distinct, Past
  <2>4. \A r \in runs' : r.key = k => ~Active(r)'
    BY <1>2, <1>4, <1>5, <2>1 DEF Active
  <2>5. BusyWhileRunning'
    BY <1>4, <1>5, <1>6, <2>1, <2>4 DEF BusyWhileRunning, Active, Distinct
  <2> QED BY <2>2, <2>3, <2>4, <2>5
<1>8. CASE n # 0
  <2>1. Proceed(run, runs, tokens) /\ UNCHANGED busyLoops
    BY <1>8 DEF Start, tokens
  <2>2. run \in Run BY <1>1, <1>8 DEF Run
  <2> HIDE DEF run
  <2>3. RunnerInv'
    <3>1. runs \in SUBSET Run BY DEF RunnerTypeOK
    <3>2. \A r, s \in runs : r.key = s.key /\ r.token = s.token => r = s BY DEF Distinct
    <3>3. tokens[run.key] = run.token BY <1>2, <1>3
    <3>4. \A r \in runs : r.key = run.key => r.token # run.token BY <1>3, <1>5
    <3>5. \A r \in runs : r.token <= tokens[r.key] BY <1>5
    <3>6. \A x \in Keys \ {run.key} :
            x \in busyKeys <=> \E r \in runs : r.key = x /\ tokens[x] = r.token
      BY <1>3, <1>6
    <3> QED
      BY <1>2, <1>4, <2>1, <2>2, <3>1, <3>2, <3>3, <3>4, <3>5, <3>6, ProceedKeeps
  <2>4. \A r \in runs' : r \in runs \/ r.list = l
    BY <1>3, <2>1, <2>2 DEF Proceed, Run
  <2>5. \A r \in runs : r.key = k => ~Active(r)'
    BY <1>2, <1>4, <1>5 DEF Active
  <2> QED BY <2>3, <2>4, <2>5
<1> QED BY <1>7, <1>8

LEMMA ResumeKeeps ==
  ASSUME RunnerInv, Resume
  PROVE  /\ RunnerInv'
         /\ runTokens' = runTokens
         /\ \A r \in runs' : \E s \in runs : s.key = r.key /\ s.token = r.token /\ s.list = r.list
         /\ last' # last => \E r \in runs : Active(r) /\ last' = r.list
<1> USE DEF RunnerInv
<1> PICK run \in runs :
      /\ \/ Active(run) /\ Proceed(run, runs \ {run}, runTokens)
         \/ /\ ~Active(run)
            /\ runs' = runs \ {run}
            /\ busyKeys' = Released(run, runTokens)
            /\ UNCHANGED <<target, last, faults>>
      /\ UNCHANGED <<runTokens, busyLoops>>
  BY DEF Resume
<1>1. \A r \in runs : r \in Run /\ r.key \in Keys /\ r.list \in Lists /\ r.token \in Nat
  BY DEF RunnerTypeOK, Run
<1>2. runTokens \in [Keys -> Nat] BY DEF RunnerTypeOK
<1>3. CASE Active(run) /\ Proceed(run, runs \ {run}, runTokens)
  <2>1. RunnerInv'
    <3>1. \A k \in Keys \ {run.key} :
            k \in busyKeys <=> \E r \in runs \ {run} : r.key = k /\ runTokens[k] = r.token
      BY <1>1, BusyMeans DEF Active
    <3>2. \A r \in runs \ {run} : r.key = run.key => r.token # run.token
      BY DEF Distinct
    <3>3. runTokens[run.key] = run.token BY <1>3 DEF Active
    <3>4. runs \ {run} \in SUBSET Run /\ run \in Run BY <1>1
    <3>5. \A r, s \in runs \ {run} : r.key = s.key /\ r.token = s.token => r = s
      BY DEF Distinct
    <3>6. \A r \in runs \ {run} : r.token <= runTokens[r.key] BY DEF Past
    <3> QED BY <1>2, <1>3, <3>1, <3>2, <3>3, <3>4, <3>5, <3>6, ProceedKeeps
  <2>2. \A r \in runs' : r \in runs \/ (r.key = run.key /\ r.token = run.token /\ r.list = run.list)
    BY <1>1, <1>3 DEF Proceed, Run
  <2>3. last' = run.list BY <1>3 DEF Proceed, Write, Refused
  <2> QED BY <1>3, <2>1, <2>2, <2>3
<1>4. CASE /\ ~Active(run)
           /\ runs' = runs \ {run}
           /\ busyKeys' = Released(run, runTokens)
           /\ UNCHANGED <<target, last, faults>>
  <2>1. busyKeys' = busyKeys BY <1>4 DEF Released, Active
  <2>2. RunnerTypeOK' BY <1>4, <2>1 DEF RunnerTypeOK
  <2>3. Distinct' /\ Past' BY <1>4 DEF Distinct, Past
  <2>4. BusyWhileRunning' BY <1>4, <2>1 DEF BusyWhileRunning, Active
  <2> QED BY <1>4, <2>2, <2>3, <2>4
<1> QED BY <1>3, <1>4

LEMMA PassKeeps ==
  ASSUME RunnerInv, NEW l \in Lists, NEW left \in 1..Passes, Pass(l, left)
  PROVE  RunnerInv'
<1> USE DEF RunnerInv
<1>1. {target', last'} \subseteq Lists /\ faults' \in 0..MaxFaults
  BY WriteTypes DEF Pass
<1>2. busyLoops' \in [Lists -> 0..(Passes - 1)] BY DEF Pass, RunnerTypeOK
<1>3. UNCHANGED <<runTokens, busyKeys, runs>> BY DEF Pass
<1> QED BY <1>1, <1>2, <1>3 DEF RunnerTypeOK, Distinct, Past, BusyWhileRunning, Active

LEMMA RunnerStutters ==
  ASSUME RunnerInv, UNCHANGED <<runTokens, busyKeys, busyLoops, runs, target, last, faults>>
  PROVE  RunnerInv'
BY DEF RunnerInv, RunnerTypeOK, Distinct, Past, BusyWhileRunning, Active

-----------------------------------------------------------------------------
(* The home cinema.                                                        *)
USE HeimkinoAssumption DEF HeimkinoAssumption, Modes, Reloaders

Requested ==
  [at : {"idle", "get", "got", "set", "stored", "reload"}, to : Modes, from : Modes]
Reloads == [at : {"idle", "list", "listed", "tree"}, snap : Modes]

\* The run that may go on is the one started last.
ActiveIsStarted == \A r \in runs : Active(r) => r.list = started

IInv == TypeOK /\ RunnerInv /\ ActiveIsStarted

ModuleTypeOK ==
  /\ db \in Modes
  /\ {room, pub} \subseteq Modes \cup {"none"}
  /\ tree \in BOOLEAN /\ calm \in BOOLEAN
  /\ loops \subseteq Checked
  /\ request \in [Requests -> Requested]
  /\ reloading \in [Reloaders -> Reloads]
  /\ {wanted, started} \subseteq Modes
  /\ count \in [switches : 0..MaxSwitches, edits : 0..MaxEdits, restarts : 0..MaxRestarts]

LEMMA Types == TypeOK <=> RunnerTypeOK /\ ModuleTypeOK
BY DEF TypeOK, ModuleTypeOK, Requested, Reloads

LEMMA InitInv == Init => IInv
<1> SUFFICES ASSUME Init PROVE IInv OBVIOUS
<1>1. RunnerTypeOK BY DEF Init, RunnerInit, RunnerTypeOK
<1>2. ModuleTypeOK
  BY DEF Init, ModuleTypeOK, NoRequest, NoReload, Requested, Reloads
<1>3. Distinct /\ Past /\ BusyWhileRunning /\ ActiveIsStarted
  BY DEF Init, RunnerInit, Distinct, Past, BusyWhileRunning, ActiveIsStarted
<1> QED BY <1>1, <1>2, <1>3, Types DEF IInv, RunnerInv

\* A step that leaves the runner alone.
LEMMA Apart ==
  ASSUME IInv, UNCHANGED <<runnerVars, started>>, ModuleTypeOK'
  PROVE  IInv'
<1>1. RunnerInv' BY RunnerStutters DEF IInv, runnerVars
<1>2. ActiveIsStarted' BY DEF IInv, ActiveIsStarted, Active, runnerVars
<1>3. TypeOK' BY <1>1 DEF RunnerInv, TypeOK, ModuleTypeOK, Requested, Reloads
<1> QED BY <1>1, <1>2, <1>3 DEF IInv

\* A step that starts a sequence.
LEMMA Phase ==
  ASSUME IInv, NEW m \in Modes, RunPhase(m), ModuleTypeOK'
  PROVE  IInv'
<1>1. Room \in Keys /\ m \in Lists OBVIOUS
<1>2. PICK n \in 0..Segments : Start(Room, m, n) BY DEF RunPhase
<1>3. RunnerInv /\ RunnerTypeOK BY DEF IInv, RunnerInv
<1>4. RunnerInv' /\ \A r \in runs' : r.key = Room /\ Active(r)' => r.list = m
  BY ONLY <1>1, <1>2, <1>3, StartKeeps
<1>5. \A r \in runs' : r.key = Room BY <1>4 DEF RunnerInv, RunnerTypeOK, Run
<1>6. started' = m BY DEF RunPhase
<1>7. ActiveIsStarted' BY <1>4, <1>5, <1>6 DEF ActiveIsStarted
<1>8. TypeOK' BY <1>4 DEF RunnerInv, TypeOK, ModuleTypeOK, Requested, Reloads
<1> QED BY <1>4, <1>7, <1>8 DEF IInv

LEMMA NextInv == IInv /\ [Next]_vars => IInv'
<1> SUFFICES ASSUME IInv, [Next]_vars PROVE IInv' OBVIOUS
<1>t. RunnerTypeOK /\ ModuleTypeOK BY Types DEF IInv
<1> USE <1>t DEF NoRequest, NoReload, Requested, Reloads, Edit
<1>1. CASE \E r \in Requests, m \in Modes : Switch(r, m)
  <2> PICK r \in Requests, m \in Modes : Switch(r, m) BY <1>1
  <2>1. ModuleTypeOK' BY DEF ModuleTypeOK, Switch, Quiet
  <2> QED BY <2>1, Apart DEF Switch
<1>2. CASE \E r \in Requests : GetRoom(r)
  <2> PICK r \in Requests : GetRoom(r) BY <1>2
  <2>1. request[r] \in Requested /\ db \in Modes BY DEF ModuleTypeOK
  <2>2. [request[r] EXCEPT !.at = "got", !.from = db] \in Requested BY <2>1
  <2>3. request' = [request EXCEPT ![r] = [request[r] EXCEPT !.at = "got", !.from = db]]
    BY <2>1 DEF GetRoom, ModuleTypeOK
  <2>4. request' \in [Requests -> Requested] BY <2>2, <2>3 DEF ModuleTypeOK
  <2> HIDE DEF Requested
  <2>5. ModuleTypeOK' BY <2>4 DEF ModuleTypeOK, GetRoom
  <2> QED BY <2>5, Apart DEF GetRoom
<1>3. CASE \E r \in Requests : Publish(r)
  <2> PICK r \in Requests : Publish(r) BY <1>3
  <2>1. ModuleTypeOK' BY DEF ModuleTypeOK, Publish
  <2> QED BY <2>1, Apart DEF Publish
<1>4. CASE \E r \in Requests : SetCinemaOn(r)
  <2> PICK r \in Requests : SetCinemaOn(r) BY <1>4
  <2>1. ModuleTypeOK' BY DEF ModuleTypeOK, SetCinemaOn
  <2> QED BY <2>1, Apart DEF SetCinemaOn
<1>5. CASE \E r \in Requests : Apply(r)
  <2> PICK r \in Requests : Apply(r) BY <1>5
  <2>1. request[r].to \in Modes BY DEF ModuleTypeOK
  <2>2. ModuleTypeOK' BY <2>1 DEF ModuleTypeOK, Apply, RunPhase
  <2> QED BY <2>1, <2>2, Phase DEF Apply
<1>6. CASE \E r \in Requests : ApplyUnloaded(r)
  <2> PICK r \in Requests : ApplyUnloaded(r) BY <1>6
  <2>1. request' \in [Requests -> Requested]
    <3>1. request[r] \in Requested BY DEF ModuleTypeOK
    <3>2. [request[r] EXCEPT !.at = "reload"] \in Requested BY <3>1
    <3>3. request' = [request EXCEPT ![r] = [request[r] EXCEPT !.at = "reload"]]
      BY DEF ApplyUnloaded, ModuleTypeOK
    <3> HIDE DEF Requested
    <3> QED BY <3>2, <3>3 DEF ModuleTypeOK
  <2>2. reloading' \in [Reloaders -> Reloads]
    BY DEF ModuleTypeOK, ApplyUnloaded, BeginReload
  <2> HIDE DEF Requested, Reloads
  <2>3. ModuleTypeOK' BY <2>1, <2>2 DEF ModuleTypeOK, ApplyUnloaded, BeginReload
  <2> QED BY <2>3, Apart DEF ApplyUnloaded
<1>7. CASE \E r \in Requests : ApplyReloaded(r)
  <2> PICK r \in Requests : ApplyReloaded(r) BY <1>7
  <2>1. request[r].to \in Modes BY DEF ModuleTypeOK
  <2>2. ModuleTypeOK' BY <2>1 DEF ModuleTypeOK, ApplyReloaded, RunPhase
  <2> QED BY <2>1, <2>2, Phase DEF ApplyReloaded
<1>8. CASE SaveEdit
  <2>1. reloading' \in [Reloaders -> Reloads]
    BY <1>8 DEF ModuleTypeOK, SaveEdit, BeginReload
  <2>2. count' \in [switches : 0..MaxSwitches, edits : 0..MaxEdits, restarts : 0..MaxRestarts]
    BY <1>8 DEF ModuleTypeOK, SaveEdit
  <2>3. calm' \in BOOLEAN BY <1>8 DEF SaveEdit, Quiet
  <2> HIDE DEF Requested, Reloads
  <2>4. ModuleTypeOK' BY <1>8, <2>1, <2>2, <2>3 DEF ModuleTypeOK, SaveEdit, BeginReload
  <2> QED BY <1>8, <2>4, Apart DEF SaveEdit
<1>9. CASE \E x \in Reloaders : Reload(x)
  <2> PICK x \in Reloaders : Reload(x) BY <1>9
  <2>1. CASE ListRooms(x)
    <3>1. ModuleTypeOK' BY <2>1 DEF ModuleTypeOK, ListRooms
    <3> QED BY <2>1, <3>1, Apart DEF ListRooms
  <2>2. CASE EnterRoom(x)
    <3>1. ModuleTypeOK' BY <2>2 DEF ModuleTypeOK, EnterRoom
    <3> QED BY <2>2, <3>1, Apart DEF EnterRoom
  <2>3. CASE EnterTree(x)
    <3>1. ModuleTypeOK' BY <2>3 DEF ModuleTypeOK, EnterTree
    <3> QED BY <2>3, <3>1, Apart DEF EnterTree
  <2> QED BY <2>1, <2>2, <2>3 DEF Reload
<1>10. CASE \E l \in Modes : CheckLoop(l)
  <2> PICK l \in Modes : CheckLoop(l) BY <1>10
  <2>1. Pass(l, Passes) BY DEF CheckLoop, RunLoopOnce
  <2>2. RunnerInv' BY <2>1, PassKeeps DEF IInv
  <2>3. ModuleTypeOK' BY DEF CheckLoop, moduleVars, ModuleTypeOK
  <2>4. ActiveIsStarted'
    BY <2>1 DEF IInv, ActiveIsStarted, Active, Pass, CheckLoop, moduleVars
  <2> QED BY <2>2, <2>3, <2>4 DEF IInv, RunnerInv, TypeOK, ModuleTypeOK
<1>11. CASE Resume /\ UNCHANGED moduleVars
  <2>1. RunnerInv' BY <1>11, ResumeKeeps DEF IInv
  <2>2. ModuleTypeOK' BY <1>11 DEF moduleVars, ModuleTypeOK
  <2>3. ActiveIsStarted'
    BY <1>11, ResumeKeeps DEF IInv, ActiveIsStarted, Active, moduleVars
  <2> QED BY <2>1, <2>2, <2>3 DEF IInv, RunnerInv, TypeOK, ModuleTypeOK
<1>12. CASE ResumeLoop /\ UNCHANGED moduleVars
  <2> PICK l \in Lists : busyLoops[l] > 0 /\ Pass(l, busyLoops[l]) BY <1>12 DEF ResumeLoop
  <2>1. busyLoops[l] \in 1..Passes BY DEF RunnerTypeOK
  <2>2. RunnerInv' BY <2>1, PassKeeps DEF IInv
  <2>3. ModuleTypeOK' BY <1>12 DEF moduleVars, ModuleTypeOK
  <2>4. ActiveIsStarted'
    BY <1>12 DEF IInv, ActiveIsStarted, Active, Pass, moduleVars
  <2> QED BY <2>2, <2>3, <2>4 DEF IInv, RunnerInv, TypeOK, ModuleTypeOK
<1>13. CASE Restart
  <2>1. ModuleTypeOK'
    <3>1. request' \in [Requests -> Requested] /\ reloading' \in [Reloaders -> Reloads]
      BY <1>13 DEF Restart
    <3>2. count' \in [switches : 0..MaxSwitches, edits : 0..MaxEdits, restarts : 0..MaxRestarts]
      BY <1>13 DEF Restart, ModuleTypeOK
    <3> HIDE DEF Requested, Reloads
    <3> QED BY <1>13, <3>1, <3>2 DEF Restart, ModuleTypeOK
  <2>2. RunnerTypeOK' BY <1>13 DEF Restart, RunnerTypeOK
  <2>3. /\ Distinct' /\ Past' /\ BusyWhileRunning' /\ ActiveIsStarted'
    BY <1>13 DEF Restart, Distinct, Past, BusyWhileRunning, ActiveIsStarted
  <2> QED BY <2>1, <2>2, <2>3 DEF IInv, RunnerInv, TypeOK, ModuleTypeOK
<1>14. CASE UNCHANGED vars
  <2>1. ModuleTypeOK' BY <1>14 DEF vars, moduleVars, ModuleTypeOK
  <2> QED BY <1>14, <2>1, Apart DEF vars, moduleVars
<1> QED
  BY <1>1, <1>2, <1>3, <1>4, <1>5, <1>6, <1>7, <1>8, <1>9, <1>10, <1>11, <1>12, <1>13, <1>14
  DEF Next, Request, PauseEnds

-----------------------------------------------------------------------------
LEMMA Invariance == Spec => []IInv
<1>1. Init => IInv BY InitInv
<1>2. IInv /\ [Next]_vars => IInv' BY NextInv
<1> QED BY <1>1, <1>2, PTL DEF Spec

(* Every variable of the runner and of the home cinema keeps its type.     *)
THEOREM TypeCorrect == Spec => []TypeOK
<1>1. IInv => TypeOK BY DEF IInv
<1> QED BY <1>1, Invariance, PTL

(* What runtime.js:227 asks of isBusy(): a key is busy exactly while one   *)
(* run of it that was not superseded is in progress, however many          *)
(* superseded ones still wait in a pause.                                  *)
THEOREM BusyIsOneRun == Spec => []BusyWhileRunning
<1>1. IInv => BusyWhileRunning BY DEF IInv, RunnerInv
<1> QED BY <1>1, Invariance, PTL

(* runtime.js:7-9: no sequence writes once a newer one of the room has     *)
(* begun, however many requests, reloads and restarts overlap.             *)
THEOREM NewestWrites == Spec => NewestSequenceWrites
<1>1. IInv /\ [Next]_vars => [(runs' # runs /\ last' # last) => last' = started']_vars
  <2> SUFFICES ASSUME IInv, Next, runs' # runs, last' # last PROVE last' = started'
    BY DEF vars, runnerVars
  <2>1. CASE \E r \in Requests : Apply(r) \/ ApplyReloaded(r)
    <3> PICK m \in Modes : RunPhase(m)
      BY <2>1, Types DEF Apply, ApplyReloaded, IInv, ModuleTypeOK, Requested
    <3> QED BY DEF RunPhase, Start, Proceed, Write, Refused
  <2>2. CASE Resume /\ UNCHANGED moduleVars
    BY <2>2, ResumeKeeps DEF IInv, ActiveIsStarted, moduleVars
  <2>3. CASE Restart BY <2>3 DEF Restart
  <2> QED
    BY <2>1, <2>2, <2>3
    DEF Next, Request, PauseEnds, Switch, GetRoom, Publish, SetCinemaOn, ApplyUnloaded,
        SaveEdit, Reload, ListRooms, EnterRoom, EnterTree, CheckLoop, RunLoopOnce,
        ResumeLoop, Pass, runnerVars
<1> QED BY <1>1, Invariance, PTL DEF Spec, NewestSequenceWrites
-----------------------------------------------------------------------------
(* At rest the three copies of the mode agree.                             *)
\* Memory, database and published state of a room nothing happens to.
Agreed == db = room /\ room = pub
Untouched == count.edits = 0 /\ count.restarts = 0

\* A request that met nothing else: what each of its steps has done by then.
RequestSound(r) ==
  /\ request[r].to = wanted
  /\ tree /\ room \in Modes
  /\ request[r].at \in {"get", "got"} => Agreed
  /\ request[r].at = "got" => request[r].from = db
  /\ request[r].at = "set" => room = db
  /\ request[r].at \in {"set", "stored"} => pub = wanted
  /\ request[r].at = "stored" => db = wanted

\* A reload that met nothing else.
ReloadSound ==
  /\ \A r \in Requests : request[r].at = "idle"
  /\ reloading[Edit].at = "listed" => reloading[Edit].snap = db
  /\ reloading[Edit].at = "tree" => Agreed
  /\ ~Untouched

Rest ==
  /\ Agreed
  /\ tree
  /\ Untouched => db = wanted

\* As long as no two met, at most one is under way, and it is sound.
CalmInv ==
  calm =>
    /\ \A r \in Requests : reloading[r].at = "idle" /\ request[r].at # "reload"
    /\ \A r, s \in Requests : request[r].at # "idle" /\ request[s].at # "idle" => r = s
    /\ reloading[Edit].at # "idle" => ReloadSound
    /\ \A r \in Requests : request[r].at # "idle" => RequestSound(r) /\ reloading[Edit].at = "idle"
    /\ Quiet => Rest

LEMMA InitCalm == Init => CalmInv
BY DEF Init, CalmInv, ReloadSound, RequestSound, Rest, Agreed, Untouched, Quiet,
       NoRequest, NoReload, Edit

\* What the invariant reads; a step that leaves all of it alone keeps it.
calmVars == <<db, room, tree, pub, request, reloading, calm, wanted, count>>

LEMMA CalmStutters == ASSUME CalmInv, UNCHANGED calmVars PROVE CalmInv'
BY DEF CalmInv, ReloadSound, RequestSound, Rest, Agreed, Untouched, Quiet, calmVars

\* A step of the only request: after it the request is sound, or it is over
\* and the room is at rest.
LEMMA RequestSteps ==
  ASSUME CalmInv, ModuleTypeOK, NEW r \in Requests, request[r].at # "idle",
         UNCHANGED <<reloading, calm, wanted, count>>,
         NEW q \in Requested, request' = [request EXCEPT ![r] = q],
         calm => /\ q.at # "reload"
                 /\ q.at # "idle" => RequestSound(r)'
                 /\ q.at = "idle" => Rest'
  PROVE  CalmInv'
<1> SUFFICES ASSUME calm PROVE CalmInv' BY DEF CalmInv
<1>1. request'[r] = q /\ \A s \in Requests \ {r} : request'[s] = request[s]
  BY DEF ModuleTypeOK
<1>2. \A s \in Requests \ {r} : request[s].at = "idle" BY DEF CalmInv
<1>3. \A s \in Requests : request'[s].at # "idle" => s = r BY <1>1, <1>2
<1>4. \A s \in Requests : reloading'[s].at = "idle" /\ request'[s].at # "reload"
  BY <1>1 DEF CalmInv
<1>5. reloading'[Edit].at = "idle" BY DEF CalmInv
<1>6. \A s \in Requests : request'[s].at # "idle" => RequestSound(s)' BY <1>1, <1>3
<1>7. Quiet' => Rest' BY <1>1 DEF Quiet
<1> QED BY <1>3, <1>4, <1>5, <1>6, <1>7 DEF CalmInv

\* A step of the only reload.
LEMMA ReloadSteps ==
  ASSUME CalmInv, ModuleTypeOK, NEW x \in Reloaders, reloading[x].at # "idle",
         UNCHANGED <<db, request, calm, wanted, count>>,
         NEW q \in Reloads, reloading' = [reloading EXCEPT ![x] = q],
         calm => /\ q.at = "listed" => q.snap = db
                 /\ q.at = "tree" => Agreed'
                 /\ q.at = "idle" => Agreed' /\ tree'
  PROVE  CalmInv'
<1> SUFFICES ASSUME calm PROVE CalmInv' BY DEF CalmInv
<1>1. x = Edit BY DEF CalmInv
<1>2. reloading'[Edit] = q /\ \A r \in Requests : reloading'[r] = reloading[r]
  BY <1>1 DEF ModuleTypeOK
<1>3. \A r \in Requests : request'[r].at = "idle" BY <1>1 DEF CalmInv, ReloadSound
<1>4. ~Untouched' BY <1>1 DEF CalmInv, ReloadSound, Untouched
<1>5. ReloadSound' BY <1>2, <1>3, <1>4 DEF ReloadSound
<1>6. Quiet' => Rest' BY <1>2, <1>4 DEF Quiet, Rest
<1>7. \A r \in Requests : reloading'[r].at = "idle" BY <1>2 DEF CalmInv
<1> QED BY <1>3, <1>5, <1>6, <1>7 DEF CalmInv

\* A reload that begins alone, by an edit or by a start.
LEMMA ReloadBegins ==
  ASSUME ~Untouched',
         reloading'[Edit] = [at |-> "list", snap |-> "off"],
         calm' => \A r \in Requests : request'[r].at = "idle" /\ reloading'[r].at = "idle"
  PROVE  CalmInv'
<1>1. ~Quiet' BY DEF Quiet
<1> QED BY <1>1 DEF CalmInv, ReloadSound

LEMMA NextCalm == TypeOK /\ CalmInv /\ [Next]_vars => CalmInv'
<1> SUFFICES ASSUME ModuleTypeOK, CalmInv, [Next]_vars PROVE CalmInv' BY Types
<1> USE DEF Requested, Reloads, NoRequest, NoReload
<1>1. ASSUME NEW r \in Requests, NEW m \in Modes, Switch(r, m) PROVE CalmInv'
  <2> SUFFICES ASSUME calm, Quiet PROVE CalmInv' BY <1>1 DEF Switch, CalmInv
  <2> DEFINE q == [at |-> "get", to |-> m, from |-> "off"]
  <2>1. request'[r] = q /\ \A s \in Requests \ {r} : request'[s].at = "idle"
    BY <1>1 DEF Switch, Quiet, ModuleTypeOK
  <2>2. \A x \in Reloaders : reloading'[x].at = "idle" BY <1>1 DEF Switch, Quiet
  <2>3. Agreed' /\ tree' /\ room' \in Modes
    BY <1>1 DEF CalmInv, Rest, Agreed, Switch, ModuleTypeOK
  <2>4. RequestSound(r)' BY <1>1, <2>1, <2>3 DEF RequestSound, Switch
  <2>5. ~Quiet' BY <2>1 DEF Quiet
  <2>6. \A s \in Requests : request'[s].at # "idle" => s = r BY <2>1
  <2>7. \A s \in Requests : request'[s].at # "reload" BY <2>1
  <2>8. \A s \in Requests : request'[s].at # "idle" => RequestSound(s)' BY <2>4, <2>6
  <2> HIDE DEF q
  <2> QED BY <2>2, <2>5, <2>6, <2>7, <2>8 DEF CalmInv
<1>2. ASSUME NEW r \in Requests, GetRoom(r) PROVE CalmInv'
  <2> DEFINE q == [request[r] EXCEPT !.at = "got", !.from = db]
  <2>1. request[r] \in Requested /\ db \in Modes BY DEF ModuleTypeOK
  <2>2. q \in Requested /\ q.at = "got" /\ q.from = db /\ q.to = request[r].to BY <2>1
  <2>3. request' = [request EXCEPT ![r] = q] BY <1>2 DEF GetRoom, ModuleTypeOK
  <2>4. request'[r] = q BY <2>3 DEF ModuleTypeOK
  <2> HIDE DEF q, Requested
  <2>5. calm => RequestSound(r)'
    BY <1>2, <2>2, <2>4 DEF CalmInv, RequestSound, GetRoom, Agreed
  <2> QED BY <1>2, <2>2, <2>3, <2>5, RequestSteps DEF GetRoom
<1>3. ASSUME NEW r \in Requests, Publish(r) PROVE CalmInv'
  <2>1. request[r] \in Requested BY DEF ModuleTypeOK
  <2>2. CASE request[r].from = request[r].to
    <3>1. request' = [request EXCEPT ![r] = NoRequest] BY <1>3, <2>2 DEF Publish
    <3>2. calm => Rest'
      BY <1>3, <2>2 DEF CalmInv, RequestSound, Rest, Agreed, Publish, Untouched
    <3>3. NoRequest \in Requested /\ NoRequest.at = "idle" OBVIOUS
    <3> HIDE DEF NoRequest, Requested
    <3> QED BY <1>3, <3>1, <3>2, <3>3, RequestSteps DEF Publish
  <2>3. CASE request[r].from # request[r].to
    <3> DEFINE q == [request[r] EXCEPT !.at = "set"]
    <3>1. q \in Requested /\ q.at = "set" /\ q.to = request[r].to BY <2>1
    <3>2. request' = [request EXCEPT ![r] = q] BY <1>3, <2>3 DEF Publish, ModuleTypeOK
    <3>3. request'[r] = q BY <3>2 DEF ModuleTypeOK
    <3> HIDE DEF q, Requested
    <3>4. calm => RequestSound(r)'
      BY <1>3, <3>1, <3>3 DEF CalmInv, RequestSound, Publish, Agreed
    <3> QED BY <1>3, <3>1, <3>2, <3>4, RequestSteps DEF Publish
  <2> QED BY <2>2, <2>3
<1>4. ASSUME NEW r \in Requests, SetCinemaOn(r) PROVE CalmInv'
  <2> DEFINE q == [request[r] EXCEPT !.at = "stored"]
  <2>1. request[r] \in Requested BY DEF ModuleTypeOK
  <2>2. q \in Requested /\ q.at = "stored" /\ q.to = request[r].to BY <2>1
  <2>3. request' = [request EXCEPT ![r] = q] BY <1>4 DEF SetCinemaOn, ModuleTypeOK
  <2>4. request'[r] = q BY <2>3 DEF ModuleTypeOK
  <2> HIDE DEF q, Requested
  <2>5. calm => RequestSound(r)'
    BY <1>4, <2>2, <2>4 DEF CalmInv, RequestSound, SetCinemaOn
  <2> QED BY <1>4, <2>2, <2>3, <2>5, RequestSteps DEF SetCinemaOn
<1>5. ASSUME NEW r \in Requests, Apply(r) PROVE CalmInv'
  <2>1. NoRequest \in Requested /\ NoRequest.at = "idle" OBVIOUS
  <2>2. calm => Rest'
    BY <1>5 DEF CalmInv, RequestSound, Rest, Agreed, Apply, Untouched
  <2> HIDE DEF NoRequest, Requested
  <2> QED BY <1>5, <2>1, <2>2, RequestSteps DEF Apply
<1>6. ASSUME NEW r \in Requests, ApplyUnloaded(r) PROVE CalmInv'
  BY <1>6 DEF ApplyUnloaded, CalmInv, RequestSound
<1>7. ASSUME NEW r \in Requests, ApplyReloaded(r) PROVE CalmInv'
  BY <1>7 DEF ApplyReloaded, CalmInv
<1>8. CASE SaveEdit
  <2>1. reloading'[Edit] = [at |-> "list", snap |-> "off"]
        /\ \A r \in Requests : reloading'[r] = reloading[r]
    BY <1>8 DEF SaveEdit, BeginReload, ModuleTypeOK
  <2>2. ~Untouched' BY <1>8 DEF SaveEdit, ModuleTypeOK, Untouched
  <2> QED BY <1>8, <2>1, <2>2, ReloadBegins DEF SaveEdit, Quiet
<1>9. ASSUME NEW x \in Reloaders, ListRooms(x) PROVE CalmInv'
  <2> DEFINE q == [at |-> "listed", snap |-> db]
  <2>1. q \in Reloads BY DEF ModuleTypeOK
  <2> QED BY <1>9, <2>1, ReloadSteps DEF ListRooms
<1>10. ASSUME NEW x \in Reloaders, EnterRoom(x) PROVE CalmInv'
  <2> DEFINE q == [reloading[x] EXCEPT !.at = "tree"]
  <2>1. reloading[x] \in Reloads BY DEF ModuleTypeOK
  <2>2. q \in Reloads /\ q.at = "tree" BY <2>1
  <2>3. reloading' = [reloading EXCEPT ![x] = q] BY <1>10 DEF EnterRoom, ModuleTypeOK
  <2>4. calm => Agreed' BY <1>10 DEF CalmInv, ReloadSound, EnterRoom, Agreed
  <2> HIDE DEF q, Reloads
  <2> QED BY <1>10, <2>2, <2>3, <2>4, ReloadSteps DEF EnterRoom
<1>11. ASSUME NEW x \in Reloaders, EnterTree(x) PROVE CalmInv'
  <2>1. NoReload \in Reloads /\ NoReload.at = "idle" OBVIOUS
  <2>2. calm => Agreed' BY <1>11 DEF CalmInv, ReloadSound, EnterTree, Agreed
  <2> HIDE DEF NoReload, Reloads
  <2> QED BY <1>11, <2>1, <2>2, ReloadSteps DEF EnterTree
<1>12. CASE Restart
  <2>1. reloading'[Edit] = [at |-> "list", snap |-> "off"]
        /\ \A r \in Requests : reloading'[r].at = "idle" /\ request'[r].at = "idle"
    BY <1>12 DEF Restart
  <2>2. ~Untouched' BY <1>12 DEF Restart, ModuleTypeOK, Untouched
  <2> QED BY <2>1, <2>2, ReloadBegins
<1>13. CASE UNCHANGED calmVars BY <1>13, CalmStutters
<1> QED
  BY <1>1, <1>2, <1>3, <1>4, <1>5, <1>6, <1>7, <1>8, <1>9, <1>10, <1>11, <1>12, <1>13
  DEF Next, Request, Reload, PauseEnds, CheckLoop, moduleVars, vars, calmVars

(* With no request and no reload under way, and none that met another, the *)
(* database, roomsById and the published state hold the same mode, and it   *)
(* is the one asked for last unless an edit or a restart came between:     *)
(* each segment of applyRoomState() and of reload() leaves behind exactly   *)
(* what the next one relies on.                                            *)
THEOREM ThreeCopiesAgree == Spec => []AgreeAtRest
<1>1. Init => CalmInv BY InitCalm
<1>2. TypeOK /\ CalmInv /\ [Next]_vars => CalmInv' BY NextCalm
<1>3. CalmInv => AgreeAtRest BY DEF CalmInv, Rest, Agreed, Untouched, AgreeAtRest
<1> QED BY <1>1, <1>2, <1>3, TypeCorrect, PTL DEF Spec
=============================================================================
