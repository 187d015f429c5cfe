------------------------------ MODULE Heimkino ------------------------------
(***************************************************************************)
(* src/src/heimkino/runtime.js: the home cinema.  A room has a mode, on or *)
(* off.  A switch request reads the room from the database, publishes and  *)
(* stores the new mode and plays the list of that mode through the action  *)
(* runner; a loop with a check is played again while its check fails.      *)
(*                                                                         *)
(* One room without a Sync topic (rooms share nothing but the timer).      *)
(* applyRoomState() and reload() await the database, and each of their     *)
(* segments is an action: any two activations interleave at those points,  *)
(* and the pauses of the sequences with both of them.  An interval that    *)
(* elapses is a step of CheckLoop that may happen.                         *)
(***************************************************************************)
EXTENDS ActionRunner

CONSTANTS Requests,      \* bound: switch requests handled at the same time
          Checked,       \* the lists that hold a loop with a check
          MaxSwitches,   \* bound: switch requests
          MaxEdits,      \* bound: saved edits, each one reloads
          MaxRestarts    \* bound: restarts of the process

Modes == {"on", "off"}
Room == "room"

(* Whoever may be in reload(): an edit or the start, or a switch request.  *)
Edit == "edit"
Reloaders == {Edit} \cup Requests

ASSUME HeimkinoAssumption ==
  /\ Keys = {Room} /\ Lists = Modes
  /\ Edit \notin Requests
  /\ Checked \subseteq Modes
  /\ {MaxSwitches, MaxEdits, MaxRestarts} \subseteq Nat

VARIABLES
  db,         \* cinema_on in the database
  room,       \* cinemaOn of the entry in roomsById, "none": no entry
  tree,       \* treesByRoom has the room
  loops,      \* the loops loaded
  pub,        \* the published state of the room
  request,    \* request -> [at, to, from]
  reloading,  \* reloader -> [at, snap]
  calm,       \* history: no two of these overlapped since a reload alone
  wanted,     \* history: the mode asked for last
  started,    \* history: the list of the run started last
  count       \* counters for the bounds

moduleVars == <<db, room, tree, loops, pub, request, reloading, calm, wanted,
                started, count>>
vars == <<runnerVars, moduleVars>>

NoRequest == [at |-> "idle", to |-> "off", from |-> "off"]
NoReload == [at |-> "idle", snap |-> "off"]

Init ==
  /\ RunnerInit
  /\ target = "off" /\ last = "off"
  /\ db = "off" /\ room = "off" /\ pub = "off"
  /\ tree = TRUE
  /\ loops = Checked
  /\ request = [r \in Requests |-> NoRequest]
  /\ reloading = [r \in Reloaders |-> NoReload]
  /\ calm = TRUE
  /\ wanted = "off" /\ started = "off"
  /\ count = [switches |-> 0, edits |-> 0, restarts |-> 0]

(* No request and no reload is under way.                                  *)
Quiet ==
  /\ \A r \in Requests : request[r].at = "idle"
  /\ \A r \in Reloaders : reloading[r].at = "idle"

-----------------------------------------------------------------------------
(* setRoomState(): a click, or a write to heimkino://raeume/<id>.          *)
Switch(r, m) ==
  /\ request[r].at = "idle"
  /\ count.switches < MaxSwitches
  /\ count' = [count EXCEPT !.switches = @ + 1]
  /\ request' = [request EXCEPT ![r] = [at |-> "get", to |-> m, from |-> "off"]]
  /\ calm' = (calm /\ Quiet)
  /\ wanted' = m
  /\ UNCHANGED <<runnerVars, db, room, tree, loops, pub, reloading, started>>

(* The database answers getRoom().                                         *)
GetRoom(r) ==
  /\ request[r].at = "get"
  /\ request' = [request EXCEPT ![r].at = "got", ![r].from = db]
  /\ UNCHANGED <<runnerVars, db, room, tree, loops, pub, reloading, calm, wanted,
                 started, count>>

(* applyRoomState() after getRoom(): a mode the room already has ends it.  *)
Publish(r) ==
  /\ request[r].at = "got"
  /\ pub' = request[r].to
  /\ request' = IF request[r].from = request[r].to
                THEN [request EXCEPT ![r] = NoRequest]
                ELSE [request EXCEPT ![r].at = "set"]
  /\ UNCHANGED <<runnerVars, db, room, tree, loops, reloading, calm, wanted,
                 started, count>>

(* The database stores cinema_on.                                          *)
SetCinemaOn(r) ==
  /\ request[r].at = "set"
  /\ db' = request[r].to
  /\ request' = [request EXCEPT ![r].at = "stored"]
  /\ UNCHANGED <<runnerVars, room, tree, loops, pub, reloading, calm, wanted,
                 started, count>>

(* runPhase(): play the list of mode m; a room without a tree has no list. *)
RunPhase(m) ==
  /\ Start(Room, m, IF tree THEN Segments ELSE 0)
  /\ started' = m

(* applyRoomState() after setCinemaOn().                                   *)
Apply(r) ==
  /\ request[r].at = "stored" /\ tree
  /\ room' = request[r].to
  /\ RunPhase(request[r].to)
  /\ request' = [request EXCEPT ![r] = NoRequest]
  /\ UNCHANGED <<db, tree, loops, pub, reloading, calm, wanted, count>>

(* The synchronous beginning of reload() by x.                             *)
BeginReload(x) ==
  /\ reloading' = [reloading EXCEPT ![x] = [at |-> "list", snap |-> "off"]]
  /\ tree' = FALSE
  /\ loops' = {}

(* applyRoomState() after setCinemaOn(), while the trees are not loaded:   *)
(* it reloads first, and the entry it has just made goes with the rest.    *)
ApplyUnloaded(r) ==
  /\ request[r].at = "stored" /\ ~tree
  /\ BeginReload(r)
  /\ room' = "none"
  /\ request' = [request EXCEPT ![r].at = "reload"]
  /\ UNCHANGED <<runnerVars, db, pub, calm, wanted, started, count>>

ApplyReloaded(r) ==
  /\ request[r].at = "reload" /\ reloading[r].at = "idle"
  /\ RunPhase(request[r].to)
  /\ request' = [request EXCEPT ![r] = NoRequest]
  /\ UNCHANGED <<db, room, tree, loops, pub, reloading, calm, wanted, count>>

-----------------------------------------------------------------------------
(* An edit of the room or its lists is saved.  A reload that meets nothing *)
(* else makes memory and published state agree with the database again.    *)
SaveEdit ==
  /\ reloading[Edit].at = "idle"
  /\ count.edits < MaxEdits
  /\ count' = [count EXCEPT !.edits = @ + 1]
  /\ BeginReload(Edit)
  /\ room' = "none"
  /\ calm' = Quiet
  /\ UNCHANGED <<runnerVars, db, pub, request, wanted, started>>

(* The database answers listRooms().                                       *)
ListRooms(x) ==
  /\ reloading[x].at = "list"
  /\ reloading' = [reloading EXCEPT ![x] = [at |-> "listed", snap |-> db]]
  /\ UNCHANGED <<runnerVars, db, room, tree, loops, pub, request, calm, wanted,
                 started, count>>

\* Mutant: the loaded mode is not published.
EnterRoom_KeepPub(x) ==
  /\ reloading[x].at = "listed"
  /\ room' = reloading[x].snap
  /\ reloading' = [reloading EXCEPT ![x].at = "tree"]
  /\ UNCHANGED <<runnerVars, db, tree, loops, pub, request, calm, wanted, started,
                 count>>

(* reload() after listRooms(): the entry is the snapshot.                  *)
EnterRoom(x) ==
  /\ reloading[x].at = "listed"
  /\ room' = reloading[x].snap
  /\ pub' = reloading[x].snap
  /\ reloading' = [reloading EXCEPT ![x].at = "tree"]
  /\ UNCHANGED <<runnerVars, db, tree, loops, request, calm, wanted, started, count>>

(* reload() after actionTree(): lists and loops, and the end of it.        *)
EnterTree(x) ==
  /\ reloading[x].at = "tree"
  /\ tree' = TRUE
  /\ loops' = loops \cup Checked
  /\ reloading' = [reloading EXCEPT ![x] = NoReload]
  /\ UNCHANGED <<runnerVars, db, room, pub, request, calm, wanted, started, count>>

-----------------------------------------------------------------------------
\* Mutant: the loops of both lists are checked.
Applicable_Any(l) == TRUE

(* checkLoops() for a loop whose interval has elapsed: only the loops of   *)
(* the room's mode are checked.                                            *)
Applicable(l) == room = l

CheckLoop(l) ==
  /\ l \in loops
  /\ Applicable(l)
  /\ Room \notin busyKeys
  /\ ~CheckFulfilled(l)
  /\ RunLoopOnce(l)
  /\ UNCHANGED moduleVars

(* A pause of a sequence, or of a loop, is over.                           *)
PauseEnds == (Resume \/ ResumeLoop) /\ UNCHANGED moduleVars

(* The process ends at any point and starts again: what it has in memory   *)
(* is lost, init() reloads.                                                *)
Restart ==
  /\ count.restarts < MaxRestarts
  /\ count' = [count EXCEPT !.restarts = @ + 1]
  /\ runTokens' = [k \in Keys |-> 0]
  /\ busyKeys' = {}
  /\ busyLoops' = [l \in Lists |-> 0]
  /\ runs' = {}
  /\ request' = [r \in Requests |-> NoRequest]
  /\ reloading' = [r \in Reloaders |->
                     IF r = Edit THEN [at |-> "list", snap |-> "off"] ELSE NoReload]
  /\ room' = "none" /\ tree' = FALSE /\ loops' = {} /\ pub' = "none"
  /\ calm' = TRUE
  /\ UNCHANGED <<target, last, faults, db, wanted, started>>

Request(r) ==
  \/ GetRoom(r)
  \/ Publish(r)
  \/ SetCinemaOn(r)
  \/ Apply(r)
  \/ ApplyUnloaded(r)
  \/ ApplyReloaded(r)

Reload(x) == ListRooms(x) \/ EnterRoom(x) \/ EnterTree(x)

Next ==
  \/ \E r \in Requests, m \in Modes : Switch(r, m)
  \/ \E r \in Requests : Request(r)
  \/ SaveEdit
  \/ \E x \in Reloaders : Reload(x)
  \/ \E l \in Modes : CheckLoop(l)
  \/ PauseEnds
  \/ Restart

Spec == Init /\ [][Next]_vars

(* The database answers, timers fire, and the check runs every second.     *)
Fairness ==
  /\ \A r \in Requests : WF_vars(Request(r))
  /\ \A x \in Reloaders : WF_vars(Reload(x))
  /\ \A l \in Modes : WF_vars(CheckLoop(l))
  /\ WF_vars(Resume /\ UNCHANGED moduleVars)
  /\ WF_vars(ResumeLoop /\ UNCHANGED moduleVars)

FairSpec == Spec /\ Fairness

-----------------------------------------------------------------------------
(* Types and ranges; what a request and a reload read is in their records. *)
TypeOK ==
  /\ RunnerTypeOK
  /\ db \in Modes
  /\ {room, pub} \subseteq Modes \cup {"none"}
  /\ tree \in BOOLEAN /\ calm \in BOOLEAN
  /\ loops \subseteq Checked
  /\ request \in [Requests ->
       [at : {"idle", "get", "got", "set", "stored", "reload"}, to : Modes, from : Modes]]
  /\ reloading \in [Reloaders -> [at : {"idle", "list", "listed", "tree"}, snap : Modes]]
  /\ {wanted, started} \subseteq Modes
  /\ count \in [switches : 0..MaxSwitches, edits : 0..MaxEdits, restarts : 0..MaxRestarts]

(* Once a newer sequence has begun, one that is paused writes no more: what *)
(* a sequence writes belongs to the list started last (runtime.js:7-9, the *)
(* newest change breaks off the running list).                             *)
NewestSequenceWrites ==
  [][(runs' # runs /\ last' # last) => last' = started']_vars

(* When nothing is under way, and no switch or reload met another one, the *)
(* database, the memory and the published state say the same, and it is    *)
(* the mode asked for last.  A restart between the steps of a request may   *)
(* lose the request, never the agreement.                                  *)
AgreeAtRest ==
  (calm /\ Quiet) => /\ db = room /\ room = pub
                     /\ count.restarts = 0 /\ count.edits = 0 => db = wanted

(* With a checked loop in both lists the device ends up in the mode the    *)
(* room has, whatever writes were lost or refused, whatever interrupted    *)
(* the sequence, and stays there: the two lists do not take turns          *)
(* (runtime.js:11-17).                                                     *)
Settles == <>[](Quiet => target = room)

(* runtime.js:9: "der zuletzt gewuenschte Zustand gewinnt".  At rest, with *)
(* no loop and no list being played, the write made last is one of the     *)
(* mode asked for last.                                                    *)
LastWishWins ==
  (/\ calm /\ Quiet /\ runs = {}
   /\ \A l \in Modes : busyLoops[l] = 0) => last = wanted
=============================================================================
