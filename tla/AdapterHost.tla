------------------------------ MODULE AdapterHost ------------------------------
(***************************************************************************)
(* The supervisor of adapter processes (adapters/host.js): one entry per    *)
(* start of an instance, a child process per entry, a restart timer after   *)
(* a crash, and the calls of the settings pages that stop, start and reload *)
(* or delete an instance.  stopInstance() is asynchronous: it returns when  *)
(* the child exits, or after it was killed, whichever comes first, and      *)
(* nothing keeps two calls for one instance apart.                          *)
(*                                                                          *)
(* An entry has at most one child, so the child is a field of its entry.    *)
(* A fork that fails later emits `error` and never `exit`: the child is     *)
(* "failed", and its entry looks as if it ran.  The name of an instance     *)
(* stands for its id; the delay of the backoff, the messages with values    *)
(* and the management requests are left out.  A change of the language is   *)
(* a reload of every instance, restartAdapter one of each of its instances. *)
(***************************************************************************)
EXTENDS Naturals, Sequences

CONSTANTS
    Instances,
    None,
    Topics,        \* what an adapter subscribes to (subscription ids)
    Calls,         \* bound: calls of the pages at the same time
    MaxEntries     \* bound: starts of instances

ASSUME HostAssumption == None \notin Instances /\ MaxEntries \in Nat

VARIABLES
    db,        \* the row of the instance: activated or not, or deleted
    entries,   \* all entries ever made
    running,   \* the Map from instances to entries, 0 for none
    routed,    \* idByName and the router's scheme of the instance
    adhoc,     \* ad hoc subscriptions at the MQTT client, by instance and id
    call,      \* the calls under way
    refused,   \* history: the last start since it was activated found no
               \* manifest
    clashed    \* history: started beside a process of its own, since it was
               \* last at rest

vars == <<db, entries, running, routed, adhoc, call, refused, clashed>>

Made == 1..Len(entries)
Idle == [pc |-> "idle", inst |-> None, entry |-> 0, then |-> "nothing"]

\* A child that has a process: it may send messages and will exit.
Live == {"up", "stopping", "killed"}
Processes(i) == {e \in Made : entries[e].inst = i /\ entries[e].child \in Live}
Quiet(i) == \A n \in Calls : call[n].inst # i

\* subscriptionKey
Keys(i, ids) == {<<i, id>> : id \in ids}

Init ==
    /\ db = [i \in Instances |-> "off"]
    /\ entries = <<>>
    /\ running = [i \in Instances |-> 0]
    /\ routed = [i \in Instances |-> FALSE]
    /\ adhoc = {}
    /\ call = [n \in Calls |-> Idle]
    /\ refused = [i \in Instances |-> FALSE]
    /\ clashed = [i \in Instances |-> FALSE]

-----------------------------------------------------------------------------
\* spawnChild; c tells whether the fork succeeds.
Spawned(es, e, c) == [es EXCEPT ![e].child = c]

\* Mutant: the route of the instance is left behind.
Cleanup_KeepRoute(i, es, ah) ==
    /\ entries' = [e \in Made |->
         IF e = running[i] THEN [es[e] EXCEPT !.timer = FALSE, !.subs = {}] ELSE es[e]]
    /\ adhoc' = IF running[i] = 0 THEN ah ELSE ah \ Keys(i, es[running[i]].subs)
    /\ routed' = routed
    /\ running' = [running EXCEPT ![i] = 0]

\* cleanup(instanceId) on the entries es and subscriptions ah: it looks the
\* entry up by the id of the instance.
Cleanup(i, es, ah) ==
    /\ entries' = [e \in Made |->
         IF e = running[i] THEN [es[e] EXCEPT !.timer = FALSE, !.subs = {}] ELSE es[e]]
    /\ adhoc' = IF running[i] = 0 THEN ah ELSE ah \ Keys(i, es[running[i]].subs)
    /\ routed' = IF running[i] = 0 THEN routed ELSE [routed EXCEPT ![i] = FALSE]
    /\ running' = [running EXCEPT ![i] = 0]

\* stopInstance up to its promise, for call n
StopInstance(n, i, then) ==
    LET e == running[i]
        next(pc) == call' = [call EXCEPT ![n] = [pc |-> pc, inst |-> i, entry |-> e,
                                                  then |-> then]]
        stopped == [entries EXCEPT ![e].stopping = TRUE, ![e].timer = FALSE]
    IN  CASE e = 0 -> next("stopped") /\ UNCHANGED <<entries, running, routed, adhoc>>
          [] e # 0 /\ entries[e].child = "none" ->
               Cleanup(i, stopped, adhoc) /\ next("stopped")
          [] e # 0 /\ entries[e].child # "none" ->
               /\ entries' = [stopped EXCEPT ![e].child = IF @ = "up" THEN "stopping" ELSE @]
               /\ next("waiting")
               /\ UNCHANGED <<running, routed, adhoc>>

-----------------------------------------------------------------------------
(* Calls of the settings pages *)

Begins(n, i, then) == call[n].pc = "idle" /\ StopInstance(n, i, then)

\* reloadInstance: settings or name saved, adapter restarted, language changed
Reload(n, i) == Begins(n, i, "reload") /\ UNCHANGED <<db, refused>>

\* The instance is activated: setEnabled, then reloadInstance.
Enable(n, i) ==
    /\ db[i] # "none" /\ Begins(n, i, "reload")
    /\ db' = [db EXCEPT ![i] = "on"] /\ UNCHANGED refused

\* Deactivated: setEnabled, then stopInstance.
Disable(n, i) ==
    /\ db[i] # "none" /\ Begins(n, i, "nothing")
    /\ db' = [db EXCEPT ![i] = "off"] /\ refused' = [refused EXCEPT ![i] = FALSE]

\* Deleted: stopInstance, then the row is deleted.
Delete(n, i) == Begins(n, i, "delete") /\ UNCHANGED <<db, refused>>

\* The timer of stopInstance: SIGKILL, and the promise resolves.  A child that
\* never had a process does not notice.
KillTimeout(n) ==
    /\ call[n].pc = "waiting"
    /\ entries' = [entries EXCEPT ![call[n].entry].child = IF @ = "failed" THEN @ ELSE "killed"]
    /\ call' = [call EXCEPT ![n].pc = "stopped"]
    /\ UNCHANGED <<db, running, routed, adhoc, refused>>

\* startInstance gives up when the registry has no manifest of the adapter;
\* the directory of adapters is read again at any time, so the manifest may be
\* there or not.  It puts the new entry into the Map whatever is there.
StartInstance(i) ==
    LET e == Len(entries) + 1
        new == [inst |-> i, child |-> "none", stopping |-> FALSE, timer |-> FALSE, subs |-> {}]
    IN  \/ refused' = [refused EXCEPT ![i] = TRUE] /\ UNCHANGED <<entries, running, routed>>
        \/ /\ e <= MaxEntries
           /\ \E c \in {"up", "failed"} : entries' = Spawned(Append(entries, new), e, c)
           /\ running' = [running EXCEPT ![i] = e]
           /\ routed' = [routed EXCEPT ![i] = TRUE]
           /\ refused' = [refused EXCEPT ![i] = FALSE]

\* The rest of a call: reloadInstance reads the database and starts the
\* instance if it is activated; a deleted row is gone.
Finish(n) ==
    LET i == call[n].inst
    IN  /\ call[n].pc = "stopped"
        /\ IF call[n].then = "reload" /\ db[i] = "on"
           THEN StartInstance(i)
           ELSE UNCHANGED <<entries, running, routed, refused>>
        /\ db' = IF call[n].then = "delete" THEN [db EXCEPT ![i] = "none"] ELSE db
        /\ call' = [call EXCEPT ![n] = Idle]
        /\ UNCHANGED adhoc

-----------------------------------------------------------------------------
(* Children *)

\* `subscribe` of a child
Subscribe(e, id) ==
    /\ e \in Made /\ entries[e].child \in Live /\ id \notin entries[e].subs
    /\ entries' = [entries EXCEPT ![e].subs = @ \cup {id}]
    /\ adhoc' = adhoc \cup Keys(entries[e].inst, {id})
    /\ UNCHANGED <<db, running, routed, call, refused>>

Unsubscribe(e, id) ==
    /\ e \in Made /\ entries[e].child \in Live /\ id \in entries[e].subs
    /\ entries' = [entries EXCEPT ![e].subs = @ \ {id}]
    /\ adhoc' = adhoc \ Keys(entries[e].inst, {id})
    /\ UNCHANGED <<db, running, routed, call, refused>>

\* The calls that wait for the exit of e are resolved.
Resolved(e) ==
    [n \in Calls |-> IF call[n].pc = "waiting" /\ call[n].entry = e
                     THEN [call[n] EXCEPT !.pc = "stopped"] ELSE call[n]]

\* Mutant: subscriptions survive the process that made them.
Released_KeepSubs(e) == adhoc

\* removeSubscriptions
Released(e) == adhoc \ Keys(entries[e].inst, entries[e].subs)

\* Mutant: a crash is not answered with a restart.
Restarts_Never(e) == FALSE

\* Mutant: a stopped instance is restarted like a crashed one.
Restarts_Always(e) == TRUE

Restarts(e) == ~entries[e].stopping

\* The exit event, after a crash, a stop or a kill
Exit(e) ==
    LET gone == [entries EXCEPT ![e].child = "none", ![e].subs = {}]
    IN  /\ e \in Made /\ entries[e].child \in Live
        /\ IF Restarts(e)
           THEN /\ entries' = [gone EXCEPT ![e].timer = TRUE]
                /\ adhoc' = Released(e)
                /\ UNCHANGED <<running, routed>>
           ELSE Cleanup(entries[e].inst, gone, Released(e))
        /\ call' = Resolved(e)
        /\ UNCHANGED <<db, refused>>

\* The restart timer respawns an entry that is still in the Map.
RestartTimeout(e) ==
    /\ e \in Made /\ entries[e].timer
    /\ IF running[entries[e].inst] = e
       THEN /\ \E c \in {"up", "failed"} :
                 entries' = Spawned([entries EXCEPT ![e].timer = FALSE], e, c)
            /\ routed' = [routed EXCEPT ![entries[e].inst] = TRUE]
       ELSE entries' = [entries EXCEPT ![e].timer = FALSE] /\ UNCHANGED routed
    /\ UNCHANGED <<db, running, adhoc, call, refused>>

-----------------------------------------------------------------------------
Pages ==
    \/ \E n \in Calls, i \in Instances :
         Reload(n, i) \/ Enable(n, i) \/ Disable(n, i) \/ Delete(n, i)
    \/ \E n \in Calls : KillTimeout(n) \/ Finish(n)

Children ==
    \/ \E e \in Made, id \in Topics : Subscribe(e, id) \/ Unsubscribe(e, id)
    \/ \E e \in Made : Exit(e) \/ RestartTimeout(e)

\* Nothing of the instance is left, and nothing is about to start it.
AtRest(i) ==
    /\ Quiet(i) /\ db[i] # "on" /\ running[i] = 0
    /\ \A e \in Made : entries[e].inst = i => entries[e].child \notin Live

\* startInstance puts a second entry beside a process of the instance: two
\* calls overlap, or a killed process has not exited yet.
Clashes(i) == Len(entries') > Len(entries) /\ entries'[Len(entries')].inst = i /\ Processes(i) # {}

Remembers ==
    clashed' = [i \in Instances |-> (clashed[i] \/ Clashes(i)) /\ ~AtRest(i)']

Next == (Pages \/ Children) /\ Remembers

Spec == Init /\ [][Next]_vars

\* Timers fire, a killed process exits, a resolved promise is continued.
FairSpec ==
    /\ Spec
    /\ \A e \in 1..MaxEntries :
         /\ WF_vars(RestartTimeout(e) /\ Remembers)
         /\ WF_vars(e \in Made /\ entries[e].child = "killed" /\ Exit(e) /\ Remembers)
    /\ \A n \in Calls :
         WF_vars(KillTimeout(n) /\ Remembers) /\ WF_vars(Finish(n) /\ Remembers)

-----------------------------------------------------------------------------
(* Properties *)

\* The types of the variables.
TypeOK ==
    /\ db \in [Instances -> {"on", "off", "none"}]
    /\ routed \in [Instances -> BOOLEAN] /\ running \in [Instances -> 0..Len(entries)]
    /\ \A e \in Made :
         entries[e] \in [inst : Instances, child : {"none", "failed"} \cup Live,
                         stopping : BOOLEAN, timer : BOOLEAN, subs : SUBSET Topics]
    /\ adhoc \subseteq Instances \X Topics
    /\ call \in [Calls -> [pc : {"idle", "waiting", "stopped"}, inst : Instances \cup {None},
                           entry : 0..Len(entries), then : {"reload", "nothing", "delete"}]]
    /\ refused \in [Instances -> BOOLEAN] /\ clashed \in [Instances -> BOOLEAN]

\* Every process is that of the entry in the Map, so an instance never has two
\* of them on the same devices: what the host can no longer find, it can
\* neither stop nor restart nor write to.  The one way to lose a process is a
\* start beside one (reloadInstance after the await, stopInstance after
\* SIGKILL).  Values are routed to and from exactly the instances in the Map.
NoOrphan ==
    \A i \in Instances :
        /\ ~clashed[i] => \A e \in Processes(i) : running[i] = e
        /\ routed[i] <=> running[i] # 0

\* A subscription at the MQTT client is that of a living child of its
\* instance, whatever calls, crashes and late exits overlap; and a living
\* child has those it made, unless another one beside it gave them up.
SubscriptionsAgree ==
    /\ \A key \in adhoc : \E e \in Processes(key[1]) : key[2] \in entries[e].subs
    /\ \A i \in Instances : ~clashed[i] =>
         \A e \in Processes(i) : Keys(i, entries[e].subs) \subseteq adhoc

\* When no call is under way the database decides: an activated instance is
\* supervised, unless its last start found no manifest; a deactivated one has
\* no process left but a killed one, unless it was started beside its own.
SettledAsConfigured ==
    \A i \in Instances : Quiet(i) =>
        /\ db[i] = "on" /\ ~clashed[i] =>
             refused[i] \/ (running[i] # 0 /\ ~entries[running[i]].stopping)
        /\ db[i] = "off" /\ ~clashed[i] => \A e \in Processes(i) : entries[e].child = "killed"

\* Deactivating stops the instance: once no call is under way, no process of a
\* deactivated instance works on.
DisabledIsStopped ==
    \A i \in Instances : Quiet(i) /\ db[i] = "off" =>
        \A e \in Processes(i) : entries[e].child = "killed"

\* Deleting does as well (refuted: a reload that overlaps the deletion may start
\* the instance after stopInstance and before the row is gone).
DeletedIsStopped ==
    \A i \in Instances : Quiet(i) /\ db[i] = "none" =>
        \A e \in Processes(i) : entries[e].child = "killed"

\* An activated instance that nobody touches any more comes up, again after
\* every crash, unless its manifest is missing, its fork failed, it was started
\* beside its own process or the bound on starts is used up.
ComesUp ==
    \A i \in Instances :
        db[i] = "on" ~> \/ db[i] # "on" \/ Len(entries) = MaxEntries
                        \/ refused[i] \/ clashed[i]
                        \/ running[i] # 0 /\ entries[running[i]].child \in {"up", "failed"}
=============================================================================
