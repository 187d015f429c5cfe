-------------------------- MODULE AdapterHost_proofs --------------------------
(***************************************************************************)
(* What the host keeps of its adapter processes, for any number of         *)
(* instances, of calls that overlap, of starts and of subscriptions: the   *)
(* only way to lose a process is to start the instance beside it.          *)
(*                                                                         *)
(* The induction needs to know what a call that waits has left behind (an  *)
(* entry that is stopping and has a child), that an instance which was not *)
(* started beside its own process has all its processes in the Map, and    *)
(* that an activated one is in the Map, refused, or about to be started.   *)
(***************************************************************************)
EXTENDS AdapterHost, SequenceTheorems, TLAPS

USE HostAssumption DEF HostAssumption

Child == {"none", "failed"} \cup Live
Entry == [inst : Instances, child : Child, stopping : BOOLEAN, timer : BOOLEAN,
          subs : SUBSET Topics]
Call == [pc : {"idle", "waiting", "stopped"}, inst : Instances \cup {None},
         entry : Nat, then : {"reload", "nothing", "delete"}]

TypeInv ==
  /\ db \in [Instances -> {"on", "off", "none"}] /\ routed \in [Instances -> BOOLEAN]
  /\ running \in [Instances -> Nat] /\ entries \in Seq(Entry)
  /\ adhoc \subseteq Instances \X Topics /\ call \in [Calls -> Call]
  /\ refused \in [Instances -> BOOLEAN] /\ clashed \in [Instances -> BOOLEAN]

\* The Map, the routes, and what the database says of a deactivated instance.
InMap(i) ==
  /\ running[i] # 0 => running[i] \in Made /\ entries[running[i]].inst = i
  /\ routed[i] <=> running[i] # 0
  /\ db[i] = "off" /\ running[i] # 0 => entries[running[i]].stopping

EntrySound(e) ==
  /\ entries[e].subs # {} => entries[e].child \in Live
  /\ entries[e].timer => entries[e].child = "none"
  /\ entries[e].stopping => ~entries[e].timer /\ entries[e].child # "up"

Going(n) == call[n].pc # "idle"
Waits(n, e) == call[n].pc = "waiting" /\ call[n].entry = e

CallSound(n) ==
  /\ ~Going(n) => call[n] = Idle
  /\ Going(n) =>
       /\ call[n].inst \in Instances
       /\ call[n].entry # 0 =>
            /\ call[n].entry \in Made
            /\ entries[call[n].entry].inst = call[n].inst
            /\ entries[call[n].entry].stopping
       /\ call[n].pc = "waiting" =>
            call[n].entry # 0 /\ entries[call[n].entry].child # "none"

\* A process that was told to stop is waited for.
Awaited == \A e \in Made : entries[e].child = "stopping" => \E n \in Calls : Waits(n, e)

\* A subscription is that of an entry of its instance.
Owned == \A i \in Instances, id \in Topics :
           <<i, id>> \in adhoc => \E e \in Made : entries[e].inst = i /\ id \in entries[e].subs

\* Of an instance that was not started beside its own process:
Known(i) ==
  \A e \in Made : entries[e].inst = i /\ entries[e].child \in Live =>
    running[i] = e /\ \A id \in entries[e].subs : <<i, id>> \in adhoc

Starts(i) == \E n \in Calls : Going(n) /\ call[n].inst = i /\ call[n].then # "nothing"

Minded(i) ==
  db[i] = "on" => \/ Starts(i) \/ refused[i]
                  \/ running[i] # 0 /\ ~entries[running[i]].stopping

StateInv ==
  /\ TypeInv /\ (\A i \in Instances : InMap(i)) /\ (\A e \in Made : EntrySound(e))
  /\ (\A n \in Calls : CallSound(n)) /\ Awaited /\ Owned
Unclashed(i) == ~clashed[i] => Known(i) /\ Minded(i)
IInv == StateInv /\ \A i \in Instances : Unclashed(i)
-----------------------------------------------------------------------------
(* What the steps have in common *)

\* The keys of an instance are told apart from those of the others.
LEMMA KeyOf ==
  ASSUME NEW i, NEW j, NEW id, NEW ids
  PROVE  <<j, id>> \in Keys(i, ids) <=> j = i /\ id \in ids
BY DEF Keys

\* The entries as a function.
LEMMA Types ==
  ASSUME TypeInv
  PROVE  /\ Len(entries) \in Nat /\ 0 \notin Made /\ Made \subseteq Nat
         /\ entries \in [Made -> Entry] /\ \A e \in Made : entries[e] \in Entry
BY LenProperties, ElementOfSeq DEF TypeInv, Made

\* The entries are still as many.
SameEntries == entries' \in [Made -> Entry]

LEMMA SameMade ==
  ASSUME TypeInv, SameEntries
  PROVE  entries' \in Seq(Entry) /\ Len(entries') = Len(entries) /\ Made' = Made
<1>1. Len(entries) \in Nat BY Types
<1>2. entries' \in [1..Len(entries) -> Entry] BY DEF SameEntries, Made
<1>3. entries' \in Seq(Entry) BY <1>1, <1>2, SeqDef
<1>4. Len(entries') = Len(entries) BY <1>1, <1>2, <1>3, LenProperties
<1> QED BY <1>3, <1>4 DEF Made

\* An instance that is not called clashed after a step was not before, and was
\* not started beside its own process, or it is at rest.
LEMMA Histories ==
  ASSUME StateInv', clashed \in [Instances -> BOOLEAN], Remembers,
         \A i \in Instances : ~clashed[i] /\ ~Clashes(i) => Known(i)' /\ Minded(i)'
  PROVE  \A i \in Instances : Unclashed(i)'
<1> SUFFICES ASSUME NEW i \in Instances, ~clashed'[i] PROVE Known(i)' /\ Minded(i)'
  BY DEF Unclashed
<1>1. (~clashed[i] /\ ~Clashes(i)) \/ AtRest(i)' BY DEF Remembers
<1>2. CASE AtRest(i)' BY <1>2 DEF AtRest, Known, Minded
<1> QED BY <1>1, <1>2

LEMMA HistoryType ==
  ASSUME clashed \in [Instances -> BOOLEAN], Remembers
  PROVE  clashed' \in [Instances -> BOOLEAN]
BY DEF Remembers

\* cleanup(i) on entries es and subscriptions ah, when ah holds subscriptions
\* of other instances and of i only.
LEMMA CleanupDoes ==
  ASSUME TypeInv, NEW i \in Instances, InMap(i),
         NEW es \in [Made -> Entry], NEW ah, Cleanup(i, es, ah)
  PROVE  /\ SameEntries
         /\ running' = [running EXCEPT ![i] = 0] /\ routed' = [routed EXCEPT ![i] = FALSE]
         /\ \A d \in Made :
              entries'[d] = IF d = running[i] THEN [es[d] EXCEPT !.timer = FALSE, !.subs = {}]
                            ELSE es[d]
         /\ \A j \in Instances, id \in Topics :
              <<j, id>> \in adhoc' <=>
                <<j, id>> \in ah /\ ~(j = i /\ running[i] # 0 /\ id \in es[running[i]].subs)
         /\ adhoc' \subseteq ah
<1>1. /\ entries' = [e \in Made |->
            IF e = running[i] THEN [es[e] EXCEPT !.timer = FALSE, !.subs = {}] ELSE es[e]]
      /\ adhoc' = IF running[i] = 0 THEN ah ELSE ah \ Keys(i, es[running[i]].subs)
      /\ routed' = IF running[i] = 0 THEN routed ELSE [routed EXCEPT ![i] = FALSE]
      /\ running' = [running EXCEPT ![i] = 0]
  BY DEF Cleanup
<1>2. \A d \in Made :
        entries'[d] = IF d = running[i] THEN [es[d] EXCEPT !.timer = FALSE, !.subs = {}]
                      ELSE es[d]
  BY <1>1
<1>3. \A d \in Made : [es[d] EXCEPT !.timer = FALSE, !.subs = {}] \in Entry BY DEF Entry
<1>4. SameEntries BY <1>1, <1>3 DEF SameEntries
<1>5. routed' = [routed EXCEPT ![i] = FALSE]
  <2>1. routed \in [Instances -> BOOLEAN] BY DEF TypeInv
  <2>2. running[i] = 0 => routed[i] = FALSE BY <2>1 DEF InMap
  <2> QED BY <1>1, <2>1, <2>2
<1>6. \A j \in Instances, id \in Topics :
        <<j, id>> \in adhoc' <=>
          <<j, id>> \in ah /\ ~(j = i /\ running[i] # 0 /\ id \in es[running[i]].subs)
  <2>1. \A j \in Instances, id \in Topics :
          <<j, id>> \in Keys(i, es[running[i]].subs) <=> j = i /\ id \in es[running[i]].subs
    BY KeyOf
  <2>2. CASE running[i] = 0 BY <1>1, <2>2
  <2>3. CASE running[i] # 0 BY <1>1, <2>1, <2>3
  <2> QED BY <2>2, <2>3
<1> QED BY <1>1, <1>2, <1>4, <1>5, <1>6
-----------------------------------------------------------------------------
(* The actions *)

\* What stopInstance() does: the entry of the instance is stopping; without a
\* child it leaves the Map, with one the call waits.  No subscription goes.
StopDoes(n, i, then, e) ==
  /\ SameEntries
  /\ \A d \in Made : d # e => entries'[d] = entries[d]
  /\ e # 0 => /\ e \in Made /\ entries'[e].inst = i /\ entries'[e].stopping
              /\ ~entries'[e].timer /\ entries'[e].child # "up"
              /\ entries'[e].child \in Live <=> entries[e].child \in Live
              /\ entries[e].child # "stopping" /\ entries[e].child # "up"
                   => entries'[e].child = entries[e].child
              /\ entries'[e].subs = entries[e].subs
  /\ routed' = [routed EXCEPT ![i] = (running'[i] # 0)]
  /\ \A j \in Instances, id \in Topics : <<j, id>> \in adhoc' <=> <<j, id>> \in adhoc
  /\ adhoc' \subseteq adhoc
  /\ \E r \in {0, e}, pc \in {"waiting", "stopped"} :
       /\ running' = [running EXCEPT ![i] = r]
       /\ call' = [call EXCEPT ![n] = [pc |-> pc, inst |-> i, entry |-> e, then |-> then]]
       /\ r = 0 /\ e # 0 => entries'[e].child = "none"
       /\ IF r # 0 THEN pc = "waiting" /\ entries'[e].child # "none" ELSE pc = "stopped"

LEMMA StopInstanceDoes ==
  ASSUME StateInv, NEW n \in Calls, NEW i \in Instances, NEW then,
         StopInstance(n, i, then)
  PROVE  StopDoes(n, i, then, running[i])
<1> DEFINE e == running[i]
<1>1. /\ TypeInv /\ InMap(i) /\ entries \in [Made -> Entry] /\ e \in Nat /\ 0 \notin Made
      /\ routed \in [Instances -> BOOLEAN] /\ running \in [Instances -> Nat]
  BY Types DEF StateInv, TypeInv
<1>2. CASE e = 0
  <2>1. /\ call' = [call EXCEPT ![n] = [pc |-> "stopped", inst |-> i, entry |-> e, then |-> then]]
        /\ UNCHANGED <<entries, running, routed, adhoc>>
    BY <1>2 DEF StopInstance
  <2>2. running' = [running EXCEPT ![i] = 0] BY <1>1, <1>2, <2>1
  <2>3. routed' = [routed EXCEPT ![i] = (running'[i] # 0)] BY <1>1, <1>2, <2>1 DEF InMap
  <2>4. SameEntries BY <1>1, <2>1 DEF SameEntries
  <2> QED BY <1>1, <1>2, <2>1, <2>2, <2>3, <2>4 DEF StopDoes
<1>3. CASE e # 0
  <2>1. e \in Made /\ entries[e].inst = i /\ entries[e] \in Entry /\ EntrySound(e)
    BY <1>1, <1>3 DEF InMap, StateInv
  <2> DEFINE y == [entries[e] EXCEPT !.stopping = TRUE, !.timer = FALSE]
             es == [entries EXCEPT ![e] = y]
  <2>2. /\ y \in Entry /\ y.inst = i /\ y.stopping = TRUE /\ y.timer = FALSE
        /\ y.child = entries[e].child /\ y.subs = entries[e].subs
    BY <2>1 DEF Entry
  <2>3. [entries EXCEPT ![e].stopping = TRUE, ![e].timer = FALSE] = es
    BY <1>1, <2>1 DEF Entry
  <2> HIDE DEF y
  <2>4. /\ es \in [Made -> Entry] /\ es[e] = y /\ \A d \in Made : d # e => es[d] = entries[d]
    BY <1>1, <2>1, <2>2
  <2>5. CASE entries[e].child = "none"
    <3>1. /\ Cleanup(i, es, adhoc)
          /\ call' = [call EXCEPT ![n] = [pc |-> "stopped", inst |-> i, entry |-> e, then |-> then]]
      BY <1>3, <2>3, <2>5 DEF StopInstance
    <3> HIDE DEF es
    <3>2. /\ SameEntries
          /\ running' = [running EXCEPT ![i] = 0] /\ routed' = [routed EXCEPT ![i] = FALSE]
          /\ \A d \in Made :
               entries'[d] = IF d = running[i] THEN [es[d] EXCEPT !.timer = FALSE, !.subs = {}]
                             ELSE es[d]
          /\ \A j \in Instances, id \in Topics :
               <<j, id>> \in adhoc' <=>
                 <<j, id>> \in adhoc /\ ~(j = i /\ running[i] # 0 /\ id \in es[running[i]].subs)
          /\ adhoc' \subseteq adhoc
      BY <1>1, <2>4, <3>1, CleanupDoes
    <3>3. entries[e].subs = {} BY <2>1, <2>5 DEF EntrySound, Live
    <3>4. entries'[e] = [y EXCEPT !.timer = FALSE, !.subs = {}] BY <2>1, <2>4, <3>2
    <3>5. /\ entries'[e].inst = i /\ entries'[e].stopping = TRUE /\ entries'[e].timer = FALSE
          /\ entries'[e].child = "none" /\ entries'[e].subs = {}
      BY <2>2, <2>5, <3>4 DEF Entry
    <3>6. \A d \in Made : d # e => entries'[d] = entries[d] BY <2>4, <3>2
    <3>7. \A j \in Instances, id \in Topics : <<j, id>> \in adhoc' <=> <<j, id>> \in adhoc
      BY <2>2, <2>4, <3>2, <3>3
    <3>8. running'[i] = 0 /\ routed' = [routed EXCEPT ![i] = (running'[i] # 0)]
      BY <1>1, <3>2
    <3> QED BY <2>1, <2>5, <3>1, <3>2, <3>3, <3>5, <3>6, <3>7, <3>8 DEF StopDoes
  <2>6. CASE entries[e].child # "none"
    <3> DEFINE x == [y EXCEPT !.child = IF @ = "up" THEN "stopping" ELSE @]
    <3>1. /\ x \in Entry /\ x.inst = i /\ x.stopping = TRUE /\ x.timer = FALSE
          /\ x.subs = entries[e].subs /\ x.child # "none" /\ x.child # "up"
          /\ x.child \in Live <=> entries[e].child \in Live
          /\ entries[e].child # "up" => x.child = entries[e].child
      BY <2>2, <2>6 DEF Entry, Child, Live
    <3>2. /\ entries' = [es EXCEPT ![e].child = IF @ = "up" THEN "stopping" ELSE @]
          /\ call' = [call EXCEPT ![n] = [pc |-> "waiting", inst |-> i, entry |-> e, then |-> then]]
          /\ UNCHANGED <<running, routed, adhoc>>
      BY <1>3, <2>3, <2>6 DEF StopInstance
    <3>3. entries' = [es EXCEPT ![e] = x] BY <2>1, <2>4, <3>2
    <3> HIDE DEF x, es
    <3>4. /\ SameEntries /\ entries'[e] = x
          /\ \A d \in Made : d # e => entries'[d] = entries[d]
      BY <2>1, <2>4, <3>1, <3>3 DEF SameEntries
    <3>5. running' = [running EXCEPT ![i] = e] /\ running'[i] = e BY <1>1, <3>2
    <3>6. routed' = [routed EXCEPT ![i] = (running'[i] # 0)]
      BY <1>1, <1>3, <3>2 DEF InMap
    <3> QED BY <1>3, <2>1, <3>1, <3>2, <3>4, <3>5, <3>6 DEF StopDoes
  <2> QED BY <2>5, <2>6
<1> QED BY <1>2, <1>3

\* The calls that stop an instance: nothing is started, and what they will do
\* to it later is on the record of the call.
LEMMA StopKeeps ==
  ASSUME IInv, Remembers, NEW n \in Calls, NEW i \in Instances,
         NEW then \in {"reload", "nothing", "delete"}, Begins(n, i, then),
         db' \in [Instances -> {"on", "off", "none"}],
         refused' \in [Instances -> BOOLEAN],
         \A j \in Instances \ {i} : db'[j] = db[j] /\ refused'[j] = refused[j],
         then = "nothing" => db'[i] # "on"
  PROVE  IInv'
<1> SUFFICES ASSUME NEW e, e = running[i] PROVE IInv'
  OBVIOUS
<1>1. /\ StateInv /\ TypeInv /\ call \in [Calls -> Call] /\ e \in Nat /\ 0 \notin Made
      /\ entries \in [Made -> Entry] /\ running \in [Instances -> Nat]
      /\ routed \in [Instances -> BOOLEAN] /\ clashed \in [Instances -> BOOLEAN]
      /\ InMap(i) /\ Made \subseteq Nat /\ \A d \in Made : entries[d] \in Entry
  BY Types DEF IInv, StateInv, TypeInv
<1>2. StopDoes(n, i, then, e) /\ call[n] = Idle
  BY <1>1, StopInstanceDoes DEF Begins, StateInv, CallSound, Going
<1>3. /\ entries' \in Seq(Entry) /\ Made' = Made /\ Len(entries') = Len(entries)
      /\ Len(entries) \in Nat /\ entries' \in [Made -> Entry]
  BY <1>1, <1>2, SameMade, Types DEF StopDoes, SameEntries
<1>4. PICK r \in {0, e}, pc \in {"waiting", "stopped"} :
       /\ running' = [running EXCEPT ![i] = r]
       /\ call' = [call EXCEPT ![n] = [pc |-> pc, inst |-> i, entry |-> e, then |-> then]]
       /\ r = 0 /\ e # 0 => entries'[e].child = "none"
       /\ IF r # 0 THEN pc = "waiting" /\ entries'[e].child # "none" ELSE pc = "stopped"
  BY <1>2 DEF StopDoes
<1> DEFINE c == [pc |-> pc, inst |-> i, entry |-> e, then |-> then]
<1>5. /\ c \in Call /\ c.pc = pc /\ c.inst = i /\ c.entry = e /\ c.then = then
  BY <1>1 DEF Call
<1>6. /\ call' \in [Calls -> Call] /\ call'[n] = c
      /\ \A m \in Calls : m # n => call'[m] = call[m]
  BY <1>1, <1>4, <1>5
<1> HIDE DEF c
<1>7. /\ running' \in [Instances -> Nat] /\ running'[i] = r
      /\ \A j \in Instances \ {i} : running'[j] = running[j]
      /\ routed' \in [Instances -> BOOLEAN] /\ routed'[i] = (r # 0)
      /\ \A j \in Instances \ {i} : routed'[j] = routed[j]
  BY <1>1, <1>2, <1>4 DEF StopDoes
<1>8. /\ \A d \in Made : d # e => entries'[d] = entries[d]
      /\ e # 0 => /\ e \in Made /\ entries'[e].inst = i /\ entries'[e].stopping
                  /\ ~entries'[e].timer /\ entries'[e].child # "up"
                  /\ entries'[e].child \in Live <=> entries[e].child \in Live
                  /\ entries[e].child # "stopping" /\ entries[e].child # "up"
                       => entries'[e].child = entries[e].child
                  /\ entries'[e].subs = entries[e].subs
      /\ \A j \in Instances, id \in Topics : <<j, id>> \in adhoc' <=> <<j, id>> \in adhoc
      /\ adhoc' \subseteq adhoc
  BY <1>2 DEF StopDoes
<1>9. e # 0 => entries[e].inst = i BY <1>1 DEF InMap
<1>10. TypeInv'
  BY <1>1, <1>3, <1>6, <1>7, <1>8, HistoryType DEF TypeInv
<1>11. ASSUME NEW j \in Instances PROVE InMap(j)'
  <2>1. InMap(j) BY <1>1 DEF StateInv
  <2>2. CASE j = i BY <1>3, <1>7, <1>8, <2>2 DEF InMap
  <2>3. CASE j # i
    <3>1. running[j] # 0 => running[j] # e BY <1>9, <2>1, <2>3 DEF InMap
    <3> QED BY <1>3, <1>7, <1>8, <2>1, <2>3, <3>1 DEF InMap
  <2> QED BY <2>2, <2>3
<1>12. ASSUME NEW d \in Made' PROVE EntrySound(d)'
  <2>1. EntrySound(d) /\ d \in Made /\ d # 0 BY <1>1, <1>3 DEF StateInv
  <2> QED BY <1>8, <2>1 DEF EntrySound
<1>13. ASSUME NEW m \in Calls PROVE CallSound(m)'
  <2>1. CallSound(m) BY <1>1 DEF StateInv
  <2>2. CASE m = n BY <1>3, <1>4, <1>5, <1>6, <1>8, <2>2 DEF CallSound, Going
  <2>3. CASE m # n
    <3>1. call[m].pc = "waiting" => entries'[call[m].entry].child # "none"
      <4>1. SUFFICES ASSUME call[m].pc = "waiting", call[m].entry = e
                     PROVE  entries'[e].child # "none"
        BY <1>8, <2>1 DEF CallSound, Going
      <4>2. entries[e].child # "none" /\ e # 0 /\ entries[e].stopping
        BY <2>1, <4>1 DEF CallSound, Going
      <4>3. entries[e].child # "up" BY <1>1, <1>8, <4>2 DEF StateInv, EntrySound
      <4>4. entries[e].child = "stopping" => entries'[e].child \in Live BY <1>8, <4>2 DEF Live
      <4> QED BY <1>8, <4>2, <4>3, <4>4 DEF Live
    <3>2. call[m].entry \in Made =>
            (entries[call[m].entry].stopping => entries'[call[m].entry].stopping)
            /\ entries'[call[m].entry].inst = entries[call[m].entry].inst
      <4>1. CASE call[m].entry = e BY <1>1, <1>8, <1>9, <4>1
      <4>2. CASE call[m].entry # e
        <5>1. call[m].entry \in Made => entries'[call[m].entry] = entries[call[m].entry]
          BY <1>8, <4>2
        <5> QED BY <5>1
      <4> QED BY <4>1, <4>2
    <3> QED BY <1>3, <1>6, <2>1, <2>3, <3>1, <3>2 DEF CallSound, Going
  <2> QED BY <2>2, <2>3
<1>14. Awaited'
  <2> SUFFICES ASSUME NEW d \in Made, entries'[d].child = "stopping"
               PROVE  \E m \in Calls : Waits(m, d)'
    BY <1>3 DEF Awaited
  <2>1. CASE d = e
    <3>1. r # 0 BY <1>1, <1>4, <2>1
    <3> QED BY <1>4, <1>5, <1>6, <2>1, <3>1 DEF Waits
  <2>2. CASE d # e
    <3>1. entries[d].child = "stopping" BY <1>8, <2>2
    <3>2. PICK m \in Calls : Waits(m, d) BY <1>1, <3>1 DEF StateInv, Awaited
    <3>3. m # n BY <1>2, <3>2 DEF Waits, Idle
    <3> QED BY <1>6, <3>2, <3>3 DEF Waits
  <2> QED BY <2>1, <2>2
<1>15. Owned'
  <2> SUFFICES ASSUME NEW j \in Instances, NEW id \in Topics, <<j, id>> \in adhoc'
               PROVE  \E d \in Made : entries'[d].inst = j /\ id \in entries'[d].subs
    BY <1>3 DEF Owned
  <2>1. PICK d \in Made : entries[d].inst = j /\ id \in entries[d].subs
    BY <1>1, <1>8 DEF StateInv, Owned
  <2> QED BY <1>1, <1>8, <1>9, <2>1
<1>16. StateInv' BY <1>10, <1>11, <1>12, <1>13, <1>14, <1>15 DEF StateInv
<1>17. ASSUME NEW j \in Instances, ~clashed[j] PROVE Known(j)' /\ Minded(j)'
  <2>1. Known(j) /\ Minded(j) BY <1>17 DEF IInv, Unclashed
  <2>2. Known(j)'
    <3> SUFFICES ASSUME NEW d \in Made, entries'[d].inst = j, entries'[d].child \in Live
                 PROVE  running'[j] = d /\ \A id \in entries'[d].subs : <<j, id>> \in adhoc'
      BY <1>3 DEF Known
    <3>1. /\ entries[d].inst = j /\ entries[d].child \in Live /\ entries'[d].subs = entries[d].subs
          /\ d # 0
      BY <1>1, <1>8, <1>9
    <3>2. running[j] = d /\ \A id \in entries[d].subs : <<j, id>> \in adhoc
      BY <2>1, <3>1 DEF Known
    <3>3. entries[d].subs \subseteq Topics BY <1>1 DEF Entry
    <3>4. running'[j] = d
      <4>1. CASE j = i
        <5>1. d = e BY <3>2, <4>1
        <5>2. r # 0 BY <1>4, <3>1, <5>1 DEF Live
        <5> QED BY <1>7, <4>1, <5>1, <5>2
      <4>2. CASE j # i BY <1>7, <3>2, <4>2
      <4> QED BY <4>1, <4>2
    <3> QED BY <1>8, <3>1, <3>2, <3>3, <3>4
  <2>3. Minded(j)'
    <3>1. CASE j = i /\ then # "nothing"
      <4>1. Starts(i)' BY <1>5, <1>6, <3>1 DEF Starts, Going
      <4> QED BY <3>1, <4>1 DEF Minded
    <3>2. CASE j = i /\ then = "nothing" BY <3>2 DEF Minded
    <3>3. CASE j # i
      <4>1. Starts(j) => Starts(j)'
        <5> SUFFICES ASSUME NEW m \in Calls, Going(m), call[m].inst = j, call[m].then # "nothing"
                     PROVE  Starts(j)'
          BY DEF Starts
        <5>1. m # n BY <1>2 DEF Going, Idle
        <5> QED BY <1>6, <5>1 DEF Starts, Going
      <4>2. running[j] # 0 => running[j] # e /\ running[j] \in Made
        BY <1>1, <1>9, <3>3 DEF StateInv, InMap
      <4> QED BY <1>7, <1>8, <2>1, <3>3, <4>1, <4>2 DEF Minded
    <3> QED BY <3>1, <3>2, <3>3
  <2> QED BY <2>2, <2>3
<1> QED BY <1>1, <1>16, <1>17, Histories DEF IInv

\* The four calls of the pages.
LEMMA PagesKeep ==
  ASSUME IInv, Remembers, NEW n \in Calls, NEW i \in Instances,
         Reload(n, i) \/ Enable(n, i) \/ Disable(n, i) \/ Delete(n, i)
  PROVE  IInv'
<1>1. db \in [Instances -> {"on", "off", "none"}] /\ refused \in [Instances -> BOOLEAN]
  BY DEF IInv, StateInv, TypeInv
<1>2. CASE Reload(n, i) BY <1>1, <1>2, StopKeeps DEF Reload
<1>3. CASE Enable(n, i) BY <1>1, <1>3, StopKeeps DEF Enable
<1>4. CASE Disable(n, i) BY <1>1, <1>4, StopKeeps DEF Disable
<1>5. CASE Delete(n, i) BY <1>1, <1>5, StopKeeps DEF Delete
<1> QED BY <1>2, <1>3, <1>4, <1>5

\* SIGKILL: the child that is waited for has its process for a while still.
LEMMA KillTimeoutKeeps ==
  ASSUME IInv, Remembers, NEW n \in Calls, KillTimeout(n)
  PROVE  IInv'
<1> SUFFICES ASSUME NEW e, e = call[n].entry PROVE IInv'
  OBVIOUS
<1>1. /\ StateInv /\ TypeInv /\ call \in [Calls -> Call]
      /\ entries \in [Made -> Entry] /\ clashed \in [Instances -> BOOLEAN]
      /\ Made \subseteq Nat /\ \A d \in Made : entries[d] \in Entry
  BY Types DEF IInv, StateInv, TypeInv
<1>2. CallSound(n) /\ Going(n) BY <1>1 DEF StateInv, KillTimeout, Going
<1>3. e \in Made /\ entries[e].stopping /\ entries[e].child # "none" /\ EntrySound(e)
  BY <1>1, <1>2 DEF CallSound, KillTimeout, StateInv
<1> DEFINE x == [entries[e] EXCEPT !.child = IF @ = "failed" THEN @ ELSE "killed"]
           c == [call[n] EXCEPT !.pc = "stopped"]
<1>4. /\ entries' = [entries EXCEPT ![e] = x] /\ call' = [call EXCEPT ![n] = c]
      /\ UNCHANGED <<db, running, routed, adhoc, refused>>
  BY <1>1, <1>3 DEF KillTimeout
<1>5. entries[e].child \in Live \cup {"failed"} /\ entries[e].child # "up"
  BY <1>1, <1>3 DEF EntrySound, Entry, Child
<1>6. /\ x \in Entry /\ x.inst = entries[e].inst /\ x.stopping = entries[e].stopping
      /\ x.timer = entries[e].timer /\ x.subs = entries[e].subs
      /\ x.child \in {"failed", "killed"}
      /\ x.child \in Live <=> entries[e].child \in Live
      /\ x.child # "none"
  <2> DEFINE z == IF entries[e].child = "failed" THEN "failed" ELSE "killed"
  <2>1. entries[e] \in Entry /\ x = [entries[e] EXCEPT !.child = z] BY <1>1, <1>3
  <2>2. z \in {"failed", "killed"} /\ (z \in Live <=> entries[e].child \in Live)
    BY <1>5 DEF Live
  <2> HIDE DEF x, z
  <2>3. x.child = z /\ x \in Entry BY <2>1, <2>2 DEF Entry, Child, Live
  <2>4. /\ x.inst = entries[e].inst /\ x.stopping = entries[e].stopping
        /\ x.timer = entries[e].timer /\ x.subs = entries[e].subs
    BY <2>1 DEF Entry
  <2> QED BY <2>2, <2>3, <2>4
<1>7. /\ c \in Call /\ c.pc = "stopped" /\ c.inst = call[n].inst /\ c.entry = call[n].entry
      /\ c.then = call[n].then
  BY <1>1 DEF Call
<1> HIDE DEF x, c
<1>8. SameEntries BY <1>1, <1>4, <1>6 DEF SameEntries
<1>9. /\ entries' \in Seq(Entry) /\ Made' = Made /\ Len(entries') = Len(entries)
      /\ Len(entries) \in Nat
  BY <1>1, <1>8, SameMade, Types
<1>10. /\ entries'[e] = x /\ \A d \in Made : d # e => entries'[d] = entries[d]
       /\ call' \in [Calls -> Call] /\ call'[n] = c
       /\ \A m \in Calls : m # n => call'[m] = call[m]
  BY <1>1, <1>3, <1>4, <1>6, <1>7
<1>11. \A d \in Made :
         /\ entries'[d].inst = entries[d].inst /\ entries'[d].stopping = entries[d].stopping
         /\ entries'[d].timer = entries[d].timer /\ entries'[d].subs = entries[d].subs
         /\ entries'[d].child \in Live <=> entries[d].child \in Live
         /\ entries'[d].child = "none" <=> entries[d].child = "none"
         /\ entries'[d].child \in {"up", "stopping"} => d # e /\ entries[d].child = entries'[d].child
  <2> SUFFICES ASSUME NEW d \in Made
               PROVE  /\ entries'[d].inst = entries[d].inst
                      /\ entries'[d].stopping = entries[d].stopping
                      /\ entries'[d].timer = entries[d].timer
                      /\ entries'[d].subs = entries[d].subs
                      /\ entries'[d].child \in Live <=> entries[d].child \in Live
                      /\ entries'[d].child = "none" <=> entries[d].child = "none"
                      /\ entries'[d].child \in {"up", "stopping"}
                           => d # e /\ entries[d].child = entries'[d].child
    OBVIOUS
  <2>1. CASE d = e BY <1>3, <1>6, <1>10, <2>1
  <2>2. CASE d # e BY <1>10, <2>2
  <2> QED BY <2>1, <2>2
<1>12. TypeInv' BY <1>1, <1>4, <1>9, <1>10, HistoryType DEF TypeInv
<1>13. ASSUME NEW j \in Instances PROVE InMap(j)'
  BY <1>1, <1>4, <1>9, <1>11 DEF InMap, StateInv
<1>14. ASSUME NEW d \in Made' PROVE EntrySound(d)'
  BY <1>1, <1>9, <1>11 DEF EntrySound, StateInv
<1>15. ASSUME NEW m \in Calls PROVE CallSound(m)'
  <2>1. CallSound(m) BY <1>1 DEF StateInv
  <2>2. CASE m = n BY <1>2, <1>7, <1>9, <1>10, <1>11, <2>2 DEF CallSound, Going
  <2>3. CASE m # n BY <1>9, <1>10, <1>11, <2>1, <2>3 DEF CallSound, Going
  <2> QED BY <2>2, <2>3
<1>16. Awaited'
  <2> SUFFICES ASSUME NEW d \in Made, entries'[d].child = "stopping"
               PROVE  \E m \in Calls : Waits(m, d)'
    BY <1>9 DEF Awaited
  <2>1. entries[d].child = "stopping" /\ d # e BY <1>11
  <2>2. PICK m \in Calls : Waits(m, d) BY <1>1, <2>1 DEF StateInv, Awaited
  <2>3. m # n BY <2>1, <2>2 DEF Waits
  <2> QED BY <1>10, <2>2, <2>3 DEF Waits
<1>17. Owned' BY <1>1, <1>4, <1>9, <1>11 DEF Owned, StateInv
<1>18. StateInv' BY <1>12, <1>13, <1>14, <1>15, <1>16, <1>17 DEF StateInv
<1>19. ASSUME NEW j \in Instances, ~clashed[j] PROVE Known(j)' /\ Minded(j)'
  <2>1. Known(j) /\ Minded(j) BY <1>19 DEF IInv, Unclashed
  <2>2. Known(j)' BY <1>4, <1>9, <1>11, <2>1 DEF Known
  <2>3. Starts(j) => Starts(j)'
    <3>1. \A m \in Calls : Going(m) => Going(m)' /\ call'[m].inst = call[m].inst
                                                 /\ call'[m].then = call[m].then
      BY <1>7, <1>10 DEF Going
    <3> QED BY <3>1 DEF Starts
  <2>4. running[j] # 0 => running[j] \in Made BY <1>1 DEF StateInv, InMap
  <2>5. Minded(j)' BY <1>4, <1>11, <2>1, <2>3, <2>4 DEF Minded
  <2> QED BY <2>2, <2>5
<1> QED BY <1>1, <1>18, <1>19, Histories DEF IInv

\* `subscribe` and `unsubscribe` of a child
LEMMA SubscribesKeep ==
  ASSUME IInv, Remembers, NEW e \in Made, NEW id \in Topics,
         Subscribe(e, id) \/ Unsubscribe(e, id)
  PROVE  IInv'
<1> SUFFICES ASSUME NEW i, i = entries[e].inst PROVE IInv'
  OBVIOUS
<1> DEFINE subs == IF id \in entries[e].subs THEN entries[e].subs \ {id}
                   ELSE entries[e].subs \cup {id}
           x == [entries[e] EXCEPT !.subs = subs]
<1>1. /\ StateInv /\ TypeInv /\ entries \in [Made -> Entry] /\ entries[e] \in Entry
      /\ clashed \in [Instances -> BOOLEAN] /\ i \in Instances /\ e # 0
      /\ \A d \in Made : entries[d] \in Entry
  BY Types DEF IInv, StateInv, TypeInv, Entry
<1>2. /\ entries[e].child \in Live /\ UNCHANGED <<db, running, routed, call, refused>>
  BY DEF Subscribe, Unsubscribe
<1>3. /\ x \in Entry /\ x.inst = i /\ x.child = entries[e].child
      /\ x.stopping = entries[e].stopping /\ x.timer = entries[e].timer /\ x.subs = subs
  BY <1>1 DEF Entry
<1>4. entries' = [entries EXCEPT ![e] = x]
  <2>1. CASE Subscribe(e, id) BY <1>1, <2>1 DEF Subscribe
  <2>2. CASE Unsubscribe(e, id) BY <1>1, <2>2 DEF Unsubscribe
  <2> QED BY <2>1, <2>2
<1>5. /\ adhoc' \subseteq Instances \X Topics
      /\ \A j \in Instances, k \in Topics :
           <<j, k>> \in adhoc' <=> IF j = i /\ k = id THEN id \in subs ELSE <<j, k>> \in adhoc
  <2>1. Keys(i, {id}) = {<<i, id>>} BY DEF Keys
  <2>2. CASE Subscribe(e, id)
    <3>1. id \notin entries[e].subs /\ adhoc' = adhoc \cup {<<i, id>>} BY <2>1, <2>2 DEF Subscribe
    <3>2. id \in subs BY <3>1
    <3> HIDE DEF subs
    <3> QED BY <1>1, <3>1, <3>2 DEF TypeInv
  <2>3. CASE Unsubscribe(e, id)
    <3>1. id \in entries[e].subs /\ adhoc' = adhoc \ {<<i, id>>} BY <2>1, <2>3 DEF Unsubscribe
    <3>2. id \notin subs BY <3>1
    <3> HIDE DEF subs
    <3> QED BY <1>1, <3>1, <3>2 DEF TypeInv
  <2> QED BY <2>2, <2>3
<1>6. \A k \in Topics : k # id => (k \in subs <=> k \in entries[e].subs) OBVIOUS
<1> HIDE DEF x, subs
<1>7. SameEntries BY <1>1, <1>3, <1>4 DEF SameEntries
<1>8. /\ entries' \in Seq(Entry) /\ Made' = Made /\ Len(entries') = Len(entries)
      /\ Len(entries) \in Nat
  BY <1>1, <1>7, SameMade, Types
<1>9. entries'[e] = x /\ \A d \in Made : d # e => entries'[d] = entries[d]
  BY <1>1, <1>3, <1>4
<1>10. \A d \in Made :
         /\ entries'[d].inst = entries[d].inst /\ entries'[d].stopping = entries[d].stopping
         /\ entries'[d].timer = entries[d].timer /\ entries'[d].child = entries[d].child
  BY <1>3, <1>9
<1>11. TypeInv' BY <1>1, <1>2, <1>5, <1>8, HistoryType DEF TypeInv
<1>12. ASSUME NEW j \in Instances PROVE InMap(j)'
  BY <1>1, <1>2, <1>8, <1>10 DEF InMap, StateInv
<1>13. ASSUME NEW d \in Made' PROVE EntrySound(d)'
  <2>1. CASE d = e BY <1>1, <1>2, <1>8, <1>10, <2>1 DEF EntrySound, StateInv
  <2>2. CASE d # e BY <1>1, <1>8, <1>9, <2>2 DEF EntrySound, StateInv
  <2> QED BY <2>1, <2>2
<1>14. ASSUME NEW m \in Calls PROVE CallSound(m)'
  BY <1>1, <1>2, <1>8, <1>10 DEF CallSound, Going, StateInv
<1>15. Awaited' BY <1>1, <1>2, <1>8, <1>10 DEF Awaited, Waits, StateInv
<1>16. Owned'
  <2> SUFFICES ASSUME NEW j \in Instances, NEW k \in Topics, <<j, k>> \in adhoc'
               PROVE  \E d \in Made : entries'[d].inst = j /\ k \in entries'[d].subs
    BY <1>8 DEF Owned
  <2>1. CASE j = i /\ k = id BY <1>3, <1>5, <1>9, <2>1
  <2>2. CASE ~(j = i /\ k = id)
    <3>1. PICK d \in Made : entries[d].inst = j /\ k \in entries[d].subs
      BY <1>1, <1>5, <2>2 DEF StateInv, Owned
    <3> QED BY <1>3, <1>6, <1>9, <2>2, <3>1
  <2> QED BY <2>1, <2>2
<1>17. StateInv' BY <1>11, <1>12, <1>13, <1>14, <1>15, <1>16 DEF StateInv
<1>18. ASSUME NEW j \in Instances, ~clashed[j] PROVE Known(j)' /\ Minded(j)'
  <2>1. Known(j) /\ Minded(j) BY <1>18 DEF IInv, Unclashed
  <2>2. Known(j)'
    <3> SUFFICES ASSUME NEW d \in Made, entries'[d].inst = j, entries'[d].child \in Live
                 PROVE  running'[j] = d /\ \A k \in entries'[d].subs : <<j, k>> \in adhoc'
      BY <1>8 DEF Known
    <3>1. running[j] = d /\ \A k \in entries[d].subs : <<j, k>> \in adhoc
      BY <1>10, <2>1 DEF Known
    <3>2. entries'[d].subs \subseteq Topics BY <1>7 DEF SameEntries, Entry
    <3>3. CASE d = e
      <4>1. j = i BY <1>10, <3>3
      <4> QED BY <1>2, <1>3, <1>5, <1>6, <1>9, <3>1, <3>2, <3>3, <4>1
    <3>4. CASE d # e
      <4>1. j # i BY <1>2, <2>1, <3>1, <3>4 DEF Known
      <4> QED BY <1>2, <1>5, <1>9, <3>1, <3>2, <3>4, <4>1
    <3> QED BY <3>3, <3>4
  <2>3. running[j] # 0 => running[j] \in Made BY <1>1 DEF StateInv, InMap
  <2>4. Minded(j)' BY <1>2, <1>10, <2>1, <2>3 DEF Minded, Starts, Going
  <2> QED BY <2>2, <2>4
<1> QED BY <1>1, <1>17, <1>18, Histories DEF IInv

\* The exit of a process: a crash leaves the entry to its restart timer, a stop
\* takes the instance out of the Map, whoever is in it.
LEMMA ExitKeeps ==
  ASSUME IInv, Remembers, NEW e \in Made, Exit(e)
  PROVE  IInv'
<1> SUFFICES ASSUME NEW i, i = entries[e].inst, NEW r, r = running[i] PROVE IInv'
  OBVIOUS
<1> DEFINE y == [entries[e] EXCEPT !.child = "none", !.subs = {}]
           es == [entries EXCEPT ![e] = y]
<1>1. /\ StateInv /\ TypeInv /\ entries \in [Made -> Entry] /\ entries[e] \in Entry
      /\ clashed \in [Instances -> BOOLEAN] /\ i \in Instances /\ e # 0 /\ 0 \notin Made
      /\ routed \in [Instances -> BOOLEAN] /\ running \in [Instances -> Nat]
      /\ call \in [Calls -> Call] /\ EntrySound(e) /\ \A d \in Made : entries[d] \in Entry
  BY Types DEF IInv, StateInv, TypeInv, Entry
<1>2. entries[e].child \in Live /\ UNCHANGED <<db, refused>> /\ call' = Resolved(e)
  BY DEF Exit
<1>3. /\ y \in Entry /\ y.inst = i /\ y.child = "none" /\ y.subs = {}
      /\ y.stopping = entries[e].stopping /\ y.timer = entries[e].timer
  BY <1>1 DEF Entry, Child
<1>4. [entries EXCEPT ![e].child = "none", ![e].subs = {}] = es BY <1>1
<1>5. es \in [Made -> Entry] /\ es[e] = y /\ \A d \in Made : d # e => es[d] = entries[d]
  BY <1>1, <1>3
<1>6. /\ Released(e) \subseteq adhoc
      /\ \A j \in Instances, id \in Topics :
           <<j, id>> \in Released(e) <=> <<j, id>> \in adhoc /\ ~(j = i /\ id \in entries[e].subs)
  <2>1. \A j \in Instances, id \in Topics :
          <<j, id>> \in Keys(i, entries[e].subs) <=> j = i /\ id \in entries[e].subs
    BY KeyOf
  <2> QED BY <2>1 DEF Released
<1> HIDE DEF y
<1>7. InMap(i) BY <1>1 DEF StateInv
<1>8. /\ SameEntries
      /\ \A d \in Made : d # e /\ (Restarts(e) \/ d # r) => entries'[d] = entries[d]
      /\ entries'[e].child = "none" /\ entries'[e].inst = i /\ entries'[e].subs = {}
      /\ entries'[e].stopping = entries[e].stopping
      /\ ~Restarts(e) /\ r # 0 =>
           /\ entries'[r].inst = i /\ entries'[r].subs = {} /\ ~entries'[r].timer
           /\ entries'[r].stopping = entries[r].stopping
           /\ r # e => entries'[r].child = entries[r].child
      /\ ~Restarts(e) => entries'[e].timer \in BOOLEAN /\ (entries'[e].timer => entries[e].timer)
      /\ adhoc' \subseteq adhoc
      /\ \A j \in Instances, id \in Topics :
           <<j, id>> \in adhoc' <=>
             /\ <<j, id>> \in adhoc /\ ~(j = i /\ id \in entries[e].subs)
             /\ ~(j = i /\ ~Restarts(e) /\ r # 0 /\ r # e /\ id \in entries[r].subs)
      /\ IF Restarts(e) THEN UNCHANGED <<running, routed>>
         ELSE running' = [running EXCEPT ![i] = 0] /\ routed' = [routed EXCEPT ![i] = FALSE]
  <2>1. CASE Restarts(e)
    <3> DEFINE x == [y EXCEPT !.timer = TRUE]
    <3>1. /\ x \in Entry /\ x.inst = i /\ x.child = "none" /\ x.subs = {}
          /\ x.stopping = entries[e].stopping
      BY <1>3 DEF Entry
    <3>2. /\ entries' = [es EXCEPT ![e].timer = TRUE]
          /\ adhoc' = Released(e) /\ UNCHANGED <<running, routed>>
      BY <1>4, <2>1 DEF Exit
    <3>3. entries' = [es EXCEPT ![e] = x] BY <1>5, <3>2
    <3> HIDE DEF x, es
    <3>4. SameEntries /\ entries'[e] = x /\ \A d \in Made : d # e => entries'[d] = entries[d]
      BY <1>5, <3>1, <3>3 DEF SameEntries
    <3> QED BY <1>6, <2>1, <3>1, <3>2, <3>4
  <2>2. CASE ~Restarts(e)
    <3> DEFINE ah == Released(e)
    <3>1. Cleanup(i, es, ah) BY <1>4, <2>2 DEF Exit
    <3> HIDE DEF es, ah
    <3>2. /\ SameEntries
          /\ running' = [running EXCEPT ![i] = 0] /\ routed' = [routed EXCEPT ![i] = FALSE]
          /\ \A d \in Made :
               entries'[d] = IF d = running[i] THEN [es[d] EXCEPT !.timer = FALSE, !.subs = {}]
                             ELSE es[d]
          /\ \A j \in Instances, id \in Topics :
               <<j, id>> \in adhoc' <=>
                 <<j, id>> \in ah /\ ~(j = i /\ running[i] # 0 /\ id \in es[running[i]].subs)
          /\ adhoc' \subseteq ah
      BY <1>1, <1>5, <1>7, <3>1, CleanupDoes
    <3>3. \A d \in Made : /\ [es[d] EXCEPT !.timer = FALSE, !.subs = {}].inst = es[d].inst
                          /\ [es[d] EXCEPT !.timer = FALSE, !.subs = {}].subs = {}
                          /\ [es[d] EXCEPT !.timer = FALSE, !.subs = {}].timer = FALSE
                          /\ [es[d] EXCEPT !.timer = FALSE, !.subs = {}].child = es[d].child
                          /\ [es[d] EXCEPT !.timer = FALSE, !.subs = {}].stopping = es[d].stopping
      BY <1>5 DEF Entry
    <3>4. r # 0 => r \in Made /\ entries[r].inst = i BY <1>7 DEF InMap
    <3>5. \A d \in Made : d # e /\ d # r => entries'[d] = entries[d] BY <1>5, <3>2
    <3>6. /\ entries'[e].child = "none" /\ entries'[e].inst = i /\ entries'[e].subs = {}
          /\ entries'[e].stopping = entries[e].stopping
          /\ entries'[e].timer \in BOOLEAN /\ (entries'[e].timer => entries[e].timer)
      <4>1. CASE e = r
        <5>1. entries'[e] = [es[e] EXCEPT !.timer = FALSE, !.subs = {}] BY <3>2, <4>1
        <5> QED BY <1>3, <1>5, <3>3, <5>1
      <4>2. CASE e # r
        <5>1. entries'[e] = y BY <1>5, <3>2, <4>2
        <5>2. y.timer \in BOOLEAN BY <1>3 DEF Entry
        <5> QED BY <1>3, <5>1, <5>2
      <4> QED BY <4>1, <4>2
    <3>7. r # 0 => /\ entries'[r].inst = i /\ entries'[r].subs = {} /\ ~entries'[r].timer
                   /\ entries'[r].stopping = entries[r].stopping
                   /\ r # e => entries'[r].child = entries[r].child
      <4> SUFFICES ASSUME r # 0
                   PROVE  /\ entries'[r].inst = i /\ entries'[r].subs = {} /\ ~entries'[r].timer
                          /\ entries'[r].stopping = entries[r].stopping
                          /\ r # e => entries'[r].child = entries[r].child
        OBVIOUS
      <4>1. r \in Made /\ entries'[r] = [es[r] EXCEPT !.timer = FALSE, !.subs = {}]
        BY <3>2, <3>4
      <4>2. es[r].inst = i /\ es[r].stopping = entries[r].stopping
            /\ (r # e => es[r].child = entries[r].child)
        BY <1>3, <1>5, <3>4, <4>1
      <4> QED BY <3>3, <4>1, <4>2
    <3>8. \A j \in Instances, id \in Topics :
           <<j, id>> \in adhoc' <=>
             /\ <<j, id>> \in adhoc /\ ~(j = i /\ id \in entries[e].subs)
             /\ ~(j = i /\ ~Restarts(e) /\ r # 0 /\ r # e /\ id \in entries[r].subs)
      <4>1. \A id \in Topics : r # 0 /\ id \in es[r].subs <=> r # 0 /\ r # e /\ id \in entries[r].subs
        BY <1>3, <1>5, <3>4
      <4> QED BY <1>6, <2>2, <3>2, <4>1 DEF ah
    <3>9. adhoc' \subseteq adhoc BY <1>6, <3>2 DEF ah
    <3> QED BY <2>2, <3>2, <3>5, <3>6, <3>7, <3>8, <3>9
  <2> QED BY <2>1, <2>2
<1> HIDE DEF es
<1>9. /\ entries' \in Seq(Entry) /\ Made' = Made /\ Len(entries') = Len(entries)
      /\ Len(entries) \in Nat
  BY <1>1, <1>8, SameMade, Types
<1>10. ASSUME NEW m \in Calls
       PROVE  /\ call'[m] \in Call /\ call'[m].inst = call[m].inst
              /\ call'[m].entry = call[m].entry /\ call'[m].then = call[m].then
              /\ Going(m)' <=> Going(m)
              /\ call'[m].pc = "waiting" <=> call[m].pc = "waiting" /\ call[m].entry # e
              /\ call[m].pc = "idle" => call'[m] = call[m]
  <2>1. call'[m] = IF call[m].pc = "waiting" /\ call[m].entry = e
                   THEN [call[m] EXCEPT !.pc = "stopped"] ELSE call[m]
    BY <1>2 DEF Resolved
  <2>2. call[m] \in Call BY <1>1
  <2>3. CASE call[m].pc = "waiting" /\ call[m].entry = e
    <3> DEFINE c == [call[m] EXCEPT !.pc = "stopped"]
    <3>1. /\ c \in Call /\ c.inst = call[m].inst /\ c.entry = call[m].entry
          /\ c.then = call[m].then /\ c.pc = "stopped"
      BY <2>2 DEF Call
    <3> QED BY <2>1, <2>3, <3>1 DEF Going
  <2>4. CASE ~(call[m].pc = "waiting" /\ call[m].entry = e) BY <2>1, <2>2, <2>4 DEF Going
  <2> QED BY <2>3, <2>4
<1>11. call' \in [Calls -> Call]
  <2>1. call' = [m \in Calls |-> call'[m]] BY <1>2 DEF Resolved
  <2> QED BY <1>10, <2>1
<1>12. r # 0 => r \in Made /\ entries[r].inst = i BY <1>7 DEF InMap
<1>13. ASSUME NEW d \in Made
       PROVE  /\ entries'[d].inst = entries[d].inst
              /\ entries'[d].stopping = entries[d].stopping
              /\ d # e => entries'[d].child = entries[d].child
              /\ entries'[d].subs \in {entries[d].subs, {}}
              /\ entries'[d].timer => entries[d].timer \/ (d = e /\ Restarts(e))
              /\ d # e /\ (Restarts(e) \/ d # r) => entries'[d] = entries[d]
  <2>1. CASE d = e BY <1>8, <2>1
  <2>2. CASE d # e /\ (Restarts(e) \/ d # r) BY <1>8, <2>2
  <2>3. CASE d # e /\ ~Restarts(e) /\ d = r BY <1>1, <1>8, <1>12, <2>3
  <2> QED BY <2>1, <2>2, <2>3
<1>14. /\ running' \in [Instances -> Nat] /\ routed' \in [Instances -> BOOLEAN]
       /\ \A j \in Instances \ {i} : running'[j] = running[j] /\ routed'[j] = routed[j]
       /\ Restarts(e) => running'[i] = r /\ routed'[i] = routed[i]
       /\ ~Restarts(e) => running'[i] = 0 /\ routed'[i] = FALSE
  <2>1. CASE Restarts(e) BY <1>1, <1>8, <2>1
  <2>2. CASE ~Restarts(e)
    <3>1. running' = [running EXCEPT ![i] = 0] /\ routed' = [routed EXCEPT ![i] = FALSE]
      BY <1>8, <2>2
    <3> QED BY <1>1, <2>2, <3>1
  <2> QED BY <2>1, <2>2
<1>15. TypeInv' BY <1>1, <1>2, <1>8, <1>9, <1>11, <1>14, HistoryType DEF TypeInv
<1>16. ASSUME NEW j \in Instances PROVE InMap(j)'
  <2>1. InMap(j) BY <1>1 DEF StateInv
  <2>2. CASE j = i /\ ~Restarts(e) BY <1>14, <2>2 DEF InMap
  <2>3. CASE j # i \/ Restarts(e)
    <3>1. running'[j] = running[j] /\ routed'[j] = routed[j] BY <1>14, <2>3
    <3> QED BY <1>2, <1>9, <1>13, <2>1, <3>1 DEF InMap
  <2> QED BY <2>2, <2>3
<1>17. ASSUME NEW d \in Made' PROVE EntrySound(d)'
  <2>1. EntrySound(d) BY <1>1, <1>9 DEF StateInv
  <2>2. CASE d = e
    <3>1. ~entries[e].timer BY <1>1, <1>2 DEF EntrySound, Live
    <3> QED BY <1>8, <1>13, <2>2, <3>1 DEF EntrySound, Restarts
  <2>3. CASE d # e BY <1>9, <1>13, <2>1, <2>3 DEF EntrySound
  <2> QED BY <2>2, <2>3
<1>18. ASSUME NEW m \in Calls PROVE CallSound(m)'
  <2>1. CallSound(m) BY <1>1 DEF StateInv
  <2>2. CASE Going(m)
    <3>1. call[m].entry # 0 => /\ call[m].entry \in Made
                               /\ entries'[call[m].entry].inst = call[m].inst
                               /\ entries'[call[m].entry].stopping
      BY <1>13, <2>1, <2>2 DEF CallSound
    <3>2. call'[m].pc = "waiting" => /\ call[m].entry # 0
                                     /\ entries'[call[m].entry].child # "none"
      <4> SUFFICES ASSUME call'[m].pc = "waiting"
                   PROVE  call[m].entry # 0 /\ entries'[call[m].entry].child # "none"
        OBVIOUS
      <4>1. call[m].pc = "waiting" /\ call[m].entry # e BY <1>10
      <4>2. call[m].entry # 0 /\ entries[call[m].entry].child # "none"
        BY <2>1, <2>2, <4>1 DEF CallSound
      <4> QED BY <1>13, <3>1, <4>1, <4>2
    <3> QED BY <1>9, <1>10, <2>1, <2>2, <3>1, <3>2 DEF CallSound
  <2>3. CASE ~Going(m) BY <1>10, <2>1, <2>3 DEF CallSound, Going
  <2> QED BY <2>2, <2>3
<1>19. Awaited'
  <2> SUFFICES ASSUME NEW d \in Made, entries'[d].child = "stopping"
               PROVE  \E m \in Calls : Waits(m, d)'
    BY <1>9 DEF Awaited
  <2>1. d # e BY <1>8
  <2>2. PICK m \in Calls : Waits(m, d) BY <1>1, <1>13, <2>1 DEF StateInv, Awaited
  <2> QED BY <1>10, <2>1, <2>2 DEF Waits
<1>20. Owned'
  <2> SUFFICES ASSUME NEW j \in Instances, NEW id \in Topics, <<j, id>> \in adhoc'
               PROVE  \E d \in Made : entries'[d].inst = j /\ id \in entries'[d].subs
    BY <1>9 DEF Owned
  <2>1. PICK d \in Made : entries[d].inst = j /\ id \in entries[d].subs
    BY <1>1, <1>8 DEF StateInv, Owned
  <2>2. d # e /\ (Restarts(e) \/ d # r)
    <3>1. d # e BY <1>8, <2>1
    <3>2. ~Restarts(e) => d # r
      <4> SUFFICES ASSUME ~Restarts(e), d = r PROVE FALSE
        OBVIOUS
      <4>1. r # 0 /\ r # e /\ j = i BY <1>1, <1>12, <2>1, <3>1
      <4> QED BY <1>8, <2>1, <4>1
    <3> QED BY <3>1, <3>2
  <2> QED BY <1>13, <2>1, <2>2
<1>21. StateInv' BY <1>15, <1>16, <1>17, <1>18, <1>19, <1>20 DEF StateInv
<1>22. ASSUME NEW j \in Instances, ~clashed[j] PROVE Known(j)' /\ Minded(j)'
  <2>1. Known(j) /\ Minded(j) BY <1>22 DEF IInv, Unclashed
  <2>2. j = i => r = e BY <1>2, <2>1 DEF Known
  <2>3. Known(j)'
    <3> SUFFICES ASSUME NEW d \in Made, entries'[d].inst = j, entries'[d].child \in Live
                 PROVE  running'[j] = d /\ \A id \in entries'[d].subs : <<j, id>> \in adhoc'
      BY <1>9 DEF Known
    <3>1. d # e BY <1>8 DEF Live
    <3>2. running[j] = d /\ \A id \in entries[d].subs : <<j, id>> \in adhoc
      BY <1>13, <2>1, <3>1 DEF Known
    <3>3. j # i BY <2>2, <3>1, <3>2
    <3>4. d # r BY <1>1, <1>12, <1>13, <3>3
    <3>5. entries'[d].subs = entries[d].subs /\ entries[d].subs \subseteq Topics
      BY <1>1, <1>13, <3>1, <3>4 DEF Entry
    <3> QED BY <1>8, <1>14, <3>2, <3>3, <3>5
  <2>4. Minded(j)'
    <3>1. Starts(j) => Starts(j)' BY <1>10 DEF Starts
    <3>2. running[j] # 0 => running[j] \in Made BY <1>1 DEF StateInv, InMap
    <3>3. CASE j # i \/ Restarts(e)
      <4>1. running'[j] = running[j] BY <1>14, <3>3
      <4> QED BY <1>2, <1>13, <2>1, <3>1, <3>2, <4>1 DEF Minded
    <3>4. CASE j = i /\ ~Restarts(e) BY <1>2, <2>1, <2>2, <3>1, <3>4 DEF Minded, Restarts
    <3> QED BY <3>3, <3>4
  <2> QED BY <2>3, <2>4
<1> QED BY <1>1, <1>21, <1>22, Histories DEF IInv

\* The restart timer finds its entry without a child, and nobody has stopped it.
LEMMA RestartTimeoutKeeps ==
  ASSUME IInv, Remembers, NEW e \in Made, RestartTimeout(e)
  PROVE  IInv'
<1> SUFFICES ASSUME NEW i, i = entries[e].inst PROVE IInv'
  OBVIOUS
<1> DEFINE y == [entries[e] EXCEPT !.timer = FALSE]
<1>1. /\ StateInv /\ TypeInv /\ entries \in [Made -> Entry] /\ entries[e] \in Entry
      /\ clashed \in [Instances -> BOOLEAN] /\ i \in Instances /\ e # 0
      /\ routed \in [Instances -> BOOLEAN] /\ EntrySound(e)
      /\ \A d \in Made : entries[d] \in Entry
  BY Types DEF IInv, StateInv, TypeInv, Entry
<1>2. /\ entries[e].timer /\ UNCHANGED <<db, running, adhoc, call, refused>>
  BY DEF RestartTimeout
<1>3. entries[e].child = "none" /\ ~entries[e].stopping /\ entries[e].subs = {}
  BY <1>1, <1>2 DEF EntrySound, Live
<1>4. /\ y \in Entry /\ y.inst = i /\ y.child = "none" /\ y.subs = {} /\ y.timer = FALSE
      /\ y.stopping = entries[e].stopping
  BY <1>1, <1>3 DEF Entry
<1>5. [entries EXCEPT ![e].timer = FALSE] = [entries EXCEPT ![e] = y] BY <1>1
<1> HIDE DEF y
<1>6. \E x \in Entry :
        /\ entries' = [entries EXCEPT ![e] = x]
        /\ x.inst = i /\ x.stopping = FALSE /\ x.timer = FALSE /\ x.subs = {}
        /\ x.child \in {"none", "up", "failed"}
        /\ x.child # "none" => running[i] = e
        /\ IF running[i] = e THEN routed' = [routed EXCEPT ![i] = TRUE] ELSE routed' = routed
  <2>1. CASE running[i] = e
    <3>1. PICK c \in {"up", "failed"} :
            entries' = [[entries EXCEPT ![e] = y] EXCEPT ![e].child = c]
      BY <1>5, <2>1 DEF RestartTimeout, Spawned
    <3> DEFINE x == [y EXCEPT !.child = c]
    <3>2. /\ x \in Entry /\ x.inst = i /\ x.stopping = entries[e].stopping /\ x.timer = FALSE
          /\ x.subs = {} /\ x.child = c
      BY <1>4 DEF Entry, Child, Live
    <3>3. entries' = [entries EXCEPT ![e] = x] BY <1>1, <3>1
    <3>4. routed' = [routed EXCEPT ![i] = TRUE] BY <2>1 DEF RestartTimeout
    <3>5. x.stopping = FALSE BY <1>3, <3>2 DEF Entry
    <3> HIDE DEF x
    <3> QED BY <2>1, <3>2, <3>3, <3>4, <3>5
  <2>2. CASE running[i] # e
    <3>1. entries' = [entries EXCEPT ![e] = y] /\ routed' = routed
      BY <1>5, <2>2 DEF RestartTimeout
    <3>2. y.stopping = FALSE BY <1>3, <1>4 DEF Entry
    <3> QED BY <1>4, <2>2, <3>1, <3>2
  <2> QED BY <2>1, <2>2
<1>7. PICK x \in Entry :
        /\ entries' = [entries EXCEPT ![e] = x]
        /\ x.inst = i /\ x.stopping = FALSE /\ x.timer = FALSE /\ x.subs = {}
        /\ x.child \in {"none", "up", "failed"}
        /\ x.child # "none" => running[i] = e
        /\ IF running[i] = e THEN routed' = [routed EXCEPT ![i] = TRUE] ELSE routed' = routed
  BY <1>6
<1>8. SameEntries BY <1>1, <1>7 DEF SameEntries
<1>9. /\ entries' \in Seq(Entry) /\ Made' = Made /\ Len(entries') = Len(entries)
      /\ Len(entries) \in Nat
  BY <1>1, <1>8, SameMade, Types
<1>10. entries'[e] = x /\ \A d \in Made : d # e => entries'[d] = entries[d] BY <1>1, <1>7
<1>11. ASSUME NEW d \in Made
       PROVE  /\ entries'[d].inst = entries[d].inst
              /\ entries'[d].stopping <=> entries[d].stopping
              /\ entries'[d].subs = entries[d].subs
              /\ entries'[d].timer => entries[d].timer /\ entries'[d].child = entries[d].child
              /\ d # e => entries'[d] = entries[d]
  <2>1. CASE d = e BY <1>3, <1>7, <1>10, <2>1
  <2>2. CASE d # e
    <3>1. entries'[d] = entries[d] BY <1>10, <2>2
    <3>2. EntrySound(d) BY <1>1 DEF StateInv
    <3> QED BY <2>2, <3>1
  <2> QED BY <2>1, <2>2
<1>12. routed' \in [Instances -> BOOLEAN] /\ \A j \in Instances : InMap(j) => routed'[j] = routed[j]
  <2>1. CASE running[i] = e
    <3>1. routed' = [routed EXCEPT ![i] = TRUE] BY <1>7, <2>1
    <3>2. InMap(i) => routed[i] = TRUE BY <1>1, <2>1 DEF InMap
    <3> QED BY <1>1, <3>1, <3>2
  <2>2. CASE running[i] # e BY <1>1, <1>7, <2>2
  <2> QED BY <2>1, <2>2
<1>13. TypeInv' BY <1>1, <1>2, <1>9, <1>12, HistoryType DEF TypeInv
<1>14. ASSUME NEW j \in Instances PROVE InMap(j)'
  <2>1. InMap(j) /\ routed'[j] = routed[j] BY <1>1, <1>12 DEF StateInv
  <2> QED BY <1>2, <1>9, <1>11, <2>1 DEF InMap
<1>15. ASSUME NEW d \in Made' PROVE EntrySound(d)'
  <2>1. CASE d = e BY <1>7, <1>10, <2>1 DEF EntrySound
  <2>2. CASE d # e BY <1>1, <1>9, <1>10, <2>2 DEF EntrySound, StateInv
  <2> QED BY <2>1, <2>2
<1>16. ASSUME NEW m \in Calls PROVE CallSound(m)'
  <2>1. CallSound(m) BY <1>1 DEF StateInv
  <2>2. Going(m) /\ call[m].entry # 0 => call[m].entry # e
    BY <1>3, <2>1 DEF CallSound
  <2> QED BY <1>2, <1>9, <1>11, <2>1, <2>2 DEF CallSound, Going
<1>17. Awaited'
  <2> SUFFICES ASSUME NEW d \in Made, entries'[d].child = "stopping"
               PROVE  \E m \in Calls : Waits(m, d)'
    BY <1>9 DEF Awaited
  <2>1. d # e BY <1>7, <1>10
  <2>2. PICK m \in Calls : Waits(m, d) BY <1>1, <1>11, <2>1 DEF StateInv, Awaited
  <2> QED BY <1>2, <2>2 DEF Waits
<1>18. Owned' BY <1>1, <1>2, <1>9, <1>11 DEF Owned, StateInv
<1>19. StateInv' BY <1>13, <1>14, <1>15, <1>16, <1>17, <1>18 DEF StateInv
<1>20. ASSUME NEW j \in Instances, ~clashed[j] PROVE Known(j)' /\ Minded(j)'
  <2>1. Known(j) /\ Minded(j) BY <1>20 DEF IInv, Unclashed
  <2>2. Known(j)'
    <3> SUFFICES ASSUME NEW d \in Made, entries'[d].inst = j, entries'[d].child \in Live
                 PROVE  running'[j] = d /\ \A id \in entries'[d].subs : <<j, id>> \in adhoc'
      BY <1>9 DEF Known
    <3>1. CASE d = e
      <4>1. j = i /\ entries'[d].subs = {} BY <1>7, <1>10, <3>1
      <4>2. running[i] = e BY <1>7, <1>10, <3>1 DEF Live
      <4> QED BY <1>2, <3>1, <4>1, <4>2
    <3>2. CASE d # e BY <1>2, <1>10, <2>1, <3>2 DEF Known
    <3> QED BY <3>1, <3>2
  <2>3. running[j] # 0 => running[j] \in Made BY <1>1 DEF StateInv, InMap
  <2>4. Minded(j)' BY <1>2, <1>11, <2>1, <2>3 DEF Minded, Starts, Going
  <2> QED BY <2>2, <2>4
<1> QED BY <1>1, <1>19, <1>20, Histories DEF IInv

\* A new entry for the instance of a call, with its fork.
Added(i) ==
  \E x \in Entry :
    /\ x.inst = i /\ x.child \in {"up", "failed"} /\ x.stopping = FALSE /\ x.timer = FALSE
    /\ x.subs = {} /\ entries' = Append(entries, x)
    /\ running' = [running EXCEPT ![i] = Len(entries) + 1]
    /\ routed' = [routed EXCEPT ![i] = TRUE]

LEMMA StartAdds ==
  ASSUME TypeInv, NEW i \in Instances, StartInstance(i)
  PROVE  \/ refused' = [refused EXCEPT ![i] = TRUE] /\ UNCHANGED <<entries, running, routed>>
         \/ refused' = [refused EXCEPT ![i] = FALSE] /\ Added(i)
<1> DEFINE e == Len(entries) + 1
           new == [inst |-> i, child |-> "none", stopping |-> FALSE, timer |-> FALSE, subs |-> {}]
<1>1. entries \in Seq(Entry) /\ Len(entries) \in Nat BY LenProperties DEF TypeInv
<1>2. CASE refused' = [refused EXCEPT ![i] = TRUE] /\ UNCHANGED <<entries, running, routed>>
  BY <1>2
<1>3. ASSUME NEW c \in {"up", "failed"}, entries' = Spawned(Append(entries, new), e, c),
             running' = [running EXCEPT ![i] = e], routed' = [routed EXCEPT ![i] = TRUE],
             refused' = [refused EXCEPT ![i] = FALSE]
      PROVE  refused' = [refused EXCEPT ![i] = FALSE] /\ Added(i)
  <2> DEFINE x == [new EXCEPT !.child = c]
             t == Append(entries, new)
             u == Append(entries, x)
  <2>1. /\ new \in Entry /\ x \in Entry /\ x.inst = i /\ x.child = c /\ x.stopping = FALSE
        /\ x.timer = FALSE /\ x.subs = {}
    BY DEF Entry, Child, Live
  <2> HIDE DEF new, x
  <2>2. /\ t \in Seq(Entry) /\ Len(t) = e /\ t[e] = new /\ u \in Seq(Entry) /\ Len(u) = e
        /\ u[e] = x /\ \A d \in 1..Len(entries) : t[d] = entries[d] /\ u[d] = entries[d]
    BY <1>1, <2>1, AppendProperties
  <2> HIDE DEF t, u
  <2>3. t \in [1..e -> Entry] /\ e \in 1..e BY <1>1, <2>2, LenProperties
  <2>4. entries' = [t EXCEPT ![e] = x] BY <1>3, <2>2, <2>3 DEF Spawned, t, x
  <2>5. [t EXCEPT ![e] = x] = u
    <3>1. /\ [t EXCEPT ![e] = x] \in Seq(Entry) /\ Len([t EXCEPT ![e] = x]) = Len(t)
          /\ \A d \in 1..Len(t) : [t EXCEPT ![e] = x][d] = IF d = e THEN x ELSE t[d]
      BY <1>1, <2>1, <2>2, ExceptSeq
    <3>2. \A d \in 1..Len(u) : [t EXCEPT ![e] = x][d] = u[d] BY <1>1, <2>2, <3>1
    <3> HIDE DEF e
    <3> QED BY <2>2, <3>1, <3>2, SeqEqual
  <2>6. entries' = Append(entries, x) BY <2>4, <2>5 DEF u
  <2> QED BY <1>3, <2>1, <2>6 DEF Added
<1> QED BY <1>2, <1>3 DEF StartInstance

\* The rest of a call: it starts the instance, finds no manifest, or is over.
LEMMA FinishKeeps ==
  ASSUME IInv, Remembers, NEW n \in Calls, Finish(n)
  PROVE  IInv'
<1> SUFFICES ASSUME NEW i, i = call[n].inst PROVE IInv'
  OBVIOUS
<1>1. /\ StateInv /\ TypeInv /\ entries \in [Made -> Entry] /\ entries \in Seq(Entry)
      /\ clashed \in [Instances -> BOOLEAN] /\ Len(entries) \in Nat
      /\ routed \in [Instances -> BOOLEAN] /\ running \in [Instances -> Nat]
      /\ call \in [Calls -> Call] /\ db \in [Instances -> {"on", "off", "none"}]
      /\ refused \in [Instances -> BOOLEAN] /\ adhoc \subseteq Instances \X Topics
  BY Types DEF IInv, StateInv, TypeInv
<1>2. Going(n) /\ CallSound(n) /\ i \in Instances
  BY <1>1 DEF StateInv, CallSound, Finish, Going
<1>3. /\ call' = [call EXCEPT ![n] = Idle] /\ adhoc' = adhoc
      /\ db' = IF call[n].then = "delete" THEN [db EXCEPT ![i] = "none"] ELSE db
  BY DEF Finish
<1>4. Idle \in Call BY DEF Idle, Call
<1>5. /\ call' \in [Calls -> Call] /\ call'[n] = Idle
      /\ \A m \in Calls : m # n => call'[m] = call[m]
  BY <1>1, <1>3, <1>4
<1>6. /\ db' \in [Instances -> {"on", "off", "none"}]
      /\ \A j \in Instances : db'[j] \in {db[j], "none"} /\ (j # i => db'[j] = db[j])
      /\ call[n].then = "delete" => db'[i] = "none"
  BY <1>1, <1>2, <1>3
<1>7. \A j \in Instances : (Starts(j) /\ j # i => Starts(j)')
      /\ (Starts(i) /\ call[n].then = "nothing" => Starts(i)')
  BY <1>2, <1>5 DEF Starts, Going
<1>8. CASE UNCHANGED <<entries, running, routed>> /\ refused' \in [Instances -> BOOLEAN]
           /\ (\A j \in Instances : refused[j] => refused'[j])
           /\ (call[n].then = "reload" /\ db[i] = "on" => refused'[i] = TRUE)
  <2>1. Made' = Made BY <1>8 DEF Made
  <2>2. TypeInv' BY <1>1, <1>3, <1>5, <1>6, <1>8, HistoryType DEF TypeInv
  <2>3. ASSUME NEW j \in Instances PROVE InMap(j)'
    BY <1>1, <1>6, <1>8, <2>1 DEF InMap, StateInv
  <2>4. ASSUME NEW d \in Made' PROVE EntrySound(d)' BY <1>1, <1>8, <2>1 DEF EntrySound, StateInv
  <2>5. ASSUME NEW m \in Calls PROVE CallSound(m)'
    <3>1. CASE m = n BY <1>5, <3>1 DEF CallSound, Going, Idle
    <3>2. CASE m # n BY <1>1, <1>5, <1>8, <2>1, <3>2 DEF CallSound, Going, StateInv
    <3> QED BY <3>1, <3>2
  <2>6. Awaited'
    <3> SUFFICES ASSUME NEW d \in Made, entries[d].child = "stopping"
                 PROVE  \E m \in Calls : Waits(m, d)'
      BY <1>8, <2>1 DEF Awaited
    <3>1. PICK m \in Calls : Waits(m, d) BY <1>1 DEF StateInv, Awaited
    <3>2. m # n BY <3>1 DEF Waits, Finish
    <3> QED BY <1>5, <3>1, <3>2 DEF Waits
  <2>7. Owned' BY <1>1, <1>3, <1>8, <2>1 DEF Owned, StateInv
  <2>8. StateInv' BY <2>2, <2>3, <2>4, <2>5, <2>6, <2>7 DEF StateInv
  <2>9. ASSUME NEW j \in Instances, ~clashed[j] PROVE Known(j)' /\ Minded(j)'
    <3>1. Known(j) /\ Minded(j) BY <2>9 DEF IInv, Unclashed
    <3>2. Known(j)' BY <1>3, <1>8, <2>1, <3>1 DEF Known
    <3>3. Minded(j)'
      <4>1. CASE j # i BY <1>6, <1>7, <1>8, <3>1, <4>1 DEF Minded
      <4>2. CASE j = i /\ call[n].then = "nothing"
        BY <1>6, <1>7, <1>8, <3>1, <4>2 DEF Minded
      <4>3. CASE j = i /\ call[n].then = "delete" BY <1>6, <4>3 DEF Minded
      <4>4. CASE j = i /\ call[n].then = "reload" BY <1>6, <1>8, <4>4 DEF Minded
      <4>5. call[n].then \in {"reload", "nothing", "delete"} BY <1>1 DEF Call
      <4> QED BY <4>1, <4>2, <4>3, <4>4, <4>5
    <3> QED BY <3>2, <3>3
  <2> QED BY <1>1, <2>8, <2>9, Histories DEF IInv
<1>9. CASE refused' = [refused EXCEPT ![i] = FALSE] /\ db[i] = "on" /\ db' = db /\ Added(i)
  <2> SUFFICES ASSUME NEW e, e = Len(entries) + 1 PROVE IInv'
    OBVIOUS
  <2>1. PICK x \in Entry :
          /\ x.inst = i /\ x.child \in {"up", "failed"} /\ x.stopping = FALSE /\ x.timer = FALSE
          /\ x.subs = {} /\ entries' = Append(entries, x)
          /\ running' = [running EXCEPT ![i] = e] /\ routed' = [routed EXCEPT ![i] = TRUE]
    BY <1>9 DEF Added
  <2>2. /\ entries' \in Seq(Entry) /\ Len(entries') = e /\ entries'[e] = x
        /\ \A d \in Made : entries'[d] = entries[d]
    BY <1>1, <2>1, AppendProperties DEF Made
  <2>3. Made' = Made \cup {e} /\ e \notin Made /\ e # 0 /\ e \in Nat /\ 0 \notin Made
    BY <1>1, <2>2 DEF Made
  <2>4. /\ running' \in [Instances -> Nat] /\ running'[i] = e
        /\ \A j \in Instances \ {i} : running'[j] = running[j]
    BY <1>1, <1>2, <2>1, <2>3
  <2>5. /\ routed' \in [Instances -> BOOLEAN] /\ routed'[i] = TRUE
        /\ \A j \in Instances \ {i} : routed'[j] = routed[j]
        /\ refused' \in [Instances -> BOOLEAN]
        /\ \A j \in Instances \ {i} : refused'[j] = refused[j]
    BY <1>1, <1>2, <1>9, <2>1
  <2>6. TypeInv' BY <1>1, <1>3, <1>5, <1>6, <2>2, <2>4, <2>5, HistoryType DEF TypeInv
  <2>7. ASSUME NEW j \in Instances PROVE InMap(j)'
    <3>1. InMap(j) BY <1>1 DEF StateInv
    <3>2. CASE j = i BY <1>9, <2>1, <2>2, <2>3, <2>4, <2>5, <3>2 DEF InMap
    <3>3. CASE j # i BY <1>9, <2>2, <2>3, <2>4, <2>5, <3>1, <3>3 DEF InMap
    <3> QED BY <3>2, <3>3
  <2>8. ASSUME NEW d \in Made' PROVE EntrySound(d)'
    <3>1. CASE d = e BY <2>1, <2>2, <3>1 DEF EntrySound
    <3>2. CASE d \in Made BY <1>1, <2>2, <3>2 DEF EntrySound, StateInv
    <3> QED BY <2>3, <3>1, <3>2
  <2>9. ASSUME NEW m \in Calls PROVE CallSound(m)'
    <3>1. CASE m = n BY <1>5, <3>1 DEF CallSound, Going, Idle
    <3>2. CASE m # n
      <4>1. CallSound(m) /\ call'[m] = call[m] BY <1>1, <1>5, <3>2 DEF StateInv
      <4> QED BY <2>2, <2>3, <4>1 DEF CallSound, Going
    <3> QED BY <3>1, <3>2
  <2>10. Awaited'
    <3> SUFFICES ASSUME NEW d \in Made', entries'[d].child = "stopping"
                 PROVE  \E m \in Calls : Waits(m, d)'
      BY DEF Awaited
    <3>1. d \in Made /\ entries[d].child = "stopping" BY <2>1, <2>2, <2>3
    <3>2. PICK m \in Calls : Waits(m, d) BY <1>1, <3>1 DEF StateInv, Awaited
    <3>3. m # n BY <3>2 DEF Waits, Finish
    <3> QED BY <1>5, <3>2, <3>3 DEF Waits
  <2>11. Owned'
    <3> SUFFICES ASSUME NEW j \in Instances, NEW id \in Topics, <<j, id>> \in adhoc
                 PROVE  \E d \in Made' : entries'[d].inst = j /\ id \in entries'[d].subs
      BY <1>3 DEF Owned
    <3>1. PICK d \in Made : entries[d].inst = j /\ id \in entries[d].subs
      BY <1>1 DEF StateInv, Owned
    <3> QED BY <2>2, <2>3, <3>1
  <2>12. StateInv' BY <2>6, <2>7, <2>8, <2>9, <2>10, <2>11 DEF StateInv
  <2>13. ASSUME NEW j \in Instances, ~clashed[j], ~Clashes(j) PROVE Known(j)' /\ Minded(j)'
    <3>1. Known(j) /\ Minded(j) BY <2>13 DEF IInv, Unclashed
    <3>2. j = i => Processes(i) = {}
      BY <1>1, <2>1, <2>2, <2>13 DEF Clashes
    <3>3. Known(j)'
      <4> SUFFICES ASSUME NEW d \in Made', entries'[d].inst = j, entries'[d].child \in Live
                   PROVE  running'[j] = d /\ \A id \in entries'[d].subs : <<j, id>> \in adhoc'
        BY DEF Known
      <4>1. CASE d = e BY <2>1, <2>2, <2>4, <4>1
      <4>2. CASE d \in Made
        <5>1. entries[d].inst = j /\ entries[d].child \in Live BY <2>2, <4>2
        <5>2. j # i BY <3>2, <4>2, <5>1 DEF Processes
        <5>3. running[j] = d /\ \A id \in entries[d].subs : <<j, id>> \in adhoc
          BY <3>1, <4>2, <5>1 DEF Known
        <5> QED BY <1>3, <2>2, <2>4, <4>2, <5>2, <5>3
      <4> QED BY <2>3, <4>1, <4>2
    <3>4. CASE j = i BY <2>1, <2>2, <2>3, <2>4, <3>3, <3>4 DEF Minded
    <3>5. CASE j # i
      <4>1. running[j] # 0 => running[j] \in Made BY <1>1 DEF StateInv, InMap
      <4>2. Minded(j)' BY <1>7, <1>9, <2>2, <2>4, <2>5, <3>1, <3>5, <4>1 DEF Minded
      <4> QED BY <3>3, <4>2
    <3> QED BY <3>4, <3>5
  <2> QED BY <1>1, <2>12, <2>13, Histories DEF IInv
<1>10. CASE call[n].then = "reload" /\ db[i] = "on"
  <2>1. StartInstance(i) BY <1>10 DEF Finish
  <2>2. CASE refused' = [refused EXCEPT ![i] = TRUE] /\ UNCHANGED <<entries, running, routed>>
    <3>1. /\ refused' \in [Instances -> BOOLEAN] /\ refused'[i] = TRUE
          /\ \A j \in Instances : refused[j] => refused'[j]
      BY <1>1, <1>2, <2>2
    <3> QED BY <1>8, <2>2, <3>1
  <2>3. CASE refused' = [refused EXCEPT ![i] = FALSE] /\ Added(i) BY <1>3, <1>9, <1>10, <2>3
  <2> QED BY <1>1, <1>2, <2>1, <2>2, <2>3, StartAdds
<1>11. CASE ~(call[n].then = "reload" /\ db[i] = "on")
  <2>1. UNCHANGED <<entries, running, routed, refused>> BY <1>11 DEF Finish
  <2> QED BY <1>1, <1>8, <1>11, <2>1
<1> QED BY <1>10, <1>11
-----------------------------------------------------------------------------
(* The induction *)

LEMMA InitSound ==
  ASSUME Init
  PROVE  IInv
<1> USE DEF Init
<1>1. entries = <<>> /\ entries \in Seq(Entry) /\ Made = {} BY DEF Made
<1>2. \A n \in Calls : call[n] = Idle /\ ~Going(n) BY DEF Going, Idle
<1>3. TypeInv
  <2>1. Idle \in Call BY DEF Idle, Call
  <2>2. call \in [Calls -> Call] BY <2>1
  <2>3. running \in [Instances -> Nat] OBVIOUS
  <2> QED BY <1>1, <2>2, <2>3 DEF TypeInv
<1>4. \A i \in Instances : InMap(i) /\ Known(i) /\ Minded(i) BY <1>1 DEF InMap, Known, Minded
<1>5. \A n \in Calls : CallSound(n) BY <1>2 DEF CallSound
<1>6. Awaited /\ Owned BY <1>1 DEF Awaited, Owned
<1> QED BY <1>1, <1>3, <1>4, <1>5, <1>6 DEF IInv, StateInv, Unclashed

LEMMA NextKeeps ==
  ASSUME IInv, [Next]_vars
  PROVE  IInv'
<1>1. CASE UNCHANGED vars
  <2> USE DEF vars
  <2>0. StateInv /\ Made' = Made BY <1>1 DEF IInv, Made
  <2>1. StateInv'
    <3>1. TypeInv' BY <1>1, <2>0 DEF StateInv, TypeInv
    <3>2. \A i \in Instances : InMap(i)' BY <1>1, <2>0 DEF StateInv, InMap
    <3>3. \A e \in Made' : EntrySound(e)' BY <1>1, <2>0 DEF StateInv, EntrySound
    <3>4. \A n \in Calls : CallSound(n)' BY <1>1, <2>0 DEF StateInv, CallSound, Going
    <3>5. Awaited' BY <1>1, <2>0 DEF StateInv, Awaited, Waits
    <3>6. Owned' BY <1>1, <2>0 DEF StateInv, Owned
    <3> QED BY <3>1, <3>2, <3>3, <3>4, <3>5, <3>6 DEF StateInv
  <2>2. \A i \in Instances : Unclashed(i)'
    BY <1>1 DEF IInv, Unclashed, Known, Minded, Starts, Going, Made
  <2> QED BY <2>1, <2>2 DEF IInv
<1>2. CASE Pages /\ Remembers
  <2>1. ASSUME NEW n \in Calls, NEW i \in Instances,
               Reload(n, i) \/ Enable(n, i) \/ Disable(n, i) \/ Delete(n, i)
        PROVE  IInv'
    BY <1>2, <2>1, PagesKeep
  <2>2. ASSUME NEW n \in Calls, KillTimeout(n) \/ Finish(n)
        PROVE  IInv'
    BY <1>2, <2>2, KillTimeoutKeeps, FinishKeeps
  <2> QED BY <1>2, <2>1, <2>2 DEF Pages
<1>3. CASE Children /\ Remembers
  <2>1. ASSUME NEW e \in Made, NEW id \in Topics, Subscribe(e, id) \/ Unsubscribe(e, id)
        PROVE  IInv'
    BY <1>3, <2>1, SubscribesKeep
  <2>2. ASSUME NEW e \in Made, Exit(e) \/ RestartTimeout(e)
        PROVE  IInv'
    BY <1>3, <2>2, ExitKeeps, RestartTimeoutKeeps
  <2> QED BY <1>3, <2>1, <2>2 DEF Children
<1> QED BY <1>1, <1>2, <1>3 DEF Next

\* The inductive invariant of the host.
LEMMA Inductive == Spec => []IInv
BY InitSound, NextKeeps, PTL DEF Spec
-----------------------------------------------------------------------------
(* What the host promises *)

\* A process is lost to the host in one way only: its instance is started
\* beside it.  As long as that has not happened every process is that of the
\* entry in the Map; and values are always routed to exactly the instances in
\* it (host.js, startInstance, stopInstance, cleanup and the exit handler).
THEOREM LostOnlyBeside == Spec => []NoOrphan
<1>1. IInv => NoOrphan
  <2> SUFFICES ASSUME IInv, NEW i \in Instances
               PROVE  /\ ~clashed[i] => \A e \in Processes(i) : running[i] = e
                      /\ routed[i] <=> running[i] # 0
    BY DEF NoOrphan
  <2> QED BY DEF IInv, StateInv, InMap, Unclashed, Known, Processes
<1> QED BY <1>1, Inductive, PTL

\* A subscription at the MQTT client is that of a living process of its
\* instance, whatever overlaps: one that ends takes its own with it; and a
\* process that was not started beside has all it asked for
\* (subscribe, removeSubscriptions, cleanup).
THEOREM SubscriptionsLive == Spec => []SubscriptionsAgree
<1>1. IInv => SubscriptionsAgree
  <2> SUFFICES ASSUME IInv
               PROVE  /\ \A key \in adhoc : \E e \in Processes(key[1]) : key[2] \in entries[e].subs
                      /\ \A i \in Instances : ~clashed[i] =>
                           \A e \in Processes(i) : Keys(i, entries[e].subs) \subseteq adhoc
    BY DEF SubscriptionsAgree
  <2>1. ASSUME NEW key \in adhoc PROVE \E e \in Processes(key[1]) : key[2] \in entries[e].subs
    <3>1. PICK i \in Instances, id \in Topics : key = <<i, id>> BY DEF IInv, StateInv, TypeInv
    <3>2. PICK e \in Made : entries[e].inst = i /\ id \in entries[e].subs
      BY <3>1 DEF IInv, StateInv, Owned
    <3>3. EntrySound(e) BY DEF IInv, StateInv
    <3>4. e \in Processes(i) BY <3>2, <3>3 DEF EntrySound, Processes
    <3> QED BY <3>1, <3>2, <3>4
  <2>2. ASSUME NEW i \in Instances, ~clashed[i], NEW e \in Processes(i)
        PROVE  Keys(i, entries[e].subs) \subseteq adhoc
    BY <2>2 DEF IInv, Unclashed, Known, Processes, Keys
  <2> QED BY <2>1, <2>2
<1> QED BY <1>1, Inductive, PTL

\* When no call is under way the database decides what runs, for an instance
\* whose manifest is there and that was not started beside its own process
\* (reloadInstance and stopInstance after setEnabled, calls overlapping).
THEOREM DatabaseDecides == Spec => []SettledAsConfigured
<1>1. IInv => SettledAsConfigured
  <2> SUFFICES ASSUME IInv, NEW i \in Instances, Quiet(i), ~clashed[i]
               PROVE  /\ db[i] = "on" =>
                           refused[i] \/ (running[i] # 0 /\ ~entries[running[i]].stopping)
                      /\ db[i] = "off" => \A e \in Processes(i) : entries[e].child = "killed"
    BY DEF SettledAsConfigured
  <2>1. StateInv /\ InMap(i) /\ Known(i) /\ Minded(i) BY DEF IInv, StateInv, Unclashed
  <2>2. ~Starts(i) BY DEF Quiet, Starts
  <2>3. ASSUME db[i] = "off", NEW e \in Processes(i) PROVE entries[e].child = "killed"
    <3>1. e \in Made /\ running[i] = e /\ e # 0 /\ entries[e].inst = i /\ entries[e].child \in Live
      BY <2>1, Types DEF Known, Processes, StateInv
    <3>2. entries[e].stopping BY <2>1, <2>3, <3>1 DEF InMap
    <3>3. entries[e].child # "up" BY <2>1, <3>1, <3>2 DEF StateInv, EntrySound
    <3>4. ASSUME entries[e].child = "stopping" PROVE FALSE
      <4>1. PICK n \in Calls : Waits(n, e) BY <2>1, <3>1, <3>4 DEF StateInv, Awaited
      <4>2. call[n].inst = i BY <2>1, <3>1, <4>1 DEF StateInv, CallSound, Going, Waits
      <4> QED BY <4>2 DEF Quiet
    <3> QED BY <3>1, <3>3, <3>4 DEF Live
  <2> QED BY <2>1, <2>2, <2>3 DEF Minded
<1> QED BY <1>1, Inductive, PTL
=============================================================================
