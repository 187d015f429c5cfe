------------------------------ MODULE ValueBus ------------------------------
(***************************************************************************)
(* src/src/mqtt/client.js and src/src/state-bus.js: one topic on its way   *)
(* from the broker into the cache.  Every consumer has a key of its own    *)
(* for the topic; "state" is the key of the configured state, the others   *)
(* are ad-hoc keys.                                                        *)
(*                                                                         *)
(* The broker and the adapter behind it are external: a SUBSCRIBE is       *)
(* answered with a SUBACK and the retained value, a /get with the value    *)
(* of the moment.  Repetitions of either that are under way at the same    *)
(* time are one: they bring the same value.  Listeners of the bus run      *)
(* inside `ingest`, so Deliver leaves them to the module that composes.    *)
(***************************************************************************)
EXTENDS Naturals, Sequences

CONSTANTS AdHoc,       \* ad-hoc keys
          Values,      \* values of the topic
          None,        \* no entry in the cache
          Radio,       \* the topic is a radio topic (hm-rpc)
          MaxWire,     \* bound: messages under way
          Limits       \* bounds a behaviour may have, see `limit`

ASSUME BusAssumption ==
  /\ Radio \in BOOLEAN
  /\ None \notin Values
  /\ "state" \notin AdHoc
  /\ MaxWire \in Nat \ {0}
  /\ Limits \subseteq [sets : Nat, drops : Nat, defs : Nat, edits : Nat, ruleEdits : Nat]

BusKeys == AdHoc \cup {"state"}

VARIABLES
  retained,    \* the value at the broker
  connected,   \* the connection, as client and broker see it
  brokerSub,   \* the broker sends the topic
  up,          \* requests on their way to the broker
  ack,         \* a SUBACK is on its way
  down,        \* values on their way to the client
  subscribed,  \* subscribedTopics has the topic
  defined,     \* stateDefinitions has the topic
  routes,      \* adhocRoutes of the topic
  cache,       \* valueCache of the bus
  busCount,    \* counters for the bounds
  limit        \* the bounds of this behaviour: changes of the device, lost
               \* connections, saved state definitions, conditions and rules

brokerVars == <<retained, brokerSub, limit>>
busVars == <<retained, connected, brokerSub, up, ack, down, subscribed, defined,
             routes, cache, busCount, limit>>

(* Before the connection is made, with the consumers in `keys`.            *)
BusInit(keys) ==
  /\ retained \in Values
  /\ connected = FALSE /\ brokerSub = FALSE
  /\ up = {} /\ ack = FALSE /\ down = <<>>
  /\ subscribed = FALSE
  /\ defined \in BOOLEAN
  /\ routes = keys
  /\ cache = [k \in BusKeys |-> None]
  /\ busCount = [sets |-> 0, drops |-> 0, defs |-> 0]
  /\ limit \in Limits

-----------------------------------------------------------------------------
(* subscribeTopic(): only a topic the client does not believe subscribed.  *)
SubscribeTopic(known) == IF known THEN {} ELSE {"sub"}

(* requestStateValues(), requestAllAdhocValues(): never for a radio topic. *)
RequestValue == IF Radio THEN {} ELSE {"get"}

\* Mutant: after a reconnect only the configured states are subscribed.
Connect_StatesOnly ==
  /\ ~connected
  /\ connected' = TRUE
  /\ subscribed' = FALSE
  /\ up' = IF defined THEN SubscribeTopic(FALSE) \cup RequestValue ELSE {}
  /\ UNCHANGED <<brokerVars, ack, down, defined, routes, cache, busCount>>

(* The handler of `connect`: subscribe and ask anew, for every consumer.    *)
Connect ==
  /\ ~connected
  /\ connected' = TRUE
  /\ subscribed' = FALSE
  /\ up' = IF defined \/ routes # {} THEN SubscribeTopic(FALSE) \cup RequestValue ELSE {}
  /\ UNCHANGED <<brokerVars, ack, down, defined, routes, cache, busCount>>

(* The connection breaks: what was under way is lost, the cache stays.     *)
Close ==
  /\ connected /\ busCount.drops < limit.drops
  /\ busCount' = [busCount EXCEPT !.drops = @ + 1]
  /\ connected' = FALSE /\ brokerSub' = FALSE
  /\ up' = {} /\ ack' = FALSE /\ down' = <<>>
  /\ UNCHANGED <<retained, limit, subscribed, defined, routes, cache>>

(* The callback of subscribe().                                            *)
SubAck ==
  /\ ack
  /\ ack' = FALSE
  /\ subscribed' = TRUE
  /\ UNCHANGED <<brokerVars, connected, up, down, defined, routes, cache, busCount>>

(* setStateDefinitions() with or without the topic: the set of topics is   *)
(* cleared, so that everything is subscribed again; asked for is only what *)
(* is new.  A definition that goes takes its value with it.                *)
SetStateDefinitions(def) ==
  /\ busCount.defs < limit.defs
  /\ busCount' = [busCount EXCEPT !.defs = @ + 1]
  /\ defined' = def
  /\ cache' = IF defined /\ ~def THEN [cache EXCEPT !["state"] = None] ELSE cache
  /\ IF connected
     THEN /\ subscribed' = FALSE
          /\ up' = up \cup (IF def THEN SubscribeTopic(FALSE) ELSE {})
                      \cup (IF def /\ ~defined THEN RequestValue ELSE {})
     ELSE UNCHANGED <<subscribed, up>>
  /\ UNCHANGED <<brokerVars, connected, ack, down, routes>>

(* subscribeAdHoc() of the keys in new, after unsubscribeAdHoc() of those  *)
(* in old.  Unsubscribing forgets the value and the route; it sends        *)
(* nothing, and the topic stays in subscribedTopics.                       *)
ReplaceAdHoc(old, new) ==
  /\ routes' = (routes \ old) \cup new
  /\ cache' = [k \in BusKeys |-> IF k \in old THEN None ELSE cache[k]]
  /\ up' = IF connected /\ new # {}
           THEN up \cup SubscribeTopic(subscribed) \cup RequestValue
           ELSE up
  /\ UNCHANGED <<brokerVars, connected, ack, down, subscribed, defined, busCount>>

-----------------------------------------------------------------------------
(* The device behind the topic changes.                                    *)
DeviceChanges(v) ==
  /\ v # retained
  /\ busCount.sets < limit.sets
  /\ busCount' = [busCount EXCEPT !.sets = @ + 1]
  /\ retained' = v
  /\ IF brokerSub
     THEN Len(down) < MaxWire /\ down' = Append(down, v)
     ELSE UNCHANGED down
  /\ UNCHANGED <<connected, brokerSub, limit, up, ack, subscribed, defined, routes, cache>>

(* The broker handles a SUBSCRIBE.                                         *)
BrokerSubscribes ==
  /\ "sub" \in up /\ Len(down) < MaxWire
  /\ up' = up \ {"sub"}
  /\ ack' = TRUE
  /\ brokerSub' = TRUE
  /\ down' = Append(down, retained)
  /\ UNCHANGED <<retained, limit, connected, subscribed, defined, routes, cache, busCount>>

(* The adapter behind the broker answers a /get.                           *)
BrokerAnswers ==
  /\ "get" \in up /\ Len(down) < MaxWire
  /\ up' = up \ {"get"}
  /\ down' = IF brokerSub THEN Append(down, retained) ELSE down
  /\ UNCHANGED <<brokerVars, connected, ack, subscribed, defined, routes, cache,
                 busCount>>

-----------------------------------------------------------------------------
(* handleMessage(): the keys the topic is routed to.                       *)
Routed == routes \cup (IF defined THEN {"state"} ELSE {})

(* ingest(): the keys the event names, those whose value is another one.   *)
Changed(v) == {k \in Routed : cache[k] # v}

(* A message arrives; the composing module runs the listeners on Changed.  *)
Deliver(v) ==
  /\ down # <<>> /\ v = Head(down)
  /\ down' = Tail(down)
  /\ cache' = [k \in BusKeys |-> IF k \in Routed THEN v ELSE cache[k]]
  /\ UNCHANGED <<brokerVars, connected, up, ack, subscribed, defined, routes, busCount>>

(* Everything of the bus that no listener notices.                         *)
BusStep ==
  \/ Connect
  \/ Close
  \/ SubAck
  \/ \E def \in BOOLEAN : SetStateDefinitions(def)
  \/ \E v \in Values : DeviceChanges(v)
  \/ BrokerSubscribes
  \/ BrokerAnswers

-----------------------------------------------------------------------------
BusTypeOK ==
  /\ retained \in Values
  /\ {connected, brokerSub, ack, subscribed, defined} \subseteq BOOLEAN
  /\ up \subseteq {"sub", "get"}
  /\ down \in Seq(Values) /\ Len(down) <= MaxWire
  /\ routes \subseteq AdHoc
  /\ cache \in [BusKeys -> Values \cup {None}]
  /\ limit \in Limits
  /\ busCount \in [sets : 0..limit.sets, drops : 0..limit.drops, defs : 0..limit.defs]

(* While nothing is under way, every consumer has the value of the broker.  *)
ValuesAgree == connected => \A k \in Routed : cache[k] = retained
=============================================================================
