----------------------------- MODULE MCAudioBus -----------------------------
(* Instances of AudioBus for TLC.                                          *)
EXTENDS AudioBus

(* One plugin that listens, and its queue: all events of one session, the  *)
(* frames of one session after those of another, and a session that begins *)
(* while events of the last one still wait.                                *)
Queue(sessions, frames, kinds) ==
  [connections |-> {"k1"}, sessions |-> sessions, clients |-> {"c1"}, maxSessions |-> 1,
   frames |-> frames, kinds |-> kinds, talkers |-> {}]

QueueLimits ==
  {Queue({"s1"}, 3, Kinds), Queue({"s1", "s2"}, 3, {"input", "ended"}),
   Queue({"s1", "s2"}, 1, Kinds)}

(* Two connections and two plugins that speak.                             *)
OutputLimits ==
  {[connections |-> {"k1", "k2"}, sessions |-> {"s1", "s2", "s3"}, clients |-> {"c1", "c2"},
    maxSessions |-> 2, frames |-> 0, kinds |-> {}, talkers |-> {"c1", "c2"}]}

SomeLimits == QueueLimits \cup OutputLimits
=============================================================================
