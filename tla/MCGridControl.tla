--------------------------- MODULE MCGridControl ---------------------------
(* Instances of GridControl for TLC: what the house goes through.          *)
EXTENDS GridControl, TLC

House(soc, loads, phases) ==
  [soc |-> soc, voltage |-> 2, warning |-> FALSE, loads |-> loads, phases |-> phases]

Soc(level) == House(level, "below", "present")
Load(loads) == House(2, loads, "present")
Phase(level, phases) == House(level, "between", phases)

Calm == [drops |-> 0, losses |-> 0, restarts |-> 0, externals |-> 0, acks |-> 0,
          waits |-> 0, broken |-> FALSE, feedIn |-> FALSE]

Restarted == [Calm EXCEPT !.restarts = 1]
Disturbed == [Calm EXCEPT !.drops = 1, !.losses = 1, !.externals = 1]

SomeLimits ==
  {[houses |-> h] @@ Restarted :
     h \in {<<Soc(0), Soc(1)>>, <<Load("over"), Load("below")>>,
            <<Load("below"), Load("between"), Load("below")>>,
            <<Phase(0, "zero"), Phase(1, "partial"), Phase(1, "present")>>,
            <<Phase(0, "high"), Phase(2, "partial")>>}}
  \cup {[houses |-> h] @@ Disturbed : h \in {<<Soc(0)>>, <<Soc(1)>>}}
  \cup {[houses |-> <<h>>] @@ [Calm EXCEPT !.broken = TRUE, !.losses = 1, !.acks = 1] :
          h \in {Soc(0), Soc(2)}}
  \cup {[houses |-> <<Soc(4), Soc(3)>>] @@ [Calm EXCEPT !.feedIn = TRUE]}
  \cup {[houses |-> <<Soc(3), Soc(0), Soc(2)>>] @@ [Calm EXCEPT !.waits = 1]}

FeedInLimits == {[houses |-> <<Soc(4)>>] @@ [Restarted EXCEPT !.feedIn = TRUE]}
=============================================================================
