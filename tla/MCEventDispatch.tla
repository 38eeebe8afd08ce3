-------------------------- MODULE MCEventDispatch --------------------------
(* Up to two subscriptions of one subscriber, which may store any of the         *)
(* documents that make a difference to find_deliveries.                          *)
EXTENDS EventDispatch

CONSTANTS r1, r2, p1, p2, s1, s2

OneOwner == s1 :> p1
SameOwner == s1 :> p1 @@ s2 :> p1

\* An update announces "updated" and "delta", everything else one type.
MCAnnounced == {{"updated", "delta"}}

Doc(events) == [status |-> "active", target |-> TRUE, events |-> events, passes |-> Types]

RaceDocs ==
  s1 :> {Doc(<<"delta", "updated">>), Doc(Null),
         [Doc(<<"delta", "updated">>) EXCEPT !.passes = {"updated"}]}
TriedDocs == s1 :> {Doc(<<"delta">>)} @@ s2 :> {Doc(<<"delta">>), Doc(Null)}
OneType == {{"delta"}}
=============================================================================
