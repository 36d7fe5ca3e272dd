------------------------ MODULE MCDispatchScheduler ------------------------
(* Days of three hours; prices are multiples of 6, so means are exact.      *)
EXTENDS DispatchScheduler, TLC

CONSTANTS b1, b2

MCReadings == b1 :> {5000} @@ b2 :> {9000}
MCFleet == <<b1, b2>>
Pack == [cap |-> 10000, maxPower |-> 4500, min |-> 1000, max |-> 9000, initial |-> 5000]
Reserve == [Pack EXCEPT !.min = 9000, !.initial = 9000]
Slow == [Pack EXCEPT !.maxPower = 1800]
SlowSpecs == b1 :> Slow @@ b2 :> Slow
MCSpecs == b1 :> Pack @@ b2 :> Reserve

Night == 0 :> 0 @@ 1 :> 12 @@ 2 :> 120
MCMarket == {Night}
Valley == {0 :> 0 @@ 1 :> 0 @@ 2 :> 120}

Idle(e) == [type |-> "stop", power |-> 0, before |-> e, after |-> e]
ByHand(hours, fleet) ==
    [prices |-> Night, status |-> "planned",
     actions |-> [h \in hours |-> [b \in fleet |-> Idle(9000)]]]
Partial == [ByHand(0..2, {b1, b2}) EXCEPT !.actions[1] = b2 :> Idle(9000)]
Lacking == ByHand({0, 1}, {b1, b2})
MCForced == {Partial, Lacking}

ASSUME MCData == HandMade /\ ExactMeans
=============================================================================
