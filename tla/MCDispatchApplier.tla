------------------------- MODULE MCDispatchApplier -------------------------
(* Two quarter-hours a day, and for liveness one; the clock crosses midnight. *)
EXTENDS DispatchApplier, TLC

CONSTANTS b1, b2, w1, w2

WorkersAlike == Permutations(Workers)
MCQHs == 1..2
OneQH == 1..1
Midnight == [t \in 0..2 |-> CASE t = 0 -> <<1, 1>> [] t = 1 -> <<1, 2>> [] t = 2 -> <<2, 1>>]
OneSlotADay == [t \in 0..1 |-> <<t + 1, 1>>]
MCPowers == {100, 5, -100}
LivePowers == {100, -200}
MCDayRows == {<<100, -100>>}
LiveDayRows == {<<100>>, <<-200>>}
MCMaxPower == [b \in Batteries |-> 100]
MCManualCommands == {<<"stop", 0>>}
=============================================================================
