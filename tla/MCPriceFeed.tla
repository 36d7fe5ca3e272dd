---------------------------- MODULE MCPriceFeed ----------------------------
EXTENDS PriceFeed

CONSTANTS w1, w2, script

Entry(ora, nord, pun) == [ora |-> ora, price |-> [z \in {"NORD", "PUN"} |-> IF z = "NORD" THEN nord ELSE pun]]

\* A day with a price of zero, a day without national prices that lacks an hour,
\* and a long day.
Zero == <<Entry(1, 30, 20), Entry(2, 0, 45)>>
Partial == <<Entry(1, 30, None), Entry(2, 0, None)>>
Long == <<Entry(1, 30, 32), Entry(2, 40, 42), Entry(3, 50, 52)>>

MCZoneList == <<"NORD">>
MCFeed == [d \in -3..5 |-> CASE d % 3 = 0 -> Zero [] d % 3 = 1 -> Long [] OTHER -> Partial]
=============================================================================
