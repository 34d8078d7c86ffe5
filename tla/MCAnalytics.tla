---------------------------- MODULE MCAnalytics -----------------------------
EXTENDS Analytics
Meter(p, t, i, m, k) == [platform |-> p, objectType |-> t, objectId |-> i, metric |-> m, key |-> k]
SomeMeters == {Meter("x", "tweet", 1, "likes", "day"), Meter("x", "tweet", 2, "likes", "day"), Meter("fb", "page", 4, "page_impressions", "token")}
=============================================================================
