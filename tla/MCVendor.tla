------------------------------ MODULE MCVendor ------------------------------
EXTENDS KencVendor

\* Two commits of the authority: the second changes a module and the manual.
MCFiles ==
    [old |-> [module |-> "m1", record |-> "r1", manual |-> "d1"],
     new |-> [module |-> "m2", record |-> "r1", manual |-> "d2"]]

\* The second content commit vendors a module of neither.
MCVendors ==
    [c1 |-> MCFiles["old"],
     c2 |-> [MCFiles["new"] EXCEPT !.module = "m3"],
     c3 |-> MCFiles["new"]]

MCNames == [c1 |-> "old", c2 |-> "new", c3 |-> "new"]
=============================================================================
