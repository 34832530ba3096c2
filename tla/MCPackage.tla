------------------------------ MODULE MCPackage ------------------------------
EXTENDS KencPackage

Shipped == [ort |-> {"ort"}, crypto |-> {"ssl"}, gcc |-> {"base"}, stdcxx |-> {"base"}]

\* Everything has its owner, or a library was put there by hand.
MCOwners == {Shipped, [Shipped EXCEPT !.gcc = {}], [Shipped EXCEPT !.crypto = {"ssl", "base"}]}
=============================================================================
