----------------------------- MODULE MCDashboard -----------------------------
(* A small instance of Dashboard: an owner, somebody else, a viewer and an  *)
(* admin; bodies that go well, and one for each way to be refused.          *)
EXTENDS Dashboard, TLC

MCCaller == {[user |-> "ann", role |-> "operator"], [user |-> "bob", role |-> "viewer"],
             [user |-> "bob", role |-> "admin"]}

Good == [name |-> 5, url |-> [scheme |-> "https", host |-> "example"], type |-> "",
         nul |-> FALSE, interval |-> 60, timeout |-> 10, expected |-> 0, active |-> TRUE]

MCInput ==
    {[Good EXCEPT !.interval = 12], [Good EXCEPT !.timeout = 50, !.active = FALSE],
     [Good EXCEPT !.type = "udp"], [Good EXCEPT !.interval = 9, !.timeout = 8],
     [Good EXCEPT !.expected = MaxInt4 + 1], [Good EXCEPT !.nul = TRUE]}

MCBounds == {[requests |-> 3, checks |-> 0, summary |-> FALSE],
             [requests |-> 1, checks |-> 3, summary |-> TRUE]}

Symmetry == Permutations(Requests)
=============================================================================
