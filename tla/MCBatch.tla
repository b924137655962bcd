-------------------------------- MODULE MCBatch --------------------------------
(***************************************************************************)
(* Testbeds and suites for TLC.                                            *)
(***************************************************************************)
EXTENDS BatchScheduler

W(devices, bucket, min) ==
    [devices |-> devices, bed |-> 1, bucket |-> bucket, min |-> min, backup |-> FALSE]
Backup(w) == [w EXCEPT !.backup = TRUE]
OfBed(w, bed) == [w EXCEPT !.bed = bed]
M(bucket, order, tests, fits) ==
    [bucket |-> bucket, order |-> order, tests |-> tests, fits |-> fits]

(* Two pairs and a single device overlap in one testbed of three; modules  *)
(* for each size, one of which must do with the whole testbed.             *)
Overlap ==
    [workers |-> <<W({1, 2, 3}, Largest, 3), W({1, 2}, 2, 2), W({2, 3}, 2, 2), W({3}, 1, 0)>>,
     modules |-> <<M(1, 1, <<11>>, {4}), M(2, 3, <<21>>, {2, 3}), M(2, 2, <<31, 32>>, {2, 3}),
                   M(4, 2, <<41>>, {})>>,
     arrivals |-> {<<1, 2, 3, 4>>, <<4, 2, 3, 1>>},
     infra |-> FALSE, exclude |-> FALSE, monitor |-> TRUE, deaths |-> 2]

(* Two testbeds, the one's device with a backup, and the tests that        *)
(* prepare devices.                                                        *)
TwoBeds ==
    [workers |-> <<W({1}, Largest, 2), OfBed(W({2}, Largest, 2), 2), W({1}, 1, 0),
                   Backup(W({1}, 1, 0))>>,
     modules |-> <<M(1, 2, <<11>>, {3, 4}), M(9, 2, <<21>>, {}), M(9, 2, <<31, 32>>, {})>>,
     arrivals |-> {<<1, 2, 3, 4>>, <<4, 2, 3, 1>>},
     infra |-> TRUE, exclude |-> FALSE, monitor |-> FALSE, deaths |-> 1]

(* A worker that dies may take a device with it.                           *)
Excluding ==
    [workers |-> <<W({1, 2, 3}, Largest, 3), W({1, 2}, 2, 2), W({2}, 1, 0), W({3}, 1, 0)>>,
     modules |-> <<M(1, 1, <<11, 12>>, {3, 4}), M(2, 2, <<21, 22>>, {2}), M(9, 2, <<31, 32>>, {})>>,
     arrivals |-> {<<1, 2, 3, 4>>, <<4, 2, 3, 1>>},
     infra |-> FALSE, exclude |-> TRUE, monitor |-> FALSE, deaths |-> 1]

(* A testbed whose only device may be reported.                            *)
LastDevice ==
    [workers |-> <<W({1}, Largest, 2), W({1}, 1, 0)>>,
     modules |-> <<M(1, 1, <<11, 12>>, {2}), M(9, 2, <<21, 22>>, {})>>,
     arrivals |-> {<<1, 2>>, <<2, 1>>},
     infra |-> TRUE, exclude |-> TRUE, monitor |-> TRUE, deaths |-> 2]

Runs == {Overlap, TwoBeds, Excluding, LastDevice}

(* Two devices are reported while workers that share others wait.          *)
Chain ==
    [workers |-> <<W({1, 2, 3}, Largest, 3), W({1, 2}, 2, 2), W({1, 3}, 2, 2), W({3}, 1, 0),
                   Backup(W({2, 3}, 2, 2))>>,
     modules |-> <<M(9, 2, <<11, 12>>, {}), M(1, 2, <<21, 22>>, {4}), M(2, 2, <<31, 32>>, {2, 3, 5})>>,
     arrivals |-> {<<1, 2, 3, 4, 5>>},
     infra |-> FALSE, exclude |-> TRUE, monitor |-> FALSE, deaths |-> 2]

Excludes == {Chain}
================================================================================
