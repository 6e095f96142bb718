------------------------------ MODULE MCBackups -----------------------------
(* Instances of Backups for TLC.                                           *)
EXTENDS Backups, TLC

CONSTANTS v1, v2, b1, b2, b3, u1, i1, i2, k1, k2, r1, r2

(* A schedule for every minute, one that is switched off, one without a    *)
(* usable destination.                                                     *)
EveryMinute == [enabled |-> TRUE, minutes |-> 0 .. MaxTime, dest |-> "s3"]
Disabled == [EveryMinute EXCEPT !.enabled = FALSE]
Platform == [EveryMinute EXCEPT !.dest = "platform"]

OneSetting == {EveryMinute}
TwoSettings == {EveryMinute, Platform}
AllSettings == {EveryMinute, Disabled, Platform}

MCSymmetry ==
    Permutations(Servers) \cup Permutations(BackupIds) \cup Permutations(Instances)
    \cup Permutations(Runs) \cup Permutations(Reporters)

=============================================================================
