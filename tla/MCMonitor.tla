----------------------------- MODULE MCMonitor -----------------------------
(* Small instances of Monitor for TLC.                                      *)
EXTENDS Monitor

CONSTANTS p1, p2, k1, f1, f2, b1, nohash

(* Every revision changes the field rules; the second one keeps the name of *)
(* the first one's ruleVersion.                                             *)
MCRulesOf == [v \in 0..MaxRevision |-> v]
MCVersionOf == [v \in 0..MaxRevision |-> IF v <= 2 THEN 1 ELSE v]

(* Two callers race over two runs that find one thing; a second revision, a *)
(* third run and other findings are one caller's, with an attempt a run.    *)
Changes == \/ monitor.revision > 1 \/ run[3].state # "none"
           \/ \E p \in Runners : runner[p].found.fields = f2 \/ runner[p].found.source = b1
           \/ \E i \in DOMAIN snapshots : snapshots[i].fields = f2 \/ snapshots[i].source = b1
Scope == Changes => /\ \A r \in RunIds : Len(attempts[r]) <= 1
                    /\ runner[p2].phase = "idle"
=============================================================================
