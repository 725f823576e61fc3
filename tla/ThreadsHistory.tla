---------------------------- MODULE ThreadsHistory ----------------------------
(***************************************************************************)
(* ProbeThreads observed: the targets whose last purge came while a loop   *)
(* awaited a measure, which is pushed afterwards.  No lock and no check of *)
(* the code rules that out; the property below says what holds on the      *)
(* other targets, however many calls overlap on them.                      *)
(***************************************************************************)
EXTENDS ProbeThreads

VARIABLE tangled   (* those targets                                        *)

Purging(t)   == \E h \in Thread : At(h, "purge") /\ call[h].target = t
Measuring(t) == \E l \in Loop : Live(l, t) /\ loops[l].at = "measure"

\* A call purges the target in this step.
Purged(t) == \E h \in Thread : At(h, "purge") /\ call[h].target = t /\ call'[h] = Free

Watches == tangled' = {t \in Target : IF Purged(t) THEN Measuring(t) ELSE t \in tangled}

TInit == Init /\ tangled = {}
TNext == Next /\ Watches
TSpec == TInit /\ [][TNext]_<<vars, tangled>> /\ Fairness

-----------------------------------------------------------------------------
Resting == \A h \in Thread : call[h] = Free

\* A target that is stopped, all its loops ended, has no samples left that
\* would bring it back on screen (stop_from_hub, `sans elle, l'instantane
\* renvoye a l'interface reintroduit l'hote').
PurgedStaysPurged ==
  \A t \in Target \ tangled :
    flag[t] = "stopped" /\ Resting /\ (\A l \in Loop : ~Live(l, t)) => t \notin sampled

=============================================================================
