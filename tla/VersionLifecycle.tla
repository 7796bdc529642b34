-------------------------- MODULE VersionLifecycle --------------------------
(***************************************************************************)
(* What the version history promises to the rest of the system about the   *)
(* payload of each data version: it is published once, retired at most     *)
(* once, and its deletion from storage is scheduled in the very step that  *)
(* retires it.  ObjectVersions implements this specification, and so does  *)
(* the upload plane of UploadIntents, which sees the history through it.   *)
(***************************************************************************)
CONSTANTS Payloads, None

VARIABLES status, scheduled

lifecycleVars == <<status, scheduled>>

Init ==
    /\ status = [p \in Payloads |-> "absent"]
    /\ scheduled = {}

(* A new version enters the history; it may replace an active null version *)
Publish(p, old) ==
    /\ status[p] = "absent"
    /\ old # None => status[old] = "active"
    /\ status' = [q \in Payloads |->
         IF q = p THEN "active" ELSE IF q = old THEN "retired" ELSE status[q]]
    /\ scheduled' = scheduled \cup ({old} \ {None})

(* A DELETE removes an active version                                      *)
Retire(p) ==
    /\ status[p] = "active"
    /\ status' = [status EXCEPT ![p] = "retired"]
    /\ scheduled' = scheduled \cup {p}

Next ==
    \/ \E p \in Payloads, old \in Payloads \cup {None} : Publish(p, old)
    \/ \E p \in Payloads : Retire(p)

Spec == Init /\ [][Next]_lifecycleVars
=============================================================================
