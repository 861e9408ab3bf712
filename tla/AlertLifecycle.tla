--------------------------- MODULE AlertLifecycle ---------------------------
(***************************************************************************)
(* What the alert engine promises for one tracked condition, as the        *)
(* comment on Evaluate puts it: Pending -> Firing -> Resolved.  A          *)
(* condition starts pending, fires when it has been pending for its        *)
(* duration, is reported exactly when it fires, and goes back to inactive  *)
(* from either phase.  Any number of conditions move in one evaluation.    *)
(***************************************************************************)
EXTENDS Naturals

CONSTANTS Key,        \* the tracked conditions
          Duration,   \* Duration[k]: how long k must be pending before it fires
          None        \* "not tracked"

VARIABLES now,        \* the clock
          phase,      \* phase[k]: where k is in its lifecycle
          since,      \* since[k]: when k became pending, or None
          notified    \* the conditions reported by the last evaluation

lifecycle == <<now, phase, since, notified>>

Phases == {"inactive", "pending", "firing"}

\* No condition fires without having been pending at an earlier evaluation.
Moves == {<<p, p>> : p \in Phases} \cup
         {<<"inactive", "pending">>, <<"pending", "firing">>,
          <<"pending", "inactive">>, <<"firing", "inactive">>}

Init ==
    /\ now = 0
    /\ phase = [k \in Key |-> "inactive"]
    /\ since = [k \in Key |-> None]
    /\ notified = {}

Evaluate ==
    /\ phase' \in [Key -> Phases]
    /\ \A k \in Key : <<phase[k], phase'[k]>> \in Moves
    /\ notified' = {k \in Key : phase[k] = "pending" /\ phase'[k] = "firing"}
    /\ \A k \in notified' : since[k] + Duration[k] <= now
    /\ since' = [k \in Key |-> IF phase'[k] = "inactive" THEN None
                               ELSE IF phase[k] = "inactive" THEN now
                               ELSE since[k]]
    /\ UNCHANGED now

Tick ==
    /\ now' = now + 1
    /\ UNCHANGED <<phase, since, notified>>

Next == Evaluate \/ Tick

Spec == Init /\ [][Next]_lifecycle

=============================================================================
