--------------------------- MODULE MCClusterPush ---------------------------
(* Setups of ClusterPush for TLC. *)
EXTENDS ClusterPush

NoFile == [status |-> "missing", fields |-> <<>>]
EmptyURL == [status |-> "ok", fields |-> [leaderURL |-> ""]]
Agent(file, env) == [file |-> file, env |-> env, hostname |-> "box", onLeaderHost |-> FALSE]
ClusterEnv(host, u, secret) ==
    [hostID |-> host, leaderURL |-> u, authToken |-> "token", sharedSecret |-> secret]

LeaderAgent == Agent(NoFile, ClusterEnv("hq", "", "key"))

(* One worker with everything right.                                       *)
Alone == [leader |-> LeaderAgent, nyc |-> Agent(NoFile, ClusterEnv("nyc", "push", "key"))]

(* Two workers: both with everything right; one on the leader's host and in *)
(* need of discovering the leader, the other with another secret or another *)
(* token or with no secret at all; or two with one host id.                 *)
Both(rio) ==
    [leader |-> LeaderAgent, nyc |-> Agent(NoFile, ClusterEnv("nyc", "push", "key")),
     rio |-> Agent(NoFile, rio)]
Discovering(rio) ==
    [Both(rio) EXCEPT !.nyc = [Agent(EmptyURL, ClusterEnv("nyc", "", "key")) EXCEPT !.onLeaderHost = TRUE]]

MCSetups ==
    {Alone, Both(ClusterEnv("rio", "push", "key")), Both(ClusterEnv("nyc", "push", "key"))} \cup
    {Discovering(rio) :
        rio \in {ClusterEnv("rio", "push", "other"), ClusterEnv("rio", "push", ""),
                 [ClusterEnv("rio", "push", "key") EXCEPT !.authToken = "old"]}}

=============================================================================
