--------------------------- MODULE MCDockerViews ---------------------------
(* One configuration that breaks every rule and one that breaks one.       *)
EXTENDS DockerViews

Loose == [privileged |-> TRUE, user |-> "root", ports |-> [p \in {22, 5432} |-> {"0.0.0.0", "::"}],
          capAdd |-> {"SYS_ADMIN", "CHOWN"}, memory |-> 0, nanoCPUs |-> 0, readonlyRootfs |-> FALSE,
          securityOpt |-> {}, networkMode |-> "host", mountSources |-> {"docker.sock"}]
Tight == [privileged |-> FALSE, user |-> "app", ports |-> [p \in {5432} |-> {"127.0.0.1"}],
          capAdd |-> {"CHOWN"}, memory |-> 512, nanoCPUs |-> 0, readonlyRootfs |-> TRUE,
          securityOpt |-> {"no-new-privileges:true"}, networkMode |-> "bridge", mountSources |-> {"data"}]
MCConfs == {Loose, Tight}

(* The stress container is not among the monitored ones.                   *)
MCNameOf == [id \in Ids |-> IF id \in Apps THEN {"app"} ELSE {"stress"}]

=============================================================================
