--------------------------- MODULE ConfigLoading ---------------------------
(***************************************************************************)
(* loadConfig of cmd/agent/main.go reads the file and the environment      *)
(* once, when the agent starts.                                            *)
(***************************************************************************)
EXTENDS Config

CONSTANTS Files,      \* configuration files the agent may find
          Envs,       \* environments it may be started in
          Hostnames,  \* results of os.Hostname, "" for an error
          NotLoaded

ASSUME FilesAssumption == \A f \in Files : f.status \in {"ok", "missing", "broken"}

VARIABLES file, env, hostname, cfg

cvars == <<file, env, hostname, cfg>>

ConfigInit ==
    /\ file \in Files
    /\ env \in Envs
    /\ hostname \in Hostnames
    /\ cfg = NotLoaded

loadConfig ==
    /\ cfg = NotLoaded /\ file # NotLoaded
    /\ cfg' = Load(file, env, hostname)
    /\ UNCHANGED <<file, env, hostname>>

(* Nothing reads the sources or the fields that are not passed on again.   *)
Forgotten ==
    /\ file' = NotLoaded /\ env' = NotLoaded /\ hostname' = NotLoaded /\ cfg' = NotLoaded

Loaded == cfg # NotLoaded
\* The variable is set to something its field can take.
Usable(f) == f \in DOMAIN env /\ env[f] # "" /\ ~(f \in NumberFields /\ env[f] = Junk)
FileSets(f) == file.status = "ok" /\ f \in DOMAIN file.fields

(* The host id without a usable variable: the host name stands in for an   *)
(* empty one, but only after a file was read.                              *)
Given(f) == IF FileSets(f) THEN file.fields[f] ELSE DefaultConfig[f]
FallbackHostID ==
    IF Given("hostID") # "" \/ file.status = "missing" THEN Given("hostID")
    ELSE IF hostname # "" THEN hostname ELSE "unknown_host"

-----------------------------------------------------------------------------
\* configs/config.yaml:5-8, over every state of the file.  A broken file (main.go,
\* loadConfig) takes everything with it, the environment too: the agent runs
\* on the defaults alone and never on half a file.  Otherwise every field comes
\* from the environment if the variable is set and parses, else from the file
\* if it has the field, else from the defaults, and the host id falls back to
\* the host name if a file was read, and stays empty if there is none.
PrecedenceHolds ==
    Loaded =>
        IF file.status = "broken" THEN cfg = DefaultConfig
        ELSE \A f \in Fields :
                /\ Usable(f) => cfg[f] = Override(f, DefaultConfig[f], env[f])
                /\ ~Usable(f) => cfg[f] = IF f = "hostID" THEN FallbackHostID ELSE Given(f)

=============================================================================
