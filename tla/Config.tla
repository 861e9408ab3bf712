------------------------------- MODULE Config -------------------------------
(***************************************************************************)
(* How the agent's configuration is put together (internal/config and      *)
(* loadConfig in cmd/agent/main.go): defaults, then the YAML file, then    *)
(* the CASTLE_ROCK_* environment variables.  A configuration is a function *)
(* from fields to values; values are strings, "" is empty or unset, and    *)
(* Boolean fields are "on" or "off".                                       *)
(***************************************************************************)
EXTENDS Naturals

StringFields == {"logLevel", "language", "mode", "leaderURL", "hostID",
                 "sharedSecret", "authToken"}
NumberFields == {"promPort", "interval", "pruneTrigger"}
BoolFields == {"promEnabled", "alertsEnabled", "pruneEnabled"}
ListFields == {"includeContainers"}
Fields == StringFields \cup NumberFields \cup BoolFields \cup ListFields

(* The leader URL of the default configuration is the agent's own host.    *)
DefaultConfig ==
    [f \in Fields |->
        CASE f = "logLevel" -> "info"
          [] f = "language" -> "en"
          [] f = "mode" -> "standalone"
          [] f = "leaderURL" -> "self"
          [] f \in {"hostID", "sharedSecret", "authToken", "includeContainers"} -> ""
          [] f \in {"promEnabled", "alertsEnabled"} -> "on"
          [] f = "pruneEnabled" -> "off"
          [] f = "promPort" -> "9110"
          [] f = "interval" -> "5s"
          [] f = "pruneTrigger" -> "85"]

(* What a set variable makes of a field: a number that does not parse is   *)
(* ignored, a Boolean is on for "true" and "1" only, and a list is split   *)
(* and trimmed, blank parts dropped.                                       *)
Junk == "junk"
BlankList == " , "
Override(f, old, v) ==
    CASE v = "" -> old
      [] v # "" /\ f \in StringFields -> v
      [] v # "" /\ f \in NumberFields -> IF v = Junk THEN old ELSE v
      [] v # "" /\ f \in BoolFields -> IF v \in {"true", "1"} THEN "on" ELSE "off"
      [] v # "" /\ f \in ListFields -> IF v = BlankList THEN "" ELSE v

applyEnvOverrides(cfg, env) ==
    [f \in Fields |-> IF f \in DOMAIN env THEN Override(f, cfg[f], env[f]) ELSE cfg[f]]

(* yaml.Unmarshal into the defaults: only the fields the file has change.  *)
Unmarshal(cfg, file) ==
    [f \in Fields |-> IF f \in DOMAIN file.fields THEN file.fields[f] ELSE cfg[f]]

\* Fault: the file is read after the environment.
LoadEnvFirst(file, env, hostname) ==
    LET cfg == Unmarshal(applyEnvOverrides(DefaultConfig, env), file)
    IN CASE file.status = "missing" -> applyEnvOverrides(DefaultConfig, env)
         [] file.status = "broken" -> DefaultConfig
         [] file.status = "ok" ->
              [cfg EXCEPT !["hostID"] = IF @ # "" THEN @
                                        ELSE IF hostname # "" THEN hostname
                                        ELSE "unknown_host"]

(* Load, and loadConfig's fallback to the defaults when it fails: a file   *)
(* that is unreadable or not valid YAML is "broken".  The host name is     *)
(* filled in only after a file was read; hostname "" is an error of        *)
(* os.Hostname.                                                            *)
Load(file, env, hostname) ==
    LET cfg == applyEnvOverrides(Unmarshal(DefaultConfig, file), env)
    IN CASE file.status = "missing" -> applyEnvOverrides(DefaultConfig, env)
         [] file.status = "broken" -> DefaultConfig
         [] file.status = "ok" ->
              [cfg EXCEPT !["hostID"] = IF @ # "" THEN @
                                        ELSE IF hostname # "" THEN hostname
                                        ELSE "unknown_host"]

=============================================================================
