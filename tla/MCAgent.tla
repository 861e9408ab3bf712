------------------------------ MODULE MCAgent ------------------------------
(* One field of each kind, set or not in the file and in the environment,  *)
(* and the mode.                                                           *)
EXTENDS Agent

MCEnvs == [language: {"", "pt"}, promPort: {"", "9200", Junk}, promEnabled: {"", "1", "no"},
           includeContainers: {"", "web", BlankList}, hostID: {"", "envHost"},
           mode: {"", "leader", "worker"}]

FileValues == [language |-> "fr", promPort |-> "9300", promEnabled |-> "off",
               includeContainers |-> "db", hostID |-> "fileHost"]
MCFiles == {[status |-> s, fields |-> <<>>] : s \in {"missing", "broken"}} \cup
           {[status |-> "ok", fields |-> [f \in S |-> FileValues[f]]] :
               S \in SUBSET DOMAIN FileValues}
MCHostnames == {"", "box"}

=============================================================================
