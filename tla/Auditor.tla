------------------------------ MODULE Auditor ------------------------------
(***************************************************************************)
(* The security auditor (internal/security/auditor.go): rules on one       *)
(* inspection, and Audit, which keeps the findings of every container it   *)
(* was given and inspects only the ones it does not know, in parallel.     *)
(*                                                                         *)
(* A finding is a rule, its severity and what it is about; the times of    *)
(* the alerts are left out.  An inspection always has the parts the rules  *)
(* test for nil.  Ports map to the host addresses they are bound to, none  *)
(* for a port that is only exposed.                                        *)
(***************************************************************************)
EXTENDS DockerDaemon

VARIABLES cache,   \* id -> findings
          audit    \* the call of Audit under way

Finding(rule, severity, on) == [rule |-> rule, severity |-> severity, on |-> on]
When(p, rule, severity) == IF p THEN {Finding(rule, severity, <<>>)} ELSE {}

-----------------------------------------------------------------------------
PrivilegedModeRule(j) == When(j.privileged, "Privileged Mode", "critical")

RootUserRule(j) == When(j.user \in {"", "root", "0"}, "Root User", "warning")

isDBPort(p) == p \in {3306, 5432, 27017, 6379}
isGloballyExposed(ip) == ip \in {"0.0.0.0", "", "::"}
DBPortExposedRule(j) ==
    UNION {{Finding("DB Port Exposed globally", "critical", <<p, ip>>) :
               ip \in {a \in j.ports[p] : isGloballyExposed(a)}} :
           p \in {q \in DOMAIN j.ports : isDBPort(q)}}

SensitiveCaps == {"SYS_ADMIN", "NET_ADMIN", "SYS_PTRACE", "DAC_OVERRIDE", "SYS_RAWIO",
                  "SYS_MODULE", "NET_RAW"}
SensitiveCapsRule(j) ==
    {Finding("Sensitive CAP_ADD", "warning", <<c>>) : c \in j.capAdd \cap SensitiveCaps}

ResourceQuotasRule(j) == When(j.memory = 0 \/ j.nanoCPUs = 0, "No Resource Quotas", "warning")

WritableRootFSRule(j) == When(~j.readonlyRootfs, "Writable RootFS", "warning")

(* Ports 22 and 23 count even if they are not bound on the host.           *)
InsecurePortsRule(j) ==
    When(DOMAIN j.ports \cap {22, 23} # {}, "Insecure Port Exposed", "critical")

(* An option counts whatever value it gives to no-new-privileges.          *)
NoNewPrivilegesRule(j) ==
    When(j.securityOpt \cap {"no-new-privileges", "no-new-privileges:true",
                             "no-new-privileges:false"} = {},
         "Missing No-New-Privileges", "warning")

HostNetworkingRule(j) == When(j.networkMode = "host", "Host Networking Mode", "critical")

SensitiveMountsRule(j) ==
    When("docker.sock" \in j.mountSources, "Docker Socket Mounted", "critical")

(* registerDefaultRules *)
Evaluate(j) ==
    PrivilegedModeRule(j) \cup RootUserRule(j) \cup DBPortExposedRule(j) \cup SensitiveCapsRule(j)
    \cup ResourceQuotasRule(j) \cup WritableRootFSRule(j) \cup InsecurePortsRule(j)
    \cup NoNewPrivilegesRule(j) \cup HostNetworkingRule(j) \cup SensitiveMountsRule(j)

-----------------------------------------------------------------------------
NoAudit == [on |-> FALSE, list |-> {}, todo |-> {}, new |-> <<>>]

AuditInit ==
    /\ cache = <<>>
    /\ audit = NoAudit

(* Phase 1, under the read lock: the containers that are not in the cache  *)
(* are to be inspected.                                                    *)
AuditBegin(list) ==
    /\ ~audit.on
    /\ audit' = [on |-> TRUE, list |-> list, todo |-> list \ DOMAIN cache, new |-> <<>>]
    /\ UNCHANGED cache

(* Phase 2, a goroutine per container and no lock: an error leaves the     *)
(* container without findings, for this call only.                         *)
AuditInspect(id) ==
    /\ id \in audit.todo /\ Exists(id)
    /\ audit' = [audit EXCEPT !.todo = @ \ {id},
                              !.new = [x \in DOMAIN @ \cup {id} |->
                                         IF x = id THEN Evaluate(docker[id].conf) ELSE @[x]]]
    /\ UNCHANGED cache

\* Fault: a failed inspection counts as one without findings.
AuditInspectFailsClean(id) ==
    /\ id \in audit.todo
    /\ audit' = [audit EXCEPT !.todo = @ \ {id},
                              !.new = [x \in DOMAIN @ \cup {id} |-> IF x = id THEN {} ELSE @[x]]]
    /\ UNCHANGED cache

AuditInspectFails(id) ==
    /\ id \in audit.todo
    /\ audit' = [audit EXCEPT !.todo = @ \ {id}]
    /\ UNCHANGED cache

Known == [id \in DOMAIN cache \cup DOMAIN audit.new |->
            IF id \in DOMAIN audit.new THEN audit.new[id] ELSE cache[id]]

\* Fault: containers that are no longer listed stay in the cache.
EvictNothing(known, list) == known

Evict(known, list) == [id \in DOMAIN known \cap list |-> known[id]]

(* Phase 3, under the lock: the new findings are cached, containers that   *)
(* are not in the list are evicted, and what is known of the listed ones   *)
(* is returned.                                                            *)
AuditReturns ==
    /\ audit.on /\ audit.todo = {}
    /\ cache' = Evict(Known, audit.list)
    /\ audit' = NoAudit

Findings == {<<id, f>> : id \in audit.list \cap DOMAIN Known, f \in UNION {Known[x] : x \in DOMAIN Known}}
AuditResult == {p \in Findings : p[2] \in Known[p[1]]}

=============================================================================
