---------------------------- MODULE ClusterPush ----------------------------
(***************************************************************************)
(* Cluster mode (internal/cluster): each worker's sender collects a        *)
(* snapshot at every tick and POSTs it to the leader with a timeout and    *)
(* retries; the leader's receiver checks a request and overwrites the      *)
(* host's entry in memory, which readers see while it is fresh.  The       *)
(* sender's timeout does not stop a request that is already on its way: it *)
(* may be handled later, after newer ones.                                 *)
(*                                                                         *)
(* A snapshot is identified by the time at which its push begins.  URLs    *)
(* are "push" (the leader's /api/v1/push), "root" (the leader without the  *)
(* path), "self" (the same path on the worker's own loopback address) and  *)
(* "" (not set).  The clock stops for a deadline until it is dealt with.   *)
(***************************************************************************)
EXTENDS Config, Integers, FiniteSets

CONSTANTS Setups,           \* the ways in which the agents may be set up
          MaxRetries,       \* retries after the first attempt (3 in the code)
          HttpTimeout,      \* http.Client.Timeout
          DiscoverTimeout,  \* the 6 s of DiscoverLeader
          Interval,         \* stats.interval
          Staleness,        \* age at which readers ignore a host (30 s)
          MaxDelay,         \* bound: a request is handled or lost within it
          MaxTime,          \* bound on the clock with one worker
          MaxTimeTogether,  \* bound on the clock with several workers
          None

ASSUME TimesAssumption ==
    /\ MaxRetries \in Nat /\ Staleness \in Nat /\ MaxTime \in Nat /\ MaxTimeTogether \in Nat
    /\ HttpTimeout \in Nat \ {0} /\ DiscoverTimeout \in Nat \ {0}
    /\ Interval \in Nat \ {0} /\ MaxDelay \in Nat \ {0}

VARIABLES setup,   \* setup[a], a worker or "leader": how it is started
          now,     \* the clock
          tick,    \* tick[w]: the sender's ticker holds a tick
          url,     \* url[w]: leaderURL of StartSender
          snd,     \* snd[w]: where w's sender is
          net,     \* requests on their way or in the leader's hands
          hosts,   \* the leader's store: hostID -> [at, snap]
          failures,\* failures[w]: ClusterPushFailures
          stored   \* history: the snapshots that ever entered the store

vars == <<setup, now, tick, url, snd, net, hosts, failures, stored>>

Workers == DOMAIN setup \ {"leader"}
Horizon == IF Cardinality(Workers) = 1 THEN MaxTime ELSE MaxTimeTogether

Cfg(a) == Load(setup[a].file, setup[a].env, setup[a].hostname)
LeaderCfg == Cfg("leader")

(* DiscoverLeader: the advertiser announces the addresses of "localhost",  *)
(* so a leader that is found is at the loopback address.                   *)
DiscoveredURL == "self"

(* The push endpoint is mounted on a leader only, at /api/v1/push.         *)
ReachesReceiver(w, u) == u = "push" \/ (u = "self" /\ setup[w].onLeaderHost)

IdleSender == [pc |-> "select", snap |-> 0, attempt |-> 0, until |-> 0, reply |-> None]

-----------------------------------------------------------------------------
(* AES-GCM under a key derived from the secret: a body is the payload and  *)
(* the secret it is sealed with, "" if it is in the clear, and only that   *)
(* secret opens it.                                                        *)
Encrypt(payload, secret) == [sealed |-> secret, of |-> payload]
Decrypt(body, secret) == IF body.sealed = secret THEN body.of ELSE None

(* A request as sendPushPayload builds it: encrypted if a secret is set.   *)
Request(w, snap, i) ==
    LET payload == [host |-> Cfg(w)["hostID"], snap |-> snap]
        secret == Cfg(w)["sharedSecret"]
    IN [from |-> w, attempt |-> i, sentAt |-> now, to |-> url[w], token |-> Cfg(w)["authToken"],
        body |-> IF secret # "" THEN Encrypt(payload, secret) ELSE [sealed |-> "", of |-> payload]]

SnapOf(r) == r.body.of.snap
HostOf(r) == r.body.of.host

\* Fault: neither the token nor the payload is checked.
ServeHTTPUnchecked(r, readable) ==
    CASE ~ReachesReceiver(r.from, r.to) -> 404
      [] OTHER -> 202

(* ServeHTTP's checks in their order; a body that is cut or too large      *)
(* cannot be read, and ciphertext is not JSON for a leader with no secret. *)
ServeHTTP(r, readable) ==
    LET token == LeaderCfg["authToken"]
        secret == LeaderCfg["sharedSecret"]
        encrypted == r.body.sealed # ""
    IN CASE ~ReachesReceiver(r.from, r.to) -> 404
         [] ReachesReceiver(r.from, r.to) /\ token # "" /\ r.token # token -> 401
         [] OTHER -> IF ~readable THEN 400
                     ELSE IF secret # "" /\ (~encrypted \/ Decrypt(r.body, secret) = None) THEN 403
                     ELSE IF secret = "" /\ encrypted THEN 400
                     ELSE IF HostOf(r) = "" THEN 400
                     ELSE 202

\* Fault: the write goes to every host of the shard.
UpdateHostShard(payload) ==
    [h \in DOMAIN hosts \cup {payload.host} |-> [at |-> now, snap |-> payload.snap]]

(* MemoryStore.UpdateHost *)
UpdateHost(payload) ==
    [h \in DOMAIN hosts \cup {payload.host} |->
        IF h = payload.host THEN [at |-> now, snap |-> payload.snap] ELSE hosts[h]]

\* Fault: a host is never ignored.
VisibleAlways == DOMAIN hosts

(* The hosts whose data GetAllMetrics and GetAllContainers return.         *)
Visible == {h \in DOMAIN hosts : now - hosts[h].at <= Staleness}

-----------------------------------------------------------------------------
(* Every agent has just been started; with no URL the sender looks for the *)
(* leader before its first tick.                                           *)
StartedSender(w) ==
    IF Cfg(w)["leaderURL"] = ""
    THEN [IdleSender EXCEPT !.pc = "starting", !.until = now + DiscoverTimeout]
    ELSE IdleSender

Init ==
    /\ setup \in Setups
    /\ now = 0
    /\ tick = [w \in Workers |-> FALSE]
    /\ url = [w \in Workers |-> Cfg(w)["leaderURL"]]
    /\ snd = [w \in Workers |-> StartedSender(w)]
    /\ net = {}
    /\ hosts = <<>>
    /\ failures = [w \in Workers |-> 0]
    /\ stored = {}

(* The sender takes a tick; the Docker calls fail, or a snapshot is sent,  *)
(* or it is dropped to look for the leader again.                          *)
Collect(w) ==
    /\ snd[w].pc = "select" /\ tick[w]
    /\ tick' = [tick EXCEPT ![w] = FALSE]
    /\ \/ UNCHANGED <<snd, net>>
       \/ /\ url[w] # ""
          /\ snd' = [snd EXCEPT ![w] = [pc |-> "sending", snap |-> now, attempt |-> 0,
                                        until |-> now + HttpTimeout, reply |-> None]]
          /\ net' = net \cup {Request(w, now, 0)}
       \/ /\ url[w] = ""
          /\ snd' = [snd EXCEPT ![w].pc = "discovering", ![w].until = now + DiscoverTimeout]
          /\ UNCHANGED net
    /\ UNCHANGED <<now, url, hosts, failures, stored>>

(* The search ends; the ticker is created after the one at the start.      *)
DiscoverLeader(w) ==
    /\ snd[w].pc \in {"starting", "discovering"}
    /\ snd' = [snd EXCEPT ![w] = IdleSender]
    /\ url' \in {url, [url EXCEPT ![w] = DiscoveredURL]}
    /\ tick' = [tick EXCEPT ![w] = @ /\ snd[w].pc = "discovering"]
    /\ UNCHANGED <<now, net, hosts, failures, stored>>

\* Fault: the attempts are not counted.
NextAttemptForever(w) ==
    /\ snd' = [snd EXCEPT ![w].pc = "backoff", ![w].until = now + 1, ![w].reply = None,
                          ![w].attempt = 0]
    /\ UNCHANGED failures

(* After a failed attempt: wait 1, 2, 4... or give up and count a failure. *)
NextAttempt(w) ==
    IF snd[w].attempt < MaxRetries
    THEN /\ snd' = [snd EXCEPT ![w].pc = "backoff", ![w].until = now + 2 ^ snd[w].attempt,
                               ![w].reply = None]
         /\ UNCHANGED failures
    ELSE /\ snd' = [snd EXCEPT ![w] = IdleSender]
         /\ failures' = [failures EXCEPT ![w] = @ + 1]

(* client.Do fails: no connection, or the timeout at the latest.           *)
AttemptFails(w) ==
    /\ snd[w].pc = "sending"
    /\ NextAttempt(w)
    /\ UNCHANGED <<now, tick, url, net, hosts, stored>>

\* Fault: any answer counts as success.
IsSuccessAny(code) == TRUE

IsSuccess(code) == code \in {200, 202}

GetReply(w) ==
    /\ snd[w].pc = "sending" /\ snd[w].reply # None
    /\ \/ /\ IsSuccess(snd[w].reply)
          /\ snd' = [snd EXCEPT ![w] = IdleSender]
          /\ UNCHANGED failures
       \/ ~IsSuccess(snd[w].reply) /\ NextAttempt(w)
    /\ UNCHANGED <<now, tick, url, net, hosts, stored>>

Retry(w) ==
    /\ snd[w].pc = "backoff" /\ snd[w].until = now
    /\ snd' = [snd EXCEPT ![w].pc = "sending", ![w].attempt = @ + 1,
                          ![w].until = now + HttpTimeout]
    /\ net' = net \cup {Request(w, snd[w].snap, snd[w].attempt + 1)}
    /\ UNCHANGED <<now, tick, url, hosts, failures, stored>>

(* The worker is stopped, wherever its sender is, and started again.       *)
Stop(w) ==
    /\ snd[w].pc # "stopped"
    /\ snd' = [snd EXCEPT ![w] = [IdleSender EXCEPT !.pc = "stopped"]]
    /\ UNCHANGED <<now, tick, url, net, hosts, failures, stored>>

Restart(w) ==
    /\ snd[w].pc = "stopped"
    /\ snd' = [snd EXCEPT ![w] = StartedSender(w)]
    /\ url' = [url EXCEPT ![w] = Cfg(w)["leaderURL"]]
    /\ tick' = [tick EXCEPT ![w] = FALSE]
    /\ failures' = [failures EXCEPT ![w] = 0]
    /\ UNCHANGED <<now, net, hosts, stored>>

-----------------------------------------------------------------------------
Awaited(r) ==
    /\ snd[r.from].pc = "sending"
    /\ snd[r.from].snap = SnapOf(r) /\ snd[r.from].attempt = r.attempt

(* The leader handles a request; the answer reaches a sender that still    *)
(* waits for it, or is lost.                                               *)
Handle(r, readable) ==
    LET code == ServeHTTP(r, readable)
    IN /\ r \in net
       /\ net' = net \ {r}
       /\ hosts' = IF code = 202 THEN UpdateHost(r.body.of) ELSE hosts
       /\ stored' = IF code = 202 THEN stored \cup {<<r.from, SnapOf(r)>>} ELSE stored
       /\ \/ Awaited(r) /\ snd' = [snd EXCEPT ![r.from].reply = code]
          \/ UNCHANGED snd
       /\ UNCHANGED <<now, tick, url, failures>>

Lose(r) ==
    /\ r \in net
    /\ net' = net \ {r}
    /\ UNCHANGED <<now, tick, url, snd, hosts, failures, stored>>

(* The leader is restarted: its store and its connections are gone.        *)
LeaderRestart ==
    /\ hosts # <<>>
    /\ hosts' = <<>>
    /\ net' = {}
    /\ UNCHANGED <<now, tick, url, snd, failures, stored>>

Tick ==
    /\ now < Horizon
    /\ \A w \in Workers : snd[w].pc \notin {"select", "stopped"} => now < snd[w].until
    /\ \A r \in net : now < r.sentAt + MaxDelay
    /\ now' = now + 1
    /\ tick' = [w \in Workers |-> tick[w] \/ now' % Interval = 0]
    /\ UNCHANGED <<url, snd, net, hosts, failures, stored>>

Step ==
    \/ \E w \in Workers :
          Collect(w) \/ DiscoverLeader(w) \/ AttemptFails(w) \/ GetReply(w) \/ Retry(w)
          \/ Stop(w) \/ Restart(w)
    \/ \E r \in net : Lose(r) \/ \E readable \in BOOLEAN : Handle(r, readable)
    \/ LeaderRestart
    \/ Tick

(* Nobody reads the configuration again while an agent runs, and it is the *)
(* same after a restart.                                                   *)
Next == Step /\ UNCHANGED setup

Spec == Init /\ [][Next]_vars

-----------------------------------------------------------------------------
BackoffSum == 2 ^ MaxRetries - 1
PushBound == (MaxRetries + 1) * HttpTimeout + BackoffSum

\* A push ends in bounded time, however the leader and the network behave:
\* the sender is never in an attempt or a backoff longer than all its timeouts
\* and waits together.
PushIsBounded ==
    \A w \in Workers :
        snd[w].pc \in {"sending", "backoff"} => now <= snd[w].snap + PushBound

\* What readers of the leader see is never older than the freshness window
\* plus the longest way a snapshot can take: all attempts but the last timing
\* out, all waits, and the last request delayed as long as the network allows.
VisibleDataIsRecent ==
    \A h \in Visible :
        now <= hosts[h].snap + Staleness + MaxRetries * HttpTimeout + BackoffSum + MaxDelay

\* A sender that takes a push for done is right: the snapshot entered the
\* leader's store.
AckedMeansStored ==
    [][\A w \in Workers :
          snd[w].pc = "sending" /\ snd'[w].pc = "select" /\ failures'[w] = failures[w]
             => <<w, snd[w].snap>> \in stored]_vars

\* The store goes back to an older snapshot of a host only by handling a
\* request whose sender had given up on it, never by one it still waits for,
\* unless another worker has the same host id: then the two take turns.
OnlyAbandonedRequestsGoBack ==
    [][\A h \in DOMAIN hosts \cap DOMAIN hosts' :
          hosts'[h].snap < hosts[h].snap =>
             \E r \in net \ net' :
                /\ HostOf(r) = h
                /\ Awaited(r) => \E w \in Workers \ {r.from} : Cfg(w)["hostID"] = h]_vars

\* Only hosts whose worker has the leader's token and secret are ever stored.
OnlyMatchingWorkersAreStored ==
    \A s \in stored : /\ Cfg(s[1])["sharedSecret"] = LeaderCfg["sharedSecret"]
                      /\ LeaderCfg["authToken"] \in {"", Cfg(s[1])["authToken"]}

=============================================================================
