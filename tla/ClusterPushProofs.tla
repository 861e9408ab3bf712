------------------------- MODULE ClusterPushProofs -------------------------
(***************************************************************************)
(* Proofs about ClusterPush, for every set of workers and configurations,  *)
(* every number of retries and every timeout: a push ends within the sum   *)
(* of its timeouts and waits, what a reader sees is recent, a push that is *)
(* taken for done is stored, and the store goes back in time only by a     *)
(* request that was given up or by a worker with another's host id.        *)
(***************************************************************************)
EXTENDS ClusterPush, TLAPS, FiniteSetTheorems

Pc == {"starting", "discovering", "select", "sending", "backoff", "stopped"}
Sender == [pc: Pc, snap: Nat, attempt: Nat, until: Nat, reply: Nat \cup {None}]
Pushing(s) == s.pc \in {"sending", "backoff"}

(* The longest time from the start of a push to its attempt k.             *)
Spent(k) == k * HttpTimeout + 2 ^ k - 1

(* A sender with a deadline has not missed it, and the deadlines of a push *)
(* are those of the attempts it has made.                                  *)
InTime(s, t) ==
    /\ s.pc \notin {"select", "stopped"} => t <= s.until
    /\ Pushing(s) => s.snap <= t
    /\ s.pc = "sending" => /\ s.attempt <= MaxRetries
                           /\ s.until <= s.snap + Spent(s.attempt) + HttpTimeout
    /\ s.pc = "backoff" => /\ s.attempt < MaxRetries
                           /\ s.until <= s.snap + Spent(s.attempt + 1)

(* A request carries its worker's identity and left in time.               *)
FromWorker(r) ==
    /\ r.from \in Workers
    /\ HostOf(r) = Cfg(r.from)["hostID"]
    /\ r.token = Cfg(r.from)["authToken"]
    /\ r.body.sealed = Cfg(r.from)["sharedSecret"]
LeftInTime(r, t) ==
    /\ SnapOf(r) \in Nat /\ r.sentAt \in Nat
    /\ SnapOf(r) <= r.sentAt /\ r.sentAt <= t /\ t <= r.sentAt + MaxDelay
    /\ r.sentAt <= SnapOf(r) + Spent(MaxRetries)

(* A snapshot that was taken is not newer than the one being pushed.       *)
NotNewer(w, snap) == snap <= now /\ (Pushing(snd[w]) => snap <= snd[w].snap)

(* An entry of the store is a snapshot that a worker with that host id     *)
(* sent, and was stored in time.                                           *)
GoodEntry(h, e) ==
    /\ e.at \in Nat /\ e.snap \in Nat
    /\ e.at <= e.snap + Spent(MaxRetries) + MaxDelay
    /\ \E w \in Workers : Cfg(w)["hostID"] = h /\ <<w, e.snap>> \in stored

TypeInv ==
    /\ now \in Nat
    /\ snd \in [Workers -> Sender]
    /\ failures \in [Workers -> Nat]
SendersInTime == \A w \in Workers : InTime(snd[w], now)
RequestsInTime == \A r \in net : FromWorker(r) /\ LeftInTime(r, now)
RequestsNotNewer == \A r \in net : NotNewer(r.from, SnapOf(r))
StoredNotNewer == \A s \in stored : /\ s[1] \in Workers /\ s[2] \in Nat
                                    /\ NotNewer(s[1], s[2])
RepliesAreTrue ==
    \A w \in Workers : snd[w].reply # None /\ IsSuccess(snd[w].reply)
                          => <<w, snd[w].snap>> \in stored
EntriesAreGood == \A h \in DOMAIN hosts : GoodEntry(h, hosts[h])

(* The inductive invariant.                                                *)
Inv == /\ TypeInv /\ SendersInTime /\ RequestsInTime /\ RequestsNotNewer
       /\ StoredNotNewer /\ RepliesAreTrue /\ EntriesAreGood
       /\ OnlyMatchingWorkersAreStored

-----------------------------------------------------------------------------
(* Powers of two, by counting subsets: the prover knows no more of the      *)
(* exponent than the library's theorem on the set of all subsets.           *)

LEMMA PowerIsCount ==
    ASSUME NEW k \in Nat
    PROVE  /\ IsFiniteSet(SUBSET (1..k))
           /\ Cardinality(SUBSET (1..k)) = 2 ^ k
           /\ 2 ^ k \in Nat
<1>1. IsFiniteSet(1..k) /\ Cardinality(1..k) = k
  BY FS_Interval
<1>2. IsFiniteSet(SUBSET (1..k)) /\ Cardinality(SUBSET (1..k)) = 2 ^ k
  BY <1>1, FS_SUBSET
<1> QED BY <1>2, FS_CardinalityType

LEMMA PowerGrows ==
    ASSUME NEW i \in Nat, NEW j \in Nat, i <= j PROVE 2 ^ i <= 2 ^ j
<1> DEFINE S == SUBSET (1..i)
           T == SUBSET (1..j)
           p == 2 ^ i
           q == 2 ^ j
<1>1. S \in SUBSET T
  OBVIOUS
<1>2. IsFiniteSet(T) /\ Cardinality(T) = q
  BY PowerIsCount
<1>3. Cardinality(S) = p
  BY PowerIsCount
<1> HIDE DEF S, T, p, q
<1>4. p <= q
  BY <1>1, <1>2, <1>3, FS_Subset
<1> QED BY <1>4 DEF p, q

LEMMA PowerDoubles ==
    ASSUME NEW k \in Nat PROVE 2 ^ (k + 1) = 2 ^ k + 2 ^ k
<1> DEFINE m == k + 1
           old == SUBSET (1..k)
           all == SUBSET (1..m)
           f == [x \in old |-> x \cup {m}]
           new == {x \cup {m} : x \in old}
           p == 2 ^ k
           q == 2 ^ m
<1>0. m \in Nat /\ m \notin 1..k /\ 1..m = (1..k) \cup {m}
  OBVIOUS
<1> HIDE DEF m
<1>1. IsFiniteSet(old) /\ Cardinality(old) = p /\ p \in Nat
  BY PowerIsCount
<1>2. Cardinality(all) = q
  BY <1>0, PowerIsCount
<1>3. \A x \in old : m \notin x
  BY <1>0
<1>4. f \in Bijection(old, new)
  <2>1. f \in [old -> new]
    OBVIOUS
  <2>2. \A x, y \in old : f[x] = f[y] => x = y
    <3> SUFFICES ASSUME NEW x \in old, NEW y \in old, f[x] = f[y] PROVE x = y
      OBVIOUS
    <3>1. x \cup {m} = y \cup {m}
      OBVIOUS
    <3> QED BY <1>3, <3>1
  <2>3. \A y \in new : \E x \in old : f[x] = y
    OBVIOUS
  <2> QED BY <2>1, <2>2, <2>3 DEF Bijection, Injection, Surjection, IsInjective
<1>5. ExistsBijection(old, new)
  BY <1>4 DEF ExistsBijection
<1>7. old \cap new = {}
  BY <1>3
<1>8. old \cup new = all
  <2>1. \A z \in old : z \in all
    BY <1>0
  <2>2. \A z \in new : z \in all
    BY <1>0
  <2>3. ASSUME NEW z \in all PROVE z \in old \cup new
    <3>1. CASE m \notin z
      BY <1>0, <3>1
    <3>2. CASE m \in z
      <4>1. z \ {m} \in old
        BY <1>0
      <4>2. z = (z \ {m}) \cup {m}
        BY <3>2
      <4> QED BY <4>1, <4>2
    <3> QED BY <3>1, <3>2
  <2> QED BY <2>1, <2>2, <2>3
<1> HIDE DEF p, q, old, new, all
<1>9. IsFiniteSet(new) /\ Cardinality(new) = p
  BY <1>1, <1>5, FS_Bijection
<1>10. Cardinality(old \cup new) = p + p - Cardinality({})
  BY <1>1, <1>7, <1>9, FS_Union
<1>11. q = p + p
  BY <1>1, <1>2, <1>8, <1>10, FS_EmptySet
<1> QED BY <1>11 DEF p, q, m

(* The time before an attempt grows by the timeout and the wait between.   *)
LEMMA SpentFacts ==
    /\ Spent(0) = 0
    /\ \A k \in Nat : Spent(k) \in Nat /\ Spent(k + 1) = Spent(k) + HttpTimeout + 2 ^ k
    /\ \A i, j \in Nat : i <= j => Spent(i) <= Spent(j)
<1>0. HttpTimeout \in Nat
  BY TimesAssumption
<1>1. 2 ^ 0 = 1
  OBVIOUS
<1>2. ASSUME NEW k \in Nat
      PROVE  Spent(k) \in Nat /\ Spent(k + 1) = Spent(k) + HttpTimeout + 2 ^ k
  <2>1. 2 ^ k \in Nat /\ 2 ^ (k + 1) = 2 ^ k + 2 ^ k
    BY PowerIsCount, PowerDoubles
  <2>2. 1 <= 2 ^ k
    <3> DEFINE p == 2 ^ k
               S == SUBSET (1..k)
    <3>1. S # {}
      OBVIOUS
    <3>2. IsFiniteSet(S) /\ Cardinality(S) = p /\ p \in Nat
      BY PowerIsCount
    <3> HIDE DEF p, S
    <3>3. 1 <= p
      BY <3>1, <3>2, FS_EmptySet
    <3> QED BY <3>3 DEF p
  <2>3. k * HttpTimeout \in Nat /\ (k + 1) * HttpTimeout = k * HttpTimeout + HttpTimeout
    BY <1>0
  <2> QED BY <1>0, <1>1, <2>1, <2>2, <2>3 DEF Spent
<1>3. ASSUME NEW i \in Nat, NEW j \in Nat, i <= j PROVE Spent(i) <= Spent(j)
  <2>1. 2 ^ i <= 2 ^ j /\ 2 ^ i \in Nat /\ 2 ^ j \in Nat
    BY <1>3, PowerIsCount, PowerGrows
  <2>2. i * HttpTimeout <= j * HttpTimeout /\ i * HttpTimeout \in Nat /\ j * HttpTimeout \in Nat
    BY <1>0, <1>3
  <2> QED BY <2>1, <2>2 DEF Spent
<1>4. Spent(0) = 0
  BY <1>0, <1>1 DEF Spent
<1> QED BY <1>2, <1>3, <1>4

-----------------------------------------------------------------------------
(* Steps of a sender.                                                       *)

(* What every step of w's sender comes to: it goes to state s and sends the *)
(* requests new.                                                            *)
SenderMoves(w, s, new) ==
    /\ s \in Sender /\ InTime(s, now)
    /\ snd' = [snd EXCEPT ![w] = s] /\ net' = net \cup new
    /\ \A r \in new : /\ FromWorker(r) /\ LeftInTime(r, now)
                      /\ r.from = w /\ SnapOf(r) = s.snap
    /\ Pushing(s) => s.snap = now \/ (Pushing(snd[w]) /\ s.snap = snd[w].snap)
    /\ s.reply # None => s.reply = snd[w].reply /\ s.snap = snd[w].snap
    /\ failures' \in [Workers -> Nat]
    /\ UNCHANGED <<setup, now, hosts, stored>>

LEMMA SenderMovesKeepInv ==
    ASSUME Inv, NEW w \in Workers, NEW s, NEW new, SenderMoves(w, s, new)
    PROVE  Inv'
<1>1. /\ s \in Sender /\ InTime(s, now) /\ net' = net \cup new
      /\ Pushing(s) => s.snap = now \/ (Pushing(snd[w]) /\ s.snap = snd[w].snap)
      /\ s.reply # None => s.reply = snd[w].reply /\ s.snap = snd[w].snap
      /\ UNCHANGED <<setup, now, hosts, stored>> /\ Workers' = Workers
  BY DEF SenderMoves, Workers
<1>2. /\ snd' \in [Workers -> Sender] /\ snd'[w] = s
      /\ \A v \in Workers : v # w => snd'[v] = snd[v]
  BY <1>1 DEF SenderMoves, Inv, TypeInv
<1>3. TypeInv'
  BY <1>1, <1>2 DEF SenderMoves, Inv, TypeInv
<1>4. SendersInTime'
  BY <1>1, <1>2 DEF Inv, SendersInTime
<1>5. RequestsInTime'
  <2>1. \A r \in net \cup new : FromWorker(r) /\ LeftInTime(r, now)
    BY DEF SenderMoves, Inv, RequestsInTime
  <2>2. \A r : FromWorker(r) => FromWorker(r)'
    BY <1>1 DEF FromWorker, Cfg
  <2> QED BY <1>1, <2>1, <2>2 DEF RequestsInTime
<1>6. \A v \in Workers : \A snap \in Nat : NotNewer(v, snap) => NotNewer(v, snap)'
  <2> SUFFICES ASSUME NEW v \in Workers, NEW snap \in Nat, NotNewer(v, snap)
               PROVE  NotNewer(v, snap)'
    OBVIOUS
  <2>1. CASE v # w
    BY <1>1, <1>2, <2>1 DEF NotNewer
  <2>2. CASE v = w
    BY <1>1, <1>2, <2>2 DEF NotNewer
  <2> QED BY <2>1, <2>2
<1>7. RequestsNotNewer'
  <2>1. ASSUME NEW r \in net PROVE NotNewer(r.from, SnapOf(r))'
    <3>1. r.from \in Workers /\ SnapOf(r) \in Nat /\ NotNewer(r.from, SnapOf(r))
      BY DEF Inv, RequestsInTime, RequestsNotNewer, FromWorker, LeftInTime
    <3> QED BY <1>6, <3>1
  <2>2. ASSUME NEW r \in new PROVE NotNewer(r.from, SnapOf(r))'
    <3>1. r.from = w /\ SnapOf(r) = s.snap /\ s.snap \in Nat /\ s.snap <= now
      BY <1>1 DEF SenderMoves, LeftInTime, Sender, Inv, TypeInv
    <3> QED BY <1>1, <1>2, <3>1 DEF NotNewer
  <2> QED BY <1>1, <2>1, <2>2 DEF RequestsNotNewer
<1>8. StoredNotNewer'
  BY <1>1, <1>6 DEF Inv, StoredNotNewer
<1>9. RepliesAreTrue'
  BY <1>1, <1>2 DEF Inv, RepliesAreTrue
<1>10. EntriesAreGood'
  BY <1>1 DEF Inv, EntriesAreGood, GoodEntry, Cfg
<1>11. OnlyMatchingWorkersAreStored'
  BY <1>1 DEF Inv, OnlyMatchingWorkersAreStored, Cfg, LeaderCfg
<1> QED BY <1>3, <1>4, <1>5, <1>7, <1>8, <1>9, <1>10, <1>11 DEF Inv

(* A request is built from its worker's configuration.                      *)
LEMMA RequestFacts ==
    ASSUME NEW w \in Workers, NEW snap \in Nat, NEW i
    PROVE  LET r == Request(w, snap, i)
           IN  /\ FromWorker(r) /\ r.from = w /\ SnapOf(r) = snap /\ r.sentAt = now
<1> DEFINE r == Request(w, snap, i)
           secret == Cfg(w)["sharedSecret"]
<1>1. r.body = [sealed |-> secret, of |-> [host |-> Cfg(w)["hostID"], snap |-> snap]]
  BY DEF Request, Encrypt
<1>2. r.from = w /\ r.sentAt = now /\ r.token = Cfg(w)["authToken"]
  BY DEF Request
<1>3. r.body.sealed = secret /\ SnapOf(r) = snap /\ HostOf(r) = Cfg(w)["hostID"]
  BY <1>1 DEF SnapOf, HostOf
<1> QED BY <1>2, <1>3 DEF FromWorker

(* The updates of a sender, field by field.                                 *)
LEMMA Updates ==
    ASSUME NEW x \in Sender, NEW p \in Pc, NEW u \in Nat
    PROVE  /\ [x EXCEPT !.pc = p, !.until = u] \in Sender
           /\ [x EXCEPT !.pc = p, !.until = u] =
                [pc |-> p, snap |-> x.snap, attempt |-> x.attempt, until |-> u, reply |-> x.reply]
           /\ [x EXCEPT !.pc = p, !.until = u, !.reply = None] \in Sender
           /\ [x EXCEPT !.pc = p, !.until = u, !.reply = None] =
                [pc |-> p, snap |-> x.snap, attempt |-> x.attempt, until |-> u, reply |-> None]
           /\ [x EXCEPT !.pc = p, !.attempt = @ + 1, !.until = u] \in Sender
           /\ [x EXCEPT !.pc = p, !.attempt = @ + 1, !.until = u] =
                [pc |-> p, snap |-> x.snap, attempt |-> x.attempt + 1, until |-> u, reply |-> x.reply]
<1> DEFINE a == [x EXCEPT !.pc = p]
           b == [a EXCEPT !.until = u]
           c == [b EXCEPT !.reply = None]
           d == [a EXCEPT !.attempt = @ + 1]
           e == [d EXCEPT !.until = u]
<1>1. a \in Sender /\ a = [pc |-> p, snap |-> x.snap, attempt |-> x.attempt,
                            until |-> x.until, reply |-> x.reply]
  BY DEF Sender
<1>2. b = [x EXCEPT !.pc = p, !.until = u]
  BY DEF Sender
<1>3. c = [x EXCEPT !.pc = p, !.until = u, !.reply = None]
  BY DEF Sender
<1>4. e = [x EXCEPT !.pc = p, !.attempt = @ + 1, !.until = u]
  BY DEF Sender
<1> HIDE DEF a
<1>5. b \in Sender /\ b = [pc |-> p, snap |-> x.snap, attempt |-> x.attempt,
                            until |-> u, reply |-> x.reply]
  BY <1>1 DEF Sender
<1> HIDE DEF b
<1>6. c \in Sender /\ c = [pc |-> p, snap |-> x.snap, attempt |-> x.attempt,
                            until |-> u, reply |-> None]
  BY <1>5 DEF Sender
<1>7. d \in Sender /\ d = [pc |-> p, snap |-> x.snap, attempt |-> x.attempt + 1,
                            until |-> x.until, reply |-> x.reply]
  BY <1>1 DEF Sender
<1> HIDE DEF d
<1>8. e \in Sender /\ e = [pc |-> p, snap |-> x.snap, attempt |-> x.attempt + 1,
                            until |-> u, reply |-> x.reply]
  BY <1>7 DEF Sender
<1> HIDE DEF c, e
<1> QED BY <1>5, <1>6, <1>8, <1>2, <1>3, <1>4
LEMMA StartedSenderFacts ==
    ASSUME now \in Nat, NEW w
    PROVE  /\ StartedSender(w) \in Sender /\ InTime(StartedSender(w), now)
           /\ ~Pushing(StartedSender(w)) /\ StartedSender(w).reply = None
           /\ IdleSender \in Sender /\ InTime(IdleSender, now)
           /\ ~Pushing(IdleSender) /\ IdleSender.reply = None
           /\ [IdleSender EXCEPT !.pc = "stopped"] \in Sender
           /\ InTime([IdleSender EXCEPT !.pc = "stopped"], now)
           /\ ~Pushing([IdleSender EXCEPT !.pc = "stopped"])
           /\ [IdleSender EXCEPT !.pc = "stopped"].reply = None
<1>1. /\ IdleSender \in Sender /\ InTime(IdleSender, now)
      /\ ~Pushing(IdleSender) /\ IdleSender.reply = None
  BY DEF IdleSender, Sender, Pc, InTime, Pushing
<1> DEFINE s == [IdleSender EXCEPT !.pc = "stopped"]
           d == [IdleSender EXCEPT !.pc = "starting", !.until = now + DiscoverTimeout]
<1>2. s \in Sender /\ InTime(s, now) /\ ~Pushing(s) /\ s.reply = None
  <2>1. s = [pc |-> "stopped", snap |-> 0, attempt |-> 0, until |-> 0, reply |-> None]
    BY DEF IdleSender
  <2> HIDE DEF s
  <2> QED BY <2>1 DEF Sender, Pc, InTime, Pushing
<1>3. d \in Sender /\ InTime(d, now) /\ ~Pushing(d) /\ d.reply = None
  <2>1. now + DiscoverTimeout \in Nat /\ now <= now + DiscoverTimeout
    BY TimesAssumption
  <2>2. d = [pc |-> "starting", snap |-> 0, attempt |-> 0, until |-> now + DiscoverTimeout,
             reply |-> None]
    <3>1. "starting" \in Pc
      BY DEF Pc
    <3>2. d = [pc |-> "starting", snap |-> IdleSender.snap, attempt |-> IdleSender.attempt,
               until |-> now + DiscoverTimeout, reply |-> IdleSender.reply]
      <4> QED BY <1>1, <2>1, <3>1, Updates
    <3>3. IdleSender.snap = 0 /\ IdleSender.attempt = 0 /\ IdleSender.reply = None
      BY DEF IdleSender
    <3> QED BY <3>2, <3>3
  <2> HIDE DEF d
  <2> QED BY <2>1, <2>2 DEF Sender, Pc, InTime, Pushing
<1>4. StartedSender(w) \in {d, IdleSender}
  BY DEF StartedSender
<1> HIDE DEF s, d
<1>5. /\ StartedSender(w) \in Sender /\ InTime(StartedSender(w), now)
      /\ ~Pushing(StartedSender(w)) /\ StartedSender(w).reply = None
  BY <1>1, <1>3, <1>4
<1> QED BY <1>1, <1>2, <1>5 DEF s

LEMMA CollectKeeps ==
    ASSUME Inv, NEW w \in Workers, Collect(w), UNCHANGED setup PROVE Inv'
<1>0. now \in Nat /\ snd[w] \in Sender /\ failures \in [Workers -> Nat]
  BY DEF Inv, TypeInv
<1>1. CASE UNCHANGED <<snd, net>>
  <2>1. SenderMoves(w, snd[w], {})
    BY <1>0, <1>1 DEF Collect, SenderMoves, Inv, TypeInv, SendersInTime
  <2> QED BY <2>1, SenderMovesKeepInv
<1>2. CASE /\ snd' = [snd EXCEPT ![w] = [pc |-> "sending", snap |-> now, attempt |-> 0,
                                         until |-> now + HttpTimeout, reply |-> None]]
           /\ net' = net \cup {Request(w, now, 0)}
  <2> DEFINE s == [pc |-> "sending", snap |-> now, attempt |-> 0,
                   until |-> now + HttpTimeout, reply |-> None]
             r == Request(w, now, 0)
  <2>1. s \in Sender /\ s.snap = now /\ s.reply = None
    BY <1>0, TimesAssumption DEF Sender, Pc
  <2>2. InTime(s, now)
    BY <1>0, TimesAssumption, SpentFacts DEF InTime, Pushing
  <2>3. FromWorker(r) /\ r.from = w /\ SnapOf(r) = now /\ r.sentAt = now
    BY <1>0, RequestFacts
  <2>4. Spent(MaxRetries) \in Nat /\ MaxDelay \in Nat
    BY TimesAssumption, SpentFacts
  <2>5. LeftInTime(r, now)
    BY <1>0, <2>3, <2>4 DEF LeftInTime
  <2> HIDE DEF s, r
  <2>6. SenderMoves(w, s, {r})
    BY <1>0, <1>2, <2>1, <2>2, <2>3, <2>5 DEF Collect, SenderMoves, s, r
  <2> QED BY <2>6, SenderMovesKeepInv
<1>3. CASE /\ snd' = [snd EXCEPT ![w].pc = "discovering", ![w].until = now + DiscoverTimeout]
           /\ UNCHANGED net /\ snd[w].pc = "select"
  <2> DEFINE s == [snd[w] EXCEPT !.pc = "discovering", !.until = now + DiscoverTimeout]
  <2>1. s \in Sender /\ s.snap = snd[w].snap /\ s.reply = snd[w].reply /\ ~Pushing(s)
    <3>2. now + DiscoverTimeout \in Nat
      BY <1>0, TimesAssumption
    <3>1. s = [pc |-> "discovering", snap |-> snd[w].snap, attempt |-> snd[w].attempt,
               until |-> now + DiscoverTimeout, reply |-> snd[w].reply]
      BY <1>0, <3>2, Updates DEF Pc
    <3> HIDE DEF s
    <3> QED BY <1>0, <3>1, <3>2 DEF Sender, Pc, Pushing
  <2>2. InTime(s, now)
    BY <1>0, <2>1, TimesAssumption DEF InTime, Sender, Pushing
  <2>3. snd' = [snd EXCEPT ![w] = s]
    BY <1>3
  <2> HIDE DEF s
  <2>4. SenderMoves(w, s, {})
    BY <1>0, <1>3, <2>1, <2>2, <2>3 DEF Collect, SenderMoves
  <2> QED BY <2>4, SenderMovesKeepInv
<1> QED BY <1>1, <1>2, <1>3 DEF Collect

(* A failed attempt, by a timeout or a refusal.                             *)
LEMMA NextAttemptKeeps ==
    ASSUME Inv, NEW w \in Workers, snd[w].pc = "sending", NextAttempt(w),
           UNCHANGED <<setup, now, net, hosts, stored>>
    PROVE  Inv'
<1>0. now \in Nat /\ snd[w] \in Sender /\ failures \in [Workers -> Nat] /\ InTime(snd[w], now)
  BY DEF Inv, TypeInv, SendersInTime
<1>1. CASE snd[w].attempt < MaxRetries
  <2> DEFINE k == snd[w].attempt
             wait == 2 ^ k
             s == [snd[w] EXCEPT !.pc = "backoff", !.until = now + wait, !.reply = None]
  <2>1. k \in Nat /\ wait \in Nat /\ Spent(k) \in Nat
        /\ Spent(k + 1) = Spent(k) + HttpTimeout + wait
    BY <1>0, SpentFacts, PowerIsCount DEF Sender
  <2>2. snd' = [snd EXCEPT ![w] = s] /\ failures' = failures
    BY <1>1 DEF NextAttempt
  <2>3. now <= snd[w].snap + Spent(k) + HttpTimeout /\ snd[w].snap <= now
    BY <1>0, <2>1, TimesAssumption DEF InTime, Pushing, Sender
  <2> HIDE DEF wait
  <2>4. s \in Sender /\ s.snap = snd[w].snap /\ s.reply = None /\ s.pc = "backoff"
        /\ s.attempt = k /\ s.until = now + wait
    <3>1. now + wait \in Nat /\ "backoff" \in Pc
      BY <1>0, <2>1 DEF Pc
    <3>2. s = [pc |-> "backoff", snap |-> snd[w].snap, attempt |-> k,
               until |-> now + wait, reply |-> None]
      BY <1>0, <3>1, Updates
    <3> HIDE DEF s
    <3> QED BY <1>0, <3>1, <3>2 DEF Sender
  <2>5. snd[w].snap \in Nat /\ HttpTimeout \in Nat
    BY <1>0, TimesAssumption DEF Sender
  <2> HIDE DEF k, s
  <2>6. InTime(s, now)
    BY <1>0, <1>1, <2>1, <2>3, <2>4, <2>5 DEF InTime, Pushing, k
  <2>7. SenderMoves(w, s, {})
    BY <1>0, <2>2, <2>4, <2>6 DEF SenderMoves, Pushing
  <2> QED BY <2>7, SenderMovesKeepInv
<1>2. CASE ~(snd[w].attempt < MaxRetries)
  <2>1. snd' = [snd EXCEPT ![w] = IdleSender] /\ failures' = [failures EXCEPT ![w] = @ + 1]
    BY <1>2 DEF NextAttempt
  <2>2. SenderMoves(w, IdleSender, {})
    BY <1>0, <2>1, StartedSenderFacts DEF SenderMoves
  <2> QED BY <2>2, SenderMovesKeepInv
<1> QED BY <1>1, <1>2

LEMMA RetryKeeps ==
    ASSUME Inv, NEW w \in Workers, Retry(w), UNCHANGED setup PROVE Inv'
<1> DEFINE k == snd[w].attempt
           snap == snd[w].snap
           s == [snd[w] EXCEPT !.pc = "sending", !.attempt = @ + 1, !.until = now + HttpTimeout]
           r == Request(w, snap, k + 1)
<1>0. now \in Nat /\ snd[w] \in Sender /\ failures \in [Workers -> Nat] /\ InTime(snd[w], now)
  BY DEF Inv, TypeInv, SendersInTime
<1>1. /\ snd[w].pc = "backoff" /\ snd[w].until = now /\ snd' = [snd EXCEPT ![w] = s]
      /\ net' = net \cup {r} /\ UNCHANGED <<setup, now, hosts, failures, stored>>
  BY DEF Retry
<1>2. /\ s \in Sender /\ s.snap = snap /\ s.pc = "sending" /\ s.attempt = k + 1
      /\ s.until = now + HttpTimeout /\ s.reply = snd[w].reply /\ k \in Nat /\ snap \in Nat
  <2>1. /\ now + HttpTimeout \in Nat /\ k + 1 \in Nat /\ k \in Nat /\ snap \in Nat
        /\ "sending" \in Pc
    BY <1>0, TimesAssumption DEF Sender, Pc
  <2>2. s = [pc |-> "sending", snap |-> snap, attempt |-> k + 1,
             until |-> now + HttpTimeout, reply |-> snd[w].reply]
    BY <1>0, <2>1, Updates
  <2> HIDE DEF s
  <2> QED BY <1>0, <2>1, <2>2 DEF Sender
<1>3. k < MaxRetries /\ now <= snap + Spent(k + 1) /\ snap <= now
  BY <1>0, <1>1 DEF InTime, Pushing
<1>4. FromWorker(r) /\ r.from = w /\ SnapOf(r) = snap /\ r.sentAt = now
  BY <1>2, RequestFacts
<1>5. /\ Spent(k + 1) \in Nat /\ Spent(MaxRetries) \in Nat /\ HttpTimeout \in Nat
      /\ MaxRetries \in Nat /\ MaxDelay \in Nat
      /\ k + 1 <= MaxRetries /\ Spent(k + 1) <= Spent(MaxRetries)
  BY <1>2, <1>3, SpentFacts, TimesAssumption
<1>6. Pushing(snd[w])
  BY <1>1 DEF Pushing
<1> HIDE DEF s, r, k, snap
<1>7. InTime(s, now)
  BY <1>0, <1>2, <1>3, <1>5 DEF InTime, Pushing
<1>8. LeftInTime(r, now)
  BY <1>0, <1>2, <1>3, <1>4, <1>5 DEF LeftInTime
<1>9. SenderMoves(w, s, {r})
  BY <1>0, <1>1, <1>2, <1>4, <1>6, <1>7, <1>8 DEF SenderMoves, snap
<1> QED BY <1>9, SenderMovesKeepInv

(* The steps that leave the sender with nothing under way.                  *)
LEMMA EndKeeps ==
    ASSUME Inv, NEW w \in Workers, UNCHANGED <<setup, now, net, hosts, stored>>,
           NEW s \in {IdleSender, StartedSender(w), [IdleSender EXCEPT !.pc = "stopped"]},
           snd' = [snd EXCEPT ![w] = s], failures' \in [Workers -> Nat]
    PROVE  Inv'
<1>1. now \in Nat
  BY DEF Inv, TypeInv
<1>2. SenderMoves(w, s, {})
  BY <1>1, StartedSenderFacts DEF SenderMoves
<1> QED BY <1>2, SenderMovesKeepInv

-----------------------------------------------------------------------------
(* Steps of the leader and of the network.                                  *)

(* A request that is accepted has the leader's token and secret.            *)
LEMMA ServeHTTPFacts ==
    ASSUME NEW r, NEW readable \in BOOLEAN
    PROVE  /\ ServeHTTP(r, readable) \in Nat
           /\ IsSuccess(ServeHTTP(r, readable)) => ServeHTTP(r, readable) = 202
           /\ ServeHTTP(r, readable) = 202 =>
                 /\ r.body.sealed = LeaderCfg["sharedSecret"]
                 /\ LeaderCfg["authToken"] \in {"", r.token}
<1> DEFINE token == LeaderCfg["authToken"]
           secret == LeaderCfg["sharedSecret"]
           code == ServeHTTP(r, readable)
<1>1. CASE ~ReachesReceiver(r.from, r.to)
  <2>1. code = 404
    BY <1>1 DEF ServeHTTP
  <2> QED BY <2>1 DEF IsSuccess
<1>2. CASE ReachesReceiver(r.from, r.to) /\ token # "" /\ r.token # token
  <2>1. code = 401
    BY <1>2 DEF ServeHTTP
  <2> QED BY <2>1 DEF IsSuccess
<1>3. CASE ReachesReceiver(r.from, r.to) /\ ~(token # "" /\ r.token # token)
  <2> DEFINE encrypted == r.body.sealed # ""
             answer == IF ~readable THEN 400
                       ELSE IF secret # "" /\ (~encrypted \/ Decrypt(r.body, secret) = None)
                       THEN 403
                       ELSE IF secret = "" /\ encrypted THEN 400
                       ELSE IF HostOf(r) = "" THEN 400
                       ELSE 202
  <2>1. code = answer
    <3>1. code = CASE ~ReachesReceiver(r.from, r.to) -> 404
                   [] ReachesReceiver(r.from, r.to) /\ token # "" /\ r.token # token -> 401
                   [] OTHER -> answer
      BY DEF ServeHTTP
    <3> HIDE DEF answer, code, token
    <3> QED BY <1>3, <3>1
  <2> HIDE DEF code, secret
  <2>2. code \in {400, 403, 202} /\ (code = 202 => r.body.sealed = secret)
    <3>1. CASE ~readable
      <4>1. code = 400
        BY <2>1, <3>1
      <4> QED BY <4>1
    <3>2. CASE readable /\ secret # "" /\ (~encrypted \/ Decrypt(r.body, secret) = None)
      <4>1. code = 403
        BY <2>1, <3>2
      <4> QED BY <4>1
    <3>3. CASE /\ readable /\ ~(secret # "" /\ (~encrypted \/ Decrypt(r.body, secret) = None))
               /\ secret = "" /\ encrypted
      <4>1. code = 400
        BY <2>1, <3>3
      <4> QED BY <4>1
    <3>4. CASE /\ readable /\ ~(secret # "" /\ (~encrypted \/ Decrypt(r.body, secret) = None))
               /\ ~(secret = "" /\ encrypted)
      <4>1. code = IF HostOf(r) = "" THEN 400 ELSE 202
        BY <2>1, <3>4
      <4>2. (HostOf(r) = "" => code = 400) /\ (HostOf(r) # "" => code = 202)
        BY <4>1
      <4>3. r.body.sealed = secret
        BY <3>4 DEF Decrypt
      <4> QED BY <4>2, <4>3
    <3> QED BY <3>1, <3>2, <3>3, <3>4
  <2>3. token \in {"", r.token}
    BY <1>3
  <2>4. code \in Nat /\ (IsSuccess(code) => code = 202)
    BY <2>2 DEF IsSuccess
  <2> QED BY <2>2, <2>3, <2>4 DEF code, secret
<1> QED BY <1>1, <1>2, <1>3

LEMMA HandleKeeps ==
    ASSUME Inv, NEW r, NEW readable \in BOOLEAN, Handle(r, readable), UNCHANGED setup
    PROVE  Inv'
<1> DEFINE code == ServeHTTP(r, readable)
           w == r.from
           snap == SnapOf(r)
<1>1. /\ r \in net /\ net' = net \ {r} /\ UNCHANGED <<setup, now, failures>>
      /\ hosts' = IF code = 202 THEN UpdateHost(r.body.of) ELSE hosts
      /\ stored' = IF code = 202 THEN stored \cup {<<w, snap>>} ELSE stored
      /\ (Awaited(r) /\ snd' = [snd EXCEPT ![w].reply = code]) \/ snd' = snd
  <2>1. setup' = setup /\ now' = now /\ failures' = failures
    BY DEF Handle
  <2>2. r \in net /\ net' = net \ {r}
    BY DEF Handle
  <2>3. hosts' = IF code = 202 THEN UpdateHost(r.body.of) ELSE hosts
    BY DEF Handle
  <2>4. stored' = IF code = 202 THEN stored \cup {<<w, snap>>} ELSE stored
    BY DEF Handle
  <2>5. (Awaited(r) /\ snd' = [snd EXCEPT ![w].reply = code]) \/ snd' = snd
    BY DEF Handle
  <2> HIDE DEF code, w, snap
  <2> QED BY <2>1, <2>2, <2>3, <2>4, <2>5
<1>2. /\ code \in Nat
      /\ IsSuccess(code) => code = 202
      /\ code = 202 => /\ r.body.sealed = LeaderCfg["sharedSecret"]
                       /\ LeaderCfg["authToken"] \in {"", r.token}
  BY ZenonT(60), ServeHTTPFacts
<1>3. w \in Workers /\ FromWorker(r) /\ LeftInTime(r, now) /\ NotNewer(w, snap)
  BY <1>1 DEF Inv, RequestsInTime, RequestsNotNewer, FromWorker
<1>4. now \in Nat /\ Workers' = Workers /\ snd \in [Workers -> Sender]
  BY <1>1 DEF Inv, TypeInv, Workers
<1>5. snap \in Nat
  BY <1>3 DEF LeftInTime
<1> HIDE DEF code, w, snap
<1>6. snd' \in [Workers -> Sender]
  <2>1. [snd[w] EXCEPT !.reply = code] \in Sender
    <3> DEFINE x == snd[w]
    <3>1. x \in Sender /\ code \in Nat
      BY <1>2, <1>3, <1>4
    <3> HIDE DEF x
    <3>2. [x EXCEPT !.reply = code] \in Sender
      BY <3>1 DEF Sender
    <3> QED BY <3>2 DEF x
  <2> QED BY <1>1, <1>3, <1>4, <2>1
<1>7. \A v \in Workers : /\ snd'[v].pc = snd[v].pc /\ snd'[v].snap = snd[v].snap
                         /\ snd'[v].attempt = snd[v].attempt /\ snd'[v].until = snd[v].until
                         /\ snd'[v].reply = snd[v].reply
                            \/ (v = w /\ Awaited(r) /\ snd'[v].reply = code)
  BY <1>1, <1>3, <1>4 DEF Sender
<1>8. TypeInv'
  BY <1>1, <1>4, <1>6 DEF Inv, TypeInv
<1>9. SendersInTime'
  BY <1>1, <1>4, <1>7 DEF Inv, SendersInTime, InTime, Pushing
<1>10. RequestsInTime'
  BY <1>1, <1>4 DEF Inv, RequestsInTime, FromWorker, Cfg
<1>11. \A v \in Workers : \A n \in Nat : NotNewer(v, n) => NotNewer(v, n)'
  BY <1>1, <1>7 DEF NotNewer, Pushing
<1>12. RequestsNotNewer'
  <2>1. \A q \in net : q.from \in Workers /\ SnapOf(q) \in Nat /\ NotNewer(q.from, SnapOf(q))
    BY DEF Inv, RequestsInTime, RequestsNotNewer, FromWorker, LeftInTime
  <2> QED BY <1>1, <1>11, <2>1 DEF RequestsNotNewer
<1>13. StoredNotNewer'
  <2>1. NotNewer(w, snap)'
    BY <1>3, <1>5, <1>11
  <2>2. \A s \in stored : /\ s[1] \in Workers /\ s[2] \in Nat /\ NotNewer(s[1], s[2])'
    BY <1>11 DEF Inv, StoredNotNewer
  <2>3. ASSUME NEW s \in stored'
        PROVE  s[1] \in Workers' /\ s[2] \in Nat /\ NotNewer(s[1], s[2])'
    <3>1. CASE s \in stored
      BY <1>4, <2>2, <3>1
    <3>2. CASE s = <<w, snap>>
      <4>1. s[1] = w /\ s[2] = snap
        BY <3>2
      <4> QED BY <1>3, <1>4, <1>5, <2>1, <4>1
    <3> QED BY <1>1, <3>1, <3>2
  <2> QED BY <2>3 DEF StoredNotNewer
<1>14. RepliesAreTrue'
  <2> SUFFICES ASSUME NEW v \in Workers, snd'[v].reply # None, IsSuccess(snd'[v].reply)
               PROVE  <<v, snd'[v].snap>> \in stored'
    BY <1>4 DEF RepliesAreTrue, IsSuccess
  <2>1. CASE snd'[v].reply = snd[v].reply
    BY <1>1, <1>7, <2>1 DEF Inv, RepliesAreTrue, IsSuccess
  <2>2. CASE v = w /\ Awaited(r) /\ snd'[v].reply = code
    <3>1. snd[w].snap = snap
      BY <2>2 DEF Awaited, w, snap
    <3>2. code = 202
      BY <1>2, <2>2 DEF IsSuccess
    <3> QED BY <1>1, <1>7, <2>2, <3>1, <3>2
  <2> QED BY <1>7, <2>1, <2>2
<1>15. EntriesAreGood'
  <2> SUFFICES ASSUME NEW h \in DOMAIN hosts' PROVE GoodEntry(h, hosts[h])'
    BY DEF EntriesAreGood
  <2>0. stored \subseteq stored' /\ \A v : Cfg(v)' = Cfg(v)
    BY <1>1 DEF Cfg
  <2>1. \/ h \in DOMAIN hosts /\ hosts'[h] = hosts[h]
        \/ code = 202 /\ h = HostOf(r) /\ hosts'[h] = [at |-> now, snap |-> snap]
    BY <1>1 DEF UpdateHost, HostOf, SnapOf, snap
  <2>2. CASE h \in DOMAIN hosts /\ hosts'[h] = hosts[h]
    <3>1. GoodEntry(h, hosts[h])
      BY <2>2 DEF Inv, EntriesAreGood
    <3> QED BY <1>4, <2>0, <2>2, <3>1 DEF GoodEntry
  <2>3. CASE code = 202 /\ h = HostOf(r) /\ hosts'[h] = [at |-> now, snap |-> snap]
    <3>1. hosts'[h].at = now /\ hosts'[h].snap = snap
      BY <2>3
    <3>2. now <= snap + Spent(MaxRetries) + MaxDelay
      <4>1. /\ r.sentAt \in Nat /\ now <= r.sentAt + MaxDelay
            /\ r.sentAt <= snap + Spent(MaxRetries)
        BY <1>3 DEF LeftInTime, snap
      <4>2. Spent(MaxRetries) \in Nat /\ MaxDelay \in Nat
        BY SpentFacts, TimesAssumption
      <4> QED BY <1>4, <1>5, <4>1, <4>2
    <3>3. <<w, snap>> \in stored' /\ w \in Workers'
      BY <1>1, <1>3, <1>4, <2>3
    <3>4. Cfg(w)["hostID"] = h
      BY <1>3, <2>3 DEF FromWorker, w
    <3> QED BY <1>4, <1>5, <2>0, <3>1, <3>2, <3>3, <3>4 DEF GoodEntry
  <2> QED BY <2>1, <2>2, <2>3
<1>16. OnlyMatchingWorkersAreStored'
  <2>1. code = 202 => /\ Cfg(w)["sharedSecret"] = LeaderCfg["sharedSecret"]
                      /\ LeaderCfg["authToken"] \in {"", Cfg(w)["authToken"]}
    BY <1>2, <1>3 DEF FromWorker, w
  <2>2. ASSUME NEW s \in stored'
        PROVE  /\ Cfg(s[1])["sharedSecret"] = LeaderCfg["sharedSecret"]
               /\ LeaderCfg["authToken"] \in {"", Cfg(s[1])["authToken"]}
    <3>1. CASE s \in stored
      BY <3>1 DEF Inv, OnlyMatchingWorkersAreStored
    <3>2. CASE code = 202 /\ s = <<w, snap>>
      <4>1. s[1] = w
        BY <3>2
      <4> QED BY <2>1, <3>2, <4>1
    <3> QED BY <1>1, <3>1, <3>2
  <2>3. LeaderCfg' = LeaderCfg /\ \A v : Cfg(v)' = Cfg(v)
    BY <1>1 DEF Cfg, LeaderCfg
  <2> QED BY <2>2, <2>3 DEF OnlyMatchingWorkersAreStored
<1> QED BY <1>8, <1>9, <1>10, <1>12, <1>13, <1>14, <1>15, <1>16 DEF Inv

(* A lost request, and a leader that starts with an empty store.            *)
LEMMA LossKeeps ==
    ASSUME Inv, UNCHANGED <<setup, now, snd, failures, stored>>, net' \subseteq net,
           hosts' \in {hosts, <<>>}
    PROVE  Inv'
<1>1. Workers' = Workers
  BY DEF Workers
<1>2. TypeInv' /\ SendersInTime' /\ RepliesAreTrue' /\ StoredNotNewer'
  BY <1>1 DEF Inv, TypeInv, SendersInTime, RepliesAreTrue, StoredNotNewer, NotNewer
<1>3. RequestsInTime' /\ RequestsNotNewer'
  BY <1>1 DEF Inv, RequestsInTime, FromWorker, Cfg, RequestsNotNewer, NotNewer
<1>4. EntriesAreGood'
  <2>1. CASE hosts' = hosts
    BY <1>1, <2>1 DEF Inv, EntriesAreGood, GoodEntry, Cfg
  <2>2. CASE hosts' = <<>>
    <3>1. DOMAIN hosts' = {}
      BY <2>2
    <3> QED BY <3>1 DEF EntriesAreGood
  <2> QED BY <2>1, <2>2
<1>5. OnlyMatchingWorkersAreStored'
  BY DEF Inv, OnlyMatchingWorkersAreStored, Cfg, LeaderCfg
<1> QED BY <1>2, <1>3, <1>4, <1>5 DEF Inv

(* The clock waits for the deadlines of the senders and of the requests.    *)
LEMMA TickKeeps == ASSUME Inv, Tick, UNCHANGED setup PROVE Inv'
<1>1. /\ now \in Nat /\ now' = now + 1 /\ UNCHANGED <<setup, snd, net, hosts, failures, stored>>
      /\ Workers' = Workers
  BY DEF Tick, Inv, TypeInv, Workers
<1>2. TypeInv' /\ RepliesAreTrue'
  BY <1>1 DEF Inv, TypeInv, RepliesAreTrue
<1>3. SendersInTime'
  <2> SUFFICES ASSUME NEW w \in Workers PROVE InTime(snd[w], now + 1)
    BY <1>1 DEF SendersInTime
  <2>1. snd[w] \in Sender /\ InTime(snd[w], now)
    BY DEF Inv, TypeInv, SendersInTime
  <2>2. snd[w].pc \notin {"select", "stopped"} => now < snd[w].until
    BY DEF Tick
  <2> QED BY <1>1, <2>1, <2>2 DEF InTime, Pushing, Sender
<1>4. RequestsInTime'
  <2>1. \A r \in net : now < r.sentAt + MaxDelay
    BY DEF Tick
  <2>2. \A r \in net : FromWorker(r)'
    BY <1>1 DEF Inv, RequestsInTime, FromWorker, Cfg
  <2>3. \A r \in net : LeftInTime(r, now + 1)
    BY <1>1, <2>1, TimesAssumption DEF Inv, RequestsInTime, LeftInTime
  <2> QED BY <1>1, <2>2, <2>3 DEF RequestsInTime
<1>5. \A w \in Workers : \A n \in Nat : NotNewer(w, n) => NotNewer(w, n)'
  BY <1>1 DEF NotNewer
<1>6. RequestsNotNewer'
  <2>1. \A r \in net : r.from \in Workers /\ SnapOf(r) \in Nat /\ NotNewer(r.from, SnapOf(r))
    BY DEF Inv, RequestsInTime, RequestsNotNewer, FromWorker, LeftInTime
  <2> QED BY <1>1, <1>5, <2>1 DEF RequestsNotNewer
<1>7. StoredNotNewer'
  BY <1>1, <1>5 DEF Inv, StoredNotNewer
<1>8. EntriesAreGood'
  BY <1>1 DEF Inv, EntriesAreGood, GoodEntry, Cfg
<1>9. OnlyMatchingWorkersAreStored'
  BY <1>1 DEF Inv, OnlyMatchingWorkersAreStored, Cfg, LeaderCfg
<1> QED BY <1>2, <1>3, <1>4, <1>6, <1>7, <1>8, <1>9 DEF Inv

-----------------------------------------------------------------------------
LEMMA InitEstablishes == Init => Inv
<1> SUFFICES ASSUME Init PROVE Inv
  OBVIOUS
<1>1. now \in Nat /\ net = {} /\ stored = {} /\ DOMAIN hosts = {}
  BY DEF Init
<1>2. TypeInv /\ SendersInTime /\ RepliesAreTrue
  BY <1>1, StartedSenderFacts DEF Init, TypeInv, SendersInTime, RepliesAreTrue
<1> QED BY <1>1, <1>2 DEF Inv, RequestsInTime, RequestsNotNewer, StoredNotNewer,
           EntriesAreGood, OnlyMatchingWorkersAreStored

LEMMA StepKeeps == Inv /\ [Next]_vars => Inv'
<1> SUFFICES ASSUME Inv, [Next]_vars PROVE Inv'
  OBVIOUS
<1>0. failures \in [Workers -> Nat]
  BY DEF Inv, TypeInv
<1>1. CASE UNCHANGED vars
  BY <1>1, LossKeeps DEF vars
<1>2. ASSUME UNCHANGED setup, NEW w \in Workers, Collect(w) PROVE Inv'
  BY <1>2, CollectKeeps
<1>3. ASSUME UNCHANGED setup, NEW w \in Workers, DiscoverLeader(w) PROVE Inv'
  BY <1>0, <1>3, EndKeeps DEF DiscoverLeader
<1>4. ASSUME UNCHANGED setup, NEW w \in Workers, AttemptFails(w) PROVE Inv'
  BY <1>4, NextAttemptKeeps DEF AttemptFails
<1>5. ASSUME UNCHANGED setup, NEW w \in Workers, GetReply(w) PROVE Inv'
  <2>1. CASE snd' = [snd EXCEPT ![w] = IdleSender] /\ UNCHANGED failures
    BY <1>0, <1>5, <2>1, EndKeeps DEF GetReply
  <2>2. CASE NextAttempt(w)
    BY <1>5, <2>2, NextAttemptKeeps DEF GetReply
  <2> QED BY <1>5, <2>1, <2>2 DEF GetReply
<1>6. ASSUME UNCHANGED setup, NEW w \in Workers, Retry(w) PROVE Inv'
  BY <1>6, RetryKeeps
<1>7. ASSUME UNCHANGED setup, NEW w \in Workers, Stop(w) PROVE Inv'
  BY <1>0, <1>7, EndKeeps DEF Stop
<1>8. ASSUME UNCHANGED setup, NEW w \in Workers, Restart(w) PROVE Inv'
  BY <1>0, <1>8, EndKeeps DEF Restart
<1>9. ASSUME UNCHANGED setup, NEW r \in net, Lose(r) PROVE Inv'
  BY <1>9, LossKeeps DEF Lose
<1>10. ASSUME UNCHANGED setup, NEW r \in net, NEW readable \in BOOLEAN, Handle(r, readable)
       PROVE  Inv'
  BY <1>10, HandleKeeps
<1>11. ASSUME UNCHANGED setup, LeaderRestart PROVE Inv'
  BY <1>11, LossKeeps DEF LeaderRestart
<1>12. ASSUME UNCHANGED setup, Tick PROVE Inv'
  BY <1>12, TickKeeps
<1> QED
  BY <1>1, <1>2, <1>3, <1>4, <1>5, <1>6, <1>7, <1>8, <1>9, <1>10, <1>11, <1>12 DEF Next, Step

THEOREM ClusterInvariant == Spec => []Inv
<1> QED
  BY InitEstablishes, StepKeeps, PTL DEF Spec

(* A push ends within the sum of its timeouts and waits.                    *)
THEOREM BoundedPush == Spec => []PushIsBounded
<1>1. Inv => PushIsBounded
  <2> SUFFICES ASSUME Inv, NEW w \in Workers, Pushing(snd[w])
               PROVE  now <= snd[w].snap + PushBound
    BY DEF PushIsBounded, Pushing
  <2>1. snd[w] \in Sender /\ InTime(snd[w], now) /\ now \in Nat
    BY DEF Inv, TypeInv, SendersInTime
  <2> DEFINE k == snd[w].attempt
             snap == snd[w].snap
  <2>2. k \in Nat /\ snap \in Nat /\ snd[w].until \in Nat
    BY <2>1 DEF Sender
  <2>3. PushBound = Spent(MaxRetries) + HttpTimeout
    <3>1. (MaxRetries + 1) * HttpTimeout = MaxRetries * HttpTimeout + HttpTimeout
      BY TimesAssumption
    <3>2. MaxRetries \in Nat /\ MaxRetries * HttpTimeout \in Nat /\ HttpTimeout \in Nat
      BY TimesAssumption
    <3>3. 2 ^ MaxRetries \in Nat
      BY <3>2, PowerIsCount
    <3> QED BY <3>1, <3>2, <3>3 DEF PushBound, BackoffSum, Spent
  <2>4. /\ Spent(k) \in Nat /\ Spent(k + 1) \in Nat /\ Spent(MaxRetries) \in Nat
        /\ k <= MaxRetries => Spent(k) <= Spent(MaxRetries)
        /\ k < MaxRetries => Spent(k + 1) <= Spent(MaxRetries)
        /\ HttpTimeout \in Nat
    <3>1. MaxRetries \in Nat /\ HttpTimeout \in Nat /\ k + 1 \in Nat
          /\ (k < MaxRetries => k + 1 <= MaxRetries)
      BY <2>2, TimesAssumption
    <3>2. Spent(k) \in Nat /\ Spent(k + 1) \in Nat /\ Spent(MaxRetries) \in Nat
      BY <2>2, <3>1, SpentFacts
    <3> HIDE DEF k
    <3> QED BY <2>2, <3>1, <3>2, SpentFacts
  <2>5. CASE snd[w].pc = "sending"
    BY <2>1, <2>2, <2>3, <2>4, <2>5 DEF InTime
  <2>6. CASE snd[w].pc = "backoff"
    BY <2>1, <2>2, <2>3, <2>4, <2>6 DEF InTime
  <2> QED BY <2>5, <2>6 DEF Pushing
<1> QED BY <1>1, ClusterInvariant, PTL

(* What readers see is as recent as the freshness window and the longest    *)
(* way of a snapshot allow.                                                 *)
THEOREM RecentData == Spec => []VisibleDataIsRecent
<1>1. Inv => VisibleDataIsRecent
  <2> SUFFICES ASSUME Inv, NEW h \in Visible
               PROVE  now <= hosts[h].snap + Staleness + MaxRetries * HttpTimeout
                              + BackoffSum + MaxDelay
    BY DEF VisibleDataIsRecent
  <2>1. now - hosts[h].at <= Staleness /\ GoodEntry(h, hosts[h]) /\ now \in Nat
    BY DEF Visible, Inv, EntriesAreGood, TypeInv
  <2>2. /\ hosts[h].at \in Nat /\ hosts[h].snap \in Nat
        /\ hosts[h].at <= hosts[h].snap + Spent(MaxRetries) + MaxDelay
    BY <2>1 DEF GoodEntry
  <2>3. MaxRetries \in Nat /\ MaxRetries * HttpTimeout \in Nat
        /\ Staleness \in Nat /\ MaxDelay \in Nat
    BY TimesAssumption
  <2>4. 2 ^ MaxRetries \in Nat
    BY <2>3, PowerIsCount
  <2> QED BY <2>1, <2>2, <2>3, <2>4 DEF Spent, BackoffSum
<1> QED BY <1>1, ClusterInvariant, PTL

(* Nobody's data is stored without the leader's token and secret.           *)
THEOREM OnlyMatching == Spec => []OnlyMatchingWorkersAreStored
<1>1. Inv => OnlyMatchingWorkersAreStored
  BY DEF Inv
<1> QED BY <1>1, ClusterInvariant, PTL

(* A sender that ends a push without counting a failure has stored it.      *)
THEOREM AckIsTrue == Spec => AckedMeansStored
<1> DEFINE P == \A w \in Workers :
                   snd[w].pc = "sending" /\ snd'[w].pc = "select" /\ failures'[w] = failures[w]
                      => <<w, snd[w].snap>> \in stored
<1>1. Inv /\ [Next]_vars => [P]_vars
  <2> SUFFICES ASSUME Inv, Next, NEW w \in Workers, snd[w].pc = "sending",
                      snd'[w].pc = "select", failures'[w] = failures[w]
               PROVE  <<w, snd[w].snap>> \in stored
    OBVIOUS
  <2>0. snd \in [Workers -> Sender] /\ failures \in [Workers -> Nat]
    BY DEF Inv, TypeInv
  <2>1. snd'[w] # snd[w]
    OBVIOUS
  <2>2. CASE Collect(w) \/ DiscoverLeader(w) \/ Retry(w) \/ Stop(w) \/ Restart(w)
    <3>1. Stop(w)
      BY <2>2 DEF Collect, DiscoverLeader, Retry, Restart
    <3>2. snd'[w].pc = "stopped"
      BY <2>0, <3>1 DEF Stop, IdleSender
    <3> QED BY <3>2
  <2>3. ~NextAttempt(w)
    BY <2>0 DEF NextAttempt, Sender
  <2>4. CASE GetReply(w) \/ AttemptFails(w)
    BY <2>3, <2>4 DEF GetReply, AttemptFails, Inv, RepliesAreTrue
  <2>5. ASSUME NEW v \in Workers,
               Collect(v) \/ DiscoverLeader(v) \/ AttemptFails(v) \/ GetReply(v) \/ Retry(v)
                  \/ Stop(v) \/ Restart(v)
        PROVE  v = w
    BY <2>0, <2>1, <2>5 DEF Collect, DiscoverLeader, AttemptFails, GetReply, Retry, Stop,
       Restart, NextAttempt
  <2>6. ASSUME NEW r \in net, NEW readable \in BOOLEAN, Handle(r, readable) PROVE FALSE
    BY <2>0, <2>6 DEF Handle, Sender
  <2>7. ~(LeaderRestart \/ Tick \/ \E r \in net : Lose(r))
    BY <2>1 DEF LeaderRestart, Tick, Lose
  <2> QED BY <2>2, <2>4, <2>5, <2>6, <2>7 DEF Next, Step
<1> QED BY <1>1, ClusterInvariant, PTL DEF Spec, AckedMeansStored

(* The store of a host goes back in time only by a request that its sender  *)
(* no longer waits for, or by another worker with the same host id.         *)
THEOREM OnlyAbandonedGoBack == Spec => OnlyAbandonedRequestsGoBack
<1> DEFINE P == \A h \in DOMAIN hosts \cap DOMAIN hosts' :
                   hosts'[h].snap < hosts[h].snap =>
                      \E r \in net \ net' :
                         /\ HostOf(r) = h
                         /\ Awaited(r) => \E w \in Workers \ {r.from} : Cfg(w)["hostID"] = h
<1>1. Inv /\ [Next]_vars => [P]_vars
  <2> SUFFICES ASSUME Inv, Next, NEW h \in DOMAIN hosts \cap DOMAIN hosts',
                      hosts'[h].snap < hosts[h].snap
               PROVE  \E r \in net \ net' :
                         /\ HostOf(r) = h
                         /\ Awaited(r) => \E w \in Workers \ {r.from} : Cfg(w)["hostID"] = h
    OBVIOUS
  <2>1. GoodEntry(h, hosts[h])
    BY DEF Inv, EntriesAreGood
  <2>2. PICK v \in Workers : Cfg(v)["hostID"] = h /\ <<v, hosts[h].snap>> \in stored
    BY <2>1 DEF GoodEntry
  <2>3. hosts[h].snap \in Nat
    BY <2>1 DEF GoodEntry
  <2>4. NotNewer(v, hosts[h].snap)
    <3> DEFINE s == <<v, hosts[h].snap>>
    <3>1. s \in stored /\ s[1] = v /\ s[2] = hosts[h].snap
      BY <2>2
    <3> HIDE DEF s
    <3> QED BY <3>1 DEF Inv, StoredNotNewer
  <2>5. hosts' # hosts
    BY <2>3
  <2>6. hosts' # <<>>
    <3>1. DOMAIN hosts' # {}
      OBVIOUS
    <3> QED BY <3>1
  <2>7. PICK r \in net : \E readable \in BOOLEAN : Handle(r, readable)
    BY <2>5, <2>6 DEF Next, Step, Collect, DiscoverLeader, AttemptFails, GetReply, Retry, Stop,
       Restart, Lose, LeaderRestart, Tick
  <2>8. r \in net \ net' /\ hosts' = UpdateHost(r.body.of)
    BY <2>5, <2>7 DEF Handle
  <2>9. HostOf(r) = h /\ hosts'[h].snap = SnapOf(r)
    BY <2>3, <2>8 DEF UpdateHost, HostOf, SnapOf
  <2>10. ASSUME Awaited(r) PROVE v # r.from
    <3>1. snd[r.from].pc = "sending" /\ snd[r.from].snap = SnapOf(r)
      BY <2>10 DEF Awaited
    <3>2. SUFFICES ASSUME v = r.from PROVE FALSE
      OBVIOUS
    <3>3. hosts[h].snap <= SnapOf(r)
      BY <2>4, <3>1, <3>2 DEF NotNewer, Pushing
    <3>4. SnapOf(r) \in Nat
      BY DEF Inv, RequestsInTime, LeftInTime
    <3> QED BY <2>3, <2>9, <3>3, <3>4
  <2> QED BY <2>2, <2>8, <2>9, <2>10
<1> QED BY <1>1, ClusterInvariant, PTL DEF Spec, OnlyAbandonedRequestsGoBack

=============================================================================
