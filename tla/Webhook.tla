------------------------------- MODULE Webhook -------------------------------
(***************************************************************************)
(* The intake of webhooks (webhooks.rs): the lock-out of addresses that    *)
(* guess tokens (rate_limiter.rs), the filter of repeated events           *)
(* (webhook_dedup.rs) and the token buckets (webhook_rate_limit.rs).       *)
(*                                                                         *)
(* Many requests are at work at once; each takes one lock at a time, so    *)
(* every lock is a step.  The clean-up tasks run beside them.  Time is in  *)
(* seconds.  Tokens are counted exactly, where the code has an f32.        *)
(***************************************************************************)
EXTENDS Integers, FiniteSets

CONSTANTS
  Requests, Ips, Keys, Buckets,
  Ip,            \* the address of a request
  Exempt,        \* the loopback addresses
  Key,           \* what its event is recognised by: the event id of its user, or its content
  Ids,           \* the keys with an event id
  BucketOf,      \* the bucket of a request at each gate
  GlobalBucket,
  MaxAttempts, Window, Lockout,         \* RateLimitConfig
  MaxRecords,                           \* MAX_RECORDS
  EventTtl, ContentWindow, MaxCache,    \* DedupConfig
  Capacity, Rate, TokenCost,            \* a token is TokenCost units, Rate units are added a second
  StaleAfter,                           \* when an unused bucket is dropped
  Scenes   \* bounds: the requests that come, those with a wrong token, the end of time

Gates == {"global", "user", "channel", "ip"}

\* Window and Lockout are settings, 60 and 300 by default; an unused bucket
\* is dropped after an hour, when it has long been full.
ASSUME WebhookAssumption ==
  /\ Ip \in [Requests -> Ips] /\ Key \in [Requests -> Keys]
  /\ Ids \subseteq Keys /\ IsFiniteSet(Keys)
  /\ BucketOf \in [Requests -> [Gates -> Buckets]]
  /\ GlobalBucket \in Buckets
  /\ MaxAttempts \in Nat \ {0} /\ Window \in Nat /\ Lockout \in Nat /\ Window <= Lockout
  /\ MaxRecords \in Nat
  /\ EventTtl \in Nat /\ ContentWindow \in Nat /\ MaxCache \in Nat
  /\ Capacity \in [Buckets -> Nat] /\ Rate \in [Buckets -> Nat]
  /\ TokenCost \in Nat /\ StaleAfter \in Nat
  /\ \A b \in Buckets : Capacity[b] * TokenCost <= Rate[b] * StaleAfter

VARIABLES
  clock,
  scene,     \* the requests of this behaviour, which does not change
  pc,        \* where a request is; its answer when it is over
  failures,  \* IpRecord.failures: who failed, and when
  until,     \* IpRecord.locked_until, 0 for none
  cached,    \* the keys in the caches
  when,      \* their time stamps
  live,      \* the buckets that exist
  tokens,
  last,      \* last_refill
  log        \* history: the guesses answered, the events admitted, the tokens taken

vars == <<clock, scene, pc, failures, until, cached, when, live, tokens, last, log>>
limiter == <<failures, until>>
dedup == <<cached, when>>
buckets == <<live, tokens, last>>

Init ==
  /\ clock = 1 /\ scene \in Scenes
  /\ pc = [r \in Requests |-> "new"]
  /\ failures = [i \in Ips |-> {}] /\ until = [i \in Ips |-> 0]
  /\ cached = {} /\ when = [k \in Keys |-> 0]
  /\ live = {GlobalBucket}
  /\ tokens = [b \in Buckets |-> Capacity[b] * TokenCost]
  /\ last = [b \in Buckets |-> 1]
  /\ log = {}

Now(r, what)  == [who |-> r, what |-> what, at |-> clock]
Note(r, what) == log' = log \cup {Now(r, what)}
Go(r, p) == pc' = [pc EXCEPT ![r] = p]

-----------------------------------------------------------------------------
(* Authentication *)

Locked(i)  == i \notin Exempt /\ clock < until[i]

\* The agent may be stopped or paused.
Arrive(r) ==
  /\ pc[r] = "new" /\ r \in scene.sent
  /\ \/ Go(r, "paused")
     \/ Locked(Ip[r]) /\ Go(r, "locked")
     \/ ~Locked(Ip[r]) /\ Go(r, "auth")
  /\ UNCHANGED <<clock, scene, limiter, dedup, buckets, log>>

\* The endpoint may be disabled or unknown, or no token configured.
Authenticate(r) ==
  /\ pc[r] = "auth"
  /\ \/ Go(r, "refused")
     \/ Go(r, IF r \in scene.wrong THEN "bad" ELSE "dedup")
  /\ UNCHANGED <<clock, scene, limiter, dedup, buckets, log>>

Recent(f) == {e \in f : clock - e.at < Window}

\* A record without a lock or a recent failure goes.
KeptFailures(f, u) == IF clock < u THEN f ELSE Recent(f)
KeptUntil(f, u)    == IF clock < u \/ Recent(f) # {} THEN u ELSE 0

Exempted(r) ==
  /\ pc[r] = "bad" /\ Ip[r] \in Exempt
  /\ Go(r, "wrong")
  /\ UNCHANGED <<clock, scene, limiter, dedup, buckets, log>>

StillLocked(r) ==
  /\ pc[r] = "bad" /\ Locked(Ip[r])
  /\ Go(r, "locked")
  /\ UNCHANGED <<clock, scene, limiter, dedup, buckets, log>>

\* A record is put back; when there are too many, all are cleaned at once.
Store(i, f, u) ==
  LET fs   == [failures EXCEPT ![i] = f]
      us   == [until EXCEPT ![i] = u]
      full == Cardinality({j \in Ips : fs[j] # {} \/ us[j] # 0}) > MaxRecords
  IN  /\ failures' = [j \in Ips |-> IF full THEN KeptFailures(fs[j], us[j]) ELSE fs[j]]
      /\ until' = [j \in Ips |-> IF full THEN KeptUntil(fs[j], us[j]) ELSE us[j]]

(* Mutant: the attempt itself is not counted. *)
record_failure_late(r) ==
  /\ pc[r] = "bad" /\ Ip[r] \notin Exempt /\ ~Locked(Ip[r])
  /\ LET i   == Ip[r]
         old == IF until[i] # 0 THEN {} ELSE Recent(failures[i])
         now == old \cup {Now(r, "wrong")}
     IN  IF Cardinality(old) >= MaxAttempts
         THEN Store(i, {}, clock + Lockout) /\ Go(r, "locked") /\ UNCHANGED log
         ELSE Store(i, now, 0) /\ Go(r, "wrong") /\ Note(r, "wrong")
  /\ UNCHANGED <<clock, scene, dedup, buckets>>

record_failure(r) ==
  /\ pc[r] = "bad" /\ Ip[r] \notin Exempt /\ ~Locked(Ip[r])
  /\ LET i   == Ip[r]
         old == IF until[i] # 0 THEN {} ELSE Recent(failures[i])
         now == old \cup {Now(r, "wrong")}
     IN  IF Cardinality(now) >= MaxAttempts
         THEN Store(i, {}, clock + Lockout) /\ Go(r, "locked") /\ UNCHANGED log
         ELSE Store(i, now, 0) /\ Go(r, "wrong") /\ Note(r, "wrong")
  /\ UNCHANGED <<clock, scene, dedup, buckets>>

(* Mutant: a lock does not keep a record. *)
CleanLimiter_all ==
  /\ failures' = [i \in Ips |-> Recent(failures[i])]
  /\ until' = [i \in Ips |-> IF Recent(failures[i]) = {} THEN 0 ELSE until[i]]
  /\ UNCHANGED <<clock, scene, pc, dedup, buckets, log>>

CleanLimiter ==
  /\ failures' = [i \in Ips |-> KeptFailures(failures[i], until[i])]
  /\ until' = [i \in Ips |-> KeptUntil(failures[i], until[i])]
  /\ UNCHANGED <<clock, scene, pc, dedup, buckets, log>>

-----------------------------------------------------------------------------
(* Deduplication *)

Ttl(k)       == IF k \in Ids THEN EventTtl ELSE ContentWindow
Fresh(k)     == k \in cached /\ clock - when[k] < Ttl(k)
Keep         == MaxCache \div 2

Duplicate(r) ==
  /\ pc[r] = "dedup" /\ Fresh(Key[r])
  /\ Go(r, "duplicate")
  /\ UNCHANGED <<clock, scene, limiter, dedup, buckets, log>>

\* cleanup_event_id_cache: the oldest entries go.
Evict(gone, kept) == \A x \in gone, y \in kept : when'[x] <= when'[y]

\* The entry is made before the event is handled.
check_and_record(r) ==
  /\ pc[r] = "dedup" /\ ~Fresh(Key[r])
  /\ when' = [when EXCEPT ![Key[r]] = clock]
  /\ LET full == cached \cup {Key[r]}
         ids  == full \cap Ids
     IN  IF Key[r] \in Ids /\ Cardinality(ids) > MaxCache
         THEN \E gone \in SUBSET ids :
                /\ Cardinality(ids \ gone) = Keep
                /\ Evict(gone, ids \ gone)
                /\ cached' = full \ gone
         ELSE cached' = full
  /\ Note(r, "seen") /\ Go(r, "global")
  /\ UNCHANGED <<clock, scene, limiter, buckets>>

(* Mutant: every entry of the content window goes with the ids. *)
CleanDedup_window ==
  /\ \E part \in {Ids, Keys \ Ids} :
       cached' = {k \in cached : k \notin part \/ clock - when[k] < ContentWindow}
  /\ UNCHANGED <<clock, scene, pc, limiter, when, buckets, log>>

\* One cache after the other.
CleanDedup ==
  /\ \E part \in {Ids, Keys \ Ids} :
       cached' = {k \in cached : k \notin part \/ clock - when[k] < Ttl(k)}
  /\ UNCHANGED <<clock, scene, pc, limiter, when, buckets, log>>

-----------------------------------------------------------------------------
(* Token buckets *)

Full(b) == Capacity[b] * TokenCost

\* A bucket is made, full, when it is first needed.
Refilled(b) ==
  LET filled == tokens[b] + Rate[b] * (clock - last[b])
  IN  IF b \in live /\ filled < Full(b) THEN filled ELSE Full(b)

After(g) == CASE g = "global" -> "user" [] g = "user" -> "channel" [] g = "channel" -> "ip" [] g = "ip" -> "act"

\* try_consume of one bucket; what was taken from those before is gone.
check_limit(r, g) ==
  /\ pc[r] = g
  /\ LET b == BucketOf[r][g]
     IN  /\ live' = live \cup {b}
         /\ last' = [last EXCEPT ![b] = clock]
         /\ \/ /\ Refilled(b) >= TokenCost
               /\ tokens' = [tokens EXCEPT ![b] = Refilled(b) - TokenCost]
               /\ Note(r, g) /\ Go(r, After(g))
            \/ /\ Refilled(b) < TokenCost
               /\ tokens' = [tokens EXCEPT ![b] = Refilled(b)]
               /\ Go(r, "limited") /\ UNCHANGED log
  /\ UNCHANGED <<clock, scene, limiter, dedup>>

(* Mutant: buckets in use go too. *)
Stale_any(b) == TRUE

Stale(b) == clock - last[b] >= StaleAfter

\* One map after the other; the global bucket is in none.
CleanBuckets(g) ==
  /\ live' = live \ {b \in {BucketOf[r][g] : r \in Requests} \ {GlobalBucket} : Stale(b)}
  /\ UNCHANGED <<clock, scene, pc, limiter, dedup, tokens, last, log>>

-----------------------------------------------------------------------------
\* The task is run or the message sent.
Act(r) ==
  /\ pc[r] = "act"
  /\ Go(r, "done") \/ Go(r, "failed")
  /\ UNCHANGED <<clock, scene, limiter, dedup, buckets, log>>

Tick ==
  /\ clock < scene.end /\ clock' = clock + 1
  /\ UNCHANGED <<scene, pc, limiter, dedup, buckets, log>>

Handle(r) ==
  \/ Arrive(r) \/ Authenticate(r) \/ Exempted(r) \/ StillLocked(r) \/ record_failure(r)
  \/ Duplicate(r) \/ check_and_record(r) \/ Act(r)
  \/ \E g \in Gates : check_limit(r, g)

Next ==
  \/ \E r \in Requests : Handle(r)
  \/ CleanLimiter \/ CleanDedup \/ Tick
  \/ \E g \in Gates \ {"global"} : CleanBuckets(g)

Spec == Init /\ [][Next]_vars

-----------------------------------------------------------------------------
(* Properties *)

Wrong(i)    == {e \in log : e.what = "wrong" /\ Ip[e.who] = i}
Seen        == {e \in log : e.what = "seen"}
Taken(b, t) == {e \in log : e.what \in Gates /\ BucketOf[e.who][e.what] = b /\ t <= e.at}
Others(k, t) == {Key[e.who] : e \in {x \in Seen : t <= x.at}} \ {k}
Entry       == [who : Requests, what : {"wrong", "seen"} \cup Gates, at : Nat]
Answers     == {"paused", "locked", "refused", "wrong", "duplicate", "limited", "done", "failed"}

(* Every variable keeps its type. *)
TypeOK ==
  /\ scene \in Scenes
  /\ clock \in Nat \ {0}
  /\ pc \in [Requests -> {"new", "auth", "bad", "dedup", "act"} \cup Gates \cup Answers]
  /\ failures \in [Ips -> SUBSET Entry]
  /\ until \in [Ips -> Nat]
  /\ cached \subseteq Keys /\ when \in [Keys -> Nat]
  /\ live \subseteq Buckets
  /\ tokens \in [Buckets -> Nat] /\ last \in [Buckets -> Nat]
  /\ log \subseteq Entry

(* An address is told that its token is wrong fewer than MaxAttempts times *)
(* in any window, however many of its requests are at work at once and     *)
(* whatever the clean-up removes; after that it is not told at all.        *)
GuessesBounded ==
  \A i \in Ips \ Exempt :
    Cardinality({e \in Wrong(i) : clock - e.at < Window}) < MaxAttempts

(* An event comes through twice within its time to live only if it has an  *)
(* id, and at least half a cache of other events came through since.       *)
EventsOnce ==
  \A e, f \in Seen :
    LET k == Key[e.who]
    IN  e # f /\ Key[f.who] = k /\ e.at <= f.at /\ f.at - e.at < Ttl(k)
          => k \in Ids /\ Cardinality(Others(k, e.at)) >= Keep

(* What is taken from a bucket in any stretch of time is at most what it   *)
(* holds and what flows in, also across its removal and its return.        *)
RateBounded ==
  \A b \in Buckets : \A t \in 1..clock :
    TokenCost * Cardinality(Taken(b, t)) <= Full(b) + Rate[b] * (clock - t)

-----------------------------------------------------------------------------
(* The invariant behind them *)

\* Without a lock the recent failures are on record; a lock begins with
\* fewer than MaxAttempts in its window, and ends after all of them.
Sound(f, u, wrong) ==
  /\ IsFiniteSet(f) /\ Cardinality(f) < MaxAttempts
  /\ u = 0 => \A e \in wrong : e \in f \/ clock - e.at >= Window
  /\ u # 0 =>
       /\ f = {} /\ u <= clock + Lockout
       /\ \A e \in wrong : e.at + Lockout <= u
       /\ Cardinality({e \in wrong : e.at + Window + Lockout > u}) < MaxAttempts

LimiterInv == \A i \in Ips \ Exempt : Sound(failures[i], until[i], Wrong(i))

\* An admitted event is remembered until its time is over, or gave way to
\* others; what is remembered was admitted.
DedupInv ==
  /\ \A e \in Seen :
       LET k == Key[e.who]
       IN  \/ k \in cached /\ e.at <= when[k]
           \/ clock - e.at >= Ttl(k)
           \/ k \in Ids /\ Cardinality(Others(k, e.at)) >= Keep
  /\ \A k \in cached : \E e \in Seen : Key[e.who] = k /\ e.at = when[k]

\* What was taken since t, with what is left, was there or has flowed in.
BucketInv ==
  \A b \in Buckets :
    /\ last[b] <= clock /\ tokens[b] <= Full(b)
    /\ b \notin live => Taken(b, 1) = {} \/ clock - last[b] >= StaleAfter
    /\ \A t \in 1..last[b] :
         tokens[b] + TokenCost * Cardinality(Taken(b, t)) <= Full(b) + Rate[b] * (last[b] - t)
    /\ \A e \in Taken(b, 1) : e.at <= last[b]

WebhookInv ==
  /\ TypeOK
  /\ IsFiniteSet(log)
  /\ \A e \in log : e.at \in 1..clock
  /\ LimiterInv /\ DedupInv /\ EventsOnce /\ BucketInv
=============================================================================
