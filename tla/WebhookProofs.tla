---------------------------- MODULE WebhookProofs ----------------------------
(***************************************************************************)
(* Proofs about the intake of webhooks, for any number of requests at work *)
(* at once and any settings (with a lock at least as long as the window):  *)
(* WebhookInv is inductive, and the three bounds follow from it.           *)
(***************************************************************************)
EXTENDS Webhook, FiniteSetTheorems, TLAPS

-----------------------------------------------------------------------------
(* Frames: what a part of the invariant looks at *)

LEMMA LimiterNext ==
  ASSUME clock' = clock, \A i \in Ips \ Exempt : Sound(failures'[i], until'[i], Wrong(i)')
  PROVE  LimiterInv'
BY DEF LimiterInv, Sound

LEMMA LimiterFrame ==
  ASSUME LimiterInv, UNCHANGED <<clock, failures, until>>, \A i \in Ips : Wrong(i)' = Wrong(i)
  PROVE  LimiterInv'
<1>1. \A i \in Ips \ Exempt : Sound(failures'[i], until'[i], Wrong(i)')
  BY DEF LimiterInv
<1>2. QED  BY <1>1, LimiterNext

LEMMA DedupFrame ==
  ASSUME DedupInv, EventsOnce, UNCHANGED <<clock, cached, when>>, Seen' = Seen
  PROVE  DedupInv' /\ EventsOnce'
<1>1. \A k, t : Others(k, t)' = Others(k, t)
  BY DEF Others
<1>2. QED  BY <1>1 DEF DedupInv, EventsOnce

LEMMA BucketFrame ==
  ASSUME BucketInv, UNCHANGED <<clock, live, tokens, last>>, \A b \in Buckets : \A t \in Nat : Taken(b, t)' = Taken(b, t)
  PROVE  BucketInv'
<1>1. \A b \in Buckets : Taken(b, 1)' = Taken(b, 1)
  OBVIOUS
<1>2. \A b \in Buckets : \A t \in 1..last[b] : t \in Nat
  OBVIOUS
<1>3. \A b \in Buckets : Full(b)' = Full(b)
  BY DEF Full
<1>4. QED  BY <1>1, <1>2, <1>3 DEF BucketInv

(* A new entry of the history is of one kind, and of this moment. *)
LEMMA Logged ==
  ASSUME WebhookInv, NEW r \in Requests, NEW what \in {"wrong", "seen"} \cup Gates, Note(r, what), clock' = clock
  PROVE  /\ Now(r, what) \in Entry
         /\ log' \subseteq Entry /\ IsFiniteSet(log') /\ \A e \in log' : e.at \in 1..clock'
         /\ what # "wrong" => \A i \in Ips : Wrong(i)' = Wrong(i)
         /\ what # "seen" => Seen' = Seen
         /\ what \notin Gates => \A b \in Buckets : \A t \in Nat : Taken(b, t)' = Taken(b, t)
<1>1. Now(r, what) \in Entry /\ Now(r, what).what = what /\ Now(r, what).at = clock /\ clock \in 1..clock
  BY DEF WebhookInv, TypeOK, Now, Entry
<1>2. log' = log \cup {Now(r, what)}
  BY DEF Note
<1>3. IsFiniteSet(log')
  BY <1>2, FS_AddElement DEF WebhookInv
<1>4. log' \subseteq Entry /\ \A e \in log' : e.at \in 1..clock'
  BY <1>1, <1>2 DEF WebhookInv, TypeOK
<1>5. what # "wrong" => \A i \in Ips : Wrong(i)' = Wrong(i)
  BY <1>1, <1>2 DEF Wrong
<1>6. what # "seen" => Seen' = Seen
  BY <1>1, <1>2 DEF Seen
<1>7. what \notin Gates => \A b \in Buckets : \A t \in Nat : Taken(b, t)' = Taken(b, t)
  BY <1>1, <1>2 DEF Taken
<1>8. QED  BY <1>1, <1>3, <1>4, <1>5, <1>6, <1>7

-----------------------------------------------------------------------------
(* Steps that only move a request *)

LEMMA Quiet ==
  ASSUME WebhookInv, pc' \in [Requests -> {"new", "auth", "bad", "dedup", "act"} \cup Gates \cup Answers],
         UNCHANGED <<clock, scene, limiter, dedup, buckets, log>>
  PROVE  WebhookInv'
<1>1. UNCHANGED <<clock, scene, failures, until, cached, when, live, tokens, last, log>>
  BY DEF limiter, dedup, buckets
<1>2. TypeOK' /\ IsFiniteSet(log') /\ \A e \in log' : e.at \in 1..clock'
  BY <1>1 DEF WebhookInv, TypeOK
<1>3. LimiterInv'
  BY <1>1, LimiterFrame DEF WebhookInv, Wrong
<1>4. DedupInv' /\ EventsOnce'
  BY <1>1, DedupFrame DEF WebhookInv, Seen
<1>5. BucketInv'
  BY <1>1, BucketFrame DEF WebhookInv, Taken
<1>6. QED  BY <1>2, <1>3, <1>4, <1>5 DEF WebhookInv

LEMMA Moving ==
  ASSUME WebhookInv, NEW r \in Requests,
         Arrive(r) \/ Authenticate(r) \/ Exempted(r) \/ StillLocked(r) \/ Duplicate(r) \/ Act(r)
  PROVE  WebhookInv'
<1>1. UNCHANGED <<clock, scene, limiter, dedup, buckets, log>>
  BY DEF Arrive, Authenticate, Exempted, StillLocked, Duplicate, Act
<1>2. \E p \in {"auth", "bad", "dedup"} \cup Answers : pc' = [pc EXCEPT ![r] = p]
  BY DEF Arrive, Authenticate, Exempted, StillLocked, Duplicate, Act, Go, Answers
<1>3. pc' \in [Requests -> {"new", "auth", "bad", "dedup", "act"} \cup Gates \cup Answers]
  BY <1>2 DEF WebhookInv, TypeOK
<1>4. QED  BY <1>1, <1>3, Quiet

-----------------------------------------------------------------------------
(* The limiter of failed attempts *)

(* What is known of an address, in a state of the invariant. *)
LEMMA Lately ==
  ASSUME WebhookInv, NEW i \in Ips
  PROVE  /\ \A e \in Wrong(i) : e.at \in Nat /\ e.at <= clock
         /\ IsFiniteSet(Wrong(i))
         /\ clock \in Nat /\ clock > 0 /\ until[i] \in Nat /\ Window \in Nat /\ Lockout \in Nat /\ Window <= Lockout
         /\ MaxAttempts \in Nat /\ IsFiniteSet({}) /\ Cardinality({}) < MaxAttempts
<1>1. IsFiniteSet(Wrong(i)) /\ \A e \in Wrong(i) : e.at \in Nat /\ e.at <= clock
  <2>1. Wrong(i) \subseteq log
    BY DEF Wrong
  <2>2. QED  BY <2>1, FS_Subset DEF WebhookInv, TypeOK, Entry
<1>2. QED  BY <1>1, FS_EmptySet, WebhookAssumption DEF WebhookInv, TypeOK

(* The clean-up of a record loses nothing that counts. *)
LEMMA Keeping ==
  ASSUME NEW f, NEW u \in Nat, NEW wrong, Sound(f, u, wrong), \A e \in wrong : e.at \in Nat,
         clock \in Nat
  PROVE  Sound(KeptFailures(f, u), KeptUntil(f, u), wrong) /\ KeptFailures(f, u) \subseteq f /\ KeptUntil(f, u) \in {0, u}
<1>1. Window \in Nat /\ Lockout \in Nat /\ Window <= Lockout /\ MaxAttempts \in Nat
  BY WebhookAssumption
<1>2. IsFiniteSet(f) /\ Cardinality(f) < MaxAttempts
  BY DEF Sound
<1>3. Recent(f) \subseteq f /\ IsFiniteSet(Recent(f)) /\ Cardinality(Recent(f)) < MaxAttempts
  <2>1. Recent(f) \subseteq f
    BY DEF Recent
  <2>2. QED  BY <1>1, <1>2, <2>1, FS_Subset, FS_CardinalityType
<1>4. CASE clock < u
  BY <1>4 DEF KeptFailures, KeptUntil
<1>5. CASE ~(clock < u) /\ u = 0
  <2>1. \A e \in wrong : e \in f \/ clock - e.at >= Window
    BY <1>5 DEF Sound
  <2>2. \A e \in wrong : e \in Recent(f) \/ clock - e.at >= Window
    BY <1>1, <2>1 DEF Recent
  <2>3. KeptFailures(f, u) = Recent(f) /\ KeptUntil(f, u) = 0
    BY <1>5 DEF KeptFailures, KeptUntil
  <2>4. QED  BY <1>3, <1>5, <2>2, <2>3 DEF Sound
<1>6. CASE ~(clock < u) /\ u # 0
  <2>1. f = {} /\ \A e \in wrong : e.at + Lockout <= u
    BY <1>6 DEF Sound
  <2>2. Recent(f) = {}
    BY <2>1 DEF Recent
  <2>3. KeptFailures(f, u) = {} /\ KeptUntil(f, u) = 0
    BY <1>6, <2>2 DEF KeptFailures, KeptUntil
  <2>4. \A e \in wrong : clock - e.at >= Window
    BY <1>1, <1>6, <2>1
  <2>5. QED  BY <1>2, <2>1, <2>3, <2>4 DEF Sound
<1>7. QED  BY <1>4, <1>5, <1>6

(* A record may be put back whenever it is sound by itself. *)
LEMMA Storing ==
  ASSUME WebhookInv, NEW i \in Ips \ Exempt, NEW f \in SUBSET Entry, NEW u \in Nat,
         Store(i, f, u), clock' = clock, Sound(f, u, Wrong(i)'),
         \A e \in Wrong(i)' : e.at \in Nat,
         \A j \in Ips : j # i => Wrong(j)' = Wrong(j)
  PROVE  LimiterInv' /\ failures' \in [Ips -> SUBSET Entry] /\ until' \in [Ips -> Nat]
<1> DEFINE fs   == [failures EXCEPT ![i] = f]
           us   == [until EXCEPT ![i] = u]
           full == Cardinality({j \in Ips : fs[j] # {} \/ us[j] # 0}) > MaxRecords
<1>1. /\ failures' = [j \in Ips |-> IF full THEN KeptFailures(fs[j], us[j]) ELSE fs[j]]
      /\ until' = [j \in Ips |-> IF full THEN KeptUntil(fs[j], us[j]) ELSE us[j]]
  BY DEF Store
<1>2. /\ fs \in [Ips -> SUBSET Entry] /\ us \in [Ips -> Nat] /\ clock \in Nat
      /\ fs[i] = f /\ us[i] = u /\ \A j \in Ips : j # i => fs[j] = failures[j] /\ us[j] = until[j]
  BY DEF WebhookInv, TypeOK
<1> HIDE DEF fs, us, full
<1>3. ASSUME NEW j \in Ips \ Exempt
      PROVE  Sound(fs[j], us[j], Wrong(j)') /\ \A e \in Wrong(j)' : e.at \in Nat
  <2>1. CASE j = i
    BY <1>2, <2>1
  <2>2. CASE j # i
    BY <1>2, <2>2, Lately DEF WebhookInv, LimiterInv
  <2>3. QED  BY <2>1, <2>2
<1>4. ASSUME NEW j \in Ips \ Exempt
      PROVE  Sound(failures'[j], until'[j], Wrong(j)')
  <2>1. us[j] \in Nat
    BY <1>2
  <2>2. Sound(KeptFailures(fs[j], us[j]), KeptUntil(fs[j], us[j]), Wrong(j)')
    BY <1>2, <1>3, <2>1, Keeping
  <2>3. QED  BY <1>1, <1>3, <2>2
<1>5. LimiterInv'
  BY <1>4, LimiterNext
<1>6. ASSUME NEW j \in Ips
      PROVE  failures'[j] \in SUBSET Entry /\ until'[j] \in Nat
  <2>1. /\ KeptFailures(fs[j], us[j]) \subseteq fs[j]
        /\ KeptUntil(fs[j], us[j]) \in {0, us[j]}
    BY DEF KeptFailures, KeptUntil, Recent
  <2>2. QED  BY <1>1, <1>2, <2>1
<1>7. QED  BY <1>1, <1>5, <1>6

LEMMA Failing ==
  ASSUME WebhookInv, NEW r \in Requests, record_failure(r)
  PROVE  WebhookInv'
<1> DEFINE i   == Ip[r]
           old == IF until[i] # 0 THEN {} ELSE Recent(failures[i])
           now == old \cup {Now(r, "wrong")}
<1>1. /\ i \in Ips \ Exempt /\ clock >= until[i]
      /\ UNCHANGED <<clock, scene, cached, when, live, tokens, last>>
  BY WebhookAssumption DEF record_failure, Locked, dedup, buckets, WebhookInv, TypeOK
<1>2. /\ \A e \in Wrong(i) : e.at \in Nat /\ e.at <= clock
      /\ clock \in Nat /\ clock > 0 /\ until[i] \in Nat /\ Window \in Nat /\ Lockout \in Nat /\ Window <= Lockout
      /\ MaxAttempts \in Nat /\ IsFiniteSet({}) /\ Cardinality({}) < MaxAttempts
  BY <1>1, Lately
<1>3. Sound(failures[i], until[i], Wrong(i))
  BY <1>1 DEF WebhookInv, LimiterInv
<1>4. old \subseteq failures[i] /\ IsFiniteSet(failures[i]) /\ IsFiniteSet(old) /\ IsFiniteSet(now)
  <2>1. old \subseteq failures[i] /\ IsFiniteSet(failures[i])
    BY <1>3 DEF Recent, Sound
  <2>2. QED  BY <2>1, FS_Subset, FS_AddElement
<1>5. \A e \in Wrong(i) : clock - e.at < Window => e \in old
  <2>1. CASE until[i] = 0
    <3>1. \A e \in Wrong(i) : e \in failures[i] \/ clock - e.at >= Window
      BY <1>3, <2>1 DEF Sound
    <3>2. old = {e \in failures[i] : clock - e.at < Window}
      BY <2>1 DEF Recent
    <3>3. QED  BY <1>2, <3>1, <3>2
  <2>2. CASE until[i] # 0
    <3>1. \A e \in Wrong(i) : e.at + Lockout <= until[i]
      BY <1>3, <2>2 DEF Sound
    <3>2. QED  BY <1>1, <1>2, <3>1
  <2>3. QED  BY <2>1, <2>2
<1>6. CASE Cardinality(now) >= MaxAttempts
  <2>1. Store(i, {}, clock + Lockout) /\ pc' = [pc EXCEPT ![r] = "locked"] /\ log' = log
    BY <1>6 DEF record_failure, Go
  <2>2. \A j \in Ips : Wrong(j)' = Wrong(j)
    BY <2>1 DEF Wrong
  <2>3. Sound({}, clock + Lockout, Wrong(i))
    <3> DEFINE lately == {e \in Wrong(i) : e.at + Window + Lockout > clock + Lockout}
    <3>1. lately \subseteq failures[i]
      BY <1>2, <1>4, <1>5
    <3>2. Cardinality(failures[i]) < MaxAttempts /\ Cardinality(failures[i]) \in Nat
      BY <1>3, <1>4, FS_CardinalityType DEF Sound
    <3>3. Cardinality(lately) < MaxAttempts
      <4> HIDE DEF lately
      <4>1. QED  BY <1>2, <1>4, <3>1, <3>2, FS_Subset, FS_CardinalityType
    <3>4. clock + Lockout # 0 /\ \A e \in Wrong(i) : e.at + Lockout <= clock + Lockout
      BY <1>2
    <3>5. QED  BY <1>2, <3>3, <3>4 DEF Sound
  <2>4. LimiterInv' /\ failures' \in [Ips -> SUBSET Entry] /\ until' \in [Ips -> Nat]
    <3>1. clock + Lockout \in Nat /\ {} \in SUBSET Entry
      BY <1>2
    <3>2. QED  BY <1>1, <1>2, <2>1, <2>2, <2>3, <3>1, Storing
  <2>5. TypeOK'
    BY <1>1, <2>1, <2>4 DEF WebhookInv, TypeOK, Answers
  <2>6. DedupInv' /\ EventsOnce'
    BY <1>1, <2>1, DedupFrame DEF WebhookInv, Seen
  <2>7. BucketInv'
    BY <1>1, <2>1, BucketFrame DEF WebhookInv, Taken
  <2>8. QED  BY <1>1, <2>1, <2>4, <2>5, <2>6, <2>7 DEF WebhookInv
<1>7. CASE ~(Cardinality(now) >= MaxAttempts)
  <2>1. Store(i, now, 0) /\ pc' = [pc EXCEPT ![r] = "wrong"] /\ Note(r, "wrong")
    BY <1>7 DEF record_failure, Go
  <2>2. /\ Now(r, "wrong") \in Entry
        /\ log' \subseteq Entry /\ IsFiniteSet(log') /\ \A e \in log' : e.at \in 1..clock'
        /\ Seen' = Seen
        /\ \A b \in Buckets : \A t \in Nat : Taken(b, t)' = Taken(b, t)
    BY <1>1, <2>1, Logged DEF Gates
  <2>3. \A j \in Ips : j # i => Wrong(j)' = Wrong(j)
    BY <2>1 DEF Note, Now, Wrong
  <2>4. Wrong(i)' \subseteq Wrong(i) \cup {Now(r, "wrong")}
    BY <2>1 DEF Note, Now, Wrong
  <2>5. Sound(now, 0, Wrong(i)') /\ \A e \in Wrong(i)' : e.at \in Nat
    <3>1. Cardinality(now) < MaxAttempts
      BY <1>2, <1>4, <1>7, FS_CardinalityType
    <3>2. Now(r, "wrong").at \in Nat
      BY <2>2 DEF Entry
    <3>3. \A e \in Wrong(i)' : e.at \in Nat /\ (e \in now \/ clock - e.at >= Window)
      BY <1>2, <1>5, <2>4, <3>2
    <3> HIDE DEF now
    <3>4. QED  BY <1>4, <3>1, <3>3 DEF Sound
  <2>6. LimiterInv' /\ failures' \in [Ips -> SUBSET Entry] /\ until' \in [Ips -> Nat]
    <3>1. now \in SUBSET Entry
      BY <1>1, <1>4, <2>2 DEF WebhookInv, TypeOK
    <3> HIDE DEF now
    <3>2. QED  BY <1>1, <2>1, <2>3, <2>5, <3>1, Storing
  <2>7. TypeOK'
    BY <1>1, <2>1, <2>2, <2>6 DEF WebhookInv, TypeOK, Answers
  <2>8. DedupInv' /\ EventsOnce'
    BY <1>1, <2>2, DedupFrame DEF WebhookInv
  <2>9. BucketInv'
    BY <1>1, <2>2, BucketFrame DEF WebhookInv
  <2>10. QED  BY <2>2, <2>6, <2>7, <2>8, <2>9 DEF WebhookInv
<1>8. QED  BY <1>6, <1>7

LEMMA LimiterCleaning ==
  ASSUME WebhookInv, CleanLimiter
  PROVE  WebhookInv'
<1>1. /\ UNCHANGED <<clock, scene, pc, cached, when, live, tokens, last, log>>
      /\ failures' = [i \in Ips |-> KeptFailures(failures[i], until[i])]
      /\ until' = [i \in Ips |-> KeptUntil(failures[i], until[i])]
  BY DEF CleanLimiter, dedup, buckets
<1>2. TypeOK'
  <2>1. \A i \in Ips : KeptFailures(failures[i], until[i]) \subseteq failures[i] /\ KeptUntil(failures[i], until[i]) \in {0, until[i]}
    BY DEF KeptFailures, KeptUntil, Recent
  <2>2. failures' \in [Ips -> SUBSET Entry] /\ until' \in [Ips -> Nat]
    BY <1>1, <2>1 DEF WebhookInv, TypeOK
  <2>3. QED  BY <1>1, <2>2 DEF WebhookInv, TypeOK
<1>3. LimiterInv'
  <2>1. ASSUME NEW i \in Ips \ Exempt
        PROVE  Sound(failures'[i], until'[i], Wrong(i)')
    <3>1. Wrong(i)' = Wrong(i)
      BY <1>1 DEF Wrong
    <3>2. Sound(failures[i], until[i], Wrong(i)) /\ until[i] \in Nat /\ clock \in Nat /\ \A e \in Wrong(i) : e.at \in Nat
      BY Lately DEF WebhookInv, LimiterInv
    <3>3. Sound(KeptFailures(failures[i], until[i]), KeptUntil(failures[i], until[i]), Wrong(i))
      BY <3>2, Keeping
    <3>4. QED  BY <1>1, <3>1, <3>3
  <2>2. QED  BY <1>1, <2>1, LimiterNext
<1>4. DedupInv' /\ EventsOnce'
  BY <1>1, DedupFrame DEF WebhookInv, Seen
<1>5. BucketInv'
  BY <1>1, BucketFrame DEF WebhookInv, Taken
<1>6. QED  BY <1>1, <1>2, <1>3, <1>4, <1>5 DEF WebhookInv

-----------------------------------------------------------------------------
(* The filter of repeated events *)

LEMMA Admitting ==
  ASSUME WebhookInv, NEW r \in Requests, check_and_record(r)
  PROVE  WebhookInv'
<1> DEFINE k0   == Key[r]
           n    == Now(r, "seen")
           full == cached \cup {k0}
           ids  == full \cap Ids
<1>1. /\ ~Fresh(k0) /\ when' = [when EXCEPT ![k0] = clock]
      /\ Note(r, "seen") /\ pc' = [pc EXCEPT ![r] = "global"]
      /\ UNCHANGED <<clock, scene, failures, until, live, tokens, last>>
  BY DEF check_and_record, Go, limiter, buckets
<1>2. /\ n \in Entry
      /\ log' \subseteq Entry /\ IsFiniteSet(log') /\ \A e \in log' : e.at \in 1..clock'
      /\ \A i \in Ips : Wrong(i)' = Wrong(i)
      /\ \A b \in Buckets : \A t \in Nat : Taken(b, t)' = Taken(b, t)
  BY <1>1, Logged DEF Gates
<1>3. \/ cached' = full
      \/ \E gone \in SUBSET ids :
           Cardinality(ids \ gone) = Keep /\ Evict(gone, ids \ gone) /\ cached' = full \ gone
  BY DEF check_and_record
<1>4. /\ k0 \in Keys /\ IsFiniteSet(Keys) /\ clock \in Nat /\ when \in [Keys -> Nat]
      /\ cached \subseteq Keys /\ full \subseteq Keys /\ cached' \subseteq full
      /\ EventTtl \in Nat /\ ContentWindow \in Nat
  BY <1>3, WebhookAssumption DEF WebhookInv, TypeOK
<1>5. /\ Seen' = Seen \cup {n}
      /\ n.who = r /\ n.at = clock
      /\ \A e \in Seen : Key[e.who] \in Keys /\ e.at \in Nat /\ e.at <= clock
  <2>1. n.who = r /\ n.at = clock /\ n.what = "seen"
    BY DEF Now
  <2>2. Seen' = Seen \cup {n}
    BY <1>1, <2>1 DEF Note, Seen
  <2>3. QED  BY <2>1, <2>2, WebhookAssumption DEF WebhookInv, TypeOK, Entry, Seen
<1>6. \A k, t : /\ IsFiniteSet(Others(k, t)) /\ IsFiniteSet(Others(k, t)')
                /\ Others(k, t) \subseteq Others(k, t)'
                /\ Cardinality(Others(k, t)) >= Keep => Cardinality(Others(k, t)') >= Keep
  <2>1. TAKE k, t
  <2>2. Others(k, t) \subseteq Others(k, t)'
    BY <1>5 DEF Others
  <2>3. Others(k, t)' \subseteq Keys
    BY <1>4, <1>5 DEF Others
  <2>4. IsFiniteSet(Others(k, t)) /\ IsFiniteSet(Others(k, t)')
    BY <1>4, <2>2, <2>3, FS_Subset
  <2>5. Cardinality(Others(k, t)) <= Cardinality(Others(k, t)')
    BY <2>2, <2>4, FS_Subset
  <2>6. Keep \in Int
    BY WebhookAssumption DEF Keep
  <2>7. QED  BY <2>2, <2>4, <2>5, <2>6, FS_CardinalityType
<1>7. when'[k0] = clock /\ when' \in [Keys -> Nat] /\ \A k \in Keys : k # k0 => when'[k] = when[k]
  BY <1>1, <1>4
<1>8. \A k \in Keys : Ttl(k) \in Nat /\ Ttl(k)' = Ttl(k)
  BY <1>4 DEF Ttl
<1>9. \A e \in Seen :
        LET k == Key[e.who]
        IN  \/ k \in cached /\ e.at <= when[k]
            \/ clock - e.at >= Ttl(k)
            \/ k \in Ids /\ Cardinality(Others(k, e.at)) >= Keep
  BY DEF WebhookInv, DedupInv
(* What DedupInv says, before anything is evicted. *)
<1>10. \A e \in Seen' :
        LET k == Key[e.who]
        IN  \/ k \in full /\ e.at <= when'[k]
            \/ clock - e.at >= Ttl(k)
            \/ k \in Ids /\ Cardinality(Others(k, e.at)') >= Keep
  <2>1. TAKE e \in Seen'
  <2>2. CASE Key[e.who] = k0
    BY <1>4, <1>5, <1>7, <2>2
  <2>3. CASE e \in Seen /\ Key[e.who] # k0
    BY <1>5, <1>6, <1>7, <1>9, <2>3
  <2>4. QED  BY <1>5, <2>2, <2>3
<1>11. \A k \in full : \E e \in Seen' : Key[e.who] = k /\ e.at = when'[k]
  <2>1. TAKE k \in full
  <2>2. CASE k = k0
    BY <1>5, <1>7, <2>2
  <2>3. CASE k # k0
    <3>1. k \in cached /\ when'[k] = when[k]
      BY <1>4, <1>7, <2>3
    <3>2. \E e \in Seen : Key[e.who] = k /\ e.at = when[k]
      BY <3>1 DEF WebhookInv, DedupInv
    <3>3. QED  BY <1>5, <3>1, <3>2
  <2>4. QED  BY <2>2, <2>3
<1>12. EventsOnce'
  (* A key that is not fresh was admitted too long ago, or gave way. *)
  <2>1. \A e \in Seen : Key[e.who] = k0 =>
          clock - e.at >= Ttl(k0) \/ (k0 \in Ids /\ Cardinality(Others(k0, e.at)) >= Keep)
    BY <1>1, <1>4, <1>5, <1>8, <1>9 DEF Fresh
  <2>2. SUFFICES ASSUME NEW e \in Seen', NEW f \in Seen', e # f, Key[f.who] = Key[e.who],
                        e.at <= f.at, f.at - e.at < Ttl(Key[e.who])
                 PROVE  Key[e.who] \in Ids /\ Cardinality(Others(Key[e.who], e.at)') >= Keep
    BY <1>8 DEF EventsOnce, Ttl
  <2>3. CASE e \in Seen /\ f \in Seen
    <3>1. Key[e.who] \in Ids /\ Cardinality(Others(Key[e.who], e.at)) >= Keep
      BY <2>2, <2>3 DEF WebhookInv, EventsOnce
    <3>2. QED  BY <1>6, <3>1
  <2>4. CASE e \in Seen /\ f = n
    <3>1. Key[e.who] = k0 /\ ~(clock - e.at >= Ttl(k0))
      BY <1>4, <1>5, <1>8, <2>2, <2>4
    <3>2. QED  BY <1>6, <2>1, <2>4, <3>1
  <2>5. CASE e = n /\ f \in Seen
    <3>1. Key[f.who] = k0 /\ Key[e.who] = k0 /\ f.at = clock /\ e.at = clock /\ ~(clock - f.at >= Ttl(k0))
      BY <1>4, <1>5, <1>8, <2>2, <2>5
    <3>2. QED  BY <1>6, <2>1, <2>5, <3>1
  <2>6. QED  BY <1>5, <2>2, <2>3, <2>4, <2>5
<1>13. DedupInv'
  <2>1. \A k \in cached' : \E e \in Seen' : Key[e.who] = k /\ e.at = when'[k]
    BY <1>4, <1>11
  <2>2. \A e \in Seen' :
          LET k == Key[e.who]
          IN  \/ k \in cached' /\ e.at <= when'[k]
              \/ clock - e.at >= Ttl(k)
              \/ k \in Ids /\ Cardinality(Others(k, e.at)') >= Keep
    <3>1. CASE cached' = full
      BY <1>10, <3>1
    <3>2. ASSUME NEW gone \in SUBSET ids, Cardinality(ids \ gone) = Keep,
                 Evict(gone, ids \ gone), cached' = full \ gone,
                 NEW e \in Seen', Key[e.who] \in gone, e.at <= when'[Key[e.who]]
          PROVE  Key[e.who] \in Ids /\ Cardinality(Others(Key[e.who], e.at)') >= Keep
      <4>1. Key[e.who] \in Ids /\ Key[e.who] \in Keys /\ e.at \in Nat
        BY <1>2, <1>4, <1>5, <3>2
      <4>2. ASSUME NEW y \in ids \ gone
            PROVE  y \in Others(Key[e.who], e.at)'
        <5>1. y \in full /\ y # Key[e.who] /\ when'[Key[e.who]] <= when'[y]
          BY <3>2 DEF Evict
        <5>2. PICK f \in Seen' : Key[f.who] = y /\ f.at = when'[y]
          BY <1>11, <5>1
        <5>3. e.at <= f.at
          BY <1>4, <1>7, <3>2, <4>1, <5>1, <5>2
        <5>4. QED  BY <5>1, <5>2, <5>3 DEF Others
      <4>3. Cardinality(ids \ gone) <= Cardinality(Others(Key[e.who], e.at)')
        BY <1>6, <4>2, FS_Subset
      <4>4. QED  BY <3>2, <4>1, <4>3
    <3>3. QED  BY <1>3, <1>10, <3>1, <3>2
  <2>3. QED  BY <1>1, <1>8, <2>1, <2>2 DEF DedupInv, Ttl
<1>14. TypeOK'
  BY <1>1, <1>2, <1>4, <1>7 DEF WebhookInv, TypeOK, Gates
<1>15. LimiterInv'
  BY <1>1, <1>2, LimiterFrame DEF WebhookInv
<1>16. BucketInv'
  BY <1>1, <1>2, BucketFrame DEF WebhookInv
<1>17. QED  BY <1>2, <1>12, <1>13, <1>14, <1>15, <1>16 DEF WebhookInv

LEMMA DedupCleaning ==
  ASSUME WebhookInv, CleanDedup
  PROVE  WebhookInv'
<1>1. /\ UNCHANGED <<clock, scene, pc, failures, until, when, live, tokens, last, log>>
      /\ cached' \subseteq cached /\ \A k \in cached : k \in cached' \/ clock - when[k] >= Ttl(k)
  <2>1. UNCHANGED <<clock, scene, pc, failures, until, when, live, tokens, last, log>>
    BY DEF CleanDedup, limiter, buckets
  <2>2. \A k \in cached : clock \in Nat /\ when[k] \in Nat /\ Ttl(k) \in Nat
    BY WebhookAssumption DEF WebhookInv, TypeOK, Ttl
  <2>3. PICK part \in {Ids, Keys \ Ids} :
          cached' = {k \in cached : k \notin part \/ clock - when[k] < Ttl(k)}
    BY DEF CleanDedup
  <2>4. QED  BY <2>1, <2>2, <2>3
<1>2. TypeOK'
  BY <1>1 DEF WebhookInv, TypeOK
<1>3. LimiterInv'
  BY <1>1, LimiterFrame DEF WebhookInv, Wrong
<1>4. Seen' = Seen /\ \A k, t : Others(k, t)' = Others(k, t)
  BY <1>1 DEF Seen, Others
<1>5. \A e \in Seen : Key[e.who] \in Keys /\ e.at \in Nat
  BY WebhookAssumption DEF WebhookInv, TypeOK, Seen, Entry
<1>6. clock \in Nat /\ when \in [Keys -> Nat] /\ \A k \in Keys : Ttl(k) \in Nat
  BY WebhookAssumption DEF WebhookInv, TypeOK, Ttl
<1>7. \A e \in Seen :
        LET k == Key[e.who]
        IN  \/ k \in cached' /\ e.at <= when[k]
            \/ clock - e.at >= Ttl(k)
            \/ k \in Ids /\ Cardinality(Others(k, e.at)) >= Keep
  <2>1. TAKE e \in Seen
  <2>2. LET k == Key[e.who]
        IN  \/ k \in cached /\ e.at <= when[k]
            \/ clock - e.at >= Ttl(k)
            \/ k \in Ids /\ Cardinality(Others(k, e.at)) >= Keep
    BY DEF WebhookInv, DedupInv
  <2>3. QED  BY <1>1, <1>5, <1>6, <2>2
<1>8. DedupInv'
  BY <1>1, <1>4, <1>7 DEF WebhookInv, DedupInv, Ttl
<1>9. EventsOnce'
  BY <1>1, <1>4 DEF WebhookInv, EventsOnce
<1>10. BucketInv'
  BY <1>1, BucketFrame DEF WebhookInv, Taken
<1>11. QED  BY <1>1, <1>2, <1>3, <1>8, <1>9, <1>10 DEF WebhookInv

-----------------------------------------------------------------------------
(* The token buckets *)

LEMMA Distribute ==
  ASSUME NEW m \in Int, NEW x \in Int, NEW y \in Int
  PROVE  m * (x + y) = m * x + m * y /\ m * x \in Int /\ m * y \in Int
OBVIOUS

LEMMA Multiply ==
  ASSUME NEW m \in Nat, NEW x \in Nat
  PROVE  m * x \in Nat
OBVIOUS

LEMMA Grows ==
  ASSUME NEW m \in Nat, NEW x \in Int, NEW y \in Int, x <= y
  PROVE  m * x <= m * y /\ m * x \in Int /\ m * y \in Int
<1>1. m * y = m * x + m * (y - x) /\ m * x \in Int /\ m * (y - x) \in Int
  BY Distribute, y = x + (y - x), y - x \in Int
<1>2. m * (y - x) >= 0
  BY y - x \in Nat
<1>3. QED  BY <1>1, <1>2

(* The numbers of a bucket, in a state of the invariant. *)
LEMMA Holding ==
  ASSUME WebhookInv, NEW b \in Buckets
  PROVE  /\ Full(b) \in Nat /\ Rate[b] \in Nat /\ TokenCost \in Nat /\ StaleAfter \in Nat
         /\ Full(b) <= Rate[b] * StaleAfter
         /\ tokens[b] \in Nat /\ tokens[b] <= Full(b)
         /\ clock \in Nat /\ last[b] \in Nat /\ last[b] <= clock
         /\ \A t \in Nat : IsFiniteSet(Taken(b, t)) /\ Cardinality(Taken(b, t)) \in Nat
         /\ \A t \in 1..clock : last[b] < t => Taken(b, t) = {}
         /\ Taken(b, 1) = {} => \A t \in 1..clock : Taken(b, t) = {}
<1>1. /\ Full(b) \in Nat /\ Rate[b] \in Nat /\ TokenCost \in Nat /\ StaleAfter \in Nat
      /\ Full(b) <= Rate[b] * StaleAfter
  BY WebhookAssumption DEF Full
<1>2. tokens[b] \in Nat /\ tokens[b] <= Full(b) /\ clock \in Nat /\ last[b] \in Nat /\ last[b] <= clock
  BY DEF WebhookInv, TypeOK, BucketInv
<1>3. ASSUME NEW t \in Nat  PROVE IsFiniteSet(Taken(b, t)) /\ Cardinality(Taken(b, t)) \in Nat
  <2>1. Taken(b, t) \subseteq log
    BY DEF Taken
  <2>2. QED  BY <2>1, FS_Subset, FS_CardinalityType DEF WebhookInv
<1>4. ASSUME NEW t \in 1..clock
      PROVE  Taken(b, t) \subseteq Taken(b, 1) /\ \A e \in Taken(b, t) : t <= e.at
  BY <1>2 DEF Taken, WebhookInv, TypeOK, Entry
<1>5. ASSUME NEW t \in 1..clock, last[b] < t  PROVE Taken(b, t) = {}
  <2>1. \A e \in Taken(b, 1) : e.at <= last[b] /\ e.at \in Nat
    BY DEF WebhookInv, BucketInv, TypeOK, Taken, Entry
  <2>2. QED  BY <1>2, <1>4, <1>5, <2>1
<1>6. QED  BY <1>1, <1>2, <1>3, <1>4, <1>5

(* The bound still holds after a bucket was refilled, or made anew. *)
LEMMA Refilling ==
  ASSUME WebhookInv, NEW b \in Buckets
  PROVE  /\ Refilled(b) \in Nat /\ Refilled(b) <= Full(b)
         /\ \A t \in 1..clock :
              Refilled(b) + TokenCost * Cardinality(Taken(b, t)) <= Full(b) + Rate[b] * (clock - t)
<1> DEFINE filled == tokens[b] + Rate[b] * (clock - last[b])
<1>1. /\ Full(b) \in Nat /\ Rate[b] \in Nat /\ TokenCost \in Nat /\ StaleAfter \in Nat
      /\ Full(b) <= Rate[b] * StaleAfter
      /\ tokens[b] \in Nat /\ tokens[b] <= Full(b)
      /\ clock \in Nat /\ last[b] \in Nat /\ last[b] <= clock
      /\ \A t \in Nat : IsFiniteSet(Taken(b, t)) /\ Cardinality(Taken(b, t)) \in Nat
      /\ \A t \in 1..clock : last[b] < t => Taken(b, t) = {}
      /\ Taken(b, 1) = {} => \A t \in 1..clock : Taken(b, t) = {}
  BY Holding
<1>2. Rate[b] * (clock - last[b]) \in Nat /\ filled \in Nat
  <2>1. clock - last[b] \in Nat
    BY <1>1
  <2>2. Rate[b] * (clock - last[b]) \in Nat
    BY ONLY <1>1, <2>1, Multiply
  <2>3. QED  BY <1>1, <2>2
<1>3. Refilled(b) = (IF b \in live /\ filled < Full(b) THEN filled ELSE Full(b))
  BY DEF Refilled
<1>4. Refilled(b) \in Nat /\ Refilled(b) <= Full(b)
  BY <1>1, <1>2, <1>3
<1>5. ASSUME NEW t \in 1..clock
      PROVE  Refilled(b) + TokenCost * Cardinality(Taken(b, t)) <= Full(b) + Rate[b] * (clock - t)
  <2>1. TokenCost * Cardinality(Taken(b, t)) \in Nat /\ Rate[b] * (clock - t) \in Nat
    <3>1. Cardinality(Taken(b, t)) \in Nat /\ clock - t \in Nat
      BY <1>1
    <3>2. QED  BY ONLY <1>1, <3>1, Multiply
  <2>2. CASE Taken(b, t) = {}
    <3>1. Cardinality(Taken(b, t)) = 0
      BY <2>2, FS_EmptySet
    <3>2. TokenCost * Cardinality(Taken(b, t)) = 0
      BY <1>1, <3>1
    <3>3. QED  BY <1>1, <1>4, <2>1, <3>2
  (* What was there at the last refill, and what has flowed in since. *)
  <2>3. CASE Taken(b, t) # {}
    <3>1. t \in 1..last[b]
      BY <1>1, <2>3
    <3>2. tokens[b] + TokenCost * Cardinality(Taken(b, t)) <= Full(b) + Rate[b] * (last[b] - t)
      BY <3>1 DEF WebhookInv, BucketInv
    <3>3. Rate[b] * (clock - t) = Rate[b] * (last[b] - t) + Rate[b] * (clock - last[b]) /\ Rate[b] * (last[b] - t) \in Int
      <4>1. clock - t = (last[b] - t) + (clock - last[b]) /\ last[b] - t \in Int /\ clock - last[b] \in Int /\ Rate[b] \in Int
        BY <1>1
      <4>2. QED  BY <4>1, Distribute
    <3>4. Refilled(b) <= filled
      <4>1. CASE b \in live
        BY <1>1, <1>2, <1>3, <4>1
      <4>2. CASE b \notin live
        <5>1. clock - last[b] >= StaleAfter
          BY <1>1, <2>3, <4>2 DEF WebhookInv, BucketInv
        <5>2. Rate[b] * StaleAfter <= Rate[b] * (clock - last[b]) /\ Rate[b] * StaleAfter \in Int
          BY <1>1, <5>1, Grows
        <5>3. QED  BY <1>1, <1>2, <1>3, <4>2, <5>2
      <4>3. QED  BY <4>1, <4>2
    <3>5. QED
      <4> DEFINE taken == TokenCost * Cardinality(Taken(b, t))
                 in    == Rate[b] * (clock - last[b])
                 old   == Rate[b] * (last[b] - t)
      <4>1. tokens[b] + taken <= Full(b) + old /\ Refilled(b) <= tokens[b] + in
        BY <3>2, <3>4
      <4>2. taken \in Nat /\ in \in Nat /\ old \in Int
        BY <1>2, <2>1, <3>3
      <4> HIDE DEF taken, in, old
      <4>3. Refilled(b) + taken <= Full(b) + (old + in)
        BY <1>1, <1>4, <4>1, <4>2
      <4>4. QED  BY <3>3, <4>3 DEF taken, in, old
  <2>4. QED  BY <2>2, <2>3
<1>6. QED  BY <1>4, <1>5

LEMMA Taking ==
  ASSUME WebhookInv, NEW r \in Requests, NEW g \in Gates, check_limit(r, g)
  PROVE  WebhookInv'
<1> DEFINE b0 == BucketOf[r][g]
           n  == Now(r, g)
<1>1. /\ live' = live \cup {b0} /\ last' = [last EXCEPT ![b0] = clock]
      /\ UNCHANGED <<clock, scene, failures, until, cached, when>>
      /\ b0 \in Buckets
  BY WebhookAssumption DEF check_limit, limiter, dedup
<1>2. \/ /\ Refilled(b0) >= TokenCost /\ tokens' = [tokens EXCEPT ![b0] = Refilled(b0) - TokenCost]
         /\ Note(r, g) /\ pc' = [pc EXCEPT ![r] = After(g)]
      \/ /\ tokens' = [tokens EXCEPT ![b0] = Refilled(b0)]
         /\ pc' = [pc EXCEPT ![r] = "limited"] /\ log' = log
  BY DEF check_limit, Go
<1>3. /\ Refilled(b0) \in Nat /\ Refilled(b0) <= Full(b0)
      /\ \A t \in 1..clock :
           Refilled(b0) + TokenCost * Cardinality(Taken(b0, t)) <= Full(b0) + Rate[b0] * (clock - t)
  BY <1>1, Refilling
<1>4. /\ Full(b0) \in Nat /\ Rate[b0] \in Nat /\ TokenCost \in Nat /\ clock \in Nat
      /\ \A t \in Nat : IsFiniteSet(Taken(b0, t)) /\ Cardinality(Taken(b0, t)) \in Nat
  BY <1>1, Holding
<1>5. g \notin {"wrong", "seen"}
  BY DEF Gates
<1>6. /\ log' \subseteq Entry /\ IsFiniteSet(log') /\ \A e \in log' : e.at \in 1..clock'
      /\ \A i \in Ips : Wrong(i)' = Wrong(i)
      /\ Seen' = Seen
  <2>1. CASE Note(r, g)
    BY <1>1, <1>5, <2>1, Logged
  <2>2. CASE log' = log
    BY <1>1, <2>2 DEF WebhookInv, TypeOK, Wrong, Seen
  <2>3. QED  BY <1>2, <2>1, <2>2
<1>7. TypeOK'
  <2>1. tokens' \in [Buckets -> Nat]
    BY <1>1, <1>2, <1>3, <1>4 DEF WebhookInv, TypeOK
  <2>2. live' \subseteq Buckets /\ last' \in [Buckets -> Nat]
    BY <1>1, <1>4 DEF WebhookInv, TypeOK
  <2>3. After(g) \in Gates \cup {"act"}
    BY DEF After, Gates
  <2>4. pc' \in [Requests -> {"new", "auth", "bad", "dedup", "act"} \cup Gates \cup Answers]
    BY <1>2, <2>3 DEF WebhookInv, TypeOK, Answers
  <2>5. QED  BY <1>1, <1>6, <2>1, <2>2, <2>4 DEF WebhookInv, TypeOK
<1>8. BucketInv'
  <2>1. /\ last'[b0] = clock /\ b0 \in live' /\ live \subseteq live'
        /\ \A b \in Buckets : b # b0 => last'[b] = last[b] /\ tokens'[b] = tokens[b] /\ (b \in live' => b \in live)
    BY <1>1, <1>2 DEF WebhookInv, TypeOK
  <2>2. log' \subseteq log \cup {n} /\ n.who = r /\ n.what = g /\ n.at = clock
    BY <1>2 DEF Note, Now
  <2>3. log \subseteq log'
    BY <1>2 DEF Note
  <2>4. \A b \in Buckets : b # b0 => \A t : Taken(b, t)' = Taken(b, t)
    BY <2>2, <2>3 DEF Taken
  <2>5. \A t : Taken(b0, t)' \subseteq Taken(b0, t) \cup {n}
    BY <2>2 DEF Taken
  <2>6. ASSUME NEW t \in 1..clock
        PROVE  tokens'[b0] + TokenCost * Cardinality(Taken(b0, t)') <= Full(b0) + Rate[b0] * (clock - t)
    <3>1. /\ t \in Nat /\ IsFiniteSet(Taken(b0, t)) /\ Cardinality(Taken(b0, t)) \in Nat
          /\ Refilled(b0) + TokenCost * Cardinality(Taken(b0, t)) <= Full(b0) + Rate[b0] * (clock - t)
          /\ TokenCost * Cardinality(Taken(b0, t)) \in Nat /\ Rate[b0] * (clock - t) \in Int
      <4>1. t \in Nat /\ Cardinality(Taken(b0, t)) \in Nat /\ clock - t \in Nat
        BY <1>4
      <4>2. TokenCost * Cardinality(Taken(b0, t)) \in Nat /\ Rate[b0] * (clock - t) \in Nat
        BY ONLY <1>4, <4>1, Multiply
      <4>3. QED  BY <1>3, <1>4, <4>1, <4>2
    <3>2. CASE Note(r, g) /\ tokens' = [tokens EXCEPT ![b0] = Refilled(b0) - TokenCost]
      <4>1. /\ IsFiniteSet(Taken(b0, t) \cup {n})
            /\ Cardinality(Taken(b0, t) \cup {n}) <= Cardinality(Taken(b0, t)) + 1
            /\ Cardinality(Taken(b0, t) \cup {n}) \in Nat
        <5>1. /\ IsFiniteSet(Taken(b0, t) \cup {n})
              /\ Cardinality(Taken(b0, t) \cup {n}) \in {Cardinality(Taken(b0, t)), Cardinality(Taken(b0, t)) + 1}
          <6> HIDE DEF n
          <6>1. QED  BY <3>1, FS_AddElement
        <5>2. QED  BY <3>1, <5>1
      <4>2. Cardinality(Taken(b0, t)') <= Cardinality(Taken(b0, t)) + 1 /\ Cardinality(Taken(b0, t)') \in Nat
        BY <2>5, <3>1, <4>1, FS_Subset, FS_CardinalityType
      <4>3. /\ TokenCost * Cardinality(Taken(b0, t)') <= TokenCost * (Cardinality(Taken(b0, t)) + 1)
            /\ TokenCost * Cardinality(Taken(b0, t)') \in Int
        BY <1>4, <3>1, <4>2, Grows
      <4>4. TokenCost * (Cardinality(Taken(b0, t)) + 1) = TokenCost * Cardinality(Taken(b0, t)) + TokenCost
        BY <1>4, <3>1, Distribute
      <4>5. tokens'[b0] = Refilled(b0) - TokenCost
        BY <1>1, <3>2 DEF WebhookInv, TypeOK
      <4>6. QED  BY <1>3, <1>4, <3>1, <4>3, <4>4, <4>5
    <3>3. CASE log' = log /\ tokens' = [tokens EXCEPT ![b0] = Refilled(b0)]
      <4>1. Taken(b0, t)' = Taken(b0, t)
        BY <3>3 DEF Taken
      <4>2. tokens'[b0] = Refilled(b0)
        BY <1>1, <3>3 DEF WebhookInv, TypeOK
      <4>3. QED  BY <3>1, <4>1, <4>2
    <3>4. QED  BY <1>2, <3>2, <3>3
  <2>7. tokens'[b0] <= Full(b0)
    <3>1. tokens'[b0] \in {Refilled(b0) - TokenCost, Refilled(b0)}
      BY <1>1, <1>2 DEF WebhookInv, TypeOK
    <3>2. QED  BY <1>3, <1>4, <3>1
  <2>8. \A e \in Taken(b0, 1)' : e.at <= clock
    BY <1>1, <1>4, <1>6 DEF Taken
  <2>9. ASSUME NEW b \in Buckets
        PROVE  /\ last'[b] <= clock /\ tokens'[b] <= Full(b)
               /\ b \notin live' => Taken(b, 1)' = {} \/ clock - last'[b] >= StaleAfter
               /\ \A t \in 1..last'[b] :
                    tokens'[b] + TokenCost * Cardinality(Taken(b, t)') <= Full(b) + Rate[b] * (last'[b] - t)
               /\ \A e \in Taken(b, 1)' : e.at <= last'[b]
    <3>1. CASE b = b0
      BY <1>4, <2>1, <2>6, <2>7, <2>8, <3>1
    <3>2. CASE b # b0
      <4>1. last'[b] = last[b] /\ tokens'[b] = tokens[b] /\ (b \notin live' => b \notin live) /\ \A t : Taken(b, t)' = Taken(b, t)
        BY <2>1, <2>4, <3>2
      <4>2. QED  BY <4>1 DEF WebhookInv, BucketInv
    <3>3. QED  BY <3>1, <3>2
  <2>10. \A b : Full(b)' = Full(b)
    BY DEF Full
  <2>11. QED  BY <1>1, <2>9, <2>10 DEF BucketInv
<1>9. LimiterInv'
  BY <1>1, <1>6, LimiterFrame DEF WebhookInv
<1>10. DedupInv' /\ EventsOnce'
  BY <1>1, <1>6, DedupFrame DEF WebhookInv
<1>11. QED  BY <1>6, <1>7, <1>8, <1>9, <1>10 DEF WebhookInv

LEMMA BucketCleaning ==
  ASSUME WebhookInv, NEW g \in Gates, CleanBuckets(g)
  PROVE  WebhookInv'
<1>1. /\ UNCHANGED <<clock, scene, pc, failures, until, cached, when, tokens, last, log>>
      /\ live' \subseteq live /\ \A b \in live : b \in live' \/ clock - last[b] >= StaleAfter
  BY DEF CleanBuckets, Stale, limiter, dedup
<1>2. TypeOK'
  BY <1>1 DEF WebhookInv, TypeOK
<1>3. LimiterInv'
  BY <1>1, LimiterFrame DEF WebhookInv, Wrong
<1>4. DedupInv' /\ EventsOnce'
  BY <1>1, DedupFrame DEF WebhookInv, Seen
<1>5. BucketInv'
  <2>1. \A b \in Buckets : \A t : Taken(b, t)' = Taken(b, t)
    BY <1>1 DEF Taken
  <2>2. \A b : Full(b)' = Full(b)
    BY DEF Full
  <2>3. \A b \in Buckets : b \notin live' => Taken(b, 1) = {} \/ clock - last[b] >= StaleAfter
    BY <1>1 DEF WebhookInv, BucketInv
  <2>4. QED  BY <1>1, <2>1, <2>2, <2>3 DEF WebhookInv, BucketInv
<1>6. QED  BY <1>1, <1>2, <1>3, <1>4, <1>5 DEF WebhookInv

-----------------------------------------------------------------------------
(* Time *)

LEMMA Ticking ==
  ASSUME WebhookInv, Tick
  PROVE  WebhookInv'
<1>1. clock' = clock + 1 /\ UNCHANGED <<scene, pc, failures, until, cached, when, live, tokens, last, log>>
  BY DEF Tick, limiter, dedup, buckets
<1>2. clock \in Nat /\ \A e \in log : e.at \in Nat /\ e.at <= clock
  BY DEF WebhookInv, TypeOK, Entry
<1>3. TypeOK' /\ IsFiniteSet(log') /\ \A e \in log' : e.at \in 1..clock'
  BY <1>1, <1>2 DEF WebhookInv, TypeOK
<1>4. LimiterInv'
  <2>1. \A i \in Ips : Wrong(i)' = Wrong(i)
    BY <1>1 DEF Wrong
  <2>2. ASSUME NEW i \in Ips \ Exempt
        PROVE  Sound(failures[i], until[i], Wrong(i))'
    <3>1. /\ clock \in Nat /\ until[i] \in Nat /\ Window \in Nat /\ Lockout \in Nat
          /\ \A e \in Wrong(i) : e.at \in Nat
      BY Lately
    <3>2. Sound(failures[i], until[i], Wrong(i))
      BY DEF WebhookInv, LimiterInv
    <3>3. failures'[i] = failures[i] /\ until'[i] = until[i] /\ Wrong(i)' = Wrong(i)
      BY <1>1, <2>1
    <3>4. until[i] = 0 => \A e \in Wrong(i) : e \in failures[i] \/ clock' - e.at >= Window
      <4>1. until[i] = 0 => \A e \in Wrong(i) : e \in failures[i] \/ clock - e.at >= Window
        BY <3>2 DEF Sound
      <4>2. QED  BY <1>1, <3>1, <4>1
    <3>5. until[i] # 0 => until[i] <= clock' + Lockout
      BY <1>1, <3>1, <3>2 DEF Sound
    <3>6. QED  BY <3>2, <3>3, <3>4, <3>5 DEF Sound
  <2>3. QED  BY <2>2 DEF LimiterInv
<1>5. DedupInv' /\ EventsOnce'
  <2>1. Seen' = Seen /\ \A k, t : Others(k, t)' = Others(k, t)
    BY <1>1 DEF Seen, Others
  <2>2. EventsOnce'
    BY <2>1 DEF WebhookInv, EventsOnce, Ttl
  <2>3. \A e \in Seen : e.at \in Nat
    BY <1>2 DEF Seen
  <2>4. \A k : Ttl(k) \in Nat /\ Ttl(k)' = Ttl(k)
    BY WebhookAssumption DEF Ttl
  <2>5. DedupInv'
    <3>1. \A e \in Seen : clock - e.at >= Ttl(Key[e.who]) => clock' - e.at >= Ttl(Key[e.who])
      BY <1>1, <1>2, <2>3, <2>4
    <3>2. QED  BY <1>1, <2>1, <2>4, <3>1 DEF WebhookInv, DedupInv
  <2>6. QED  BY <2>2, <2>5
<1>6. BucketInv'
  <2>1. \A b \in Buckets : \A t : Taken(b, t)' = Taken(b, t)
    BY <1>1 DEF Taken
  <2>2. \A b : Full(b)' = Full(b)
    BY DEF Full
  <2>3. \A b \in Buckets : last[b] \in Nat /\ last[b] <= clock /\ clock \in Nat /\ StaleAfter \in Nat
    BY Holding
  <2>4. \A b \in Buckets :
          /\ tokens[b] <= Full(b)
          /\ b \notin live => Taken(b, 1) = {} \/ clock - last[b] >= StaleAfter
          /\ \A t \in 1..last[b] :
               tokens[b] + TokenCost * Cardinality(Taken(b, t)) <= Full(b) + Rate[b] * (last[b] - t)
          /\ \A e \in Taken(b, 1) : e.at <= last[b]
    BY DEF WebhookInv, BucketInv
  <2>5. ASSUME NEW b \in Buckets
        PROVE  /\ last[b] <= clock' /\ tokens[b] <= Full(b)
               /\ b \notin live => Taken(b, 1) = {} \/ clock' - last[b] >= StaleAfter
               /\ \A t \in 1..last[b] :
                    tokens[b] + TokenCost * Cardinality(Taken(b, t)) <= Full(b) + Rate[b] * (last[b] - t)
               /\ \A e \in Taken(b, 1) : e.at <= last[b]
    <3>1. last[b] <= clock' /\ (clock - last[b] >= StaleAfter => clock' - last[b] >= StaleAfter)
      BY <1>1, <2>3
    <3>2. /\ tokens[b] <= Full(b)
          /\ b \notin live => Taken(b, 1) = {} \/ clock - last[b] >= StaleAfter
      BY <2>4
    <3>3. \A t \in 1..last[b] :
            tokens[b] + TokenCost * Cardinality(Taken(b, t)) <= Full(b) + Rate[b] * (last[b] - t)
      BY <2>4, Zenon
    <3>4. \A e \in Taken(b, 1) : e.at <= last[b]
      BY <2>4
    <3>5. b \notin live => Taken(b, 1) = {} \/ clock' - last[b] >= StaleAfter
      BY <3>1, <3>2
    <3>6. QED  BY <3>1, <3>2, <3>3, <3>4, <3>5
  <2>6. QED  BY <1>1, <2>1, <2>2, <2>5 DEF BucketInv
<1>7. QED  BY <1>3, <1>4, <1>5, <1>6 DEF WebhookInv

-----------------------------------------------------------------------------
(* The invariant and the bounds *)

LEMMA Beginning ==
  ASSUME Init
  PROVE  WebhookInv
<1>1. /\ clock = 1 /\ log = {} /\ cached = {} /\ live = {GlobalBucket}
      /\ failures = [i \in Ips |-> {}] /\ until = [i \in Ips |-> 0]
      /\ \A b \in Buckets : tokens[b] = Full(b) /\ last[b] = 1
  BY DEF Init, Full
<1>2. TypeOK
  <2>1. tokens \in [Buckets -> Nat] /\ last \in [Buckets -> Nat]
    BY WebhookAssumption DEF Init
  <2>2. QED  BY <2>1, WebhookAssumption DEF Init, TypeOK, Answers
<1>3. IsFiniteSet({}) /\ Cardinality({}) = 0
  BY FS_EmptySet
<1>4. (\A i : Wrong(i) = {}) /\ Seen = {} /\ \A b, t : Taken(b, t) = {}
  BY <1>1 DEF Wrong, Seen, Taken
<1>5. LimiterInv
  BY <1>1, <1>3, <1>4, WebhookAssumption DEF LimiterInv, Sound
<1>6. DedupInv /\ EventsOnce
  BY <1>1, <1>4 DEF DedupInv, EventsOnce
<1>7. BucketInv
  <2>1. \A b \in Buckets : \A t \in 1..last[b] :
          tokens[b] + TokenCost * Cardinality(Taken(b, t)) <= Full(b) + Rate[b] * (last[b] - t)
    <3>1. TAKE b \in Buckets
    <3>2. TAKE t \in 1..last[b]
    <3>3. last[b] - t = 0 /\ Rate[b] \in Nat /\ TokenCost \in Nat /\ Full(b) \in Nat
      BY <1>1, <3>2, WebhookAssumption DEF Full
    <3>4. Rate[b] * (last[b] - t) = 0 /\ TokenCost * Cardinality(Taken(b, t)) = 0
      <4>1. Cardinality(Taken(b, t)) = 0 /\ Rate[b] * 0 = 0 /\ TokenCost * 0 = 0
        BY <1>3, <1>4, <3>3
      <4>2. QED  BY <3>3, <4>1
    <3>5. QED  BY <1>1, <3>3, <3>4
  <2>2. \A b \in Buckets : Full(b) \in Nat
    BY WebhookAssumption DEF Full
  <2>3. QED  BY <1>1, <1>4, <2>1, <2>2 DEF BucketInv
<1>8. QED  BY <1>1, <1>2, <1>3, <1>5, <1>6, <1>7 DEF WebhookInv

(* Whatever requests are at work, in whatever order they take the locks    *)
(* and however the clean-up runs between them, the limiter, the caches and *)
(* the buckets remember what they must of what was answered.               *)
THEOREM Invariance == Spec => []WebhookInv
<1>1. ASSUME WebhookInv, [Next]_vars  PROVE WebhookInv'
  <2>1. CASE \E r \in Requests : Handle(r)
    <3>1. PICK r \in Requests : Handle(r)
      BY <2>1
    <3>2. CASE Arrive(r) \/ Authenticate(r) \/ Exempted(r) \/ StillLocked(r) \/ Duplicate(r) \/ Act(r)
      BY <1>1, <3>2, Moving
    <3>3. CASE record_failure(r)
      BY <1>1, <3>3, Failing
    <3>4. CASE check_and_record(r)
      BY <1>1, <3>4, Admitting
    <3>5. CASE \E g \in Gates : check_limit(r, g)
      BY <1>1, <3>5, Taking
    <3>6. QED  BY <3>1, <3>2, <3>3, <3>4, <3>5 DEF Handle
  <2>2. CASE CleanLimiter
    BY <1>1, <2>2, LimiterCleaning
  <2>3. CASE CleanDedup
    BY <1>1, <2>3, DedupCleaning
  <2>4. CASE \E g \in Gates \ {"global"} : CleanBuckets(g)
    BY <1>1, <2>4, BucketCleaning
  <2>5. CASE Tick
    BY <1>1, <2>5, Ticking
  <2>6. CASE UNCHANGED vars
    <3>1. UNCHANGED <<clock, scene, limiter, dedup, buckets, log>> /\ pc' = pc
      BY <2>6 DEF vars, limiter, dedup, buckets
    <3>2. QED  BY <1>1, <3>1, Quiet DEF WebhookInv, TypeOK
  <2>7. QED  BY <1>1, <2>1, <2>2, <2>3, <2>4, <2>5, <2>6 DEF Next
<1>2. QED  BY <1>1, Beginning, PTL DEF Spec

(* An address learns fewer than MaxAttempts times in any window that a     *)
(* token is wrong, however many of its requests passed is_blocked before   *)
(* the first failure was recorded.                                         *)
THEOREM GuessesAreBounded == Spec => []GuessesBounded
<1>1. ASSUME WebhookInv  PROVE GuessesBounded
  <2>1. ASSUME NEW i \in Ips \ Exempt
        PROVE  Cardinality({e \in Wrong(i) : clock - e.at < Window}) < MaxAttempts
    <3>1. /\ \A e \in Wrong(i) : e.at \in Nat
          /\ IsFiniteSet(Wrong(i))
          /\ clock \in Nat /\ until[i] \in Nat /\ Window \in Nat /\ Lockout \in Nat /\ MaxAttempts \in Nat
          /\ Sound(failures[i], until[i], Wrong(i))
      BY <1>1, Lately DEF WebhookInv, LimiterInv
    <3> DEFINE lately == {e \in Wrong(i) : clock - e.at < Window}
    <3>2. CASE until[i] = 0
      <4>1. IsFiniteSet(failures[i]) /\ Cardinality(failures[i]) < MaxAttempts
        BY <3>1 DEF Sound
      <4>2. \A e \in Wrong(i) : e \in failures[i] \/ clock - e.at >= Window
        BY <3>1, <3>2 DEF Sound
      <4>3. lately \subseteq failures[i]
        BY <3>1, <4>2
      <4> HIDE DEF lately
      <4>4. Cardinality(lately) < MaxAttempts
        BY <3>1, <4>1, <4>3, FS_Subset, FS_CardinalityType
      <4>5. QED  BY <4>4 DEF lately
    <3>3. CASE until[i] # 0
      <4> DEFINE before == {e \in Wrong(i) : e.at + Window + Lockout > until[i]}
      <4>1. until[i] <= clock + Lockout /\ Cardinality(before) < MaxAttempts
        BY <3>1, <3>3 DEF Sound
      <4>2. lately \subseteq before /\ before \subseteq Wrong(i)
        BY <3>1, <4>1
      <4> HIDE DEF before, lately
      <4>3. IsFiniteSet(before)
        BY <3>1, <4>2, FS_Subset
      <4>4. Cardinality(lately) < MaxAttempts
        BY <3>1, <4>1, <4>2, <4>3, FS_Subset, FS_CardinalityType
      <4>5. QED  BY <4>4 DEF lately
    <3>4. QED  BY <3>2, <3>3
  <2>2. QED  BY <2>1 DEF GuessesBounded
<1>2. QED  BY <1>1, Invariance, PTL

(* An event is let through once within its time to live, unless its id was *)
(* pushed out by at least half a cache of others.                          *)
THEOREM EventsComeOnce == Spec => []EventsOnce
<1>1. ASSUME WebhookInv  PROVE EventsOnce
  BY <1>1 DEF WebhookInv
<1>2. QED  BY <1>1, Invariance, PTL

(* What is taken from a bucket since any moment is bounded by what it      *)
(* holds and what flows in, although idle buckets are dropped and come     *)
(* back full.                                                              *)
THEOREM RatesAreBounded == Spec => []RateBounded
<1>1. ASSUME WebhookInv  PROVE RateBounded
  <2>1. ASSUME NEW b \in Buckets, NEW t \in 1..clock
        PROVE  TokenCost * Cardinality(Taken(b, t)) <= Full(b) + Rate[b] * (clock - t)
    <3>1. /\ Refilled(b) \in Nat
          /\ Refilled(b) + TokenCost * Cardinality(Taken(b, t)) <= Full(b) + Rate[b] * (clock - t)
      BY <1>1, Refilling
    <3>2. /\ Full(b) \in Nat /\ Rate[b] \in Nat /\ TokenCost \in Nat /\ clock \in Nat
          /\ Cardinality(Taken(b, t)) \in Nat
      BY <1>1, Holding
    <3>3. TokenCost * Cardinality(Taken(b, t)) \in Nat /\ Rate[b] * (clock - t) \in Nat
      <4>1. clock - t \in Nat
        BY <3>2
      <4>2. QED  BY ONLY <3>2, <4>1, Multiply
    <3>4. QED  BY <3>1, <3>2, <3>3
  <2>2. QED  BY <2>1 DEF RateBounded
<1>2. QED  BY <1>1, Invariance, PTL
=============================================================================
