-------------------------- MODULE SchedulerProofs --------------------------
(***************************************************************************)
(* Proofs about the scheduler and the configuration, for any tasks,        *)
(* schedules, callers and reloads, and any length of a minute.             *)
(***************************************************************************)
EXTENDS Scheduler, TLAPS

States == {"down", "start", "asleep", "pass", "asked", "idle"}
Started == [for : SUBSET Nat, at : Nat, late : BOOLEAN]

TypeOK ==
  /\ clock \in Nat /\ Minute <= clock /\ wake \in Nat /\ pass \in Nat
  /\ pc \in [Actors -> States]
  /\ job \in [Actors -> Tasks \cup {NoTask}]
  /\ owed \in [Tasks -> SUBSET Nat]
  /\ starts \in [Tasks -> Seq(Started)]
  /\ lost \in [Tasks -> SUBSET Nat]
  /\ \A t \in Tasks : \A l \in lost[t] : l <= Len(starts[t])

IsConfig(v) ==
  /\ v \in [enabled : BOOLEAN, tasks : [DOMAIN v.tasks -> Row]]
  /\ DOMAIN v.tasks \subseteq ids /\ ids \subseteq Tasks
  /\ \A t \in DOMAIN v.tasks : v.tasks[t].last_run <= clock

\* Every value of the configuration there is, and the ids in it.
Configs ==
  /\ IsConfig(memory) /\ IsConfig(file)
  /\ \A r \in Waiting : IsConfig(loaded[r])
  /\ \A t \in Tasks : starts[t] # <<>> => t \in ids

\* Every start lies a minute before b.
Over(t, b) == \A i \in DOMAIN starts[t] : starts[t][i].at + Minute <= b

\* What a sleeping loop, and one at work, know of the starts so far.
Asleep == pc["loop"] = "asleep" => \A t \in Tasks : Over(t, wake)
AtWork ==
  pc["loop"] \in {"pass", "asked"} =>
    /\ pass <= MinuteOf(clock)
    /\ pass # 0 => \A t \in todo \cap Tasks :
         Over(t, clock) /\ \A i \in DOMAIN starts[t] : \A m \in starts[t][i].for : m < pass

Past ==
  \A t \in Tasks : \A i \in DOMAIN starts[t] :
    starts[t][i].at <= clock /\ \A m \in starts[t][i].for : m <= MinuteOf(starts[t][i].at)

\* A start has a record in memory and in the file, or is the one under way,
\* or its record was lost.
LostAfter(t, i)  == \E l \in lost[t] : i <= l
UnderWay(t, i)   == pc["loop"] = "asked" /\ job["loop"] = t /\ i = Len(starts[t])
Noted(v, t, at)  == t \in DOMAIN v.tasks => at <= v.tasks[t].last_run
Kept(t, i) == LostAfter(t, i) \/ UnderWay(t, i) \/ \A v \in {memory, file} : Noted(v, t, starts[t][i].at)
Records == \A t \in Tasks : \A i \in DOMAIN starts[t] : Kept(t, i)

\* What a catch-up is for was not started, or the record was lost.
Owing ==
  pc["loop"] \in {"pass", "asked"} /\ pass = 0 => \A t \in todo \cap Tasks :
    /\ \A m \in owed[t] : m <= MinuteOf(clock)
    /\ \A i \in DOMAIN starts[t] : starts[t][i].for \cap owed[t] # {} => LostAfter(t, i)

SInv == TypeOK /\ Configs /\ Asleep /\ AtWork /\ Past /\ Records /\ Owing /\ OccurrencesOnce

-----------------------------------------------------------------------------
(* Minutes *)

LEMMA Multiply ==
  ASSUME NEW M \in Nat \ {0}, NEW a \in Nat, NEW b \in Nat, a <= b
  PROVE  M * a <= M * b
BY ONLY M \in Nat \ {0}, a \in Nat, b \in Nat, a <= b, Z3

LEMMA MinuteType ==
  ASSUME NEW a \in Nat
  PROVE  MinuteOf(a) \in Nat /\ Minute * MinuteOf(a) <= a /\ a < Minute * (MinuteOf(a) + 1)
BY SchedulerAssumption, Z3 DEF MinuteOf

(* Later is not in an earlier minute, and a minute later is in a later one. *)
LEMMA MinuteOrder ==
  ASSUME NEW a \in Nat, NEW b \in Nat
  PROVE  /\ a <= b => MinuteOf(a) <= MinuteOf(b)
         /\ a + Minute <= b => MinuteOf(a) < MinuteOf(b)
<1>1. Minute \in Nat \ {0}
  BY SchedulerAssumption
<1>2. /\ MinuteOf(a) \in Nat /\ Minute * MinuteOf(a) <= a
      /\ MinuteOf(b) \in Nat /\ b < Minute * (MinuteOf(b) + 1)
  BY MinuteType
<1>3. ASSUME a <= b, MinuteOf(b) + 1 <= MinuteOf(a) PROVE FALSE
  <2>1. Minute * (MinuteOf(b) + 1) <= Minute * MinuteOf(a)
    BY <1>1, <1>2, <1>3, Multiply
  <2> DEFINE p == Minute * (MinuteOf(b) + 1)
             q == Minute * MinuteOf(a)
  <2>2. p \in Int /\ q \in Int /\ p <= q /\ q <= a /\ b < p
    BY <1>1, <1>2, <2>1
  <2> HIDE DEF p, q
  <2>3. QED  BY <1>3, <2>2
<1>4. ASSUME a + Minute <= b, MinuteOf(b) <= MinuteOf(a) PROVE FALSE
  <2>1. Minute * (MinuteOf(b) + 1) <= Minute * (MinuteOf(a) + 1)
    BY <1>1, <1>2, <1>4, Multiply
  <2>2. Minute * (MinuteOf(a) + 1) = Minute * MinuteOf(a) + Minute
    BY <1>1, <1>2
  <2> DEFINE p == Minute * (MinuteOf(b) + 1)
             q == Minute * MinuteOf(a)
  <2>3. p \in Int /\ q \in Int /\ p <= q + Minute /\ q <= a /\ b < p
    BY <1>1, <1>2, <2>1, <2>2
  <2> HIDE DEF p, q
  <2>4. QED  BY <1>1, <1>4, <2>3
<1>5. QED  BY <1>2, <1>3, <1>4

-----------------------------------------------------------------------------
(* A start in the history, by its type.                                    *)
LEMMA StartType ==
  ASSUME TypeOK, NEW t \in Tasks, NEW i \in DOMAIN starts[t]
  PROVE  /\ starts[t] # <<>> /\ Len(starts[t]) \in Nat /\ i \in 1..Len(starts[t])
         /\ starts[t][i].at \in Nat /\ starts[t][i].for \subseteq Nat
<1>1. starts[t] \in Seq(Started)
  BY DEF TypeOK
<1>2. /\ Len(starts[t]) \in Nat /\ i \in 1..Len(starts[t]) /\ starts[t][i] \in Started
      /\ starts[t] # <<>>
  BY ONLY <1>1, i \in DOMAIN starts[t]
<1>3. QED  BY <1>2 DEF Started

-----------------------------------------------------------------------------
(* Values of the configuration *)

(* A task keeps its last_run, or gets a later one; a new one had no id.    *)
Follows(new) ==
  /\ new \in [enabled : BOOLEAN, tasks : [DOMAIN new.tasks -> Row]]
  /\ DOMAIN new.tasks \subseteq ids' /\ ids' \subseteq Tasks
  /\ \A t \in DOMAIN new.tasks :
       \/ t \notin ids
       \/ t \in DOMAIN memory.tasks /\ memory.tasks[t].last_run <= new.tasks[t].last_run
  /\ \A t \in DOMAIN new.tasks : new.tasks[t].last_run <= clock

LEMMA RanFollows ==
  ASSUME SInv, NEW t, ids' = ids
  PROVE  /\ Follows(Ran(memory, t))
         /\ t \in DOMAIN memory.tasks => Ran(memory, t).tasks[t].last_run = clock
         /\ DOMAIN Ran(memory, t).tasks = DOMAIN memory.tasks
<1> DEFINE new == Ran(memory, t)
<1>1. IsConfig(memory) /\ clock \in Nat
  BY DEF SInv, Configs, TypeOK
<1>2. CASE t \notin DOMAIN memory.tasks
  <2>1. new = memory
    BY <1>2 DEF Ran
  <2>2. \A u \in DOMAIN memory.tasks : memory.tasks[u].last_run <= memory.tasks[u].last_run
    BY <1>1 DEF IsConfig, Row
  <2>3. QED  BY <1>1, <1>2, <2>1, <2>2 DEF IsConfig, Follows
<1>3. CASE t \in DOMAIN memory.tasks
  <2>1. new = [memory EXCEPT !.tasks[t].last_run = clock]
    BY <1>3 DEF Ran
  <2>2. /\ new \in [enabled : BOOLEAN, tasks : [DOMAIN memory.tasks -> Row]]
        /\ new.tasks = [memory.tasks EXCEPT ![t].last_run = clock]
    BY <1>1, <1>3, <2>1 DEF IsConfig, Row
  <2>3. DOMAIN new.tasks = DOMAIN memory.tasks
    BY <2>2
  <2>4. \A u \in DOMAIN memory.tasks : new.tasks[u].last_run = IF u = t THEN clock ELSE memory.tasks[u].last_run
    BY <1>1, <2>2 DEF IsConfig, Row
  <2>5. \A u \in DOMAIN memory.tasks : memory.tasks[u].last_run \in Nat
    BY <1>1 DEF IsConfig, Row
  <2>6. Follows(new)
    <3> HIDE DEF new
    <3> QED  BY <1>1, <2>2, <2>3, <2>4, <2>5 DEF Follows, IsConfig
  <2>7. QED  BY <1>3, <2>3, <2>4, <2>6
<1>4. QED  BY <1>2, <1>3

(* A command or an edit leaves the last_run of the tasks it keeps alone.   *)
LEMMA UpdatesKeep ==
  ASSUME NEW v, IsConfig(v), NEW new \in Updates(v)
  PROVE  /\ new \in [enabled : BOOLEAN, tasks : [DOMAIN new.tasks -> Row]]
         /\ DOMAIN new.tasks \subseteq DOMAIN v.tasks
         /\ \A t \in DOMAIN new.tasks : new.tasks[t].last_run = v.tasks[t].last_run
<1> USE DEF IsConfig
<1>1. CASE new = [v EXCEPT !.enabled = ~@]
  BY <1>1
<1>2. ASSUME NEW t \in DOMAIN v.tasks, new = [v EXCEPT !.tasks = [x \in DOMAIN @ \ {t} |-> @[x]]]
      PROVE  /\ new \in [enabled : BOOLEAN, tasks : [DOMAIN new.tasks -> Row]]
             /\ DOMAIN new.tasks \subseteq DOMAIN v.tasks
             /\ \A u \in DOMAIN new.tasks : new.tasks[u].last_run = v.tasks[u].last_run
  BY <1>2
<1>3. ASSUME NEW t \in DOMAIN v.tasks, NEW row \in Row, row.last_run = v.tasks[t].last_run, new = With(v, t, row)
      PROVE  /\ new \in [enabled : BOOLEAN, tasks : [DOMAIN new.tasks -> Row]]
             /\ DOMAIN new.tasks \subseteq DOMAIN v.tasks
             /\ \A u \in DOMAIN new.tasks : new.tasks[u].last_run = v.tasks[u].last_run
  BY <1>3 DEF With
<1>4. \A t \in DOMAIN v.tasks :
        /\ [v.tasks[t] EXCEPT !.enabled = ~@] \in Row
        /\ [v.tasks[t] EXCEPT !.enabled = ~@].last_run = v.tasks[t].last_run
        /\ [v.tasks[t] EXCEPT !.run_if_missed = ~@] \in Row
        /\ [v.tasks[t] EXCEPT !.run_if_missed = ~@].last_run = v.tasks[t].last_run
  BY DEF Row
<1>5. QED  BY <1>1, <1>2, <1>3, <1>4 DEF Updates

-----------------------------------------------------------------------------
(* What steps leave as it is *)

(* The history of lost records only grows.                                 *)
LEMMA LoseEffect ==
  ASSUME TypeOK, NEW S, Lose(S)
  PROVE  /\ lost' \in [Tasks -> SUBSET Nat]
         /\ \A t \in Tasks : lost[t] \subseteq lost'[t] /\ \A l \in lost'[t] : l <= Len(starts[t])
         /\ \A t \in Tasks : t \in S /\ starts[t] # <<>> => Len(starts[t]) \in lost'[t]
<1>1. \A t \in Tasks : Len(starts[t]) \in Nat
  BY DEF TypeOK
<1>2. \A t \in Tasks : lost'[t] = IF t \in S /\ starts[t] # <<>> THEN lost[t] \cup {Len(starts[t])} ELSE lost[t]
  BY DEF Lose
<1>3. QED  BY <1>1, <1>2 DEF Lose, TypeOK

(* A step that starts no task and does not begin a pass.                   *)
LEMMA Calm ==
  ASSUME SInv, UNCHANGED starts, TypeOK', clock <= clock',
         \A t \in Tasks : lost[t] \subseteq lost'[t],
         pc'["loop"] = "asleep" => (pc["loop"] = "asleep" /\ wake' = wake) \/ wake' = clock + Minute,
         pc'["loop"] \in {"pass", "asked"} => pc["loop"] \in {"pass", "asked"} /\ UNCHANGED <<pass, todo, owed>>
  PROVE  Asleep' /\ AtWork' /\ Past' /\ Owing' /\ OccurrencesOnce'
<1>1. /\ clock \in Nat /\ clock' \in Nat /\ Minute \in Nat /\ wake \in Nat /\ pass \in Nat
      /\ \A t \in Tasks : \A i \in DOMAIN starts[t] : starts[t][i].at \in Nat /\ starts[t][i].at <= clock
  <2>1. TypeOK /\ Past
    BY DEF SInv
  <2>2. \A t \in Tasks : \A i \in DOMAIN starts[t] : starts[t][i].at \in Nat /\ starts[t][i].at <= clock
    BY <2>1, StartType DEF Past
  <2>3. QED  BY <2>1, <2>2, SchedulerAssumption DEF TypeOK
<1>2. /\ MinuteOf(clock) \in Nat /\ MinuteOf(clock') \in Nat
      /\ MinuteOf(clock) <= MinuteOf(clock')
      /\ MinuteOf(clock)' = MinuteOf(clock')
  BY <1>1, MinuteOrder, MinuteType DEF MinuteOf
<1>3. Asleep'
  BY <1>1 DEF SInv, Asleep, Over
<1>4. Past'
  BY <1>1 DEF SInv, Past, MinuteOf
<1>5. ASSUME pc'["loop"] \in {"pass", "asked"} PROVE AtWork' /\ Owing'
  <2> DEFINE old == MinuteOf(clock)
             now == MinuteOf(clock')
  <2>1. pass' = pass /\ todo' = todo /\ owed' = owed /\ pc["loop"] \in {"pass", "asked"}
    BY <1>5
  <2>2. old \in Nat /\ now \in Nat /\ old <= now /\ MinuteOf(clock)' = now /\ pass <= old
    BY <1>2, <2>1 DEF SInv, AtWork
  <2>3. \A t \in Tasks : owed[t] \subseteq Nat
    BY DEF SInv, TypeOK
  <2>4. pass = 0 => \A t \in todo \cap Tasks : \A m \in owed[t] : m <= old
    BY <2>1 DEF SInv, Owing
  <2>5. \A t \in Tasks : Over(t, clock) => Over(t, clock')
    BY <1>1 DEF Over
  <2> HIDE DEF old, now
  <2>6. pass <= now
    BY <1>1, <2>2
  <2>7. pass = 0 => \A t \in todo \cap Tasks : \A m \in owed[t] : m <= now
    BY <2>2, <2>3, <2>4
  <2>8. AtWork'
    BY <2>1, <2>2, <2>5, <2>6 DEF SInv, AtWork, Over
  <2>9. Owing'
    BY <2>1, <2>2, <2>7 DEF SInv, Owing, LostAfter
  <2>10. QED  BY <2>8, <2>9
<1>6. pc'["loop"] \notin {"pass", "asked"} => AtWork' /\ Owing'
  BY DEF AtWork, Owing
<1>7. OccurrencesOnce'
  BY DEF SInv, OccurrencesOnce
<1>8. QED  BY <1>3, <1>4, <1>5, <1>6, <1>7

(* A step that leaves the configuration alone.                             *)
LEMMA Unsaved ==
  ASSUME SInv, UNCHANGED <<starts, settingsVars, ids>>, clock' \in Nat, clock <= clock',
         \A t \in Tasks : lost[t] \subseteq lost'[t],
         pc["loop"] = "asked" => pc'["loop"] = "asked" /\ job'["loop"] = job["loop"]
  PROVE  Configs' /\ Records'
<1>1. ASSUME NEW v, IsConfig(v) PROVE IsConfig(v)'
  <2>1. v \in [enabled : BOOLEAN, tasks : [DOMAIN v.tasks -> Row]] /\ \A t \in DOMAIN v.tasks : v.tasks[t].last_run <= clock
    BY <1>1 DEF IsConfig
  <2>2. \A t \in DOMAIN v.tasks : v.tasks[t].last_run \in Nat
    BY <2>1 DEF Row
  <2>3. \A t \in DOMAIN v.tasks : v.tasks[t].last_run <= clock'
    BY <2>1, <2>2 DEF SInv, TypeOK
  <2>4. QED  BY <1>1, <2>3 DEF IsConfig
<1>2. Configs'
  BY <1>1 DEF SInv, Configs, settingsVars, Waiting, IsConfig
<1>3. Records'
  BY DEF SInv, Records, Kept, LostAfter, UnderWay, Noted, settingsVars
<1>4. QED  BY <1>2, <1>3

(* A start that had a record has it in what follows.                       *)
LEMMA StillNoted ==
  ASSUME SInv, NEW new, Follows(new), NEW t \in Tasks, NEW i \in DOMAIN starts[t],
         Noted(memory, t, starts[t][i].at)
  PROVE  Noted(new, t, starts[t][i].at)
<1>1. SUFFICES ASSUME t \in DOMAIN new.tasks PROVE starts[t][i].at <= new.tasks[t].last_run
  BY DEF Noted
<1>2. starts[t] # <<>> /\ starts[t][i].at \in Nat
  BY StartType DEF SInv
<1>3. t \in ids
  BY <1>2 DEF SInv, Configs
<1>4. t \in DOMAIN memory.tasks /\ memory.tasks[t].last_run <= new.tasks[t].last_run
  BY <1>1, <1>3 DEF Follows
<1>5. starts[t][i].at <= memory.tasks[t].last_run
  BY <1>4 DEF Noted
<1>6. memory.tasks[t].last_run \in Nat /\ new.tasks[t].last_run \in Nat
  BY <1>1, <1>4 DEF SInv, Configs, IsConfig, Follows, Row
<1>7. QED  BY <1>2, <1>4, <1>5, <1>6

LEMMA Saving ==
  ASSUME SInv, NEW new, Follows(new), Save(new), UNCHANGED <<starts, clock>>, ids \subseteq ids'
  PROVE  /\ Configs'
         /\ \A t \in Tasks : \A i \in DOMAIN starts[t] :
              (\A v \in {memory, file} : Noted(v, t, starts[t][i].at))
                => \A v \in {memory', file'} : Noted(v, t, starts[t][i].at)
<1>1. memory' \in {memory, new} /\ file' \in {file, new} /\ Waiting' = Waiting /\ loaded' = loaded
  BY DEF Save, Waiting
<1>2. ids' \subseteq Tasks
  BY DEF Follows
<1>3. \A v : IsConfig(v) => IsConfig(v)'
  BY <1>2 DEF IsConfig
<1>4. IsConfig(new)'
  BY DEF Follows, IsConfig
<1>5. Configs'
  BY <1>1, <1>3, <1>4 DEF SInv, Configs
<1>6. QED  BY <1>1, <1>5, StillNoted

-----------------------------------------------------------------------------
(* Steps of the loop *)

(* The beginning of a sleep.                                               *)
LEMMA FallsAsleep ==
  ASSUME SInv, Sleep, pass' \in Nat, UNCHANGED <<clock, job, settingsVars, ids, history>>, pc["loop"] # "asked"
  PROVE  SInv'
<1>1. pc'["loop"] = "asleep" /\ wake' = clock + Minute
  BY SchedulerAssumption DEF Sleep, Go, SInv, TypeOK, Actors, States
<1>2. TypeOK'
  BY <1>1, SchedulerAssumption DEF Sleep, Go, SInv, TypeOK, Actors, States, history
<1>3. clock \in Nat /\ clock <= clock'
  BY DEF SInv, TypeOK
<1>4. QED  BY <1>1, <1>2, <1>3, Calm, Unsaved DEF SInv, history

LEMMA Missing ==
  ASSUME SInv, check_missed_tasks
  PROVE  SInv'
<1>0. clock \in Nat /\ MinuteOf(clock) \in Nat
  BY MinuteType DEF SInv, TypeOK
<1>1. CASE /\ memory.enabled /\ pass' = 0 /\ todo' = Missed(memory, clock) /\ Go("loop", "pass") /\ wake' = 0
           /\ owed' = [t \in Tasks |-> IF t \in todo' \cap Cron
                                       THEN Between(t, memory.tasks[t].last_run, clock) ELSE {}]
  <2>1. pc'["loop"] = "pass" /\ UNCHANGED <<clock, starts, lost, job, settingsVars, ids>>
    BY <1>1 DEF check_missed_tasks, SInv, TypeOK, Go, Actors
  <2>2. \A t \in Tasks : \A last : Between(t, last, clock) \subseteq Nat
    BY SchedulerAssumption DEF Between
  <2>3. owed' \in [Tasks -> SUBSET Nat]
    BY <1>1, <2>2
  <2>4. TypeOK'
    BY <1>1, <2>1, <2>3 DEF SInv, TypeOK, Go, Actors, States
  <2>5. AtWork' /\ Asleep' /\ Past' /\ OccurrencesOnce'
    BY <1>0, <1>1, <2>1 DEF SInv, AtWork, Asleep, Past, OccurrencesOnce, MinuteOf, Over
  <2>6. Configs' /\ Records'
    BY <1>0, <2>1, Unsaved DEF check_missed_tasks
  <2>7. Owing'
    <3>1. SUFFICES ASSUME NEW t \in todo' \cap Tasks, NEW m \in owed'[t]
                   PROVE  /\ m <= MinuteOf(clock)
                          /\ \A i \in DOMAIN starts[t] : m \in starts[t][i].for => LostAfter(t, i)
      BY <2>1 DEF Owing, LostAfter, MinuteOf
    <3> DEFINE last == memory.tasks[t].last_run
    <3>2. m \in Between(t, last, clock)
      BY <1>1, <3>1
    <3>3. t \in DOMAIN memory.tasks /\ last \in Nat
      BY <1>1 DEF Missed, Enabled, SInv, Configs, IsConfig, Row
    <3>4. m \in Nat /\ m <= MinuteOf(clock) /\ MinuteOf(last) \in Nat /\ MinuteOf(last) < m
      <4>1. PICK n \in Occurs[t] : MinuteOf(last) < n /\ n <= m
        BY <3>2 DEF Between, IsNext
      <4>2. n \in Nat /\ m \in Nat /\ MinuteOf(last) \in Nat
        BY <3>2, <3>3, SchedulerAssumption, MinuteType DEF Between
      <4> DEFINE k == MinuteOf(last)
      <4>3. k \in Nat /\ k < n /\ n <= m
        BY <4>1, <4>2
      <4> HIDE DEF k
      <4>4. k < m
        BY <4>2, <4>3
      <4> USE DEF k
      <4>5. QED  BY <3>2, <4>2, <4>4 DEF Between
    <3>5. ASSUME NEW i \in DOMAIN starts[t], m \in starts[t][i].for, ~LostAfter(t, i) PROVE FALSE
      <4>1. Kept(t, i) /\ ~UnderWay(t, i)
        BY DEF SInv, Records, UnderWay, check_missed_tasks
      <4>2. starts[t][i].at <= last
        BY <3>3, <3>5, <4>1 DEF Kept, Noted
      <4> DEFINE at == starts[t][i].at
      <4>3. at \in Nat /\ m <= MinuteOf(at)
        BY <3>5, StartType DEF SInv, Past
      <4>4. MinuteOf(at) \in Nat /\ MinuteOf(at) <= MinuteOf(last)
        BY <3>3, <4>2, <4>3, MinuteOrder, MinuteType
      <4> DEFINE p == MinuteOf(at)
                 q == MinuteOf(last)
      <4>5. p \in Nat /\ q \in Nat /\ m \in Nat /\ m <= p /\ p <= q /\ q < m
        BY <3>4, <4>3, <4>4
      <4> HIDE DEF p, q
      <4>6. QED  BY <4>5
    <3>6. QED  BY <3>4, <3>5
  <2>8. QED  BY <2>4, <2>5, <2>6, <2>7 DEF SInv
<1>2. CASE Sleep /\ UNCHANGED <<pass, todo, owed>>
  BY <1>2, FallsAsleep DEF check_missed_tasks, SInv, TypeOK, history
<1>3. QED  BY <1>1, <1>2 DEF check_missed_tasks

LEMMA Waking ==
  ASSUME SInv, Wake
  PROVE  SInv'
<1>1. CASE memory.enabled /\ pass' = MinuteOf(clock) /\ todo' = Due(memory, clock) /\ Go("loop", "pass") /\ wake' = 0
  <2>1. MinuteOf(clock) \in Nat /\ MinuteOf(clock) # 0 /\ clock \in Nat
    <3>1. clock \in Nat /\ 0 + Minute <= clock /\ 0 \in Nat
      BY SchedulerAssumption DEF SInv, TypeOK
    <3>2. MinuteOf(0) \in Nat /\ MinuteOf(clock) \in Nat /\ MinuteOf(0) < MinuteOf(clock)
      BY <3>1, MinuteOrder, MinuteType
    <3>3. QED  BY ONLY <3>1, <3>2
  <2>2. pc'["loop"] = "pass" /\ UNCHANGED <<clock, job, settingsVars, ids, owed, starts, lost>>
    BY <1>1 DEF Wake, SInv, TypeOK, Go, Actors, history
  <2>3. TypeOK'
    BY <1>1, <2>1, <2>2 DEF SInv, TypeOK, Go, Actors, States
  <2>4. \A t \in Tasks : \A i \in DOMAIN starts[t] :
          starts[t][i].at + Minute <= clock /\ \A m \in starts[t][i].for : m < MinuteOf(clock)
    <3> SUFFICES ASSUME NEW t \in Tasks, NEW i \in DOMAIN starts[t]
                 PROVE  starts[t][i].at + Minute <= clock /\ \A m \in starts[t][i].for : m < MinuteOf(clock)
      OBVIOUS
    <3> DEFINE at == starts[t][i].at
               p  == MinuteOf(at)
               q  == MinuteOf(clock)
    <3>1. starts[t][i] \in Started /\ at + Minute <= wake /\ wake <= clock /\ \A m \in starts[t][i].for : m <= p
      BY DEF Wake, SInv, TypeOK, Asleep, Past, Over
    <3>2. at \in Nat /\ starts[t][i].for \subseteq Nat /\ wake \in Nat /\ Minute \in Nat
      BY <3>1, SchedulerAssumption DEF Started, SInv, TypeOK
    <3>3. at + Minute <= clock
      BY <2>1, <3>1, <3>2
    <3>4. p \in Nat /\ q \in Nat /\ p < q
      BY <2>1, <3>2, <3>3, MinuteOrder, MinuteType
    <3>5. \A m \in starts[t][i].for : m \in Nat /\ m <= p
      BY <3>1, <3>2
    <3>6. \A m \in starts[t][i].for : m < q
      <4> HIDE DEF p, q
      <4> QED  BY <3>4, <3>5
    <3>7. QED  BY <3>3, <3>6
  <2>5. AtWork'
    BY <1>1, <2>1, <2>2, <2>4 DEF AtWork, Over, MinuteOf
  <2>6. Configs' /\ Records'
    BY <2>1, <2>2, Unsaved DEF Wake
  <2>7. Owing'
    BY <1>1, <2>1 DEF Owing
  <2>8. Asleep' /\ Past' /\ OccurrencesOnce'
    BY <2>2 DEF SInv, Asleep, Past, OccurrencesOnce, MinuteOf
  <2>9. QED  BY <2>3, <2>5, <2>6, <2>7, <2>8 DEF SInv
<1>2. CASE Sleep /\ UNCHANGED <<pass, todo>>
  BY <1>2, FallsAsleep DEF Wake, SInv, TypeOK, history
<1>3. QED  BY <1>1, <1>2 DEF Wake

(* What a start adds to the history.                                       *)
LEMMA Appended ==
  ASSUME NEW q \in Seq(Started), NEW x \in Started
  PROVE  /\ Append(q, x) \in Seq(Started)
         /\ Len(q) \in Nat /\ Len(Append(q, x)) = Len(q) + 1
         /\ DOMAIN q = 1..Len(q) /\ DOMAIN Append(q, x) = 1..(Len(q) + 1)
         /\ \A i \in 1..Len(q) : Append(q, x)[i] = q[i]
         /\ Append(q, x)[Len(q) + 1] = x
OBVIOUS

LEMMA Taking ==
  ASSUME SInv, NEW t \in Tasks, Take(t)
  PROVE  SInv'
<1> DEFINE new == [for |-> IF pass = 0 THEN owed[t] ELSE {pass}, at |-> clock, late |-> pass = 0]
           n   == Len(starts[t])
<1>1. /\ UNCHANGED <<clock, wake, pass, lost, settingsVars, ids>> /\ todo' = todo \ {t} /\ t \in todo
      /\ pc["loop"] = "pass" /\ pc' \in [Actors -> States] /\ pc'["loop"] \in {"pass", "asked"}
      /\ job' \in [Actors -> Tasks \cup {NoTask}]
      /\ clock \in Nat /\ pass \in Nat
  <2>1. /\ UNCHANGED <<clock, wake, pass, lost, settingsVars, ids>> /\ todo' = todo \ {t} /\ t \in todo
        /\ pc["loop"] = "pass" /\ clock \in Nat /\ pass \in Nat
        /\ pc \in [Actors -> States] /\ job \in [Actors -> Tasks \cup {NoTask}]
    BY DEF Take, SInv, TypeOK
  <2>2. \/ pc' = pc /\ job' = job
        \/ pc' = [pc EXCEPT !["loop"] = "asked"] /\ job' = [job EXCEPT !["loop"] = t]
    BY DEF Take, Go
  <2>3. /\ pc' \in [Actors -> States] /\ pc'["loop"] \in {"pass", "asked"}
        /\ job' \in [Actors -> Tasks \cup {NoTask}]
    <3>1. "loop" \in Actors /\ "asked" \in States
      BY DEF Actors, States
    <3>2. CASE pc' = pc /\ job' = job
      BY ONLY <2>1, <3>2
    <3>3. CASE pc' = [pc EXCEPT !["loop"] = "asked"] /\ job' = [job EXCEPT !["loop"] = t]
      BY ONLY <2>1, <3>1, <3>3, t \in Tasks
    <3>4. QED  BY <2>2, <3>2, <3>3
  <2>4. QED  BY <2>1, <2>3
<1>2. /\ owed' \in [Tasks -> SUBSET Nat] /\ \A u \in Tasks \ {t} : owed'[u] = owed[u]
  BY DEF Take, SInv, TypeOK
<1>3. CASE starts' = starts
  <2>1. TypeOK' /\ Past' /\ OccurrencesOnce'
    BY <1>1, <1>2, <1>3 DEF SInv, TypeOK, Past, OccurrencesOnce, MinuteOf
  <2>2. AtWork' /\ Asleep'
    BY <1>1, <1>3 DEF SInv, AtWork, Asleep, Over, MinuteOf
  <2>3. Owing'
    BY <1>1, <1>2, <1>3 DEF SInv, Owing, LostAfter, MinuteOf
  <2>4. clock <= clock'
    BY <1>1
  <2>5. Configs' /\ Records'
    BY <1>1, <1>3, <2>4, Unsaved
  <2>6. QED  BY <2>1, <2>2, <2>3, <2>5 DEF SInv
<1>4. CASE /\ t \in DOMAIN memory.tasks /\ Go("loop", "asked") /\ job' = [job EXCEPT !["loop"] = t]
           /\ starts' = [starts EXCEPT ![t] = Append(@, new)]
  <2>1. new \in Started /\ starts[t] \in Seq(Started)
    BY <1>1 DEF SInv, TypeOK, Started
  <2>2. /\ starts'[t] = Append(starts[t], new) /\ \A u \in Tasks \ {t} : starts'[u] = starts[u]
        /\ starts' \in [Tasks -> Seq(Started)]
    BY <1>4, <2>1, Appended DEF SInv, TypeOK
  <2>3. /\ n \in Nat /\ Len(starts'[t]) = n + 1
        /\ DOMAIN starts[t] = 1..n /\ DOMAIN starts'[t] = 1..(n + 1)
        /\ \A i \in 1..n : starts'[t][i] = starts[t][i]
        /\ starts'[t][n + 1] = new
    BY <2>1, <2>2, Appended
  <2>4. pc'["loop"] = "asked" /\ job'["loop"] = t
    BY <1>4 DEF Go, SInv, TypeOK, Actors
  <2> HIDE DEF n, new
  <2>5. TypeOK'
    <3>1. \A u \in Tasks : \A l \in lost[u] : l \in Nat /\ l <= Len(starts[u])
      BY DEF SInv, TypeOK
    <3>2. \A l \in lost[t] : l <= Len(starts'[t])
      BY <2>3, <3>1 DEF n
    <3>3. QED  BY <1>1, <1>2, <2>2, <3>1, <3>2 DEF SInv, TypeOK
  <2>6. AtWork' /\ Asleep'
    <3>1. \A u \in todo' \cap Tasks : starts'[u] = starts[u] /\ u \in todo
      BY <1>1, <2>2
    <3>2. QED  BY <1>1, <2>4, <3>1 DEF SInv, AtWork, Asleep, Over, MinuteOf
  <2>7. Owing'
    <3>1. \A u \in todo' \cap Tasks : starts'[u] = starts[u] /\ owed'[u] = owed[u] /\ u \in todo
      BY <1>1, <1>2, <2>2
    <3>2. QED  BY <1>1, <3>1 DEF SInv, Owing, LostAfter, MinuteOf
  <2>8. Past'
    <3>1. new.at = clock /\ \A m \in new.for : m <= MinuteOf(clock)
      BY <1>1 DEF new, SInv, AtWork, Owing
    <3>2. \A i \in 1..n : starts[t][i].at <= clock /\ \A m \in starts[t][i].for : m <= MinuteOf(starts[t][i].at)
      BY <2>3 DEF SInv, Past
    <3>3. clock <= clock
      BY <1>1
    <3>4. \A i \in 1..(n + 1) : i \in 1..n \/ i = n + 1
      BY <2>3
    <3>5. \A i \in DOMAIN starts'[t] :
            starts'[t][i].at <= clock /\ \A m \in starts'[t][i].for : m <= MinuteOf(starts'[t][i].at)
      BY <2>3, <3>1, <3>2, <3>3, <3>4
    <3>6. QED  BY <1>1, <2>2, <3>5 DEF SInv, Past, MinuteOf
  <2>9. Configs'
    <3>1. t \in ids
      BY <1>4 DEF SInv, Configs, IsConfig
    <3>2. QED  BY <1>1, <2>2, <3>1 DEF SInv, Configs, IsConfig, settingsVars, Waiting
  <2>10. Records'
    <3>1. ASSUME NEW u \in Tasks, NEW i \in DOMAIN starts[u] PROVE
             LostAfter(u, i) \/ \A v \in {memory, file} : Noted(v, u, starts[u][i].at)
      BY <1>1 DEF SInv, Records, Kept, UnderWay
    <3>2. ASSUME NEW u \in Tasks, NEW i \in DOMAIN starts'[u] PROVE Kept(u, i)'
      <4>1. CASE u = t /\ i = n + 1
        BY <2>3, <2>4, <4>1 DEF Kept, UnderWay
      <4>2. CASE ~(u = t /\ i = n + 1)
        <5>1. i \in DOMAIN starts[u] /\ starts'[u][i] = starts[u][i]
          BY <2>2, <2>3, <3>2, <4>2
        <5>2. QED  BY <1>1, <3>1, <5>1 DEF Kept, LostAfter, Noted, settingsVars
      <4>3. QED  BY <4>1, <4>2
    <3>3. QED  BY <3>2 DEF Records
  <2>11. OccurrencesOnce'
    <3> DEFINE Apart(x, y, i, j) ==
                 /\ ~y.late => x.at + Minute <= y.at
                 /\ x.for \cap y.for # {} => y.late /\ \E l \in lost[t] : i <= l /\ l < j
    <3>1. ASSUME NEW i \in 1..n PROVE Apart(starts[t][i], new, i, n + 1)
      <4>1. new.at = clock /\ (new.late <=> pass = 0) /\ new.for = (IF pass = 0 THEN owed[t] ELSE {pass})
        BY DEF new
      <4>2. CASE pass # 0
        <5>1. starts[t][i].at + Minute <= clock /\ \A m \in starts[t][i].for : m < pass
          BY <1>1, <2>3, <4>2 DEF SInv, AtWork, Over
        <5>2. starts[t][i].for \subseteq Nat
          BY <2>3, StartType DEF SInv
        <5>3. QED  BY <1>1, <4>1, <4>2, <5>1, <5>2
      <4>3. CASE pass = 0
        <5>1. starts[t][i].for \cap owed[t] # {} => \E l \in lost[t] : i <= l
          BY <1>1, <2>3, <4>3 DEF SInv, Owing, LostAfter
        <5>2. \A l \in lost[t] : l \in Nat /\ l <= n
          BY DEF n, SInv, TypeOK
        <5>3. QED  BY <2>3, <4>1, <4>3, <5>1, <5>2
      <4>4. QED  BY <4>2, <4>3
    <3>2. ASSUME NEW i \in 1..n, NEW j \in 1..n, i < j PROVE Apart(starts[t][i], starts[t][j], i, j)
      BY <2>3, <3>2 DEF SInv, OccurrencesOnce
    <3> HIDE DEF Apart
    <3>3. ASSUME NEW i \in DOMAIN starts'[t], NEW j \in DOMAIN starts'[t], i < j
          PROVE  Apart(starts'[t][i], starts'[t][j], i, j)
      <4>1. i \in 1..n /\ (j \in 1..n \/ j = n + 1)
        BY <2>3, <3>3
      <4>2. QED  BY <2>3, <3>1, <3>2, <3>3, <4>1
    <3> USE DEF Apart
    <3>4. QED  BY <1>1, <2>2, <3>3 DEF SInv, OccurrencesOnce
  <2>12. QED  BY <2>5, <2>6, <2>7, <2>8, <2>9, <2>10, <2>11 DEF SInv
<1>5. QED  BY <1>3, <1>4 DEF Take

-----------------------------------------------------------------------------
(* The end of a run, and the steps of the others *)

LEMMA Answering ==
  ASSUME SInv, NEW a \in Actors, Answered(a)
  PROVE  SInv'
<1> DEFINE t   == job[a]
           new == Ran(memory, t)
<1>1. /\ UNCHANGED <<clock, starts, ids, owed, loopVars>> /\ pc[a] = "asked"
      /\ pc' = [pc EXCEPT ![a] = IF a = "loop" THEN "pass" ELSE "idle"]
      /\ job' = [job EXCEPT ![a] = NoTask]
      /\ clock \in Nat
  BY DEF Answered, Go, SInv, TypeOK
<1>2. /\ lost' \in [Tasks -> SUBSET Nat]
      /\ \A u \in Tasks : lost[u] \subseteq lost'[u] /\ \A l \in lost'[u] : l <= Len(starts[u])
      /\ \A u \in Tasks : a = "loop" /\ u = t /\ ~Recorded(t) /\ starts[u] # <<>> => Len(starts[u]) \in lost'[u]
  BY LoseEffect DEF Answered, SInv
<1>3. /\ pc' \in [Actors -> States] /\ job' \in [Actors -> Tasks \cup {NoTask}]
      /\ pc'["loop"] = IF a = "loop" THEN "pass" ELSE pc["loop"]
      /\ job'["loop"] = IF a = "loop" THEN NoTask ELSE job["loop"]
  BY <1>1 DEF SInv, TypeOK, Actors, States
<1>4. TypeOK'
  BY <1>1, <1>2, <1>3 DEF SInv, TypeOK, loopVars
<1>5. Asleep' /\ AtWork' /\ Past' /\ Owing' /\ OccurrencesOnce'
  <2>1. clock <= clock'
    BY <1>1
  <2>2. QED  BY <1>1, <1>2, <1>3, <1>4, <2>1, Calm DEF loopVars
<1>6. /\ Follows(new) /\ Save(new)
      /\ t \in DOMAIN memory.tasks => new.tasks[t].last_run = clock
      /\ DOMAIN new.tasks = DOMAIN memory.tasks
  BY <1>1, RanFollows DEF Answered
<1> HIDE DEF new
<1>7. /\ Configs'
      /\ \A u \in Tasks : \A i \in DOMAIN starts[u] :
           (\A v \in {memory, file} : Noted(v, u, starts[u][i].at))
             => \A v \in {memory', file'} : Noted(v, u, starts[u][i].at)
  BY <1>1, <1>6, Saving
<1>8. ASSUME NEW u \in Tasks, NEW i \in DOMAIN starts[u] PROVE Kept(u, i)'
  <2>1. CASE LostAfter(u, i)
    BY <1>2, <2>1 DEF Kept, LostAfter
  <2>2. CASE \A v \in {memory, file} : Noted(v, u, starts[u][i].at)
    BY <1>1, <1>7, <2>2 DEF Kept, Noted
  <2>3. CASE UnderWay(u, i) /\ a # "loop"
    BY <1>1, <1>3, <2>3 DEF Kept, UnderWay
  <2>4. CASE UnderWay(u, i) /\ a = "loop" /\ ~Recorded(t)
    <3>1. u = t /\ i = Len(starts[u]) /\ starts[u] # <<>> /\ i \in Nat
      BY <1>8, <2>4 DEF UnderWay, SInv, TypeOK
    <3>2. QED  BY <1>1, <1>2, <2>4, <3>1 DEF Kept, LostAfter
  <2>5. CASE UnderWay(u, i) /\ a = "loop" /\ Recorded(t)
    <3>1. u = t /\ starts[u][i].at <= clock
      BY <1>8, <2>5 DEF UnderWay, SInv, Past
    <3>2. \A v \in {memory', file'} : Noted(v, u, starts[u][i].at)
      BY <2>5, <3>1 DEF Recorded, Noted
    <3>3. QED  BY <1>1, <3>2 DEF Kept, Noted
  <2>6. QED  BY <1>8, <2>1, <2>2, <2>3, <2>4, <2>5 DEF SInv, Records, Kept
<1>9. Records'
  BY <1>1, <1>8 DEF Records
<1>10. QED  BY <1>4, <1>5, <1>7, <1>9 DEF SInv

(* A step of the user or the watcher that leaves the loop alone.           *)
LEMMA Beside ==
  ASSUME SInv, UNCHANGED <<clock, pc, job, loopVars, owed, starts>>,
         lost' \in [Tasks -> SUBSET Nat],
         \A u \in Tasks : lost[u] \subseteq lost'[u] /\ \A l \in lost'[u] : l <= Len(starts[u]),
         Configs',
         \A u \in Tasks : \A i \in DOMAIN starts[u] :
           (\A v \in {memory, file} : Noted(v, u, starts[u][i].at))
             => \/ \E l \in lost'[u] : i <= l
                \/ \A v \in {memory', file'} : Noted(v, u, starts[u][i].at)
  PROVE  SInv'
<1>1. TypeOK' /\ clock \in Nat /\ clock <= clock'
  BY DEF SInv, TypeOK, loopVars
<1>2. Asleep' /\ AtWork' /\ Past' /\ Owing' /\ OccurrencesOnce'
  BY <1>1, Calm DEF loopVars
<1>3. ASSUME NEW u \in Tasks, NEW i \in DOMAIN starts[u] PROVE Kept(u, i)'
  <2>1. Kept(u, i)
    BY <1>3 DEF SInv, Records
  <2>2. CASE LostAfter(u, i)
    BY <2>2 DEF Kept, LostAfter
  <2>3. CASE UnderWay(u, i)
    BY <2>3 DEF Kept, UnderWay
  <2>4. CASE \A v \in {memory, file} : Noted(v, u, starts[u][i].at)
    BY <1>3, <2>4 DEF Kept, LostAfter, Noted
  <2>5. QED  BY <2>1, <2>2, <2>3, <2>4 DEF Kept
<1>4. Records'
  BY <1>3 DEF Records
<1>5. QED  BY <1>1, <1>2, <1>4 DEF SInv

LEMMA Commanding ==
  ASSUME SInv, Update \/ EditByHand \/ \E t \in Tasks : AddTask(t)
  PROVE  SInv'
<1>0. /\ UNCHANGED <<clock, pc, job, loopVars, owed, starts, lost>>
      /\ lost \in [Tasks -> SUBSET Nat] /\ \A u \in Tasks : \A l \in lost[u] : l <= Len(starts[u])
      /\ IsConfig(memory) /\ IsConfig(file) /\ clock \in Nat
  BY DEF Update, EditByHand, AddTask, Issue, history, SInv, TypeOK, Configs
<1>1. ASSUME NEW new, Follows(new), Save(new), ids \subseteq ids' PROVE SInv'
  BY <1>0, <1>1, Saving, Beside
<1>2. CASE Update
  <2>1. PICK new \in Updates(memory) : Save(new)
    BY <1>2 DEF Update
  <2>2. Follows(new) /\ ids' = ids
    <3>1. /\ new \in [enabled : BOOLEAN, tasks : [DOMAIN new.tasks -> Row]]
          /\ DOMAIN new.tasks \subseteq DOMAIN memory.tasks
          /\ \A t \in DOMAIN new.tasks : new.tasks[t].last_run = memory.tasks[t].last_run
      BY <1>0, <2>1, UpdatesKeep
    <3>2. ids' = ids
      BY <1>2 DEF Update
    <3>3. \A t \in DOMAIN memory.tasks : memory.tasks[t].last_run \in Nat /\ memory.tasks[t].last_run <= memory.tasks[t].last_run
      BY <1>0 DEF IsConfig, Row
    <3>4. QED  BY <1>0, <3>1, <3>2, <3>3 DEF Follows, IsConfig
  <2>3. QED  BY <1>1, <2>1, <2>2
<1>3. ASSUME NEW t \in Tasks, AddTask(t) PROVE SInv'
  <2> DEFINE new == With(memory, t, Row0)
  <2>1. t \notin ids /\ ids' = ids \cup {t} /\ Save(new)
    BY <1>3 DEF AddTask
  <2>2. /\ Row0 \in Row /\ Row0.last_run = 0
    BY DEF Row0, Row
  <2>3. /\ new \in [enabled : BOOLEAN, tasks : [DOMAIN memory.tasks \cup {t} -> Row]]
        /\ \A u \in DOMAIN memory.tasks \cup {t} : new.tasks[u] = IF u = t THEN Row0 ELSE memory.tasks[u]
    BY <1>0, <2>2 DEF With, IsConfig
  <2>4. \A u \in DOMAIN memory.tasks : memory.tasks[u].last_run \in Nat /\ memory.tasks[u].last_run <= memory.tasks[u].last_run
    BY <1>0 DEF IsConfig, Row
  <2> HIDE DEF new
  <2>5. DOMAIN new.tasks = DOMAIN memory.tasks \cup {t} /\ ids' \subseteq Tasks
    BY <1>0, <2>1, <2>3 DEF IsConfig
  <2>6. Follows(new)
    BY <1>0, <2>1, <2>2, <2>3, <2>4, <2>5 DEF Follows, IsConfig
  <2>7. QED  BY <1>1, <2>1, <2>6
<1>4. CASE EditByHand
  <2>1. PICK new \in Updates(file) : EditFile(new)
    BY <1>4 DEF EditByHand
  <2>2. /\ new \in [enabled : BOOLEAN, tasks : [DOMAIN new.tasks -> Row]]
        /\ DOMAIN new.tasks \subseteq DOMAIN file.tasks
        /\ \A t \in DOMAIN new.tasks : new.tasks[t].last_run = file.tasks[t].last_run
    BY <1>0, <2>1, UpdatesKeep
  <2>3. file' = new /\ memory' = memory /\ loaded' = loaded /\ Waiting' = Waiting /\ ids' = ids
    BY <1>4, <2>1 DEF EditByHand, EditFile, Waiting
  <2>4. IsConfig(new)
    BY <1>0, <2>2 DEF IsConfig
  <2>5. Configs'
    BY <1>0, <2>3, <2>4 DEF SInv, Configs, IsConfig
  <2>6. \A u \in Tasks : \A at : Noted(file, u, at) => Noted(new, u, at)
    BY <2>2 DEF Noted
  <2>7. QED  BY <1>0, <2>3, <2>5, <2>6, Beside
<1>5. QED  BY <1>2, <1>3, <1>4

LEMMA Watching ==
  ASSUME SInv, Watcher
  PROVE  SInv'
<1>1. /\ UNCHANGED <<clock, pc, job, loopVars, ids, owed, starts>>
      /\ lost' \in [Tasks -> SUBSET Nat]
      /\ \A u \in Tasks : lost[u] \subseteq lost'[u] /\ \A l \in lost'[u] : l <= Len(starts[u])
      /\ \A u \in Tasks : u \in SetBack /\ starts[u] # <<>> => Len(starts[u]) \in lost'[u]
      /\ IsConfig(memory) /\ IsConfig(file)
  BY LoseEffect DEF Watcher, SInv, Configs
<1>2. ASSUME NEW r \in Reloads, Load(r) PROVE SInv'
  <2>1. memory' = memory /\ file' = file /\ Waiting' = Waiting \cup {r}
        /\ \A x \in Waiting' : loaded'[x] \in {file} \/ (x \in Waiting /\ loaded'[x] = loaded[x])
    BY <1>2 DEF Load, Waiting
  <2>2. Configs'
    BY <1>1, <2>1 DEF SInv, Configs, IsConfig
  <2>3. QED  BY <1>1, <2>1, <2>2, Beside
<1>3. ASSUME NEW r \in Reloads, Reload(r) PROVE SInv'
  <2>1. /\ memory' = loaded[r] /\ file' = file /\ Waiting' = Waiting \ {r} /\ r \in Waiting
        /\ \A x \in Waiting' : loaded'[x] = loaded[x]
    BY <1>3 DEF Reload, Waiting
  <2>2. IsConfig(loaded[r])
    BY <2>1 DEF SInv, Configs
  <2>3. Configs'
    BY <1>1, <2>1, <2>2 DEF SInv, Configs, IsConfig
  <2>4. ASSUME NEW u \in Tasks, NEW i \in DOMAIN starts[u], Noted(memory, u, starts[u][i].at)
        PROVE  (\E l \in lost'[u] : i <= l) \/ Noted(memory', u, starts[u][i].at)
    <3>1. i \in 1..Len(starts[u]) /\ starts[u] # <<>> /\ Len(starts[u]) \in Nat /\ starts[u][i].at \in Nat
      BY <2>4, StartType DEF SInv
    <3>2. CASE u \in SetBack
      BY <1>1, <3>1, <3>2
    <3>3. CASE u \notin SetBack
      <4>1. SUFFICES ASSUME u \in DOMAIN memory'.tasks PROVE starts[u][i].at <= memory'.tasks[u].last_run
        BY DEF Noted
      <4>2. u \in DOMAIN memory.tasks /\ ~(memory'.tasks[u].last_run < memory.tasks[u].last_run)
        BY <3>3, <4>1 DEF SetBack
      <4>3. memory'.tasks[u].last_run \in Nat /\ memory.tasks[u].last_run \in Nat
        BY <1>1, <2>1, <2>2, <4>1, <4>2 DEF IsConfig, Row
      <4>4. starts[u][i].at <= memory.tasks[u].last_run
        BY <2>4, <4>2 DEF Noted
      <4>5. QED  BY <3>1, <4>2, <4>3, <4>4
    <3>4. QED  BY <3>2, <3>3
  <2>5. QED  BY <1>1, <2>1, <2>3, <2>4, Beside
<1>4. QED  BY <1>2, <1>3 DEF Watcher

(* The program ends, and starts again.                                     *)
LEMMA Restarting ==
  ASSUME SInv, Stop \/ StartUp
  PROVE  SInv'
<1>1. /\ UNCHANGED <<clock, starts, ids>> /\ memory' = file /\ file' = file /\ Waiting' = {}
      /\ clock \in Nat /\ pc \in [Actors -> States] /\ job \in [Actors -> Tasks \cup {NoTask}]
  BY DEF Stop, StartUp, Forget, history, SInv, TypeOK, Waiting
<1>2. /\ lost' \in [Tasks -> SUBSET Nat]
      /\ \A u \in Tasks : lost[u] \subseteq lost'[u] /\ \A l \in lost'[u] : l <= Len(starts[u])
      /\ \A u \in Tasks : pc["loop"] = "asked" /\ u = job["loop"] /\ starts[u] # <<>> => Len(starts[u]) \in lost'[u]
  <2>1. CASE Stop
    BY <2>1, LoseEffect DEF Stop, SInv
  <2>2. CASE StartUp
    BY <2>2 DEF StartUp, Up, history, SInv, TypeOK
  <2>3. QED  BY <2>1, <2>2
<1>3. /\ pc' \in [Actors -> States] /\ pc'["loop"] \in {"down", "start"}
      /\ job' \in [Actors -> Tasks \cup {NoTask}]
  <2>1. CASE Stop
    <3>1. pc' = [a \in Actors |-> IF a = "loop" THEN "down" ELSE "idle"] /\ job' = [a \in Actors |-> NoTask]
      BY <2>1 DEF Stop
    <3>2. QED  BY ONLY <3>1 DEF Actors, States
  <2>2. CASE StartUp
    <3>1. pc' = [pc EXCEPT !["loop"] = "start"] /\ job' = job
      BY <2>2 DEF StartUp, Go
    <3>2. QED  BY ONLY <1>1, <3>1 DEF Actors, States
  <2>3. QED  BY <2>1, <2>2
<1>4. wake' \in Nat /\ pass' \in Nat /\ owed' \in [Tasks -> SUBSET Nat]
  BY DEF Stop, StartUp, SInv, TypeOK, loopVars, history
<1>5. TypeOK' /\ clock <= clock'
  BY <1>1, <1>2, <1>3, <1>4 DEF SInv, TypeOK
<1>6. Asleep' /\ AtWork' /\ Past' /\ Owing' /\ OccurrencesOnce'
  BY <1>1, <1>2, <1>3, <1>5, Calm
<1>7. Configs'
  BY <1>1 DEF SInv, Configs, IsConfig
<1>8. ASSUME NEW u \in Tasks, NEW i \in DOMAIN starts[u] PROVE Kept(u, i)'
  <2>1. Kept(u, i)
    BY <1>8 DEF SInv, Records
  <2>2. CASE LostAfter(u, i)
    BY <1>2, <2>2 DEF Kept, LostAfter
  <2>3. CASE UnderWay(u, i)
    <3>1. starts[u] # <<>> /\ i \in Nat
      BY <1>8 DEF SInv, TypeOK
    <3>2. Len(starts[u]) \in lost'[u] /\ i = Len(starts[u])
      BY <1>2, <2>3, <3>1 DEF UnderWay
    <3>3. QED  BY <3>1, <3>2 DEF Kept, LostAfter
  <2>4. CASE \A v \in {memory, file} : Noted(v, u, starts[u][i].at)
    BY <1>1, <2>4 DEF Kept, Noted
  <2>5. QED  BY <2>1, <2>2, <2>3, <2>4 DEF Kept
<1>9. Records'
  BY <1>1, <1>8 DEF Records
<1>10. QED  BY <1>5, <1>6, <1>7, <1>9 DEF SInv

-----------------------------------------------------------------------------
(* The invariant *)

LEMMA InitSInv == Init => SInv
<1> SUFFICES ASSUME Init PROVE SInv
  OBVIOUS
<1>1. pc \in [Actors -> States] /\ pc["loop"] = "start" /\ job \in [Actors -> Tasks \cup {NoTask}]
  <2>1. pc = [a \in Actors |-> IF a = "loop" THEN "start" ELSE "idle"] /\ job = [a \in Actors |-> NoTask]
    BY DEF Init
  <2>2. QED  BY ONLY <2>1 DEF Actors, States
<1>2. /\ \A t \in Tasks : starts[t] = <<>> /\ lost[t] = {} /\ owed[t] = {}
      /\ starts \in [Tasks -> Seq(Started)] /\ lost \in [Tasks -> SUBSET Nat] /\ owed \in [Tasks -> SUBSET Nat]
      /\ clock = Minute /\ Minute \in Nat /\ wake = 0 /\ pass = 0
  BY SchedulerAssumption DEF Init
<1>3. TypeOK
  <2>1. Minute <= clock
    BY <1>2
  <2>2. QED  BY <1>1, <1>2, <2>1 DEF TypeOK
<1>4. Configs
  <2>1. /\ memory = FirstConfig /\ file = FirstConfig /\ Waiting = {} /\ ids = Given
    BY DEF Init, SettingsInit, Waiting
  <2>2. /\ FirstConfig \in [enabled : BOOLEAN, tasks : [Given -> Row]]
        /\ \A t \in Given : FirstConfig.tasks[t].last_run = 0
    BY DEF FirstConfig, Row0, Row
  <2>3. DOMAIN FirstConfig.tasks = Given /\ 0 <= clock
    BY <1>2, <2>2
  <2>4. IsConfig(FirstConfig)
    BY <2>1, <2>2, <2>3, SchedulerAssumption DEF IsConfig
  <2>5. QED  BY <1>2, <2>1, <2>4 DEF Configs
<1>5. QED  BY <1>1, <1>2, <1>3, <1>4 DEF SInv, Asleep, AtWork, Past, Records, Owing, OccurrencesOnce

LEMMA NextSInv ==
  ASSUME SInv, [Next]_vars
  PROVE  SInv'
<1>1. ASSUME LoopStep PROVE SInv'
  <2>1. ASSUME PassEnds PROVE SInv'
    BY <2>1, FallsAsleep DEF PassEnds, history
  <2>2. "loop" \in Actors
    BY DEF Actors
  <2>3. QED  BY <1>1, <2>1, <2>2, Missing, Waking, Taking, Answering DEF LoopStep
<1>2. ASSUME NEW c \in Callers, NEW t \in Tasks, Trigger(c, t) PROVE SInv'
  <2>1. /\ UNCHANGED <<clock, starts, lost, owed, loopVars, settingsVars, ids>>
        /\ pc' \in [Actors -> States] /\ job' \in [Actors -> Tasks \cup {NoTask}]
        /\ pc'["loop"] = pc["loop"] /\ job'["loop"] = job["loop"] /\ clock \in Nat /\ clock <= clock'
    BY <1>2, SchedulerAssumption DEF Trigger, Issue, history, Go, SInv, TypeOK, Actors, States
  <2>2. TypeOK'
    BY <2>1 DEF SInv, TypeOK, loopVars
  <2>3. QED  BY <2>1, <2>2, Calm, Unsaved DEF SInv, loopVars
<1>3. ASSUME Tick PROVE SInv'
  <2>1. /\ UNCHANGED <<starts, lost, owed, loopVars, settingsVars, ids, pc, job>>
        /\ clock' = clock + 1 /\ clock \in Nat /\ clock' \in Nat /\ clock <= clock'
    BY <1>3 DEF Tick, history, SInv, TypeOK
  <2>2. TypeOK'
    BY <2>1, SchedulerAssumption DEF SInv, TypeOK, loopVars
  <2>3. QED  BY <2>1, <2>2, Calm, Unsaved DEF SInv, loopVars
<1>4. ASSUME UNCHANGED vars PROVE SInv'
  <2>1. /\ UNCHANGED <<starts, lost, owed, loopVars, settingsVars, ids, pc, job, clock>>
        /\ clock \in Nat /\ clock <= clock'
    BY <1>4 DEF vars, history, SInv, TypeOK
  <2>2. TypeOK'
    BY <2>1 DEF SInv, TypeOK, loopVars
  <2>3. QED  BY <2>1, <2>2, Calm, Unsaved DEF SInv, loopVars
<1>5. ASSUME NEW c \in Callers, Answered(c) PROVE SInv'
  <2>1. c \in Actors
    BY DEF Actors
  <2>2. QED  BY <1>5, <2>1, Answering
<1>6. QED  BY <1>1, <1>2, <1>3, <1>4, <1>5, Commanding, Watching, Restarting DEF Next

(* A regular start comes a minute after every other, and an occurrence is  *)
(* started twice only by a catch-up and after a record was lost.           *)
THEOREM OccursOnce == Spec => []OccurrencesOnce
<1>1. SInv => OccurrencesOnce  BY DEF SInv
<1>2. QED  BY <1>1, InitSInv, NextSInv, PTL DEF Spec

-----------------------------------------------------------------------------
(* The configuration *)

LEMMA SaveKeeps ==
  ASSUME SettingsInv, NEW new, Save(new)
  PROVE  SettingsInv'
BY DEF SettingsInv, Save, Waiting

LEMMA WatcherKeeps ==
  ASSUME SettingsInv, NEW r \in Reloads, Load(r) \/ Reload(r)
  PROVE  SettingsInv'
<1>1. CASE Load(r)
  <2>1. /\ Waiting' = Waiting \cup {r} /\ loaded'[r] = file /\ r \notin Waiting
        /\ \A x \in Waiting : loaded'[x] = loaded[x]
    BY <1>1 DEF Load, Waiting
  <2>2. QED  BY <1>1, <2>1 DEF SettingsInv, Load
<1>2. CASE Reload(r)
  <2>1. /\ Waiting' = Waiting \ {r} /\ r \in Waiting
        /\ \A x \in Waiting \ {r} : loaded'[x] = loaded[x]
    BY <1>2 DEF Reload, Waiting
  <2>2. QED  BY <1>2, <2>1 DEF SettingsInv, Reload
<1>3. QED  BY <1>1, <1>2

LEMMA NextSettingsInv ==
  ASSUME SettingsInv, [Next]_vars
  PROVE  SettingsInv'
<1>1. ASSUME UNCHANGED settingsVars PROVE SettingsInv'
  BY <1>1 DEF SettingsInv, settingsVars, Waiting
<1>2. ASSUME NEW a, Answered(a) PROVE SettingsInv'
  BY <1>2, SaveKeeps DEF Answered
<1>3. ASSUME Update \/ \E t \in Tasks : AddTask(t) PROVE SettingsInv'
  BY <1>3, SaveKeeps DEF Update, AddTask
<1>4. ASSUME EditByHand PROVE SettingsInv'
  BY <1>4 DEF EditByHand, EditFile, SettingsInv, Waiting
<1>5. ASSUME Stop \/ StartUp PROVE SettingsInv'
  BY <1>5 DEF Stop, StartUp, Forget, SettingsInv, Waiting
<1>6. ASSUME Watcher PROVE SettingsInv'
  BY <1>6, WatcherKeeps DEF Watcher
<1>7. ASSUME \/ check_missed_tasks \/ Wake \/ PassEnds \/ Tick \/ UNCHANGED vars
             \/ \E t \in Tasks : Take(t) \/ \E c \in Callers : Trigger(c, t)
      PROVE  SettingsInv'
  BY <1>1, <1>7 DEF check_missed_tasks, Wake, PassEnds, Tick, vars, Take, Trigger, settingsVars
<1>8. QED  BY <1>2, <1>3, <1>4, <1>5, <1>6, <1>7 DEF Next, LoopStep

(* Memory and file agree when the watcher has nothing to do, unless two    *)
(* reloads have waited for the lock at once (config.rs:2159).              *)
THEOREM MemoryAgrees == Spec => []AgreeWhenQuiet
<1>1. Init => SettingsInv
  BY DEF Init, SettingsInit, SettingsInv, Waiting
<1>2. SettingsInv => AgreeWhenQuiet
  BY DEF SettingsInv, AgreeWhenQuiet
<1>3. QED  BY <1>1, <1>2, NextSettingsInv, PTL DEF Spec
=============================================================================
