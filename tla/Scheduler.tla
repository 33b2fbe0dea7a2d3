----------------------------- MODULE Scheduler -----------------------------
(***************************************************************************)
(* Scheduled tasks (scheduler.rs, commands/scheduler_cmds.rs) over the     *)
(* configuration that holds them.                                          *)
(*                                                                         *)
(* The loop looks for missed tasks when the program starts; then it sleeps *)
(* for a minute, takes the tasks that are due in the minute it finds, runs *)
(* them one after the other, and sleeps for a minute again.  Commands and  *)
(* webhooks run tasks too, beside it.  What is to be run is decided once,  *)
(* from the configuration and the time at the beginning of a pass.         *)
(***************************************************************************)
EXTENDS Settings, Integers, Sequences

CONSTANTS
  Tasks,       \* ids, each given once
  Callers,     \* runs asked for by a command or a webhook
  Minute,      \* how many units of time a minute has
  Occurs,      \* the minutes a task's schedule names
  Cron,        \* the tasks with a cron expression
  Period,      \* the minutes between the others' occurrences
  Given,       \* the tasks of the configuration at the start
  NoTask,
  End, MaxEdits, MaxStops   \* bounds

ASSUME SchedulerAssumption ==
  /\ Minute \in Nat \ {0}
  /\ Occurs \in [Tasks -> SUBSET Nat] /\ Period \in [Tasks -> Nat]
  /\ Given \subseteq Tasks /\ Cron \subseteq Tasks
  /\ "loop" \notin Callers /\ NoTask \notin Tasks
  /\ End \in Nat /\ MaxEdits \in Nat /\ MaxStops \in Nat

VARIABLES
  clock,
  pc,       \* where the loop and the other runs are
  job,      \* the task each of them runs
  wake,     \* when the sleep of the loop is over
  pass,     \* the minute whose tasks it runs, 0 for the missed ones
  todo,     \* those it has still to run
  ids,      \* the ids given
  edits, stops,
  owed,     \* history: the occurrences the missed tasks are run for
  starts,   \* history: every start of a task by the loop, in order
  lost      \* history: after which of them a run's record failed or was undone

loopVars == <<wake, pass, todo>>
history == <<owed, starts, lost>>
vars == <<settingsVars, clock, pc, job, loopVars, ids, edits, stops, history>>

Actors == {"loop"} \cup Callers
Row == [enabled : BOOLEAN, run_if_missed : BOOLEAN, last_run : Nat]   \* 0: never
Config == [enabled : BOOLEAN, tasks : UNION {[S -> Row] : S \in SUBSET Tasks}]

MinuteOf(time) == time \div Minute
Up == pc["loop"] # "down"
Go(a, p) == pc' = [pc EXCEPT ![a] = p]
Row0 == [enabled |-> TRUE, run_if_missed |-> FALSE, last_run |-> 0]

FirstConfig ==
  [enabled |-> TRUE, tasks |-> [t \in Given |-> [Row0 EXCEPT !.run_if_missed = TRUE]]]

Init ==
  /\ SettingsInit(FirstConfig)
  /\ clock = Minute
  /\ pc = [a \in Actors |-> IF a = "loop" THEN "start" ELSE "idle"]
  /\ job = [a \in Actors |-> NoTask]
  /\ wake = 0 /\ pass = 0 /\ todo = {}
  /\ ids = Given
  /\ edits = 0 /\ stops = 0
  /\ owed = [t \in Tasks |-> {}]
  /\ starts = [t \in Tasks |-> <<>>]
  /\ lost = [t \in Tasks |-> {}]

-----------------------------------------------------------------------------
(* What is due *)

should_run_now(row, t, now) ==
  /\ row.last_run = 0 \/ row.last_run + Minute <= now
  /\ MinuteOf(now) \in Occurs[t]

(* Mutant: the minute of the last run counts again. *)
IsNext_again(m, t, time) ==
  /\ m \in Occurs[t] /\ MinuteOf(time) <= m
  /\ \A n \in Occurs[t] : MinuteOf(time) <= n => m <= n

\* next_occurrence: the first minute the expression names after that one
IsNext(m, t, time) ==
  /\ m \in Occurs[t] /\ MinuteOf(time) < m
  /\ \A n \in Occurs[t] : MinuteOf(time) < n => m <= n

(* Mutant: an occurrence at this very time is not counted. *)
should_have_run_since_strict(t, last, now) ==
  IF t \in Cron THEN \E m \in Occurs[t] : IsNext(m, t, last) /\ m * Minute < now
  ELSE last + Period[t] * Minute <= now

\* Only cron expressions are looked at; for the others the time since the
\* last run decides.
should_have_run_since(t, last, now) ==
  IF t \in Cron THEN \E m \in Occurs[t] : IsNext(m, t, last) /\ m * Minute <= now
  ELSE last + Period[t] * Minute <= now

Enabled(config) == {t \in DOMAIN config.tasks : config.tasks[t].enabled}

Due(config, now) == {t \in Enabled(config) : should_run_now(config.tasks[t], t, now)}

Missed(config, now) ==
  {t \in Enabled(config) :
     LET row == config.tasks[t]
     IN  row.run_if_missed /\ row.last_run # 0 /\ should_have_run_since(t, row.last_run, now)}

\* The occurrences of a cron expression from the first that a catch-up is for.
Between(t, last, now) ==
  {m \in Occurs[t] : m <= MinuteOf(now) /\ \E n \in Occurs[t] : IsNext(n, t, last) /\ n <= m}

-----------------------------------------------------------------------------
(* The loop *)

Sleep == Go("loop", "asleep") /\ wake' = clock + Minute

check_missed_tasks ==
  /\ pc["loop"] = "start"
  /\ \/ /\ memory.enabled
        /\ pass' = 0 /\ todo' = Missed(memory, clock)
        /\ owed' = [t \in Tasks |-> IF t \in todo' \cap Cron
                                   THEN Between(t, memory.tasks[t].last_run, clock) ELSE {}]
        /\ Go("loop", "pass") /\ wake' = 0
     \/ ~memory.enabled /\ Sleep /\ UNCHANGED <<pass, todo, owed>>
  /\ UNCHANGED <<settingsVars, clock, job, ids, edits, stops, starts, lost>>

\* The sleep may take longer than a minute.
Wake ==
  /\ pc["loop"] = "asleep" /\ wake <= clock
  /\ \/ /\ memory.enabled
        /\ pass' = MinuteOf(clock) /\ todo' = Due(memory, clock)
        /\ Go("loop", "pass") /\ wake' = 0
     \/ ~memory.enabled /\ Sleep /\ UNCHANGED <<pass, todo>>
  /\ UNCHANGED <<settingsVars, clock, job, ids, edits, stops, history>>

\* The task may have been removed since.
Take(t) ==
  /\ pc["loop"] = "pass" /\ t \in todo
  /\ todo' = todo \ {t}
  /\ \/ /\ t \in DOMAIN memory.tasks
        /\ Go("loop", "asked") /\ job' = [job EXCEPT !["loop"] = t]
        /\ starts' = [starts EXCEPT ![t] =
                        Append(@, [for |-> IF pass = 0 THEN owed[t] ELSE {pass},
                                   at |-> clock, late |-> pass = 0])]
     \/ t \notin DOMAIN memory.tasks /\ UNCHANGED <<pc, job, starts>>
  /\ owed' = [owed EXCEPT ![t] = {}]
  /\ UNCHANGED <<settingsVars, clock, wake, pass, ids, edits, stops, lost>>

PassEnds ==
  /\ pc["loop"] = "pass" /\ todo = {}
  /\ Sleep /\ pass' = 0
  /\ UNCHANGED <<settingsVars, clock, job, todo, ids, edits, stops, history>>

-----------------------------------------------------------------------------
(* A run (execute_task), by the loop or somebody else *)

Ran(config, t) ==
  IF t \in DOMAIN config.tasks THEN [config EXCEPT !.tasks[t].last_run = clock] ELSE config

\* History: what the loop has run of these tasks has no record any more.
Lose(S) ==
  lost' = [t \in Tasks |-> IF t \in S /\ starts[t] # <<>> THEN lost[t] \cup {Len(starts[t])} ELSE lost[t]]

Recorded(t) == \A config \in {memory', file'} :
                 t \in DOMAIN config.tasks /\ config.tasks[t].last_run = clock

\* The answer has come, or an error, and the lock is free.
Answered(a) ==
  /\ pc[a] = "asked"
  /\ Save(Ran(memory, job[a]))
  /\ Go(a, IF a = "loop" THEN "pass" ELSE "idle") /\ job' = [job EXCEPT ![a] = NoTask]
  /\ Lose({t \in {job["loop"]} : a = "loop" /\ ~Recorded(t)})
  /\ UNCHANGED <<clock, loopVars, ids, edits, stops, owed, starts>>

-----------------------------------------------------------------------------
(* The user *)

Issue ==
  /\ edits < MaxEdits /\ edits' = edits + 1
  /\ UNCHANGED <<clock, loopVars, stops, history>>

Trigger(c, t) ==
  /\ Issue
  /\ Up /\ pc[c] = "idle" /\ t \in DOMAIN memory.tasks
  /\ Go(c, "asked") /\ job' = [job EXCEPT ![c] = t]
  /\ UNCHANGED <<settingsVars, ids>>

With(config, t, row) ==
  [config EXCEPT !.tasks = [x \in DOMAIN @ \cup {t} |-> IF x = t THEN row ELSE @[x]]]

Updates(config) ==
  {[config EXCEPT !.enabled = ~@]}
  \cup {[config EXCEPT !.tasks = [x \in DOMAIN @ \ {t} |-> @[x]]] : t \in DOMAIN config.tasks}
  \cup {With(config, t, [config.tasks[t] EXCEPT !.enabled = ~@]) : t \in DOMAIN config.tasks}
  \cup {With(config, t, [config.tasks[t] EXCEPT !.run_if_missed = ~@]) : t \in DOMAIN config.tasks}

\* set_scheduler_enabled, remove_scheduled_task and update_scheduled_task
Update ==
  /\ Issue /\ Up
  /\ \E new \in Updates(memory) : Save(new)
  /\ UNCHANGED <<pc, job, ids>>

AddTask(t) ==
  /\ Issue /\ Up
  /\ t \notin ids /\ ids' = ids \cup {t}
  /\ Save(With(memory, t, Row0))
  /\ UNCHANGED <<pc, job>>

\* By hand, whether or not the program runs.
EditByHand ==
  /\ Issue
  /\ \E new \in Updates(file) : EditFile(new)
  /\ UNCHANGED <<pc, job, ids>>

\* The program ends or dies, and is started again later.
Stop ==
  /\ Up /\ stops < MaxStops /\ stops' = stops + 1
  /\ pc' = [a \in Actors |-> IF a = "loop" THEN "down" ELSE "idle"]
  /\ Forget
  /\ job' = [a \in Actors |-> NoTask]
  /\ wake' = 0 /\ pass' = 0 /\ todo' = {}
  /\ owed' = [t \in Tasks |-> {}]
  /\ Lose({t \in {job["loop"]} : pc["loop"] = "asked"})
  /\ UNCHANGED <<clock, ids, edits, starts>>

StartUp ==
  /\ ~Up /\ Go("loop", "start")
  /\ Forget
  /\ UNCHANGED <<clock, job, loopVars, ids, edits, stops, history>>

\* A reload of an older file brings an older last_run with it.
SetBack ==
  {t \in DOMAIN memory'.tasks :
     t \in DOMAIN memory.tasks => memory'.tasks[t].last_run < memory.tasks[t].last_run}

Watcher ==
  /\ Up /\ \E r \in Reloads : Load(r) \/ Reload(r)
  /\ Lose(SetBack)
  /\ UNCHANGED <<clock, pc, job, loopVars, ids, edits, stops, owed, starts>>

Tick ==
  /\ clock < End /\ clock' = clock + 1
  /\ UNCHANGED <<settingsVars, pc, job, loopVars, ids, edits, stops, history>>

-----------------------------------------------------------------------------
LoopStep ==
  \/ check_missed_tasks \/ Wake \/ PassEnds \/ Answered("loop")
  \/ \E t \in Tasks : Take(t)

Next ==
  \/ LoopStep \/ Update \/ EditByHand \/ Stop \/ StartUp \/ Watcher \/ Tick
  \/ \E c \in Callers : Answered(c) \/ \E t \in Tasks : Trigger(c, t)
  \/ \E t \in Tasks : AddTask(t)

Spec == Init /\ [][Next]_vars
FairSpec == Spec /\ WF_vars(LoopStep)

-----------------------------------------------------------------------------
(* Properties *)

(* In a pass of its loop (scheduler.rs:392) the scheduler starts a task at *)
(* least a minute after every earlier start of it, whatever restarts and   *)
(* lost records there were: it rests on the sleep before the pass, not on  *)
(* last_run.  An occurrence is started for a second time only by the       *)
(* catch-up after a restart (scheduler.rs:505), and only if the record of  *)
(* the first run failed, was undone by a reload, or was cut off by the end *)
(* of the program, at some time between the two.                           *)
OccurrencesOnce ==
  \A t \in Tasks : \A i, j \in DOMAIN starts[t] : i < j =>
    LET x == starts[t][i]
        y == starts[t][j]
    IN  /\ ~y.late => x.at + Minute <= y.at
        /\ x.for \cap y.for # {} => y.late /\ \E l \in lost[t] : i <= l /\ l < j

WasMissed(t) ==
  /\ memory.enabled /\ t \in Enabled(memory)
  /\ LET row == memory.tasks[t]
     IN  row.run_if_missed /\ row.last_run # 0 /\
         \E m \in Occurs[t] : MinuteOf(row.last_run) < m /\ m * Minute <= clock

(* "Check for missed tasks that should have run while the app was closed"  *)
(* (scheduler.rs:504):                                                     *)
(* a task with a cron expression that was missed when the program starts   *)
(* is run, unless it is changed, or the program ended, before its turn.    *)
MissedAreCaughtUp ==
  \A t \in Cron :
    pc["loop"] = "start" /\ WasMissed(t)
      ~> \/ pc["loop"] = "asked" /\ job["loop"] = t
         \/ pc["loop"] = "down" \/ ~WasMissed(t)
=============================================================================
