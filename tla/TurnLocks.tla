----------------------------- MODULE TurnLocks -----------------------------
(* The two locks a turn of the tool loop takes: the configuration's, which *)
(* the whole program shares, and that of the history of its client         *)
(* (claude.rs).  ToolLoop models what the turns write under the second;    *)
(* here is who waits for whom.  A call is the sequence of what it does     *)
(* with the two locks; the guards it has not dropped go when it returns.   *)
EXTENDS Naturals, Sequences, SequencesExt

CONSTANTS Turns, Tasks, \* turns of one client, and tasks beside them
          MaxRequests   \* bound: the requests of a turn

Procs == Turns \cup Tasks
Locks == {"config", "history"}

VARIABLES reading, \* reading[l], writing[l]: those with a guard on l
          writing,
          queue,   \* queue[l]: those who wait for l, in the order they asked
          todo,    \* todo[p]: what is left of the call of p
          requests \* requests[t]: those of the turn so far; 0 when it is over

vars == <<reading, writing, queue, todo, requests>>

-----------------------------------------------------------------------------
(* What the calls do with the locks *)

\* A guard that is kept while others run, and one that is dropped before
\* the call waits again.
Read(l)   == [does |-> "read", lock |-> l, keeps |-> TRUE]
Write(l)  == [does |-> "write", lock |-> l, keeps |-> TRUE]
Look(l)   == [does |-> "read", lock |-> l, keeps |-> FALSE]
Change(l) == [does |-> "write", lock |-> l, keeps |-> FALSE]
Drop(l)   == [does |-> "drop", lock |-> l]

Found     == [does |-> "found"]    \* the key that was looked for, or none
Request   == [does |-> "request"]  \* answered or refused

\* Where a call reads the configuration again: for the address, or for the
\* key, when the history is locked or before (so does a streamed call for the
\* address); not at all with a token.
Routes == {"local", "cloud", "key", "token"}

Url == <<Look("config")>>
Key == <<Look("config"), Found>>

\* The guard on the configuration taken at the start stays to the end, and
\* that on the history over the request.
Sending(route) ==
  <<Read("config")>> \o
  (CASE route = "local" -> <<Write("history")>> \o Url
     [] route = "cloud" -> <<Write("history")>> \o Key
     [] route = "key"   -> Key \o <<Write("history")>>
     [] route = "token" -> <<Write("history")>>)
  \o <<Request>>

\* Mutant: the guard on the history is shadowed by the next, not dropped.
Continuing_kept(route) ==
  <<Read("config")>> \o
  (CASE route = "local" -> Url \o <<Read("history"), Request>>
     [] route = "cloud" -> <<Read("history")>> \o Key \o <<Request>>
     [] route = "key"   -> Key \o <<Look("history"), Request>>
     [] route = "token" -> <<Look("history"), Request>>)
  \o <<Change("history")>>

\* After the tools the history is read for the request, and written after it.
Continuing(route) ==
  <<Read("config")>> \o
  (CASE route = "local" -> Url \o <<Read("history"), Request, Drop("history")>>
     [] route = "cloud" -> <<Read("history")>> \o Key \o <<Request, Drop("history")>>
     [] route = "key"   -> Key \o <<Look("history"), Request>>
     [] route = "token" -> <<Look("history"), Request>>)
  \o <<Change("history")>>

\* the results of a batch, or a repair
AddToHistory == <<Change("history")>>

SaveConfig   == <<Write("config"), Drop("config")>>
ReloadConfig == <<Look("config"), Change("config")>>
SetLimit     == <<Look("config"), Change("history")>>
ClearHistory == <<Change("history")>>
GetHistory   == <<Look("history")>>

-----------------------------------------------------------------------------
(* The locks: whoever asks joins the queue, which is served in order *)

Init ==
  /\ reading = [l \in Locks |-> {}]
  /\ writing = [l \in Locks |-> {}]
  /\ queue = [l \in Locks |-> <<>>]
  /\ todo = [p \in Procs |-> <<>>]
  /\ requests = [t \in Turns |-> 0]

Waits(p)       == \E l \in Locks : \E k \in DOMAIN queue[l] : queue[l][k].by = p
Doing(p, does) == todo[p] # <<>> /\ Head(todo[p]).does = does /\ ~Waits(p)
Over(p)        == todo[p] = <<>> /\ ~Waits(p)
Done(p)        == todo' = [todo EXCEPT ![p] = Tail(@)]

Grant(l) ==
  /\ queue[l] # <<>>
  /\ writing[l] = {}
  /\ LET first == Head(queue[l])
         given(g) == IF first.keeps THEN [g EXCEPT ![l] = @ \cup {first.by}] ELSE g
     IN  \/ first.does = "read" /\ reading' = given(reading) /\ UNCHANGED writing
         \/ /\ first.does = "write" /\ reading[l] = {}
            /\ writing' = given(writing) /\ UNCHANGED reading
  /\ queue' = [queue EXCEPT ![l] = Tail(@)]
  /\ UNCHANGED <<todo, requests>>

Asks(p) ==
  /\ Doing(p, "read") \/ Doing(p, "write")
  /\ LET op == Head(todo[p])
     IN  queue' = [queue EXCEPT ![op.lock] =
                     Append(@, [by |-> p, does |-> op.does, keeps |-> op.keeps])]
  /\ Done(p)
  /\ UNCHANGED <<reading, writing, requests>>

LetGo(p, locks) ==
  /\ reading' = [l \in Locks |-> IF l \in locks THEN reading[l] \ {p} ELSE reading[l]]
  /\ writing' = [l \in Locks |-> IF l \in locks THEN writing[l] \ {p} ELSE writing[l]]

Drops(p) ==
  /\ Doing(p, "drop")
  /\ LetGo(p, {Head(todo[p]).lock})
  /\ Done(p)
  /\ UNCHANGED <<queue, requests>>

Answered(p) ==
  /\ Doing(p, "found") \/ Doing(p, "request")
  /\ Done(p)
  /\ UNCHANGED <<reading, writing, queue, requests>>

Works(p) == Asks(p) \/ Drops(p) \/ Answered(p)

-----------------------------------------------------------------------------
(* The turns, and the tasks beside them *)

\* No key, or the request failed: the call returns with an error.
Fails(t) == Doing(t, "found") \/ Doing(t, "request")

\* Its call over, a turn makes the next one: the guards are dropped.
Calls(t, n, ops) ==
  /\ LetGo(t, Locks)
  /\ requests' = [requests EXCEPT ![t] = n]
  /\ todo' = [todo EXCEPT ![t] = ops]
  /\ UNCHANGED queue

\* A message; also the same one again, with the model to fall back on.
Begin(t) ==
  /\ requests[t] = 0
  /\ \E route \in Routes : Calls(t, 1, Sending(route))

\* the results of the tools, or after a refusal a repair; then the next request
Continue(t) ==
  /\ requests[t] \in 1..MaxRequests - 1
  /\ Over(t) \/ (Fails(t) /\ requests[t] > 1)
  /\ \E route \in Routes :
       Calls(t, requests[t] + 1, AddToHistory \o Continuing(route))

End(t) ==
  /\ requests[t] > 0
  /\ Over(t) \/ Fails(t)
  /\ Calls(t, 0, <<>>)

GoesOn(t) == Works(t) \/ Continue(t) \/ End(t)

Task(p) ==
  /\ Over(p)
  /\ \E ops \in {SaveConfig, ReloadConfig, SetLimit, ClearHistory, GetHistory} :
       todo' = [todo EXCEPT ![p] = ops]
  /\ UNCHANGED <<reading, writing, queue, requests>>

Next ==
  \/ \E l \in Locks : Grant(l)
  \/ \E t \in Turns : Begin(t) \/ GoesOn(t)
  \/ \E p \in Tasks : Task(p) \/ Works(p)

\* A guard is given out once it can be, and what runs goes on: a request has
\* a time limit.  Nobody has to send a message or to run a task.
Spec == Init /\ [][Next]_vars
        /\ \A l \in Locks : WF_vars(Grant(l))
        /\ \A t \in Turns : WF_vars(GoesOn(t))
        /\ \A p \in Tasks : WF_vars(Works(p))

-----------------------------------------------------------------------------
(* Properties *)

Busy(p) == IF p \in Turns THEN requests[p] > 0 ELSE ~Over(p)

\* A turn has a guard on the configuration and asks for another, behind a
\* writer who waits for the first.
Hangs(t) ==
  /\ t \in reading["config"]
  /\ \E j, k \in DOMAIN queue["config"] :
       /\ j < k
       /\ queue["config"][j].does = "write" /\ queue["config"][k].by = t

(* Every turn ends and every task beside it returns, unless a writer of    *)
(* the configuration comes between the two guards that a turn takes on it: *)
(* nothing else the calls do with the two locks, in any order and however  *)
(* requests are refused, makes them wait for each other for ever.          *)
OnlyConfigWritersHang ==
  \A p \in Procs : Busy(p) ~> (~Busy(p) \/ \E t \in Turns : Hangs(t))

(* "Lock ordering (always acquire in this order to prevent deadlocks):     *)
(* 1. config ... 9. All others" (commands/mod.rs): every turn ends.        *)
TurnsEnd == \A t \in Turns : Busy(t) ~> ~Busy(t)
=============================================================================
