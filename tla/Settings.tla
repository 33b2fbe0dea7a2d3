------------------------------ MODULE Settings ------------------------------
(***************************************************************************)
(* The configuration (config.rs): one value in memory behind a read-write  *)
(* lock, its file, and the watcher that loads the file again when it has   *)
(* changed.  A change by a command or by the scheduler is made under the   *)
(* write lock and taken back when it cannot be saved.  The watcher reads   *)
(* the file first and asks for the lock afterwards, in a task of its own   *)
(* for every change; nothing orders these tasks.                           *)
(*                                                                         *)
(* Abstracted: the settings, but for those a user of this module names;    *)
(* credentials, which are kept when a file lacks them; files that cannot   *)
(* be loaded, which change nothing.                                        *)
(***************************************************************************)
EXTENDS Naturals

CONSTANT Reloads   \* tasks of the watcher; bounds how many wait at once

VARIABLES
  memory,     \* the value behind the lock
  file,       \* config.yaml
  noticed,    \* the watcher has a change of the file still to look at
  loaded,     \* what the waiting tasks have read
  overlapped  \* history: two of them have waited at once in this life

settingsVars == <<memory, file, noticed, loaded, overlapped>>

Waiting == DOMAIN loaded

SettingsInit(value) ==
  /\ memory = value /\ file = value
  /\ noticed = FALSE /\ loaded = <<>> /\ overlapped = FALSE

(* Mutant: a change that cannot be saved stays in memory. *)
Save_keep(new) ==
  /\ \/ memory' = new /\ file' = new /\ noticed' = TRUE
     \/ memory' = memory /\ file' = new /\ noticed' = TRUE
     \/ memory' = new /\ UNCHANGED <<file, noticed>>
  /\ UNCHANGED <<loaded, overlapped>>

\* A change and its save under one lock.  save() may fail before the file is
\* replaced, or after it, when its permissions cannot be set.
Save(new) ==
  /\ \/ memory' = new /\ file' = new /\ noticed' = TRUE
     \/ memory' = memory /\ file' = new /\ noticed' = TRUE
     \/ UNCHANGED <<memory, file, noticed>>
  /\ UNCHANGED <<loaded, overlapped>>

\* The user edits the file.
EditFile(new) ==
  /\ file' = new /\ noticed' = TRUE
  /\ UNCHANGED <<memory, loaded, overlapped>>

\* Loading sets the permissions of the file, which may be noticed in turn.
Load(r) ==
  /\ noticed /\ r \in Reloads \ Waiting
  /\ noticed' \in BOOLEAN
  /\ loaded' = [x \in Waiting \cup {r} |-> IF x = r THEN file ELSE loaded[x]]
  /\ overlapped' = (overlapped \/ Waiting # {})
  /\ UNCHANGED <<memory, file>>

Reload(r) ==
  /\ r \in Waiting
  /\ memory' = loaded[r]
  /\ loaded' = [x \in Waiting \ {r} |-> loaded[x]]
  /\ UNCHANGED <<file, noticed, overlapped>>

\* What the process knows goes with it; the next one starts from the file.
Forget ==
  /\ noticed' = FALSE /\ loaded' = <<>> /\ overlapped' = FALSE
  /\ memory' = file
  /\ UNCHANGED file

-----------------------------------------------------------------------------
(* When the watcher (config.rs:2159) has nothing to do, memory and file    *)
(* agree, whatever edits, failed saves and reloads there were, unless two  *)
(* reloads waited for the lock at once and may have had it in the wrong    *)
(* order.                                                                  *)
AgreeWhenQuiet == ~noticed /\ Waiting = {} /\ ~overlapped => memory = file

\* What a waiting task has read is the file, or the watcher will look again.
SettingsInv ==
  ~overlapped =>
    /\ \A r, s \in Waiting : r = s
    /\ \A r \in Waiting : noticed \/ loaded[r] = file
    /\ noticed \/ Waiting # {} \/ memory = file
=============================================================================
