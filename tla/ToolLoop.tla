------------------------------ MODULE ToolLoop ------------------------------
(***************************************************************************)
(* A turn: one message routed through the pipeline (router.rs), sent with  *)
(* the conversation to a provider (claude.rs) and followed by the rounds   *)
(* of the tool loop (tool_loop.rs).  Turns of one client share its history *)
(* and run at the same time: the mail, NATS and Telegram channels all use  *)
(* the client of the application, the desktop window that of the active    *)
(* agent, and the window's Stop button frees the input at once.            *)
(*                                                                         *)
(* The history is behind a read-write lock.  send_message_with_tools keeps *)
(* the write lock while the provider answers ("sent"); every other step is *)
(* one acquisition.  A request of the loop is the history of the moment it *)
(* is made ("asked"); what others write before the answer is not part of   *)
(* it, so its faults are noted when it is made.                            *)
(*                                                                         *)
(* The requests also keep a read guard of the configuration, and take a    *)
(* second one on their way: TurnLocks models who waits for whom.           *)
(***************************************************************************)
EXTENDS Conversation

CONSTANTS
  Turns,        \* messages to be answered
  Scenes,       \* what a behaviour starts from, see ScenesAssumption
  Limits,       \* the values of max_history_messages
  KeepLast,     \* what repair_compact keeps, 30 in the code
  Command,      \* the compact_conversation command, beside the turns
  Saved,        \* a stored session, user and assistant texts only
  None

Routes == {"bridge", "direct", "local"}

\* A scene says how the turns are configured, whether the users wait for each
\* other, what the provider may answer, and bounds the user's commands.
ASSUME ScenesAssumption ==
  /\ \A s \in Scenes :
       /\ s.profile \in [Turns -> [gui : BOOLEAN, route : Routes]]
       /\ s.alone \in BOOLEAN
       /\ s.answers \subseteq [text : BOOLEAN, uses : Nat]
       /\ s.iterations \in Nat /\ s.commands \in Nat
       /\ s.limit \in Limits
  /\ Limits \subseteq Nat \ {0}

ASSUME KeepAssumption == KeepLast \in Nat

IdSet    == Turns \X Nat \X Nat
Texts    == Turns \cup {NoText, "summary", "saved"}
Messages == [role : {"user", "assistant"}, text : Texts, uses : Seq(IdSet), results : Seq(IdSet)]
Plans    == [before : Nat, keep : Seq(Messages)]

ASSUME NamesAssumption ==
  NoText \notin Turns \cup {"summary", "saved"} /\ Command \notin Turns /\ None \notin Plans

\* A stored session begins with what the user said.
ASSUME SavedAssumption ==
  /\ Saved \in Seq([role : {"user", "assistant"}, text : {"saved"}, uses : {<<>>}, results : {<<>>}])
  /\ Saved # <<>> => Saved[1].role = "user"

VARIABLES
  history,   \* conversation_history of each client
  limit,     \* MAX_HISTORY_MESSAGES, one for the process
  trimDue,   \* it was set, and the client of the application is not trimmed yet
  cancel,    \* ACTIVE_CANCEL, one for the process
  scene,     \* chosen at the start
  turn,      \* the local state of each turn, see Idle
  plan,      \* a compaction that waits for its summary
  commands   \* given so far

vars == <<history, limit, trimDue, cancel, scene, turn, plan, commands>>
settings == <<scene, limit, trimDue, commands>>   \* no step of a turn changes them

Clients == {"main", "agent"}
Client(t) == IF scene.profile[t].gui THEN "agent" ELSE "main"
Forces(t) == ~scene.profile[t].gui         \* force_summary_on_exhaustion
Of(t)     == history[Client(t)]

FlawsOf(h) == [opens |-> Opens(h), ids |-> Flaws(h)]
NoFlaws    == [opens |-> TRUE, ids |-> {}]

\* pc: where the turn is;  round: its completed iterations;
\* text, uses: the last answer;  todo: the uses whose result is to be added;
\* mark: "over" past the output limit, "detach" when a task was handed over;
\* tries: the requests refused in a row (another model, the repairs);
\* flaws: what the provider will find in the request.
Idle(pc, mark) == [pc |-> pc, round |-> 0, text |-> FALSE, uses |-> <<>>, todo |-> <<>>,
                   mark |-> mark, tries |-> 0, flaws |-> NoFlaws]

Ended == {"answered", "cut", "failed", "detached"}
At(t, l) == turn[t].pc = l
Live(t) == turn[t].pc \notin Ended \cup {"idle"}

Writable(c) == \A t \in Turns : ~(At(t, "sent") /\ Client(t) = c)
Quiet == (\A t \in Turns : ~Live(t)) /\ plan[Command] = None /\ ~trimDue

Goto(t, l) == turn' = [turn EXCEPT ![t].pc = l]
End(t, how) == turn' = [turn EXCEPT ![t] = Idle(how, turn[t].mark)]
Write(c, h) == Writable(c) /\ history' = [history EXCEPT ![c] = h]
Trimmed(h) == trim_history(h, limit)

\* the fresh ids of the n-th answer
Ids(t, n, width) == [k \in 1..width |-> <<t, n, k>>]

Init ==
  /\ history = [c \in Clients |-> <<>>]
  /\ scene \in Scenes
  /\ limit = scene.limit
  /\ cancel = FALSE /\ trimDue = FALSE
  /\ turn = [t \in Turns |-> Idle("idle", "none")]
  /\ plan = [a \in Turns \cup {Command} |-> None]
  /\ commands = 0

-----------------------------------------------------------------------------
(* Before the first request *)

\* A message from the window clears what is left of an earlier Stop.
Begin(t) ==
  /\ At(t, "idle")
  /\ scene.alone => Quiet
  /\ Goto(t, "send") \/ Goto(t, "routed")
  /\ cancel' = (cancel /\ ~scene.profile[t].gui)
  /\ UNCHANGED <<settings, history, plan>>

\* maybe_auto_compact, where it is called for: a long history and a summary.
PlanOf(c) == [before |-> Len(history[c]), keep |-> ToKeep(history[c])]

AutoCompact(t) ==
  /\ At(t, "routed")
  /\ Writable(Client(t))
  /\ \/ Len(Of(t)) <= Recent /\ Goto(t, "send") /\ UNCHANGED plan
     \/ /\ Len(Of(t)) > Recent
        /\ plan' = [plan EXCEPT ![t] = PlanOf(Client(t))]
        /\ Goto(t, "compacting")
  /\ UNCHANGED <<settings, history, cancel>>

\* The summary has come, or not: an automatic compaction may fail unnoticed.
Summarised(t) ==
  /\ At(t, "compacting")
  /\ \/ Write(Client(t), Compacted(Of(t), plan[t], "summary"))
     \/ UNCHANGED history
  /\ plan' = [plan EXCEPT ![t] = None]
  /\ Goto(t, "send")
  /\ UNCHANGED <<settings, cancel>>

-----------------------------------------------------------------------------
(* The first request, under the write lock *)

WithMessage(t) ==
  LET h == Trimmed(Append(Of(t), UserText(t)))
  IN  IF scene.profile[t].route = "bridge" THEN sanitize_history(h) ELSE h

Send(t) ==
  /\ At(t, "send")
  /\ Write(Client(t), WithMessage(t))
  /\ Goto(t, "sent")
  /\ UNCHANGED <<settings, cancel, plan>>

\* the n-th answer is in, and l was the state of the turn
Answered(l, n, text, uses) ==
  [pc |-> "head", round |-> n, text |-> text, uses |-> uses, todo |-> l.todo,
   mark |-> l.mark, tries |-> 0, flaws |-> NoFlaws]

Receive(t, n, a) ==
  LET uses == Ids(t, n, a.uses)
  IN  /\ history' = [history EXCEPT ![Client(t)] =
                       Trimmed(Append(@, Answer(IF a.text THEN t ELSE NoText, uses)))]
      /\ turn' = [turn EXCEPT ![t] = Answered(turn[t], n, a.text, uses)]

FirstAnswer(t) ==
  /\ At(t, "sent")
  /\ FlawsOf(Of(t)) = NoFlaws
  /\ \E a \in scene.answers : Receive(t, 0, a)
  /\ UNCHANGED <<settings, cancel, plan>>

\* The message is taken back, but not by the local providers; the router
\* tries another model once.
FirstRefusal(t) ==
  /\ At(t, "sent")
  /\ history' = [history EXCEPT ![Client(t)] =
                   IF scene.profile[t].route = "local" THEN @ ELSE Front(@)]
  /\ \/ turn[t].tries = 0 /\ turn' = [turn EXCEPT ![t].pc = "send", ![t].tries = 1]
     \/ End(t, "failed")
  /\ UNCHANGED <<settings, cancel, plan>>

-----------------------------------------------------------------------------
(* The tool loop *)

\* Timeouts are only looked at here, and so is the Stop button.
Breaks(t) ==
  \/ turn[t].round = scene.iterations
  \/ turn[t].uses = <<>>
  \/ cancel /\ scene.profile[t].gui

\* What follows the loop: a forced summary if there is no text yet.
LoopEnd(t) ==
  IF Forces(t) /\ ~turn[t].text /\ turn[t].uses # <<>>
  THEN turn' = [turn EXCEPT ![t].pc = "forced", ![t].todo = turn[t].uses]
  ELSE End(t, IF turn[t].uses = <<>> THEN "answered" ELSE "cut")

Leave(t) ==
  /\ At(t, "head") /\ Breaks(t)
  /\ LoopEnd(t)
  /\ UNCHANGED <<settings, history, cancel, plan>>

TimeOut(t) ==
  /\ At(t, "head") /\ ~Breaks(t)
  /\ LoopEnd(t)
  /\ UNCHANGED <<settings, history, cancel, plan>>

\* Policy checks and the parallel calls with their retries: nothing but time
\* passes for the history.
RunTools(t) ==
  /\ At(t, "head") /\ ~Breaks(t)
  /\ turn' = [turn EXCEPT ![t].pc = "results", ![t].todo = turn[t].uses]
  /\ UNCHANGED <<settings, history, cancel, plan>>

AddNext(t, l) ==
  /\ At(t, l) /\ turn[t].todo # <<>>
  /\ Write(Client(t), add_tool_result(Of(t), Head(turn[t].todo)))

NextTodo(t) == turn' = [turn EXCEPT ![t].todo = Tail(@)]

\* A result may be a task's promise, and the output limit ends the batch.
AddResult(t) ==
  /\ AddNext(t, "results")
  /\ \/ NextTodo(t)
     \/ turn' = [turn EXCEPT ![t].todo = Tail(@), ![t].mark = "detach"]
     \/ turn' = [turn EXCEPT ![t].todo = <<>>, ![t].mark = "over"]
  /\ UNCHANGED <<settings, cancel, plan>>

(* Mutant: placeholders after every batch. *)
TrimBatch_pad(t) ==
  /\ At(t, "results") /\ turn[t].todo = <<>>
  /\ Write(Client(t), Trimmed(Of(t)))
  /\ turn' = [turn EXCEPT ![t].pc = "padding", ![t].todo = turn[t].uses]
  /\ UNCHANGED <<settings, cancel, plan>>

\* After the batch: trim, then the placeholders, the way out or the request.
TrimBatch(t) ==
  /\ At(t, "results") /\ turn[t].todo = <<>>
  /\ Write(Client(t), Trimmed(Of(t)))
  /\ \/ /\ turn[t].mark = "over"
        /\ turn' = [turn EXCEPT ![t].pc = "padding", ![t].todo = turn[t].uses]
     \/ turn[t].mark = "detach" /\ End(t, "detached")
     \/ turn[t].mark = "none" /\ Goto(t, "ask")
  /\ UNCHANGED <<settings, cancel, plan>>

\* Placeholders for every tool use of the batch, also for those answered.
Pad(t) ==
  /\ \/ AddNext(t, "padding") /\ NextTodo(t)
     \/ At(t, "padding") /\ turn[t].todo = <<>> /\ LoopEnd(t) /\ UNCHANGED history
  /\ UNCHANGED <<settings, cancel, plan>>

\* The history is read, and the request is under way.
AskWith(t, l) ==
  /\ Writable(Client(t))
  /\ turn' = [turn EXCEPT ![t].pc = l, ![t].flaws = FlawsOf(Of(t))]

Ask(t) ==
  /\ At(t, "ask") /\ AskWith(t, "asked")
  /\ UNCHANGED <<settings, history, cancel, plan>>

NextAnswer(t) ==
  /\ At(t, "asked") /\ turn[t].flaws = NoFlaws
  /\ Writable(Client(t))
  /\ \E a \in scene.answers : Receive(t, turn[t].round + 1, a)
  /\ UNCHANGED <<settings, cancel, plan>>

\* A refusal for badly paired blocks starts the repairs, any other ends the
\* turn; during the repairs every refusal leads to the next one.
NextRefusal(t) ==
  /\ At(t, "asked")
  /\ \/ /\ IF turn[t].tries = 0 THEN turn[t].flaws.ids # {} ELSE turn[t].tries < 4
        /\ turn' = [turn EXCEPT ![t].pc = "repair", ![t].tries = @ + 1, ![t].flaws = NoFlaws]
     \/ turn[t].tries \in {0, 4} /\ End(t, "failed")
  /\ UNCHANGED <<settings, history, cancel, plan>>

Repair(t) ==
  /\ At(t, "repair")
  /\ Write(Client(t), repair(turn[t].tries, Of(t), KeepLast))
  /\ Goto(t, "ask")
  /\ UNCHANGED <<settings, cancel, plan>>

(* Mutant: the last request goes out without the results. *)
AddForced_none(t) ==
  /\ At(t, "forced")
  /\ Write(Client(t), Trimmed(Of(t)))
  /\ Goto(t, "lastAsk")
  /\ UNCHANGED <<settings, cancel, plan>>

\* The forced summary: a result for every pending use, a trim, a request
\* without tools.
AddForced(t) ==
  /\ \/ AddNext(t, "forced") /\ NextTodo(t)
     \/ /\ At(t, "forced") /\ turn[t].todo = <<>>
        /\ Write(Client(t), Trimmed(Of(t)))
        /\ Goto(t, "lastAsk")
  /\ UNCHANGED <<settings, cancel, plan>>

AskLast(t) ==
  /\ At(t, "lastAsk") /\ AskWith(t, "lastAsked")
  /\ UNCHANGED <<settings, history, cancel, plan>>

LastAnswer(t) ==
  /\ At(t, "lastAsked")
  /\ \/ /\ turn[t].flaws = NoFlaws
        /\ Write(Client(t), Trimmed(Append(Of(t), Answer(t, <<>>))))
        /\ End(t, "answered")
     \/ UNCHANGED history /\ End(t, "failed")
  /\ UNCHANGED <<settings, cancel, plan>>

-----------------------------------------------------------------------------
(* The commands of the desktop window. All but Stop act on the client of   *)
(* the application, whichever client the window's turns use.               *)

Issue ==
  /\ commands < scene.commands
  /\ commands' = commands + 1
  /\ scene.alone => Quiet
  /\ UNCHANGED <<cancel, scene, turn>>

\* Stop does not wait for anybody.
CancelMessage ==
  /\ cancel' = TRUE
  /\ UNCHANGED <<settings, history, turn, plan>>

NewConversation ==
  /\ Issue
  /\ Write("main", <<>>)
  /\ UNCHANGED <<limit, trimDue, plan>>

LoadSession ==
  /\ Issue
  /\ Write("main", Trimmed(Saved))
  /\ UNCHANGED <<limit, trimDue, plan>>

\* The new limit is in force before the lock is asked for; one change of the
\* configuration is worked off after the other.
SetLimit ==
  /\ Issue
  /\ ~trimDue /\ trimDue' = TRUE
  /\ limit' \in Limits \ {limit}
  /\ UNCHANGED <<history, plan>>

ApplyLimit ==
  /\ trimDue /\ trimDue' = FALSE
  /\ Write("main", Trimmed(history["main"]))
  /\ UNCHANGED <<scene, limit, commands, cancel, turn, plan>>

CompactCommand ==
  /\ Issue
  /\ plan[Command] = None
  /\ Writable("main") /\ Len(history["main"]) > Recent
  /\ plan' = [plan EXCEPT ![Command] = PlanOf("main")]
  /\ UNCHANGED <<history, limit, trimDue>>

CompactDone ==
  /\ plan[Command] # None
  /\ \/ Write("main", Compacted(history["main"], plan[Command], "summary"))
     \/ UNCHANGED history
  /\ plan' = [plan EXCEPT ![Command] = None]
  /\ UNCHANGED <<settings, cancel, turn>>

-----------------------------------------------------------------------------
Commands == CancelMessage \/ NewConversation \/ LoadSession \/ SetLimit \/ ApplyLimit
            \/ CompactCommand \/ CompactDone

Steps(t) ==
  \/ AutoCompact(t) \/ Summarised(t) \/ Send(t) \/ FirstAnswer(t) \/ FirstRefusal(t)
  \/ Leave(t) \/ TimeOut(t) \/ RunTools(t) \/ AddResult(t) \/ TrimBatch(t) \/ Pad(t)
  \/ Ask(t) \/ NextAnswer(t) \/ NextRefusal(t) \/ Repair(t)
  \/ AddForced(t) \/ AskLast(t) \/ LastAnswer(t)

Next == (\E t \in Turns : Begin(t) \/ Steps(t)) \/ Commands

Spec == Init /\ [][Next]_vars

-----------------------------------------------------------------------------
(* Properties *)

Places == Ended \cup {"idle", "routed", "compacting", "send", "sent", "head", "results",
                      "padding", "ask", "asked", "repair", "forced", "lastAsk", "lastAsked"}

Locals == [pc : Places, round : Nat, text : BOOLEAN, uses : Seq(IdSet), todo : Seq(IdSet),
           mark : {"none", "over", "detach"}, tries : 0..4,
           flaws : [opens : BOOLEAN, ids : SUBSET IdSet]]

(* Every variable keeps its type; a message of the user has a text or      *)
(* results, and never asks for a tool.                                     *)
TypeOK ==
  /\ history \in [Clients -> Seq(Messages)]
  /\ \A c \in Clients : \A k \in DOMAIN history[c] :
       LET m == history[c][k] IN m.role = "user" => m.uses = <<>> /\ ~Blank(m)
  /\ limit \in Limits /\ trimDue \in BOOLEAN /\ cancel \in BOOLEAN /\ scene \in Scenes
  /\ turn \in [Turns -> Locals]
  /\ \A t \in Turns : turn[t].round <= scene.iterations
  /\ plan \in [Turns \cup {Command} -> Plans \cup {None}]
  /\ commands \in 0..scene.commands

\* what the requests look like, when a turn runs without others beside it
Own(t, ids) == {id \in ids : id[1] = t}
Asking(t) == At(t, "sent") \/ At(t, "asked") \/ At(t, "lastAsked")

(* What a bridge is sent opens with a message of the user ("API           *)
(* requirement", claude.rs), whatever was trimmed, stripped, cleared,      *)
(* compacted or loaded before, and by whom.  When users wait for each      *)
(* other, every history does at any time; else a cleared one may open with *)
(* the answer a running turn adds to it.                                   *)
OpensWithUser ==
  /\ \A t \in Turns : At(t, "sent") /\ scene.profile[t].route = "bridge" => Opens(Of(t))
  /\ scene.alone => \A c \in Clients : history[c] # <<>> => Opens(history[c])

(* A history is no longer than a max_history_messages that was set, but   *)
(* for one message of results at its end: they are added before the next   *)
(* trim, or left behind past the output limit.  In the client of the       *)
(* application a smaller limit takes effect at once, unless a compaction   *)
(* is waiting for its summary (it brings back what it kept); an agent's    *)
(* client is trimmed when it is written to.                                *)
LengthBounded ==
  \A c \in Clients : \E n \in Limits :
    /\ Fits(history[c], n)
    /\ c = "main" /\ scene.alone /\ ~trimDue => n = limit

(* When users wait for each other, a tool use without its answer, or an    *)
(* answer without its use, in a request is left from a turn that was cut   *)
(* short (Stop, a timeout, the last iteration) or went past the output     *)
(* limit: no trim, compaction, repair or failure leaves one.               *)
GapsComeFromCutTurns ==
  \A t \in Turns :
    scene.alone /\ Asking(t) =>
      \A id \in Flaws(Of(t)) : At(id[1], "cut") \/ turn[id[1]].mark = "over"

(* When users wait for each other, the results of a batch all reach the    *)
(* model, each right after the use it answers, however short the history   *)
(* is kept: neither the trim after the answer nor that after the batch     *)
(* separates them.                                                         *)
BatchReachesModel ==
  \A t \in Turns :
    scene.alone /\ At(t, "asked") /\ turn[t].tries = 0 =>
      ToSet(turn[t].uses) \subseteq Results(Of(t)) \ Flaws(Of(t))

\* the client whose history a compaction replaces
Compacts(p) == IF p = Command THEN "main" ELSE Client(p)

OneCompaction ==
  \A p, q \in Turns \cup {Command} :
    plan[p] # None /\ plan[q] # None /\ Compacts(p) = Compacts(q) => p = q

ResultPlaces(h) == UNION {{k} \X DOMAIN h[k].results : k \in DOMAIN h}
ResultAt(h, p)  == h[p[1]].results[p[2]]

AnsweredOnce(h) ==
  \A p, q \in ResultPlaces(h) :
    p # q /\ ResultAt(h, p) = ResultAt(h, q) => turn[ResultAt(h, p)[1]].mark = "over"

(* No tool use is answered twice, but in a batch that went past the output *)
(* limit, where the placeholders are added to the results there are:       *)
(* provided that no two compactions of a client wait at a time.  If they   *)
(* do, the first can bring back a result the second has kept, beyond the   *)
(* length the history had when the second began.                           *)
DuplicatesOnlyPastLimit == []OneCompaction => [](\A c \in Clients : AnsweredOnce(history[c]))

(* A request made after the third repair carries no badly paired block at  *)
(* all when users wait for each other, and else none of the turn itself:   *)
(* but a compaction that was waiting for its summary brings the stripped   *)
(* blocks back.                                                            *)
RepairsRemoveFlaws ==
  [][\A t \in Turns :
       Ask(t) /\ turn[t].tries >= 3 =>
         LET left == Flaws(Of(t))
         IN  /\ Own(t, left) = {} \/ Of(t)[1].text = "summary"
             /\ scene.alone => left = {}]_vars

(* "If a tool_result references a tool_use_id that doesn't exist in the    *)
(* history (or vice versa), the API returns a 400 error" (claude.rs): the  *)
(* first request of a turn has no such block.                              *)
SendsWellFormed == \A t \in Turns : scene.alone /\ At(t, "sent") => Flaws(Of(t)) = {}
=============================================================================
