--------------------------- MODULE ToolLoopProofs ---------------------------
(***************************************************************************)
(* Proofs about a turn, its tool loop and the history it shares, for every *)
(* set of turns, every scene (profiles, answers, commands) and every limit *)
(* on the history: what is sent opens with the user, the history stays     *)
(* within the limits that were set, no tool use is answered twice short of *)
(* the output limit, the repairs leave nothing to repair, a block of a     *)
(* request that is badly paired is left from a turn that was cut short or  *)
(* went past the output limit, and the results of a batch reach the model. *)
(***************************************************************************)
EXTENDS ToolLoop, ConversationProofs

Sane == {h \in Seq(Messages) : Sound(h)}

(* TypeOK, with what the places of a turn say of its counters and plan.    *)
TypeInv ==
  /\ TypeOK
  /\ \A p \in Turns \cup {Command} : plan[p] # None => Sound(plan[p].keep)
  /\ \A t \in Turns :
       /\ At(t, "compacting") => plan[t] # None
       /\ turn[t].pc \in {"results", "padding", "ask", "asked", "repair"} => turn[t].round < scene.iterations
       /\ At(t, "repair") => turn[t].tries # 0

-----------------------------------------------------------------------------
(* What the steps do to a turn. *)

Others(t) == \A u \in Turns : u # t => turn'[u] = turn[u]

\* Going to another place changes nothing else.
LEMMA GotoEffect ==
  ASSUME turn \in [Turns -> Locals], NEW t \in Turns, NEW l \in Places, Goto(t, l)
  PROVE  /\ turn' \in [Turns -> Locals] /\ Others(t)
         /\ turn'[t].pc = l /\ turn'[t].round = turn[t].round /\ turn'[t].text = turn[t].text
         /\ turn'[t].uses = turn[t].uses /\ turn'[t].todo = turn[t].todo /\ turn'[t].mark = turn[t].mark
         /\ turn'[t].tries = turn[t].tries /\ turn'[t].flaws = turn[t].flaws
<1>1. turn[t] \in Locals
  OBVIOUS
<1>2. turn' = [turn EXCEPT ![t] = [turn[t] EXCEPT !.pc = l]]
  BY DEF Goto
<1>3. [turn[t] EXCEPT !.pc = l] \in Locals
  BY <1>1 DEF Locals
<1>4. QED  BY <1>1, <1>2, <1>3 DEF Locals, Others

\* A turn that ends forgets everything but its mark.
LEMMA EndEffect ==
  ASSUME turn \in [Turns -> Locals], NEW t \in Turns, NEW how \in Ended, End(t, how)
  PROVE  /\ turn' \in [Turns -> Locals] /\ Others(t)
         /\ turn'[t].pc = how /\ turn'[t].round = 0 /\ turn'[t].uses = <<>> /\ turn'[t].todo = <<>>
         /\ turn'[t].mark = turn[t].mark /\ turn'[t].tries = 0 /\ turn'[t].flaws = NoFlaws
<1>1. turn[t] \in Locals
  OBVIOUS
<1> DEFINE r == Idle(how, turn[t].mark)
<1>2. turn' = [turn EXCEPT ![t] = r]
  BY DEF End
<1>3. how \in Places /\ turn[t].mark \in {"none", "over", "detach"} /\ <<>> \in Seq(IdSet)
      /\ NoFlaws \in [opens : BOOLEAN, ids : SUBSET IdSet]
  BY <1>1 DEF Locals, Places, NoFlaws
<1>4. r \in Locals /\ r.pc = how /\ r.round = 0 /\ r.uses = <<>> /\ r.todo = <<>>
      /\ r.mark = turn[t].mark /\ r.tries = 0 /\ r.flaws = NoFlaws
  BY <1>3 DEF Locals, Idle
<1> HIDE DEF r
<1>5. turn' \in [Turns -> Locals] /\ Others(t) /\ turn'[t] = r
  BY <1>2, <1>4 DEF Others
<1>6. QED  BY <1>4, <1>5

\* Any other update of a turn's record.
LEMMA TurnEffect ==
  ASSUME turn \in [Turns -> Locals], NEW t \in Turns, NEW r \in Locals, turn' = [turn EXCEPT ![t] = r]
  PROVE  turn' \in [Turns -> Locals] /\ Others(t) /\ turn'[t] = r
  BY DEF Others

-----------------------------------------------------------------------------
(* What the steps do to the history stays a history. *)

\* The messages of a turn are those the lemmas on histories are about.
LEMMA MessagesAre == Messages = Msg(Texts, IdSet) /\ NoText \in Texts
  BY DEF Messages, Msg, Texts

\* Every turn has a client.
LEMMA ClientIs == \A t \in Turns : Client(t) \in Clients
  BY DEF Client, Clients

\* The limit is at least one.
LEMMA LimitIs == TypeOK => limit \in Nat \ {0}
  BY ScenesAssumption DEF TypeOK

\* What the type says of histories, said of each.
LEMMA HistoryIsSane == TypeOK => history \in [Clients -> Sane]
<1> SUFFICES ASSUME TypeOK PROVE history \in [Clients -> Sane]
  OBVIOUS
<1>1. history \in [Clients -> Seq(Messages)]
  BY DEF TypeOK
<1>2. ASSUME NEW c \in Clients PROVE history[c] \in Sane
  BY <1>1 DEF TypeOK, Sane, Sound
<1>3. QED  BY <1>1, <1>2

\* And back, after a step.
LEMMA SaneIsTyped ==
  ASSUME history' \in [Clients -> Sane]
  PROVE  /\ history' \in [Clients -> Seq(Messages)]
         /\ \A c \in Clients : \A k \in DOMAIN history'[c] :
              LET m == history'[c][k] IN m.role = "user" => m.uses = <<>> /\ ~Blank(m)
<1>1. \A c \in Clients : history'[c] \in Seq(Messages) /\ Sound(history'[c])
  BY DEF Sane
<1>2. QED  BY <1>1 DEF Sound

\* Sane histories: the empty one ...
LEMMA EmptySane == <<>> \in Sane
  BY DEF Sane, Sound

\* ... one that was trimmed ...
LEMMA TrimSane == ASSUME NEW h \in Sane, NEW n \in Nat \ {0} PROVE trim_history(h, n) \in Sane
  BY MessagesAre, TrimComes DEF Sane

\* ... or cleaned ...
LEMMA SanitizeSane == ASSUME NEW h \in Sane PROVE sanitize_history(h) \in Sane
  BY MessagesAre, SanitizeComes DEF Sane

\* ... or repaired ...
LEMMA RepairSane ==
  ASSUME NEW h \in Sane, NEW s \in 1..4 PROVE repair(s, h, KeepLast) \in Sane
  BY MessagesAre, KeepAssumption, RepairComes DEF Sane

\* ... one with a text of the user more ...
LEMMA UserTextSane == ASSUME NEW h \in Sane, NEW t \in Turns PROVE Append(h, UserText(t)) \in Sane
<1>1. UserText(t) \in Messages /\ UserText(t).uses = <<>> /\ ~Blank(UserText(t))
  BY NamesAssumption DEF UserText, Message, Messages, Texts, Blank
<1>2. QED  BY <1>1, MessagesAre, AppendSound DEF Sane

\* ... or an answer ...
LEMMA AnswerSane ==
  ASSUME NEW h \in Sane, NEW text \in Turns \cup {NoText}, NEW uses \in Seq(IdSet)
  PROVE  Append(h, Answer(text, uses)) \in Sane
<1>1. Answer(text, uses) \in Messages /\ Answer(text, uses).role # "user"
  BY DEF Answer, Message, Messages, Texts
<1>2. QED  BY <1>1, MessagesAre, AppendSound DEF Sane

\* ... or a result ...
LEMMA ResultSane == ASSUME NEW h \in Sane, NEW id \in IdSet PROVE add_tool_result(h, id) \in Sane
<1>1. add_tool_result(h, id) \in Seq(Messages)
  BY MessagesAre, AddResultType DEF Sane
<1>2. Sound(add_tool_result(h, id))
  BY MessagesAre, AddResultType DEF Sane
<1>3. QED  BY <1>1, <1>2 DEF Sane

\* ... one without its last message ...
LEMMA FrontSane == ASSUME NEW h \in Sane PROVE Front(h) \in Sane
<1>1. CASE h = <<>>
  <2>1. Front(h) = SubSeq(h, 1, Len(h) - 1)
    BY DEF Front
  <2>2. Len(h) - 1 \in Int /\ Len(h) - 1 < 1
    BY <1>1
  <2>3. SubSeq(h, 1, Len(h) - 1) = <<>>
    BY <2>2, SubSeqEmpty, 1 \in Int
  <2>4. QED  BY <2>1, <2>3, EmptySane
<1>2. CASE h # <<>>
  BY <1>2, MessagesAre, FrontWithin, WithinSound DEF Sane
<1>3. QED  BY <1>1, <1>2

\* ... and the session that is loaded.
LEMMA SavedSane == Saved \in Sane
<1>1. ASSUME NEW k \in DOMAIN Saved PROVE Saved[k] \in Messages /\ Saved[k].uses = <<>> /\ ~Blank(Saved[k])
  <2> DEFINE Stored == [role : {"user", "assistant"}, text : {"saved"}, uses : {<<>>}, results : {<<>>}]
  <2>1. Saved \in Seq(Stored)
    BY SavedAssumption
  <2> HIDE DEF Stored
  <2>2. Saved[k] \in Stored
    BY <2>1
  <2>3. <<>> \in Seq(IdSet) /\ "saved" \in Texts /\ "saved" # NoText
    BY NamesAssumption DEF Texts
  <2>4. Saved[k].uses = <<>> /\ Saved[k].results = <<>> /\ Saved[k].text = "saved"
    BY <2>2 DEF Stored
  <2>5. Saved[k] \in Messages
    BY <2>2, <2>3 DEF Stored, Messages
  <2>6. QED  BY <2>3, <2>4, <2>5 DEF Blank
<1>2. Saved \in Seq(Messages)
  BY <1>1, SavedAssumption
<1>3. QED  BY <1>1, <1>2 DEF Sane, Sound

\* What a compaction means to keep is part of a sane history.
LEMMA PlanOfType ==
  ASSUME TypeOK, NEW c \in Clients, Len(history[c]) > Recent
  PROVE  PlanOf(c) \in Plans /\ Sound(PlanOf(c).keep)
<1>1. history[c] \in Seq(Messages) /\ Sound(history[c])
  BY HistoryIsSane DEF Sane
<1>2. ToKeep(history[c]) \in Seq(Messages) /\ Within(ToKeep(history[c]), history[c])
  BY <1>1, ToKeepWithin
<1>3. Sound(ToKeep(history[c]))
  BY <1>1, <1>2, MessagesAre, WithinSound
<1>4. QED  BY <1>1, <1>2, <1>3 DEF PlanOf, Plans

\* What a compaction leaves is sane.
LEMMA CompactedSane ==
  ASSUME NEW h \in Sane, NEW p \in Plans, Sound(p.keep)
  PROVE  Compacted(h, p, "summary") \in Sane
<1>1. p.before \in Nat /\ p.keep \in Seq(Messages) /\ h \in Seq(Messages) /\ Sound(h)
  BY DEF Plans, Sane
<1>2. "summary" \in Texts /\ "summary" # NoText
  BY NamesAssumption DEF Texts
<1>3. Compacted(h, p, "summary") \in Seq(Messages) /\ Sound(Compacted(h, p, "summary"))
  BY <1>1, <1>2, MessagesAre, CompactedParts
<1>4. QED  BY <1>3 DEF Sane

\* One client's history is replaced.
LEMMA WriteEffect ==
  ASSUME history \in [Clients -> Sane], NEW c \in Clients, NEW h \in Sane,
         history' = [history EXCEPT ![c] = h]
  PROVE  /\ history' \in [Clients -> Sane] /\ history'[c] = h
         /\ \A d \in Clients : d # c => history'[d] = history[d]
  OBVIOUS

\* The invariant after a step of turn t, from what the step does to t.
LEMMA TypeStep ==
  ASSUME TypeInv, NEW t \in Turns,
         history' \in [Clients -> Sane], turn' \in [Turns -> Locals], Others(t),
         UNCHANGED settings, cancel' \in BOOLEAN,
         UNCHANGED plan \/ \E p \in Plans \cup {None} : plan' = [plan EXCEPT ![t] = p] /\ (p # None => Sound(p.keep)),
         turn'[t].round <= scene.iterations,
         turn'[t].pc = "compacting" => plan'[t] # None,
         turn'[t].pc \in {"results", "padding", "ask", "asked", "repair"} => turn'[t].round < scene.iterations,
         turn'[t].pc = "repair" => turn'[t].tries # 0
  PROVE  TypeInv'
<1>0. plan \in [Turns \cup {Command} -> Plans \cup {None}]
  BY DEF TypeInv, TypeOK
<1>1. plan' \in [Turns \cup {Command} -> Plans \cup {None}]
  BY <1>0
<1>2. \A p \in Turns \cup {Command} : plan'[p] # None => Sound(plan'[p].keep)
  BY <1>0 DEF TypeInv
<1>3. \A u \in Turns : u # t => plan'[u] = plan[u]
  BY <1>0
<1>4. \A u \in Turns : turn'[u].round <= scene'.iterations
  BY DEF TypeInv, TypeOK, Others, settings
<1>5. TypeOK'
  BY <1>1, <1>4, SaneIsTyped DEF TypeInv, TypeOK, settings
<1>6. ASSUME NEW u \in Turns
      PROVE  /\ turn'[u].pc = "compacting" => plan'[u] # None
             /\ turn'[u].pc \in {"results", "padding", "ask", "asked", "repair"} => turn'[u].round < scene'.iterations
             /\ turn'[u].pc = "repair" => turn'[u].tries # 0
  <2>1. scene' = scene
    BY DEF settings
  <2>2. CASE u = t
    BY <2>1, <2>2
  <2>3. CASE u # t
    BY <1>3, <2>1, <2>3 DEF TypeInv, Others, At
  <2>4. QED  BY <2>2, <2>3
<1>7. QED  BY <1>2, <1>5, <1>6 DEF TypeInv, At

\* The answer is added, and the turn is back at the head of its loop.
LEMMA ReceiveEffect ==
  ASSUME TypeOK, NEW t \in Turns, NEW n \in Nat, NEW a \in scene.answers, Receive(t, n, a)
  PROVE  LET text == IF a.text THEN t ELSE NoText
             uses == Ids(t, n, a.uses)
             h == trim_history(Append(Of(t), Answer(text, uses)), limit)
         IN  /\ uses \in Seq(IdSet) /\ text \in Turns \cup {NoText} /\ h \in Sane
             /\ history' = [history EXCEPT ![Client(t)] = h]
             /\ turn' \in [Turns -> Locals] /\ Others(t)
             /\ turn'[t].pc = "head" /\ turn'[t].round = n /\ turn'[t].uses = uses
             /\ turn'[t].text = a.text
             /\ turn'[t].todo = turn[t].todo /\ turn'[t].mark = turn[t].mark
             /\ turn'[t].tries = 0 /\ turn'[t].flaws = NoFlaws
<1> DEFINE text == IF a.text THEN t ELSE NoText
           uses == Ids(t, n, a.uses)
           h == trim_history(Append(Of(t), Answer(text, uses)), limit)
<1>1. a \in [text : BOOLEAN, uses : Nat]
  BY ScenesAssumption DEF TypeOK
<1>2. a.uses \in Nat /\ a.text \in BOOLEAN
  BY <1>1
<1>3. uses \in Seq(IdSet)
  <2>1. \A k \in 1..a.uses : <<t, n, k>> \in IdSet
    BY <1>2 DEF IdSet
  <2>2. uses \in [1..a.uses -> IdSet]
    BY <2>1 DEF Ids
  <2>3. QED  BY <1>2, <2>2
<1>4. text \in Turns \cup {NoText}
  OBVIOUS
<1>5. Of(t) \in Sane /\ limit \in Nat \ {0}
  BY HistoryIsSane, LimitIs, ClientIs DEF Of
<1>6. h \in Sane
  BY <1>3, <1>4, <1>5, AnswerSane, TrimSane
<1>7. history' = [history EXCEPT ![Client(t)] = h]
  BY DEF Receive, Trimmed, Of
<1> DEFINE r == Answered(turn[t], n, a.text, uses)
<1>8. turn' = [turn EXCEPT ![t] = r]
  BY DEF Receive
<1>9. turn \in [Turns -> Locals] /\ turn[t] \in Locals
  BY DEF TypeOK
<1> HIDE DEF uses
<1>10. "head" \in Places /\ NoFlaws \in [opens : BOOLEAN, ids : SUBSET IdSet]
  BY DEF Places, NoFlaws
<1>11. r \in Locals
  <2>2. turn[t].todo \in Seq(IdSet) /\ turn[t].mark \in {"none", "over", "detach"} /\ 0 \in 0..4
    BY <1>9 DEF Locals
  <2>3. QED  BY <1>2, <1>3, <1>10, <2>2 DEF Locals, Answered
<1>12. /\ r.pc = "head" /\ r.round = n /\ r.uses = uses
       /\ r.todo = turn[t].todo /\ r.mark = turn[t].mark /\ r.tries = 0 /\ r.flaws = NoFlaws
  BY DEF Answered
<1>13. r.text = a.text
  BY DEF Answered
<1> HIDE DEF r
<1>14. turn' \in [Turns -> Locals] /\ Others(t) /\ turn'[t] = r
  BY <1>8, <1>9, <1>11, TurnEffect
<1>15. QED  BY <1>3, <1>4, <1>6, <1>7, <1>12, <1>13, <1>14 DEF uses

\* The way out of the loop: the forced summary, or the end.
LEMMA LoopEndEffect ==
  ASSUME TypeOK, NEW t \in Turns, LoopEnd(t)
  PROVE  /\ turn' \in [Turns -> Locals] /\ Others(t) /\ turn'[t].mark = turn[t].mark
         /\ \/ /\ turn[t].uses # <<>> /\ turn'[t].pc = "forced" /\ turn'[t].todo = turn[t].uses
               /\ turn'[t].uses = turn[t].uses /\ turn'[t].round = turn[t].round
               /\ turn'[t].tries = turn[t].tries
            \/ /\ turn'[t].pc = IF turn[t].uses = <<>> THEN "answered" ELSE "cut"
               /\ turn'[t].round = 0 /\ turn'[t].uses = <<>> /\ turn'[t].todo = <<>>
               /\ turn'[t].tries = 0
<1>1. turn \in [Turns -> Locals] /\ turn[t] \in Locals
  BY DEF TypeOK
<1>2. CASE turn' = [turn EXCEPT ![t].pc = "forced", ![t].todo = turn[t].uses] /\ turn[t].uses # <<>>
  <2> DEFINE r == [turn[t] EXCEPT !.pc = "forced", !.todo = turn[t].uses]
  <2>1. turn' = [turn EXCEPT ![t] = r]
    BY <1>2
  <2>2. "forced" \in Places
    BY DEF Places
  <2>3. /\ r \in Locals /\ r.pc = "forced" /\ r.todo = turn[t].uses /\ r.uses = turn[t].uses
        /\ r.round = turn[t].round /\ r.tries = turn[t].tries /\ r.mark = turn[t].mark
    BY <1>1, <2>2 DEF Locals
  <2> HIDE DEF r
  <2>4. turn' \in [Turns -> Locals] /\ Others(t) /\ turn'[t] = r
    BY <1>1, <2>1, <2>3, TurnEffect
  <2>5. QED  BY <1>2, <2>3, <2>4
<1>3. CASE End(t, IF turn[t].uses = <<>> THEN "answered" ELSE "cut")
  <2> DEFINE how == IF turn[t].uses = <<>> THEN "answered" ELSE "cut"
  <2>1. how \in Ended
    BY DEF Ended
  <2>2. QED  BY <1>1, <1>3, <2>1, EndEffect
<1>4. QED  BY <1>2, <1>3 DEF LoopEnd

\* The next use's result is added.
LEMMA AddNextEffect ==
  ASSUME TypeOK, NEW t \in Turns, NEW l, AddNext(t, l)
  PROVE  /\ turn[t].todo \in Seq(IdSet) /\ turn[t].todo # <<>> /\ Head(turn[t].todo) \in IdSet
         /\ Tail(turn[t].todo) \in Seq(IdSet)
         /\ Writable(Client(t))
         /\ add_tool_result(Of(t), Head(turn[t].todo)) \in Sane
         /\ history' = [history EXCEPT ![Client(t)] = add_tool_result(Of(t), Head(turn[t].todo))]
<1>1. turn[t] \in Locals
  BY DEF TypeOK
<1>2. turn[t].todo \in Seq(IdSet) /\ turn[t].todo # <<>>
  BY <1>1 DEF Locals, AddNext
<1>3. Head(turn[t].todo) \in IdSet /\ Tail(turn[t].todo) \in Seq(IdSet)
  BY <1>2
<1>4. Of(t) \in Sane
  BY HistoryIsSane, ClientIs DEF Of
<1>5. QED  BY <1>2, <1>3, <1>4, ResultSane DEF AddNext, Write

-----------------------------------------------------------------------------
(* Type correctness: one lemma per action. *)

\* What every step of a turn starts from.
LEMMA Start ==
  ASSUME TypeInv, NEW t \in Turns
  PROVE  /\ TypeOK /\ turn \in [Turns -> Locals] /\ turn[t] \in Locals
         /\ history \in [Clients -> Sane] /\ Client(t) \in Clients /\ Of(t) \in Sane /\ Of(t) \in Seq(Messages)
         /\ limit \in Nat \ {0} /\ cancel \in BOOLEAN
         /\ turn[t].round \in Nat /\ turn[t].round <= scene.iterations /\ scene.iterations \in Nat
         /\ turn[t].uses \in Seq(IdSet) /\ turn[t].todo \in Seq(IdSet) /\ turn[t].tries \in 0..4
         /\ turn[t].mark \in {"none", "over", "detach"}
<1>1. TypeOK /\ turn \in [Turns -> Locals] /\ turn[t] \in Locals /\ cancel \in BOOLEAN
  BY DEF TypeInv, TypeOK
<1>2. history \in [Clients -> Sane] /\ limit \in Nat \ {0} /\ Client(t) \in Clients
  BY <1>1, HistoryIsSane, LimitIs, ClientIs
<1>3. Of(t) \in Sane /\ Of(t) \in Seq(Messages)
  BY <1>2 DEF Of, Sane
<1>4. scene.iterations \in Nat /\ turn[t].round <= scene.iterations
  BY <1>1, ScenesAssumption DEF TypeOK
<1>5. /\ turn[t].round \in Nat /\ turn[t].uses \in Seq(IdSet) /\ turn[t].todo \in Seq(IdSet)
      /\ turn[t].tries \in 0..4 /\ turn[t].mark \in {"none", "over", "detach"}
  BY <1>1 DEF Locals
<1>6. QED  BY <1>1, <1>2, <1>3, <1>4, <1>5

\* The steps of a turn and the user's commands keep the types, one by one.
LEMMA TypeBegin == ASSUME TypeInv, NEW t \in Turns, Begin(t) PROVE TypeInv'
<1>1. PICK l \in {"send", "routed"} : Goto(t, l)
  BY DEF Begin
<1>2. l \in Places
  BY DEF Places
<1>3. turn' \in [Turns -> Locals] /\ Others(t) /\ turn'[t].pc = l /\ turn'[t].round = turn[t].round
  BY <1>1, <1>2, Start, GotoEffect
<1>4. history' = history /\ plan' = plan /\ UNCHANGED settings /\ cancel' \in BOOLEAN
  BY Start DEF Begin
<1>5. QED  BY <1>3, <1>4, Start, TypeStep

LEMMA TypeAutoCompact == ASSUME TypeInv, NEW t \in Turns, AutoCompact(t) PROVE TypeInv'
<1>1. history' = history /\ UNCHANGED settings /\ cancel' = cancel
  BY DEF AutoCompact
<1>2. CASE Goto(t, "send") /\ UNCHANGED plan
  <2>1. "send" \in Places
    BY DEF Places
  <2>2. turn' \in [Turns -> Locals] /\ Others(t) /\ turn'[t].pc = "send" /\ turn'[t].round = turn[t].round
    BY <1>2, <2>1, Start, GotoEffect
  <2>3. QED  BY <1>1, <1>2, <2>2, Start, TypeStep
<1>3. CASE Len(Of(t)) > Recent /\ plan' = [plan EXCEPT ![t] = PlanOf(Client(t))] /\ Goto(t, "compacting")
  <2>1. "compacting" \in Places
    BY DEF Places
  <2>2. /\ turn' \in [Turns -> Locals] /\ Others(t) /\ turn'[t].pc = "compacting"
        /\ turn'[t].round = turn[t].round
    BY <1>3, <2>1, Start, GotoEffect
  <2>3. PlanOf(Client(t)) \in Plans /\ Sound(PlanOf(Client(t)).keep)
    BY <1>3, Start, PlanOfType DEF Of
  <2>4. plan'[t] = PlanOf(Client(t)) /\ PlanOf(Client(t)) # None
    BY <1>3, <2>3, Start, NamesAssumption DEF TypeOK
  <2>5. QED  BY <1>1, <1>3, <2>2, <2>3, <2>4, Start, TypeStep
<1>4. QED  BY <1>2, <1>3 DEF AutoCompact

LEMMA TypeSummarised == ASSUME TypeInv, NEW t \in Turns, Summarised(t) PROVE TypeInv'
<1>1. UNCHANGED settings /\ cancel' = cancel /\ plan' = [plan EXCEPT ![t] = None]
  BY DEF Summarised
<1>2. "send" \in Places
  BY DEF Places
<1>3. turn' \in [Turns -> Locals] /\ Others(t) /\ turn'[t].pc = "send" /\ turn'[t].round = turn[t].round
  BY <1>2, Start, GotoEffect DEF Summarised
<1>4. history' \in [Clients -> Sane]
  <2>1. plan[t] \in Plans /\ Sound(plan[t].keep)
    BY DEF Summarised, TypeInv, TypeOK
  <2>2. Compacted(Of(t), plan[t], "summary") \in Sane
    BY <2>1, Start, CompactedSane
  <2>3. QED  BY <2>2, Start, WriteEffect DEF Summarised, Write
<1>5. QED  BY <1>1, <1>3, <1>4, Start, TypeStep

\* A history stays sane when the message of a turn is appended and the whole is trimmed.
LEMMA WithMessageSane == ASSUME TypeInv, NEW t \in Turns PROVE WithMessage(t) \in Sane
<1>1. trim_history(Append(Of(t), UserText(t)), limit) \in Sane
  BY Start, UserTextSane, TrimSane
<1>2. QED  BY <1>1, SanitizeSane DEF WithMessage, Trimmed

LEMMA TypeSend == ASSUME TypeInv, NEW t \in Turns, Send(t) PROVE TypeInv'
<1>1. UNCHANGED settings /\ cancel' = cancel /\ plan' = plan
  BY DEF Send
<1>2. "sent" \in Places
  BY DEF Places
<1>3. turn' \in [Turns -> Locals] /\ Others(t) /\ turn'[t].pc = "sent" /\ turn'[t].round = turn[t].round
  BY <1>2, Start, GotoEffect DEF Send
<1>4. history' \in [Clients -> Sane]
  BY WithMessageSane, Start, WriteEffect DEF Send, Write
<1>5. QED  BY <1>1, <1>3, <1>4, Start, TypeStep

\* So does the part that the first answer and the later ones share.
LEMMA TypeReceive ==
  ASSUME TypeInv, NEW t \in Turns, NEW n \in Nat, n <= scene.iterations, NEW a \in scene.answers,
         Receive(t, n, a), UNCHANGED <<settings, cancel, plan>>
  PROVE  TypeInv'
<1>1. /\ turn' \in [Turns -> Locals] /\ Others(t) /\ turn'[t].pc = "head" /\ turn'[t].round = n
  BY Start, ReceiveEffect
<1>2. history' \in [Clients -> Sane]
  <2>1. PICK h \in Sane : history' = [history EXCEPT ![Client(t)] = h]
    BY Start, ReceiveEffect
  <2>2. QED  BY <2>1, Start, WriteEffect
<1>3. QED  BY <1>1, <1>2, Start, TypeStep

LEMMA TypeFirstAnswer == ASSUME TypeInv, NEW t \in Turns, FirstAnswer(t) PROVE TypeInv'
<1>1. 0 <= scene.iterations
  BY Start
<1>2. QED  BY <1>1, TypeReceive DEF FirstAnswer

LEMMA TypeFirstRefusal == ASSUME TypeInv, NEW t \in Turns, FirstRefusal(t) PROVE TypeInv'
<1>1. UNCHANGED settings /\ cancel' = cancel /\ plan' = plan
  BY DEF FirstRefusal
<1>2. history' \in [Clients -> Sane]
  <2>1. history' = history \/ history' = [history EXCEPT ![Client(t)] = Front(Of(t))]
    BY Start DEF FirstRefusal, Of
  <2>2. Front(Of(t)) \in Sane
    BY Start, FrontSane
  <2>3. QED  BY <2>1, <2>2, Start, WriteEffect
<1>3. CASE turn' = [turn EXCEPT ![t].pc = "send", ![t].tries = 1]
  <2> DEFINE r == [turn[t] EXCEPT !.pc = "send", !.tries = 1]
  <2>1. turn' = [turn EXCEPT ![t] = r] /\ "send" \in Places
    BY <1>3 DEF Places
  <2>0. turn[t] \in Locals /\ 1 \in 0..4
    BY Start
  <2>2. r \in Locals /\ r.pc = "send" /\ r.round = turn[t].round
    BY <2>0, <2>1 DEF Locals
  <2> HIDE DEF r
  <2>3. turn' \in [Turns -> Locals] /\ Others(t) /\ turn'[t] = r
    BY <2>1, <2>2, Start, TurnEffect
  <2>4. QED  BY <1>1, <1>2, <2>2, <2>3, Start, TypeStep
<1>4. CASE End(t, "failed")
  <2>1. turn' \in [Turns -> Locals] /\ Others(t) /\ turn'[t].pc = "failed" /\ turn'[t].round = 0
    BY <1>4, Start, EndEffect DEF Ended
  <2>2. 0 <= scene.iterations /\ cancel' \in BOOLEAN
    BY <1>1, Start
  <2>3. QED  BY <1>1, <1>2, <2>1, <2>2, TypeStep
<1>5. QED  BY <1>3, <1>4 DEF FirstRefusal

\* So does the part that the ends of the loop share.
LEMMA TypeLoopEnd ==
  ASSUME TypeInv, NEW t \in Turns, LoopEnd(t), UNCHANGED <<settings, history, cancel, plan>>
  PROVE  TypeInv'
<1>1. turn' \in [Turns -> Locals] /\ Others(t) /\ turn'[t].pc \in {"forced", "answered", "cut"}
  BY Start, LoopEndEffect
<1>2. turn'[t].round <= scene.iterations
  BY Start, LoopEndEffect
<1>3. history' \in [Clients -> Sane] /\ cancel' \in BOOLEAN
  BY Start
<1>4. QED  BY <1>1, <1>2, <1>3, TypeStep

LEMMA TypeRunTools == ASSUME TypeInv, NEW t \in Turns, RunTools(t) PROVE TypeInv'
<1> DEFINE r == [turn[t] EXCEPT !.pc = "results", !.todo = turn[t].uses]
<1>1. turn' = [turn EXCEPT ![t] = r] /\ "results" \in Places
  BY DEF RunTools, Places
<1>2. turn[t] \in Locals
  BY Start
<1>3. r \in Locals /\ r.pc = "results" /\ r.round = turn[t].round
  BY <1>1, <1>2 DEF Locals
<1> HIDE DEF r
<1>4. turn' \in [Turns -> Locals] /\ Others(t) /\ turn'[t] = r
  BY <1>1, <1>3, Start, TurnEffect
<1>5. turn[t].round < scene.iterations
  BY Start DEF RunTools, Breaks
<1>6. history' \in [Clients -> Sane] /\ cancel' \in BOOLEAN /\ UNCHANGED settings /\ plan' = plan
  BY Start DEF RunTools
<1>7. QED  BY <1>3, <1>4, <1>5, <1>6, Start, TypeStep

\* The next result is no longer to be added.
LEMMA NextTodoEffect ==
  ASSUME TypeInv, NEW t \in Turns, turn[t].todo # <<>>, NextTodo(t)
  PROVE  /\ turn' \in [Turns -> Locals] /\ Others(t)
         /\ turn'[t].pc = turn[t].pc /\ turn'[t].round = turn[t].round /\ turn'[t].uses = turn[t].uses
         /\ turn'[t].todo = Tail(turn[t].todo) /\ turn'[t].mark = turn[t].mark
         /\ turn'[t].tries = turn[t].tries
         /\ turn'[t].flaws = turn[t].flaws /\ turn'[t].text = turn[t].text
<1> DEFINE r == [turn[t] EXCEPT !.todo = Tail(turn[t].todo)]
<1>1. turn' = [turn EXCEPT ![t] = r]
  BY Start DEF NextTodo
<1>2. turn[t] \in Locals /\ Tail(turn[t].todo) \in Seq(IdSet)
  BY Start
<1>3. /\ r \in Locals /\ r.pc = turn[t].pc /\ r.round = turn[t].round /\ r.uses = turn[t].uses
      /\ r.todo = Tail(turn[t].todo) /\ r.mark = turn[t].mark /\ r.tries = turn[t].tries
  BY <1>2 DEF Locals
<1>4. r.flaws = turn[t].flaws /\ r.text = turn[t].text
  BY <1>2 DEF Locals
<1> HIDE DEF r
<1>5. turn' \in [Turns -> Locals] /\ Others(t) /\ turn'[t] = r
  BY <1>1, <1>3, Start, TurnEffect
<1>6. QED  BY <1>3, <1>4, <1>5

\* The batch is marked as well.
LEMMA MarkEffect ==
  ASSUME TypeInv, NEW t \in Turns, NEW todo \in Seq(IdSet), NEW mark \in {"none", "over", "detach"},
         turn' = [turn EXCEPT ![t].todo = todo, ![t].mark = mark]
  PROVE  /\ turn' \in [Turns -> Locals] /\ Others(t)
         /\ turn'[t].pc = turn[t].pc /\ turn'[t].round = turn[t].round /\ turn'[t].uses = turn[t].uses
         /\ turn'[t].todo = todo /\ turn'[t].mark = mark /\ turn'[t].tries = turn[t].tries
         /\ turn'[t].flaws = turn[t].flaws /\ turn'[t].text = turn[t].text
<1> DEFINE r == [turn[t] EXCEPT !.todo = todo, !.mark = mark]
<1>1. turn' = [turn EXCEPT ![t] = r]
  OBVIOUS
<1>2. turn[t] \in Locals
  BY Start
<1>3. /\ r \in Locals /\ r.pc = turn[t].pc /\ r.round = turn[t].round /\ r.uses = turn[t].uses
      /\ r.todo = todo /\ r.mark = mark /\ r.tries = turn[t].tries
  BY <1>2 DEF Locals
<1>4. r.flaws = turn[t].flaws /\ r.text = turn[t].text
  BY <1>2 DEF Locals
<1> HIDE DEF r
<1>5. turn' \in [Turns -> Locals] /\ Others(t) /\ turn'[t] = r
  BY <1>1, <1>3, Start, TurnEffect
<1>6. QED  BY <1>3, <1>4, <1>5

\* What adding a result does to the turn.
LEMMA AddResultTurn ==
  ASSUME TypeInv, NEW t \in Turns, AddResult(t)
  PROVE  /\ turn' \in [Turns -> Locals] /\ Others(t)
         /\ turn'[t].pc = turn[t].pc /\ turn'[t].round = turn[t].round /\ turn'[t].uses = turn[t].uses
         /\ turn'[t].tries = turn[t].tries
         /\ turn'[t].flaws = turn[t].flaws /\ turn'[t].text = turn[t].text
         /\ \/ turn'[t].todo = Tail(turn[t].todo) /\ turn'[t].mark \in {turn[t].mark, "detach"}
            \/ turn'[t].todo = <<>> /\ turn'[t].mark = "over"
<1>1. turn[t].todo # <<>> /\ Tail(turn[t].todo) \in Seq(IdSet) /\ <<>> \in Seq(IdSet)
  BY Start, AddNextEffect DEF AddResult
<1>2. CASE NextTodo(t)
  BY <1>1, <1>2, NextTodoEffect
<1>3. CASE turn' = [turn EXCEPT ![t].todo = Tail(@), ![t].mark = "detach"]
  <2>1. turn' = [turn EXCEPT ![t].todo = Tail(turn[t].todo), ![t].mark = "detach"]
    BY <1>3, Start
  <2>2. QED  BY <1>1, <2>1, MarkEffect
<1>4. CASE turn' = [turn EXCEPT ![t].todo = <<>>, ![t].mark = "over"]
  BY <1>1, <1>4, MarkEffect
<1>5. QED  BY <1>2, <1>3, <1>4 DEF AddResult

LEMMA TypeAddResult == ASSUME TypeInv, NEW t \in Turns, AddResult(t) PROVE TypeInv'
<1>1. turn[t].pc = "results" /\ history' \in [Clients -> Sane]
  <2>1. /\ add_tool_result(Of(t), Head(turn[t].todo)) \in Sane
        /\ history' = [history EXCEPT ![Client(t)] = add_tool_result(Of(t), Head(turn[t].todo))]
    BY Start, AddNextEffect DEF AddResult
  <2>2. turn[t].pc = "results"
    BY DEF AddResult, AddNext, At
  <2>3. QED  BY <2>1, <2>2, Start, WriteEffect
<1>2. /\ turn' \in [Turns -> Locals] /\ Others(t)
      /\ turn'[t].pc = turn[t].pc /\ turn'[t].round = turn[t].round
  BY AddResultTurn
<1>3. UNCHANGED settings /\ cancel' = cancel /\ plan' = plan
  BY DEF AddResult
<1>4. turn[t].round < scene.iterations
  BY <1>1 DEF TypeInv
<1>5. QED  BY <1>1, <1>2, <1>3, <1>4, Start, TypeStep

\* What going on after the batch does to the turn.
LEMMA TrimBatchTurn ==
  ASSUME TypeInv, NEW t \in Turns, TrimBatch(t)
  PROVE  /\ turn' \in [Turns -> Locals] /\ Others(t) /\ turn'[t].mark = turn[t].mark
         /\ \/ /\ turn[t].mark = "over" /\ turn'[t].pc = "padding" /\ turn'[t].todo = turn[t].uses
               /\ turn'[t].uses = turn[t].uses /\ turn'[t].round = turn[t].round
               /\ turn'[t].tries = turn[t].tries
            \/ turn[t].mark = "detach" /\ turn'[t].pc = "detached" /\ turn'[t].round = 0
               /\ turn'[t].uses = <<>> /\ turn'[t].todo = <<>> /\ turn'[t].tries = 0
            \/ /\ turn[t].mark = "none" /\ turn'[t].pc = "ask" /\ turn'[t].todo = turn[t].todo
               /\ turn'[t].uses = turn[t].uses /\ turn'[t].round = turn[t].round
               /\ turn'[t].tries = turn[t].tries
<1>1. CASE turn[t].mark = "over" /\ turn' = [turn EXCEPT ![t].pc = "padding", ![t].todo = turn[t].uses]
  <2> DEFINE r == [turn[t] EXCEPT !.pc = "padding", !.todo = turn[t].uses]
  <2>1. turn' = [turn EXCEPT ![t] = r] /\ "padding" \in Places
    BY <1>1 DEF Places
  <2>2. turn[t] \in Locals
    BY Start
  <2>3. /\ r \in Locals /\ r.pc = "padding" /\ r.round = turn[t].round /\ r.uses = turn[t].uses
        /\ r.todo = turn[t].uses /\ r.mark = turn[t].mark /\ r.tries = turn[t].tries
    BY <2>1, <2>2 DEF Locals
  <2> HIDE DEF r
  <2>4. turn' \in [Turns -> Locals] /\ Others(t) /\ turn'[t] = r
    BY <2>1, <2>3, Start, TurnEffect
  <2>5. QED  BY <1>1, <2>3, <2>4
<1>2. CASE turn[t].mark = "detach" /\ End(t, "detached")
  BY <1>2, Start, EndEffect DEF Ended
<1>3. CASE turn[t].mark = "none" /\ Goto(t, "ask")
  <2>1. "ask" \in Places
    BY DEF Places
  <2>2. QED  BY <1>3, <2>1, Start, GotoEffect
<1>4. QED  BY <1>1, <1>2, <1>3 DEF TrimBatch

LEMMA TypeTrimBatch == ASSUME TypeInv, NEW t \in Turns, TrimBatch(t) PROVE TypeInv'
<1>1. history' \in [Clients -> Sane]
  <2>1. trim_history(Of(t), limit) \in Sane
    BY Start, TrimSane
  <2>2. QED  BY <2>1, Start, WriteEffect DEF TrimBatch, Write, Trimmed
<1>2. UNCHANGED settings /\ cancel' = cancel /\ cancel' \in BOOLEAN /\ plan' = plan
  BY Start DEF TrimBatch
<1>3. turn[t].round < scene.iterations
  BY DEF TrimBatch, At, TypeInv
<1>4. /\ turn' \in [Turns -> Locals] /\ Others(t) /\ turn'[t].pc \in {"padding", "detached", "ask"}
      /\ turn'[t].round \in {0, turn[t].round}
  BY TrimBatchTurn
<1>5. turn'[t].round < scene.iterations /\ turn'[t].round <= scene.iterations
  BY <1>3, <1>4, Start
<1>6. QED  BY <1>1, <1>2, <1>4, <1>5, TypeStep

LEMMA TypePad == ASSUME TypeInv, NEW t \in Turns, Pad(t) PROVE TypeInv'
<1>1. UNCHANGED settings /\ cancel' = cancel /\ cancel' \in BOOLEAN /\ plan' = plan
  BY Start DEF Pad
<1>2. CASE AddNext(t, "padding") /\ NextTodo(t)
  <2>1. turn[t].pc = "padding" /\ turn[t].todo # <<>>
    BY <1>2 DEF AddNext, At
  <2>2. /\ turn' \in [Turns -> Locals] /\ Others(t) /\ turn'[t].pc = "padding"
        /\ turn'[t].round = turn[t].round
    BY <1>2, <2>1, NextTodoEffect
  <2>3. turn[t].round < scene.iterations
    BY <2>1 DEF TypeInv, At
  <2>4. history' \in [Clients -> Sane]
    BY <1>2, Start, AddNextEffect, WriteEffect
  <2>5. QED  BY <1>1, <2>2, <2>3, <2>4, Start, TypeStep
<1>3. CASE LoopEnd(t) /\ UNCHANGED history
  BY <1>1, <1>3, TypeLoopEnd
<1>4. QED  BY <1>2, <1>3 DEF Pad

\* What making a request does to the turn.
LEMMA AskEffect ==
  ASSUME TypeInv, NEW t \in Turns, NEW l \in Places, AskWith(t, l)
  PROVE  /\ turn' \in [Turns -> Locals] /\ Others(t)
         /\ turn'[t].pc = l /\ turn'[t].round = turn[t].round /\ turn'[t].uses = turn[t].uses
         /\ turn'[t].todo = turn[t].todo /\ turn'[t].mark = turn[t].mark
         /\ turn'[t].tries = turn[t].tries
         /\ turn'[t].flaws = FlawsOf(Of(t))
<1> DEFINE r == [turn[t] EXCEPT !.pc = l, !.flaws = FlawsOf(Of(t))]
<1>1. turn' = [turn EXCEPT ![t] = r]
  BY DEF AskWith
<1>2. turn[t] \in Locals
  BY Start
<1>3. FlawsOf(Of(t)) \in [opens : BOOLEAN, ids : SUBSET IdSet]
  <2>1. Of(t) \in Seq(Messages)
    BY Start
  <2>2. Uses(Of(t)) \subseteq IdSet /\ Results(Of(t)) \subseteq IdSet
        /\ Flaws(Of(t)) \subseteq Uses(Of(t)) \cup Results(Of(t))
    BY <2>1, MessagesAre, FlawsWithin
  <2>3. Flaws(Of(t)) \subseteq IdSet
    BY <2>2
  <2>4. QED  BY <2>3 DEF FlawsOf, Opens
<1>4. /\ r \in Locals /\ r.pc = l /\ r.round = turn[t].round /\ r.uses = turn[t].uses
      /\ r.todo = turn[t].todo /\ r.mark = turn[t].mark /\ r.tries = turn[t].tries
  BY <1>2, <1>3 DEF Locals
<1>5. r.flaws = FlawsOf(Of(t))
  BY <1>2 DEF Locals
<1> HIDE DEF r
<1>6. turn' \in [Turns -> Locals] /\ Others(t) /\ turn'[t] = r
  BY <1>1, <1>4, Start, TurnEffect
<1>7. QED  BY <1>4, <1>5, <1>6

LEMMA TypeAsk == ASSUME TypeInv, NEW t \in Turns, Ask(t) PROVE TypeInv'
<1>1. "asked" \in Places
  BY DEF Places
<1>2. /\ turn' \in [Turns -> Locals] /\ Others(t) /\ turn'[t].pc = "asked"
      /\ turn'[t].round = turn[t].round
  BY <1>1, AskEffect DEF Ask
<1>3. turn[t].round < scene.iterations
  BY DEF Ask, At, TypeInv
<1>4. history' \in [Clients -> Sane] /\ UNCHANGED settings /\ plan' = plan /\ cancel' \in BOOLEAN
  BY Start DEF Ask
<1>5. QED  BY <1>2, <1>3, <1>4, Start, TypeStep

LEMMA TypeNextAnswer == ASSUME TypeInv, NEW t \in Turns, NextAnswer(t) PROVE TypeInv'
<1>1. turn[t].round < scene.iterations
  BY DEF NextAnswer, At, TypeInv
<1>2. turn[t].round + 1 \in Nat /\ turn[t].round + 1 <= scene.iterations
  BY <1>1, Start
<1>3. QED  BY <1>2, TypeReceive DEF NextAnswer

\* What a refusal does to the turn.
LEMMA NextRefusalTurn ==
  ASSUME TypeInv, NEW t \in Turns, NextRefusal(t)
  PROVE  /\ turn' \in [Turns -> Locals] /\ Others(t) /\ turn'[t].mark = turn[t].mark
         /\ \/ /\ turn[t].tries < 4 /\ turn'[t].pc = "repair" /\ turn'[t].tries = turn[t].tries + 1
               /\ turn'[t].round = turn[t].round /\ turn'[t].uses = turn[t].uses
               /\ turn'[t].todo = turn[t].todo
            \/ turn'[t].pc = "failed" /\ turn'[t].round = 0
               /\ turn'[t].uses = <<>> /\ turn'[t].todo = <<>> /\ turn'[t].tries = 0
<1>1. CASE /\ IF turn[t].tries = 0 THEN turn[t].flaws.ids # {} ELSE turn[t].tries < 4
           /\ turn' = [turn EXCEPT ![t].pc = "repair", ![t].tries = @ + 1, ![t].flaws = NoFlaws]
  <2> DEFINE r == [turn[t] EXCEPT !.pc = "repair", !.tries = turn[t].tries + 1, !.flaws = NoFlaws]
  <2>1. turn[t] \in Locals /\ turn[t].tries \in 0..4
    BY Start
  <2>2. turn[t].tries < 4 /\ turn[t].tries + 1 \in 0..4
    BY <1>1, <2>1
  <2>3. turn' = [turn EXCEPT ![t] = r]
    BY <1>1
  <2>4. "repair" \in Places /\ NoFlaws \in [opens : BOOLEAN, ids : SUBSET IdSet]
    BY DEF Places, NoFlaws
  <2>5. r \in Locals
    BY <2>1, <2>2, <2>4 DEF Locals
  <2>6. /\ r.pc = "repair" /\ r.tries = turn[t].tries + 1 /\ r.round = turn[t].round
        /\ r.uses = turn[t].uses /\ r.todo = turn[t].todo /\ r.mark = turn[t].mark
    BY <2>1 DEF Locals
  <2> HIDE DEF r
  <2>7. turn' \in [Turns -> Locals] /\ Others(t) /\ turn'[t] = r
    BY <2>3, <2>5, Start, TurnEffect
  <2>8. QED  BY <2>2, <2>6, <2>7
<1>2. CASE End(t, "failed")
  BY <1>2, Start, EndEffect DEF Ended
<1>3. QED  BY <1>1, <1>2 DEF NextRefusal

LEMMA TypeNextRefusal == ASSUME TypeInv, NEW t \in Turns, NextRefusal(t) PROVE TypeInv'
<1>1. turn[t].round < scene.iterations
  BY DEF NextRefusal, At, TypeInv
<1>2. history' \in [Clients -> Sane] /\ UNCHANGED settings /\ plan' = plan /\ cancel' \in BOOLEAN
  BY Start DEF NextRefusal
<1>3. /\ turn' \in [Turns -> Locals] /\ Others(t) /\ turn'[t].pc \in {"repair", "failed"}
      /\ turn'[t].round \in {0, turn[t].round}
      /\ turn'[t].pc = "repair" => turn'[t].tries # 0
  <2>1. turn[t].tries + 1 # 0
    BY Start
  <2>2. QED  BY <2>1, NextRefusalTurn
<1>4. turn'[t].round < scene.iterations /\ turn'[t].round <= scene.iterations
  BY <1>1, <1>3, Start
<1>5. QED  BY <1>2, <1>3, <1>4, TypeStep

LEMMA TypeRepair == ASSUME TypeInv, NEW t \in Turns, Repair(t) PROVE TypeInv'
<1>1. UNCHANGED settings /\ cancel' = cancel /\ cancel' \in BOOLEAN /\ plan' = plan
  BY Start DEF Repair
<1>2. turn[t].round < scene.iterations /\ turn[t].tries \in 1..4
  BY Start DEF Repair, At, TypeInv
<1>3. "ask" \in Places
  BY DEF Places
<1>4. turn' \in [Turns -> Locals] /\ Others(t) /\ turn'[t].pc = "ask" /\ turn'[t].round = turn[t].round
  BY <1>3, Start, GotoEffect DEF Repair
<1>5. history' \in [Clients -> Sane]
  <2>1. repair(turn[t].tries, Of(t), KeepLast) \in Sane
    BY <1>2, Start, RepairSane
  <2>2. QED  BY <2>1, Start, WriteEffect DEF Repair, Write
<1>6. turn'[t].round < scene.iterations /\ turn'[t].round <= scene.iterations
  BY <1>2, <1>4, Start
<1>7. QED  BY <1>1, <1>4, <1>5, <1>6, TypeStep

LEMMA TypeAddForced == ASSUME TypeInv, NEW t \in Turns, AddForced(t) PROVE TypeInv'
<1>1. UNCHANGED settings /\ cancel' = cancel /\ cancel' \in BOOLEAN /\ plan' = plan
  BY Start DEF AddForced
<1>2. CASE AddNext(t, "forced") /\ NextTodo(t)
  <2>1. turn[t].pc = "forced" /\ turn[t].todo # <<>>
    BY <1>2 DEF AddNext, At
  <2>2. /\ turn' \in [Turns -> Locals] /\ Others(t) /\ turn'[t].pc = "forced"
        /\ turn'[t].round = turn[t].round
    BY <1>2, <2>1, NextTodoEffect
  <2>3. history' \in [Clients -> Sane]
    BY <1>2, Start, AddNextEffect, WriteEffect
  <2>4. QED  BY <1>1, <2>2, <2>3, Start, TypeStep
<1>3. CASE Write(Client(t), Trimmed(Of(t))) /\ Goto(t, "lastAsk")
  <2>1. "lastAsk" \in Places
    BY DEF Places
  <2>2. turn' \in [Turns -> Locals] /\ Others(t) /\ turn'[t].pc = "lastAsk" /\ turn'[t].round = turn[t].round
    BY <1>3, <2>1, Start, GotoEffect
  <2>3. history' \in [Clients -> Sane]
    <3>1. trim_history(Of(t), limit) \in Sane
      BY Start, TrimSane
    <3>2. QED  BY <1>3, <3>1, Start, WriteEffect DEF Write, Trimmed
  <2>4. QED  BY <1>1, <2>2, <2>3, Start, TypeStep
<1>4. QED  BY <1>2, <1>3 DEF AddForced

LEMMA TypeAskLast == ASSUME TypeInv, NEW t \in Turns, AskLast(t) PROVE TypeInv'
<1>1. "lastAsked" \in Places
  BY DEF Places
<1>2. /\ turn' \in [Turns -> Locals] /\ Others(t) /\ turn'[t].pc = "lastAsked"
      /\ turn'[t].round = turn[t].round
  BY <1>1, AskEffect DEF AskLast
<1>3. history' \in [Clients -> Sane] /\ UNCHANGED settings /\ plan' = plan /\ cancel' \in BOOLEAN
  BY Start DEF AskLast
<1>4. QED  BY <1>2, <1>3, Start, TypeStep

LEMMA TypeLastAnswer == ASSUME TypeInv, NEW t \in Turns, LastAnswer(t) PROVE TypeInv'
<1>1. UNCHANGED settings /\ cancel' \in BOOLEAN /\ plan' = plan
  BY Start DEF LastAnswer
<1>2. PICK how \in {"answered", "failed"} : End(t, how)
  BY DEF LastAnswer
<1>3. turn' \in [Turns -> Locals] /\ Others(t) /\ turn'[t].pc = how /\ turn'[t].round = 0
  BY <1>2, Start, EndEffect DEF Ended
<1>4. history' \in [Clients -> Sane]
  <2>1. trim_history(Append(Of(t), Answer(t, <<>>)), limit) \in Sane
    <3>1. <<>> \in Seq(IdSet) /\ t \in Turns \cup {NoText}
      OBVIOUS
    <3>2. Append(Of(t), Answer(t, <<>>)) \in Sane
      BY <3>1, Start, AnswerSane
    <3>3. QED  BY <3>2, Start, TrimSane
  <2>2. history' = history \/ history' = [history EXCEPT ![Client(t)] = Trimmed(Append(Of(t), Answer(t, <<>>)))]
    BY DEF LastAnswer, Write
  <2>3. QED  BY <2>1, <2>2, Start, WriteEffect DEF Trimmed
<1>5. turn'[t].round <= scene.iterations
  BY <1>3, Start
<1>6. QED  BY <1>1, <1>3, <1>4, <1>5, TypeStep

-----------------------------------------------------------------------------
(* The commands. *)

\* What the commands share: they leave the turns alone.
LEMMA TypeCommand ==
  ASSUME TypeInv, history' \in [Clients -> Sane], limit' \in Limits, trimDue' \in BOOLEAN,
         cancel' \in BOOLEAN, scene' = scene, turn' = turn,
         \/ plan' = plan
         \/ \E p \in Plans \cup {None} : plan' = [plan EXCEPT ![Command] = p] /\ (p # None => Sound(p.keep)),
         commands' \in 0..scene.commands
  PROVE  TypeInv'
<1>0. plan \in [Turns \cup {Command} -> Plans \cup {None}] /\ Command \notin Turns
  BY NamesAssumption DEF TypeInv, TypeOK
<1>1. plan' \in [Turns \cup {Command} -> Plans \cup {None}]
  BY <1>0
<1>2. \A p \in Turns \cup {Command} : plan'[p] # None => Sound(plan'[p].keep)
  BY <1>0 DEF TypeInv
<1>3. \A u \in Turns : plan'[u] = plan[u]
  BY <1>0
<1>4. TypeOK'
  BY <1>1, SaneIsTyped DEF TypeInv, TypeOK
<1>5. QED  BY <1>2, <1>3, <1>4 DEF TypeInv, At

LEMMA TypeCommands == ASSUME TypeInv, Commands PROVE TypeInv'
<1>1. /\ TypeOK /\ history \in [Clients -> Sane] /\ "main" \in Clients /\ limit \in Limits /\ trimDue \in BOOLEAN
      /\ cancel \in BOOLEAN /\ limit \in Nat \ {0} /\ scene.commands \in Nat /\ commands \in 0..scene.commands
  BY HistoryIsSane, LimitIs, ScenesAssumption DEF TypeInv, TypeOK, Clients
<1>2. plan \in [Turns \cup {Command} -> Plans \cup {None}]
  BY DEF TypeInv, TypeOK
<1>3. ASSUME Issue PROVE commands' \in 0..scene.commands /\ cancel' = cancel /\ scene' = scene /\ turn' = turn
  BY <1>1, <1>3 DEF Issue
<1>4. \A h \in Sane : Write("main", h) => history' \in [Clients -> Sane]
  BY <1>1, WriteEffect DEF Write
<1>5. CASE CancelMessage
  BY <1>1, <1>5, TypeCommand DEF CancelMessage, settings
<1>6. CASE NewConversation
  BY <1>1, <1>3, <1>4, <1>6, EmptySane, TypeCommand DEF NewConversation
<1>7. CASE LoadSession
  BY <1>1, <1>3, <1>4, <1>7, SavedSane, TrimSane, TypeCommand DEF LoadSession, Trimmed
<1>8. CASE SetLimit
  BY <1>1, <1>3, <1>8, TypeCommand DEF SetLimit
<1>9. CASE ApplyLimit
  BY <1>1, <1>4, <1>9, TrimSane, TypeCommand DEF ApplyLimit, Trimmed
<1>10. CASE CompactCommand
  <2>1. PlanOf("main") \in Plans /\ Sound(PlanOf("main").keep)
    BY <1>1, <1>10, PlanOfType DEF CompactCommand
  <2>2. plan' = [plan EXCEPT ![Command] = PlanOf("main")] /\ UNCHANGED <<history, limit, trimDue>> /\ Issue
    BY <1>10 DEF CompactCommand
  <2>3. QED  BY <1>1, <1>3, <2>1, <2>2, TypeCommand
<1>11. CASE CompactDone
  <2>1. plan[Command] \in Plans /\ Sound(plan[Command].keep)
    BY <1>2, <1>11 DEF CompactDone, TypeInv
  <2>2. Compacted(history["main"], plan[Command], "summary") \in Sane
    BY <1>1, <2>1, CompactedSane
  <2>3. history' \in [Clients -> Sane]
    BY <1>1, <1>4, <1>11, <2>2 DEF CompactDone
  <2>4. /\ plan' = [plan EXCEPT ![Command] = None] /\ limit' = limit /\ trimDue' = trimDue
        /\ cancel' = cancel /\ scene' = scene /\ turn' = turn /\ commands' = commands
    BY <1>11 DEF CompactDone, settings
  <2>5. QED  BY <1>1, <2>3, <2>4, TypeCommand
<1>12. QED  BY <1>5, <1>6, <1>7, <1>8, <1>9, <1>10, <1>11 DEF Commands

-----------------------------------------------------------------------------
\* Every variable starts with its type.
LEMMA TypeInit == Init => TypeInv
<1> SUFFICES ASSUME Init PROVE TypeInv
  OBVIOUS
<1>1. history \in [Clients -> Seq(Messages)] /\ \A c \in Clients : history[c] = <<>>
  BY DEF Init
<1>0. scene \in Scenes /\ limit = scene.limit /\ commands = 0 /\ trimDue = FALSE /\ cancel = FALSE
  BY DEF Init
<1>2. /\ limit \in Limits /\ trimDue \in BOOLEAN /\ cancel \in BOOLEAN /\ scene \in Scenes
      /\ scene.iterations \in Nat /\ scene.commands \in Nat /\ commands \in 0..scene.commands
  <2>1. scene.limit \in Limits /\ scene.iterations \in Nat /\ scene.commands \in Nat
    BY <1>0, ScenesAssumption
  <2>2. 0 \in 0..scene.commands
    BY <2>1
  <2>3. trimDue \in BOOLEAN /\ cancel \in BOOLEAN
    BY <1>0
  <2>4. QED  BY <1>0, <2>1, <2>2, <2>3
<1> DEFINE r == Idle("idle", "none")
<1>3. "idle" \in Places /\ <<>> \in Seq(IdSet) /\ NoFlaws \in [opens : BOOLEAN, ids : SUBSET IdSet]
  BY DEF Places, NoFlaws
<1>4. r \in Locals /\ r.pc = "idle" /\ r.round = 0
  BY <1>3 DEF Idle, Locals
<1>5. turn = [t \in Turns |-> r]
  BY DEF Init
<1> HIDE DEF r
<1>6. turn \in [Turns -> Locals] /\ \A t \in Turns : turn[t].pc = "idle" /\ turn[t].round <= scene.iterations
  BY <1>2, <1>4, <1>5
<1>7. plan \in [Turns \cup {Command} -> Plans \cup {None}] /\ \A p \in Turns \cup {Command} : plan[p] = None
  BY DEF Init
<1>8. TypeOK
  BY <1>1, <1>2, <1>6, <1>7 DEF TypeOK
<1>9. QED  BY <1>6, <1>7, <1>8 DEF TypeInv, At

\* Every step keeps the types.
LEMMA TypeNext == TypeInv /\ [Next]_vars => TypeInv'
<1> SUFFICES ASSUME TypeInv, [Next]_vars PROVE TypeInv'
  OBVIOUS
<1>1. CASE UNCHANGED vars
  BY <1>1 DEF vars, TypeInv, TypeOK, At
<1>2. ASSUME NEW t \in Turns, Begin(t) PROVE TypeInv'
  BY <1>2, TypeBegin
<1>3. ASSUME NEW t \in Turns, Leave(t) \/ TimeOut(t) PROVE TypeInv'
  BY <1>3, TypeLoopEnd DEF Leave, TimeOut
<1>4. ASSUME NEW t \in Turns, Steps(t) PROVE TypeInv'
  BY <1>3, <1>4, TypeAutoCompact, TypeSummarised, TypeSend, TypeFirstAnswer, TypeFirstRefusal,
     TypeRunTools, TypeAddResult, TypeTrimBatch, TypePad, TypeAsk, TypeNextAnswer, TypeNextRefusal,
     TypeRepair, TypeAddForced, TypeAskLast, TypeLastAnswer DEF Steps
<1>5. CASE Commands
  BY <1>5, TypeCommands
<1>6. QED  BY <1>1, <1>2, <1>4, <1>5 DEF Next

(* Every variable keeps its type, whatever the turns, their interleaving   *)
(* and the commands given beside them: no cut, repair or compaction makes  *)
(* the user ask for a tool, or leaves a message of the user with nothing   *)
(* in it.                                                                  *)
THEOREM ToolLoopTypes == Spec => []TypeOK
<1>1. TypeInv => TypeOK
  BY DEF TypeInv
<1>2. QED  BY <1>1, TypeInit, TypeNext, PTL DEF Spec

-----------------------------------------------------------------------------
(* How a turn moves: each step is of one of six kinds. *)

Same(t) == /\ turn'[t].uses = turn[t].uses /\ turn'[t].todo = turn[t].todo
           /\ turn'[t].mark = turn[t].mark /\ turn'[t].tries = turn[t].tries
           /\ turn'[t].round = turn[t].round

\* on its way, to the next place
Goes(t) ==
  /\ <<turn[t].pc, turn'[t].pc>> \in
       {<<"idle", "send">>, <<"idle", "routed">>, <<"routed", "send">>, <<"routed", "compacting">>,
        <<"compacting", "send">>, <<"send", "sent">>, <<"results", "ask">>, <<"ask", "asked">>,
        <<"repair", "ask">>, <<"forced", "lastAsk">>, <<"lastAsk", "lastAsked">>}
  /\ turn[t].pc = "results" => turn[t].mark = "none"
  /\ Same(t)

\* an answer came
Heads(t) ==
  /\ turn[t].pc \in {"sent", "asked"} /\ turn'[t].pc = "head"
  /\ turn'[t].round = IF turn[t].pc = "sent" THEN 0 ELSE turn[t].round + 1
  /\ \E w \in Nat : turn'[t].uses = Ids(t, turn'[t].round, w)
  /\ turn'[t].tries = 0 /\ turn'[t].todo = turn[t].todo /\ turn'[t].mark = turn[t].mark

\* a refusal came
Retries(t) ==
  /\ \/ turn[t].pc = "sent" /\ turn'[t].pc = "send" /\ turn'[t].tries = 1
     \/ turn[t].pc = "asked" /\ turn'[t].pc = "repair" /\ turn'[t].tries = turn[t].tries + 1
  /\ turn'[t].uses = turn[t].uses /\ turn'[t].todo = turn[t].todo /\ turn'[t].mark = turn[t].mark
  /\ turn'[t].round = turn[t].round

\* every use of the last answer gets a result
Takes(t) ==
  /\ <<turn[t].pc, turn'[t].pc>> \in
       {<<"head", "results">>, <<"head", "forced">>, <<"results", "padding">>, <<"padding", "forced">>}
  /\ turn'[t].todo = turn[t].uses
  /\ turn'[t].uses = turn[t].uses /\ turn'[t].mark = turn[t].mark /\ turn'[t].tries = turn[t].tries
  /\ turn'[t].round = turn[t].round
  /\ turn[t].pc = "results" => turn[t].mark = "over"
  /\ turn'[t].pc \in {"results", "forced"} => turn[t].uses # <<>>

\* one got it
Adds(t) ==
  /\ turn[t].pc \in {"results", "padding", "forced"} /\ turn'[t].pc = turn[t].pc
  /\ turn[t].todo # <<>>
  /\ turn'[t].uses = turn[t].uses /\ turn'[t].tries = turn[t].tries /\ turn'[t].round = turn[t].round
  /\ \/ turn'[t].todo = Tail(turn[t].todo) /\ turn'[t].mark = turn[t].mark
     \/ turn[t].pc = "results" /\ turn'[t].todo = Tail(turn[t].todo) /\ turn'[t].mark = "detach"
     \/ turn[t].pc = "results" /\ turn'[t].todo = <<>> /\ turn'[t].mark = "over"

\* it is over
Stops(t) ==
  /\ turn[t].pc \notin Ended \cup {"idle"} /\ turn'[t].pc \in Ended
  /\ turn[t].pc \in {"head", "padding"} => turn'[t].pc = IF turn[t].uses = <<>> THEN "answered" ELSE "cut"
  /\ turn[t].pc \notin {"head", "padding"} => turn'[t].pc # "cut"
  /\ turn'[t].uses = <<>> /\ turn'[t].todo = <<>> /\ turn'[t].tries = 0
  /\ turn'[t].mark = turn[t].mark

Moves(t) == Goes(t) \/ Heads(t) \/ Retries(t) \/ Takes(t) \/ Adds(t) \/ Stops(t)

\* Each way a step moves a turn on is one that Moves allows: going to another place ...
LEMMA GotoMoves ==
  ASSUME TypeInv, NEW t \in Turns, NEW l \in Places, Goto(t, l),
         <<turn[t].pc, l>> \in
           {<<"idle", "send">>, <<"idle", "routed">>, <<"routed", "send">>, <<"routed", "compacting">>,
            <<"compacting", "send">>, <<"send", "sent">>, <<"results", "ask">>, <<"ask", "asked">>,
            <<"repair", "ask">>, <<"forced", "lastAsk">>, <<"lastAsk", "lastAsked">>},
         turn[t].pc = "results" => turn[t].mark = "none"
  PROVE  Moves(t) /\ Others(t) /\ turn' \in [Turns -> Locals]
  BY Start, GotoEffect DEF Moves, Goes, Same

\* ... ending ...
LEMMA EndMoves ==
  ASSUME TypeInv, NEW t \in Turns, NEW how \in Ended, End(t, how), turn[t].pc \notin Ended \cup {"idle", "head", "padding"},
         how # "cut"
  PROVE  Moves(t) /\ Others(t) /\ turn' \in [Turns -> Locals]
  BY Start, EndEffect DEF Moves, Stops

\* ... leaving the loop when its rounds are over or the user cancelled ...
LEMMA LoopEndMoves ==
  ASSUME TypeInv, NEW t \in Turns, turn[t].pc \in {"head", "padding"}, LoopEnd(t)
  PROVE  Moves(t) /\ Others(t) /\ turn' \in [Turns -> Locals]
<1>1. turn[t].pc \notin Ended \cup {"idle"}
  BY DEF Ended
<1>2. "answered" \in Ended /\ "cut" \in Ended
  BY DEF Ended
<1>3. QED  BY <1>1, <1>2, Start, LoopEndEffect DEF Moves, Takes, Stops

\* ... receiving an answer ...
LEMMA ReceiveMoves ==
  ASSUME TypeInv, NEW t \in Turns, turn[t].pc \in {"sent", "asked"}, NEW n \in Nat,
         n = IF turn[t].pc = "sent" THEN 0 ELSE turn[t].round + 1,
         NEW a \in scene.answers, Receive(t, n, a)
  PROVE  Moves(t) /\ Others(t) /\ turn' \in [Turns -> Locals]
<1>1. a \in [text : BOOLEAN, uses : Nat]
  BY ScenesAssumption DEF TypeInv, TypeOK
<1>2. a.uses \in Nat
  BY <1>1
<1>3. QED  BY <1>2, Start, ReceiveEffect DEF Moves, Heads

\* ... asking again ...
LEMMA AskMoves ==
  ASSUME TypeInv, NEW t \in Turns, NEW l \in Places, AskWith(t, l),
         <<turn[t].pc, l>> \in {<<"ask", "asked">>, <<"lastAsk", "lastAsked">>}
  PROVE  Moves(t) /\ Others(t) /\ turn' \in [Turns -> Locals]
  BY Start, AskEffect DEF Moves, Goes, Same

\* ... and adding a result.
LEMMA AddsMoves ==
  ASSUME TypeInv, NEW t \in Turns, turn[t].pc \in {"results", "padding", "forced"}, turn[t].todo # <<>>, NextTodo(t)
  PROVE  Moves(t) /\ Others(t) /\ turn' \in [Turns -> Locals]
  BY NextTodoEffect DEF Moves, Adds

\* Every step of a turn is a move.
LEMMA StepMoves ==
  ASSUME TypeInv, NEW t \in Turns, Begin(t) \/ Steps(t)
  PROVE  Moves(t) /\ Others(t) /\ turn' \in [Turns -> Locals]
<1>0. {"send", "routed", "compacting", "sent", "ask", "asked", "lastAsk", "lastAsked"} \subseteq Places
      /\ Ended = {"answered", "cut", "failed", "detached"}
  BY DEF Places, Ended
<1>1. CASE Begin(t)
  BY <1>0, <1>1, GotoMoves DEF Begin, At
<1>2. CASE AutoCompact(t)
  BY <1>0, <1>2, GotoMoves DEF AutoCompact, At
<1>3. CASE Summarised(t)
  BY <1>0, <1>3, GotoMoves DEF Summarised, At
<1>4. CASE Send(t)
  BY <1>0, <1>4, GotoMoves DEF Send, At
<1>5. CASE FirstAnswer(t)
  BY <1>5, ReceiveMoves DEF FirstAnswer, At
<1>6. CASE FirstRefusal(t)
  <2>1. turn[t].pc = "sent"
    BY <1>6 DEF FirstRefusal, At
  <2>2. CASE End(t, "failed")
    BY <1>0, <2>1, <2>2, EndMoves
  <2>3. CASE turn' = [turn EXCEPT ![t].pc = "send", ![t].tries = 1]
    <3> DEFINE r == [turn[t] EXCEPT !.pc = "send", !.tries = 1]
    <3>1. turn[t] \in Locals /\ 1 \in 0..4
      BY Start
    <3>2. /\ r \in Locals /\ r.pc = "send" /\ r.tries = 1 /\ r.uses = turn[t].uses
          /\ r.round = turn[t].round /\ r.todo = turn[t].todo /\ r.mark = turn[t].mark
      BY <1>0, <3>1 DEF Locals
    <3>3. turn' = [turn EXCEPT ![t] = r]
      BY <2>3
    <3> HIDE DEF r
    <3>4. turn' \in [Turns -> Locals] /\ Others(t) /\ turn'[t] = r
      BY <3>2, <3>3, Start, TurnEffect
    <3>5. QED  BY <2>1, <3>2, <3>4 DEF Moves, Retries
  <2>4. QED  BY <1>6, <2>2, <2>3 DEF FirstRefusal
<1>7. CASE Leave(t) \/ TimeOut(t)
  BY <1>7, LoopEndMoves DEF Leave, TimeOut, At
<1>8. CASE RunTools(t)
  <2> DEFINE r == [turn[t] EXCEPT !.pc = "results", !.todo = turn[t].uses]
  <2>1. turn' = [turn EXCEPT ![t] = r] /\ "results" \in Places /\ turn[t].pc = "head" /\ turn[t].uses # <<>>
    BY <1>8 DEF RunTools, Places, At, Breaks
  <2>2. turn[t] \in Locals
    BY Start
  <2>3. /\ r \in Locals /\ r.pc = "results" /\ r.tries = turn[t].tries /\ r.uses = turn[t].uses
        /\ r.round = turn[t].round /\ r.todo = turn[t].uses /\ r.mark = turn[t].mark
    BY <2>1, <2>2 DEF Locals
  <2> HIDE DEF r
  <2>4. turn' \in [Turns -> Locals] /\ Others(t) /\ turn'[t] = r
    BY <2>1, <2>3, Start, TurnEffect
  <2>5. QED  BY <2>1, <2>3, <2>4 DEF Moves, Takes
<1>9. CASE AddResult(t)
  <2>1. turn[t].pc = "results" /\ turn[t].todo # <<>>
    BY <1>9 DEF AddResult, AddNext, At
  <2>2. QED  BY <1>9, <2>1, AddResultTurn DEF Moves, Adds
<1>10. CASE TrimBatch(t)
  <2>1. turn[t].pc = "results" /\ turn[t].pc \notin Ended \cup {"idle"}
    BY <1>0, <1>10 DEF TrimBatch, At
  <2>2. QED  BY <1>0, <1>10, <2>1, TrimBatchTurn DEF Moves, Takes, Goes, Same, Stops
<1>11. CASE Pad(t)
  <2>1. turn[t].pc = "padding"
    BY <1>11 DEF Pad, AddNext, At
  <2>2. CASE AddNext(t, "padding") /\ NextTodo(t)
    BY <2>1, <2>2, AddsMoves DEF AddNext
  <2>3. CASE LoopEnd(t)
    BY <2>1, <2>3, LoopEndMoves
  <2>4. QED  BY <1>11, <2>2, <2>3 DEF Pad
<1>12. CASE Ask(t)
  BY <1>0, <1>12, AskMoves DEF Ask, At
<1>13. CASE NextAnswer(t)
  <2>1. turn[t].round + 1 \in Nat
    BY Start
  <2>2. QED  BY <1>13, <2>1, ReceiveMoves DEF NextAnswer, At
<1>14. CASE NextRefusal(t)
  <2>1. turn[t].pc = "asked" /\ turn[t].pc \notin Ended \cup {"idle"}
    BY <1>0, <1>14 DEF NextRefusal, At
  <2>2. QED  BY <1>0, <1>14, <2>1, NextRefusalTurn DEF Moves, Retries, Stops
<1>15. CASE Repair(t)
  BY <1>0, <1>15, GotoMoves DEF Repair, At
<1>16. CASE AddForced(t)
  <2>1. turn[t].pc = "forced"
    BY <1>16 DEF AddForced, AddNext, At
  <2>2. CASE AddNext(t, "forced") /\ NextTodo(t)
    BY <2>1, <2>2, AddsMoves DEF AddNext
  <2>3. CASE Goto(t, "lastAsk")
    BY <1>0, <2>1, <2>3, GotoMoves
  <2>4. QED  BY <1>16, <2>2, <2>3 DEF AddForced
<1>17. CASE AskLast(t)
  BY <1>0, <1>17, AskMoves DEF AskLast, At
<1>18. CASE LastAnswer(t)
  BY <1>0, <1>18, EndMoves DEF LastAnswer, At
<1>19. QED
  BY <1>1, <1>2, <1>3, <1>4, <1>5, <1>6, <1>7, <1>8, <1>9, <1>10, <1>11, <1>12, <1>13, <1>14,
     <1>15, <1>16, <1>17, <1>18 DEF Steps

-----------------------------------------------------------------------------
(* Where a turn is says what it has in hand, and when users wait for each  *)
(* other one thing happens at a time.                                      *)

Mine(t, s) == \A id \in ToSet(s) : id[1] = t

CourseInv ==
  /\ \A t \in Turns :
       /\ plan[t] # None => At(t, "compacting")
       /\ turn[t].pc \in {"head", "results", "padding", "forced"} => turn[t].tries = 0
       /\ Mine(t, turn[t].uses) /\ Mine(t, turn[t].todo)
  /\ scene.alone =>
       /\ \A t, u \in Turns : Live(t) /\ Live(u) => t = u
       /\ (plan[Command] # None \/ trimDue) => \A t \in Turns : ~Live(t)
       /\ ~(plan[Command] # None /\ trimDue)

\* The ids a turn makes are its own.
LEMMA IdsMine == ASSUME NEW t, NEW n, NEW w PROVE Mine(t, Ids(t, n, w))
  BY DEF Mine, Ids, ToSet

\* What is left of them is its own too.
LEMMA TailMine == ASSUME NEW t, NEW s \in Seq(IdSet), s # <<>>, Mine(t, s) PROVE Mine(t, Tail(s))
<1>1. \A k \in DOMAIN Tail(s) : k + 1 \in DOMAIN s /\ Tail(s)[k] = s[k + 1]
  OBVIOUS
<1>2. QED  BY <1>1 DEF Mine, ToSet

\* A live turn was live before, or has just begun, with nobody else about.
LEMMA LiveMoves ==
  ASSUME TypeInv, NEW t \in Turns, Begin(t) \/ Steps(t)
  PROVE  /\ \A u \in Turns : Live(u)' => Live(u) \/ u = t
         /\ scene.alone /\ ~Live(t) => Quiet
<1>1. Moves(t) /\ Others(t)
  BY StepMoves
<1>2. \A u \in Turns : Live(u)' => Live(u) \/ u = t
  BY <1>1 DEF Others, Live
<1>3. CASE Begin(t)
  BY <1>2, <1>3 DEF Begin
<1>4. CASE Steps(t)
  <2>1. turn[t].pc \notin Ended \cup {"idle"}
    BY <1>4 DEF Steps, AutoCompact, Summarised, Send, FirstAnswer, FirstRefusal, Leave, TimeOut,
       RunTools, AddResult, AddNext, TrimBatch, Pad, Ask, NextAnswer, NextRefusal, Repair, AddForced,
       AskLast, LastAnswer, At, Ended
  <2>2. QED  BY <1>2, <2>1 DEF Live
<1>5. QED  BY <1>3, <1>4

\* What the steps of a turn do to the compactions that wait.
LEMMA StepPlans ==
  ASSUME TypeInv, NEW t \in Turns, Begin(t) \/ Steps(t)
  PROVE  /\ UNCHANGED settings
         /\ \/ plan' = plan /\ ~(At(t, "compacting") /\ turn'[t].pc # "compacting")
            \/ At(t, "compacting") /\ plan' = [plan EXCEPT ![t] = None]
            \/ /\ At(t, "routed") /\ turn'[t].pc = "compacting" /\ Len(Of(t)) > Recent
               /\ plan' = [plan EXCEPT ![t] = PlanOf(Client(t))]
<1>0. Moves(t)
  BY StepMoves
<1>1. CASE AutoCompact(t)
  <2>1. turn[t].pc = "routed" /\ UNCHANGED settings
    BY <1>1 DEF AutoCompact, At
  <2>2. CASE UNCHANGED plan
    BY <2>1, <2>2 DEF At
  <2>3. CASE /\ Len(Of(t)) > Recent /\ plan' = [plan EXCEPT ![t] = PlanOf(Client(t))]
             /\ Goto(t, "compacting")
    <3>1. "compacting" \in Places
      BY DEF Places
    <3>2. turn'[t].pc = "compacting"
      BY <2>3, <3>1, Start, GotoEffect
    <3>3. QED  BY <2>1, <2>3, <3>2 DEF At
  <2>4. QED  BY <1>1, <2>2, <2>3 DEF AutoCompact
<1>2. CASE Summarised(t)
  BY <1>2 DEF Summarised
<1>3. CASE Begin(t) \/ (Steps(t) /\ ~AutoCompact(t) /\ ~Summarised(t))
  <2>1. plan' = plan /\ UNCHANGED settings /\ turn[t].pc # "compacting"
    BY <1>3 DEF Begin, Steps, Send, FirstAnswer, FirstRefusal, Leave, TimeOut,
       RunTools, AddResult, AddNext, TrimBatch, Pad, Ask, NextAnswer, NextRefusal, Repair, AddForced,
       AskLast, LastAnswer, At
  <2>2. QED  BY <2>1 DEF At
<1>4. QED  BY <1>1, <1>2, <1>3

\* A step of a turn keeps the course of the turns.
LEMMA CourseTurn ==
  ASSUME TypeInv, CourseInv, NEW t \in Turns, Begin(t) \/ Steps(t)
  PROVE  CourseInv'
<1>1. Moves(t) /\ Others(t) /\ turn[t].uses \in Seq(IdSet) /\ turn[t].todo \in Seq(IdSet)
  BY StepMoves, Start
<1>2. plan \in [Turns \cup {Command} -> Plans \cup {None}] /\ Command \notin Turns
  BY NamesAssumption DEF TypeInv, TypeOK
<1>3. UNCHANGED settings
  BY StepPlans
<1>4. plan'[Command] = plan[Command] /\ \A u \in Turns : u # t => plan'[u] = plan[u]
  BY <1>2, StepPlans
<1>5. plan'[t] # None => turn'[t].pc = "compacting"
  <2>1. CASE plan' = plan /\ ~(At(t, "compacting") /\ turn'[t].pc # "compacting")
    BY <2>1 DEF CourseInv
  <2>2. CASE plan' = [plan EXCEPT ![t] = None]
    BY <1>2, <2>2
  <2>3. QED  BY <2>1, <2>2, StepPlans
<1>6. turn'[t].pc \in {"head", "results", "padding", "forced"} => turn'[t].tries = 0
  BY <1>1 DEF Moves, Goes, Same, Heads, Retries, Takes, Adds, Stops, Ended, CourseInv
<1>7. Mine(t, <<>>) /\ Mine(t, turn[t].uses) /\ Mine(t, turn[t].todo)
  BY DEF Mine, ToSet, CourseInv
<1>8. Mine(t, turn'[t].uses) /\ Mine(t, turn'[t].todo)
  <2>1. CASE Heads(t)
    BY <1>7, <2>1, IdsMine DEF Heads
  <2>2. CASE Adds(t)
    BY <1>1, <1>7, <2>2, TailMine DEF Adds
  <2>3. QED  BY <1>1, <1>7, <2>1, <2>2 DEF Moves, Goes, Same, Retries, Takes, Stops
<1>9. \A u \in Turns :
        /\ plan'[u] # None => turn'[u].pc = "compacting"
        /\ turn'[u].pc \in {"head", "results", "padding", "forced"} => turn'[u].tries = 0
        /\ Mine(u, turn'[u].uses) /\ Mine(u, turn'[u].todo)
  BY <1>1, <1>4, <1>5, <1>6, <1>8 DEF CourseInv, Others, At
<1>10. scene' = scene /\ trimDue' = trimDue
  BY <1>3 DEF settings
<1>11. ASSUME scene.alone
       PROVE  /\ \A u, v \in Turns : Live(u)' /\ Live(v)' => u = v
              /\ (plan'[Command] # None \/ trimDue') => \A u \in Turns : ~Live(u)'
              /\ ~(plan'[Command] # None /\ trimDue')
  <2>1. CASE Live(t)
    <3>1. (plan[Command] = None /\ ~trimDue) /\ \A u \in Turns : Live(u) => u = t
      BY <1>11, <2>1 DEF CourseInv
    <3>2. \A u \in Turns : Live(u)' => u = t
      BY <3>1, LiveMoves
    <3>3. QED  BY <1>4, <1>10, <3>1, <3>2
  <2>2. CASE ~Live(t)
    <3>1. (plan[Command] = None /\ ~trimDue) /\ \A u \in Turns : ~Live(u)
      BY <1>11, <2>2, LiveMoves DEF Quiet
    <3>2. \A u \in Turns : Live(u)' => u = t
      BY <3>1, LiveMoves
    <3>3. QED  BY <1>4, <1>10, <3>1, <3>2
  <2>3. QED  BY <2>1, <2>2
<1>12. QED  BY <1>9, <1>10, <1>11 DEF CourseInv, At

\* So does a command ...
LEMMA CourseCommands == ASSUME TypeInv, CourseInv, Commands PROVE CourseInv'
<1>1. /\ turn' = turn /\ scene' = scene
      /\ \/ plan' = plan /\ (trimDue' => trimDue)
         \/ plan' = plan /\ (scene.alone => Quiet)
         \/ plan' = [plan EXCEPT ![Command] = None] /\ trimDue' = trimDue
         \/ /\ plan' = [plan EXCEPT ![Command] = PlanOf("main")] /\ trimDue' = trimDue
            /\ scene.alone => Quiet
  BY DEF Commands, CancelMessage, NewConversation, LoadSession, SetLimit, ApplyLimit, CompactCommand,
     CompactDone, Issue, settings
<1>2. plan \in [Turns \cup {Command} -> Plans \cup {None}] /\ Command \notin Turns
  BY NamesAssumption DEF TypeInv, TypeOK
<1>3. \A u \in Turns : plan'[u] = plan[u]
  BY <1>1, <1>2
<1>4. plan'[Command] # None => plan[Command] # None \/ (trimDue' = trimDue /\ (scene.alone => Quiet))
  BY <1>1, <1>2
<1>5. trimDue' => trimDue \/ (plan'[Command] = plan[Command] /\ (scene.alone => Quiet))
  BY <1>1, <1>2
<1>6. \A u \in Turns : Live(u)' = Live(u)
  BY <1>1 DEF Live
<1>7. ASSUME scene.alone
      PROVE  /\ (plan'[Command] # None \/ trimDue') => \A t \in Turns : ~Live(t)
             /\ ~(plan'[Command] # None /\ trimDue')
  BY <1>4, <1>5, <1>7 DEF CourseInv, Quiet
<1>8. QED  BY <1>1, <1>3, <1>6, <1>7 DEF CourseInv, At

\* ... they start on it ...
LEMMA CourseInit == Init => CourseInv
<1> SUFFICES ASSUME Init PROVE CourseInv
  OBVIOUS
<1>1. \A t \in Turns : turn[t] = Idle("idle", "none") /\ plan[t] = None
  BY DEF Init
<1>2. \A t \in Turns : turn[t].pc = "idle" /\ turn[t].uses = <<>> /\ turn[t].todo = <<>>
  BY <1>1 DEF Idle
<1>3. plan[Command] = None /\ trimDue = FALSE
  BY DEF Init
<1>4. \A t \in Turns : Mine(t, <<>>)
  BY DEF Mine, ToSet
<1>5. \A t \in Turns : ~Live(t)
  BY <1>2 DEF Live
<1>6. QED  BY <1>1, <1>2, <1>3, <1>4, <1>5 DEF CourseInv

\* ... and every step keeps it.
LEMMA CourseNext == TypeInv /\ CourseInv /\ [Next]_vars => CourseInv'
<1> SUFFICES ASSUME TypeInv, CourseInv, [Next]_vars PROVE CourseInv'
  OBVIOUS
<1>1. CASE UNCHANGED vars
  BY <1>1 DEF vars, CourseInv, At, Live
<1>2. QED  BY <1>1, CourseTurn, CourseCommands DEF Next

\* In every reachable state the types and the course hold.
LEMMA CourseHolds == Spec => [](TypeInv /\ CourseInv)
  BY TypeInit, TypeNext, CourseInit, CourseNext, PTL DEF Spec

-----------------------------------------------------------------------------
(* What is done to a history: each step writes one, in one of these ways.  *)

Wrote(c, r) == history' = [history EXCEPT ![c] = r]

StepWrote(t, r) ==
  LET h == Of(t) IN
  \/ r = h /\ turn[t].pc \notin {"send", "repair", "results", "forced"} /\ turn'[t].pc # "head"
  \/ turn[t].pc = "compacting" /\ r = Compacted(h, plan[t], "summary")
  \/ turn[t].pc = "send" /\ turn'[t].pc = "sent" /\ r = WithMessage(t)
  \/ turn[t].pc = "sent" /\ turn'[t].pc # "head" /\ r = Front(h)
  \/ /\ <<turn[t].pc, turn'[t].pc>> \in {<<"sent", "head">>, <<"asked", "head">>, <<"lastAsked", "answered">>}
     /\ \E text \in Turns \cup {NoText} : r = Trimmed(Append(h, Answer(text, turn'[t].uses)))
  \/ /\ turn[t].pc \in {"results", "padding", "forced"} /\ turn'[t].pc = turn[t].pc
     /\ turn[t].todo # <<>> /\ r = add_tool_result(h, Head(turn[t].todo))
  \/ /\ <<turn[t].pc, turn'[t].pc>> \in {<<"results", "padding">>, <<"results", "detached">>,
                                         <<"results", "ask">>, <<"forced", "lastAsk">>}
     /\ turn[t].todo = <<>> /\ r = Trimmed(h)
  \/ turn[t].pc = "repair" /\ turn'[t].pc = "ask" /\ r = repair(turn[t].tries, h, KeepLast)

\* A step of a turn writes the history of its client in one of the ways of StepWrote, and only while it may.
LEMMA StepWrites ==
  ASSUME TypeInv, NEW t \in Turns, Begin(t) \/ Steps(t)
  PROVE  /\ \E r \in Sane : Wrote(Client(t), r) /\ StepWrote(t, r)
         /\ history' = history \/ Writable(Client(t)) \/ At(t, "sent")
         /\ turn'[t].pc = "sent" => Writable(Client(t))
<1>0. {"send", "routed", "compacting", "sent", "ask", "asked", "lastAsk", "lastAsked"} \subseteq Places
      /\ Ended = {"answered", "cut", "failed", "detached"}
  BY DEF Places, Ended
<1>1. history \in [Clients -> Sane] /\ Client(t) \in Clients /\ Of(t) \in Sane /\ Moves(t)
  BY Start, StepMoves
<1>2. Wrote(Client(t), Of(t)) <=> history' = history
  BY <1>1 DEF Wrote, Of
<1>3. /\ turn'[t].pc = "sent" => turn[t].pc = "send"
      /\ turn'[t].pc = "head" => turn[t].pc \in {"sent", "asked"}
  BY <1>0, <1>1 DEF Moves, Goes, Heads, Retries, Takes, Adds, Stops
<1>a. CASE Begin(t) \/ AutoCompact(t) \/ Leave(t) \/ TimeOut(t) \/ RunTools(t) \/ Ask(t) \/ NextRefusal(t) \/ AskLast(t)
  <2>1. history' = history /\ turn[t].pc \notin {"send", "repair", "results", "forced"}
    BY <1>a DEF Begin, AutoCompact, Leave, TimeOut, RunTools, Ask, NextRefusal, AskLast, At
  <2>2. turn'[t].pc # "head"
    <3>1. CASE NextRefusal(t)
      BY <3>1, NextRefusalTurn
    <3>2. CASE ~NextRefusal(t)
      <4>1. turn[t].pc \notin {"sent", "asked"}
        BY <1>a, <3>2 DEF Begin, AutoCompact, Leave, TimeOut, RunTools, Ask, AskLast, At
      <4>2. QED  BY <1>3, <4>1
    <3>3. QED  BY <3>1, <3>2
  <2>3. Wrote(Client(t), Of(t)) /\ StepWrote(t, Of(t))
    BY <1>2, <2>1, <2>2 DEF StepWrote
  <2>4. QED  BY <1>1, <1>3, <2>1, <2>3
<1>b. CASE Summarised(t)
  <2>1. turn[t].pc = "compacting"
    BY <1>b DEF Summarised, At
  <2>2. CASE history' = history
    <3>1. Wrote(Client(t), Of(t)) /\ StepWrote(t, Of(t))
      BY <1>2, <1>3, <2>1, <2>2 DEF StepWrote
    <3>2. QED  BY <1>1, <1>3, <2>1, <2>2, <3>1
  <2>3. CASE Write(Client(t), Compacted(Of(t), plan[t], "summary"))
    <3>1. plan[t] \in Plans /\ Sound(plan[t].keep)
      BY <2>1 DEF TypeInv, TypeOK, At
    <3>2. Compacted(Of(t), plan[t], "summary") \in Sane
      BY <3>1, <1>1, CompactedSane
    <3>3. /\ Wrote(Client(t), Compacted(Of(t), plan[t], "summary"))
          /\ StepWrote(t, Compacted(Of(t), plan[t], "summary"))
      BY <2>1, <2>3 DEF Write, Wrote, StepWrote
    <3>4. QED  BY <1>3, <2>1, <2>3, <3>2, <3>3 DEF Write
  <2>4. QED  BY <1>b, <2>2, <2>3 DEF Summarised
<1>c. CASE Send(t)
  <2>1. turn[t].pc = "send" /\ Write(Client(t), WithMessage(t)) /\ Goto(t, "sent")
    BY <1>c DEF Send, At
  <2>2. turn'[t].pc = "sent"
    BY <1>0, <2>1, Start, GotoEffect
  <2>3. WithMessage(t) \in Sane /\ Wrote(Client(t), WithMessage(t)) /\ StepWrote(t, WithMessage(t))
    BY <2>1, <2>2, WithMessageSane DEF Write, Wrote, StepWrote
  <2>4. QED  BY <2>1, <2>3 DEF Write
<1>d. ASSUME NEW n \in Nat, NEW a \in scene.answers, Receive(t, n, a), turn[t].pc \in {"sent", "asked"}
      PROVE  \E r \in Sane : Wrote(Client(t), r) /\ StepWrote(t, r)
  <2> DEFINE text == IF a.text THEN t ELSE NoText
             r == trim_history(Append(Of(t), Answer(text, Ids(t, n, a.uses))), limit)
  <2>1. /\ text \in Turns \cup {NoText} /\ r \in Sane /\ Wrote(Client(t), r)
        /\ turn'[t].pc = "head" /\ turn'[t].uses = Ids(t, n, a.uses)
    BY <1>d, Start, ReceiveEffect DEF Wrote
  <2> HIDE DEF text
  <2>2. StepWrote(t, r)
    BY <1>d, <2>1 DEF StepWrote, Trimmed
  <2>3. QED  BY <2>1, <2>2
<1>e. CASE FirstAnswer(t)
  BY <1>e, <1>d, <1>3 DEF FirstAnswer, At
<1>f. CASE NextAnswer(t)
  <2>1. turn[t].round + 1 \in Nat
    BY Start
  <2>2. QED  BY <1>f, <1>d, <1>3, <2>1 DEF NextAnswer, At
<1>g. CASE FirstRefusal(t)
  <2>1. turn[t].pc = "sent" /\ turn'[t].pc # "head" /\ turn'[t].pc # "sent"
    <3>1. turn[t].pc = "sent"
      BY <1>g DEF FirstRefusal, At
    <3>2. CASE End(t, "failed")
      <4>1. turn'[t].pc = "failed"
        BY <1>0, <3>2, Start, EndEffect
      <4>2. QED  BY <3>1, <4>1
    <3>3. CASE turn' = [turn EXCEPT ![t].pc = "send", ![t].tries = 1]
      <4>1. turn \in [Turns -> Locals] /\ turn[t] \in Locals
        BY Start
      <4>2. turn'[t].pc = "send"
        BY <3>3, <4>1 DEF Locals
      <4>3. QED  BY <3>1, <4>2
    <3>4. QED  BY <1>g, <3>2, <3>3 DEF FirstRefusal
  <2>2. history' = history \/ Wrote(Client(t), Front(Of(t)))
    BY <1>1, <1>g DEF FirstRefusal, Wrote, Of
  <2>3. Front(Of(t)) \in Sane /\ StepWrote(t, Front(Of(t))) /\ StepWrote(t, Of(t))
    BY <1>1, <2>1, FrontSane DEF StepWrote
  <2>4. QED  BY <1>1, <1>2, <2>1, <2>2, <2>3 DEF At
<1>h. ASSUME NEW l \in {"results", "padding", "forced"}, AddNext(t, l), turn'[t].pc = l
      PROVE  /\ \E r \in Sane : Wrote(Client(t), r) /\ StepWrote(t, r)
             /\ Writable(Client(t)) /\ turn'[t].pc # "sent"
  <2> DEFINE r == add_tool_result(Of(t), Head(turn[t].todo))
  <2>1. turn[t].todo # <<>> /\ Writable(Client(t)) /\ r \in Sane /\ Wrote(Client(t), r)
    BY <1>h, Start, AddNextEffect DEF Wrote
  <2>2. turn[t].pc = l
    BY <1>h DEF AddNext, At
  <2>3. StepWrote(t, r)
    BY <1>h, <2>1, <2>2 DEF StepWrote
  <2>4. QED  BY <1>h, <2>1, <2>3
<1>i. CASE AddResult(t)
  <2>1. turn[t].pc = "results" /\ turn'[t].pc = "results"
    BY <1>i, AddResultTurn DEF AddResult, AddNext, At
  <2>2. QED  BY <1>h, <1>i, <2>1 DEF AddResult
<1>j. ASSUME Write(Client(t), Trimmed(Of(t))), turn[t].todo = <<>>,
             <<turn[t].pc, turn'[t].pc>> \in {<<"results", "padding">>, <<"results", "detached">>,
                                              <<"results", "ask">>, <<"forced", "lastAsk">>}
      PROVE  /\ \E r \in Sane : Wrote(Client(t), r) /\ StepWrote(t, r)
             /\ Writable(Client(t)) /\ turn'[t].pc # "sent"
  <2>1. Trimmed(Of(t)) \in Sane
    BY Start, TrimSane DEF Trimmed
  <2>2. Wrote(Client(t), Trimmed(Of(t))) /\ StepWrote(t, Trimmed(Of(t))) /\ Writable(Client(t))
    BY <1>j DEF Write, Wrote, StepWrote
  <2>3. QED  BY <1>j, <2>1, <2>2
<1>k. CASE TrimBatch(t)
  <2>1. turn[t].pc = "results" /\ turn[t].todo = <<>> /\ Write(Client(t), Trimmed(Of(t)))
    BY <1>k DEF TrimBatch, At
  <2>2. turn'[t].pc \in {"padding", "detached", "ask"}
    BY <1>k, TrimBatchTurn
  <2>3. QED  BY <1>j, <2>1, <2>2
<1>l. CASE Pad(t)
  <2>1. CASE AddNext(t, "padding") /\ NextTodo(t)
    <3>1. turn[t].pc = "padding" /\ turn[t].todo # <<>>
      BY <2>1 DEF AddNext, At
    <3>2. turn'[t].pc = "padding"
      BY <2>1, <3>1, NextTodoEffect
    <3>3. QED  BY <1>h, <2>1, <3>2
  <2>2. CASE At(t, "padding") /\ UNCHANGED history
    <3>1. Wrote(Client(t), Of(t)) /\ StepWrote(t, Of(t))
      BY <1>2, <1>3, <2>2 DEF StepWrote, At
    <3>2. QED  BY <1>1, <1>3, <2>2, <3>1 DEF At
  <2>3. QED  BY <1>l, <2>1, <2>2 DEF Pad
<1>m. CASE Repair(t)
  <2>1. turn[t].pc = "repair" /\ Goto(t, "ask") /\ turn[t].tries \in 1..4
        /\ Write(Client(t), repair(turn[t].tries, Of(t), KeepLast))
    BY <1>m, Start DEF Repair, At, TypeInv
  <2>2. turn'[t].pc = "ask"
    BY <1>0, <2>1, Start, GotoEffect
  <2> DEFINE r == repair(turn[t].tries, Of(t), KeepLast)
  <2>3. r \in Sane
    BY <1>1, <2>1, RepairSane
  <2>4. Wrote(Client(t), r) /\ StepWrote(t, r) /\ Writable(Client(t))
    BY <2>1, <2>2 DEF Write, Wrote, StepWrote
  <2>5. QED  BY <2>2, <2>3, <2>4
<1>n. CASE AddForced(t)
  <2>1. CASE AddNext(t, "forced") /\ NextTodo(t)
    <3>1. turn[t].pc = "forced" /\ turn[t].todo # <<>>
      BY <2>1 DEF AddNext, At
    <3>2. turn'[t].pc = "forced"
      BY <2>1, <3>1, NextTodoEffect
    <3>3. QED  BY <1>h, <2>1, <3>2
  <2>2. CASE At(t, "forced") /\ turn[t].todo = <<>> /\ Write(Client(t), Trimmed(Of(t))) /\ Goto(t, "lastAsk")
    <3>1. "lastAsk" \in Places
      BY DEF Places
    <3>2. turn'[t].pc = "lastAsk" /\ turn[t].pc = "forced"
      BY <2>2, <3>1, Start, GotoEffect DEF At
    <3>3. QED  BY <1>j, <2>2, <3>2
  <2>3. QED  BY <1>n, <2>1, <2>2 DEF AddForced
<1>o. CASE LastAnswer(t)
  <2>1. turn[t].pc = "lastAsked"
    BY <1>o DEF LastAnswer, At
  <2>2. CASE UNCHANGED history
    <3>1. Wrote(Client(t), Of(t)) /\ StepWrote(t, Of(t))
      BY <1>2, <1>3, <2>1, <2>2 DEF StepWrote
    <3>2. QED  BY <1>1, <1>3, <2>1, <2>2, <3>1
  <2>3. CASE Write(Client(t), Trimmed(Append(Of(t), Answer(t, <<>>)))) /\ End(t, "answered")
    <3> DEFINE r == Trimmed(Append(Of(t), Answer(t, <<>>)))
    <3>1. <<>> \in Seq(IdSet) /\ t \in Turns \cup {NoText}
      OBVIOUS
    <3>2. Append(Of(t), Answer(t, <<>>)) \in Sane
      BY <3>1, Start, AnswerSane
    <3>3. r \in Sane
      BY <3>2, Start, TrimSane DEF Trimmed
    <3>4. turn'[t].pc = "answered" /\ turn'[t].uses = <<>>
      BY <1>0, <2>3, Start, EndEffect
    <3>5. Wrote(Client(t), r) /\ Writable(Client(t))
      BY <2>3 DEF Write, Wrote
    <3>6. StepWrote(t, r)
      BY <2>1, <3>1, <3>4 DEF StepWrote
    <3>7. QED  BY <3>3, <3>4, <3>5, <3>6
  <2>4. QED  BY <1>o, <2>2, <2>3 DEF LastAnswer
<1>q. QED
  BY <1>a, <1>b, <1>c, <1>e, <1>f, <1>g, <1>i, <1>k, <1>l, <1>m, <1>n, <1>o DEF Steps

\* A command writes the application's history only: a clear, a session, a trim or a compaction.
LEMMA CommandWrites ==
  ASSUME TypeInv, Commands
  PROVE  \E r \in Sane :
           /\ Wrote("main", r)
           /\ \/ r = history["main"]
              \/ r = <<>> \/ r = Trimmed(Saved) \/ r = Trimmed(history["main"])
              \/ /\ plan[Command] # None /\ plan'[Command] = None
                 /\ r = Compacted(history["main"], plan[Command], "summary")
           /\ r = history["main"] \/ Writable("main")
<1>1. /\ history \in [Clients -> Sane] /\ "main" \in Clients /\ limit \in Nat \ {0}
      /\ plan \in [Turns \cup {Command} -> Plans \cup {None}]
  BY HistoryIsSane, LimitIs DEF TypeInv, TypeOK, Clients
<1>2. history["main"] \in Sane /\ <<>> \in Sane /\ Trimmed(Saved) \in Sane /\ Trimmed(history["main"]) \in Sane
  BY <1>1, EmptySane, SavedSane, TrimSane DEF Trimmed
<1>3. history' = history => Wrote("main", history["main"])
  BY <1>1 DEF Wrote
<1>4. CASE CancelMessage \/ SetLimit \/ CompactCommand \/ (CompactDone /\ UNCHANGED history)
  BY <1>2, <1>3, <1>4 DEF CancelMessage, SetLimit, CompactCommand
<1>5. CASE NewConversation
  BY <1>2, <1>5 DEF NewConversation, Write, Wrote
<1>6. CASE LoadSession
  BY <1>2, <1>6 DEF LoadSession, Write, Wrote
<1>7. CASE ApplyLimit
  BY <1>2, <1>7 DEF ApplyLimit, Write, Wrote
<1>8. CASE CompactDone /\ Write("main", Compacted(history["main"], plan[Command], "summary"))
  <2> DEFINE r == Compacted(history["main"], plan[Command], "summary")
  <2>1. plan[Command] \in Plans /\ Sound(plan[Command].keep) /\ plan[Command] # None
    BY <1>1, <1>8 DEF CompactDone, TypeInv
  <2>2. r \in Sane
    BY <1>2, <2>1, CompactedSane
  <2>3. Wrote("main", r) /\ Writable("main")
    BY <1>8 DEF Write, Wrote
  <2> HIDE DEF r
  <2>4. r = Compacted(history["main"], plan[Command], "summary")
    BY DEF r
  <2>5. plan'[Command] = None
    BY <1>1, <1>8 DEF CompactDone
  <2>6. QED  BY <2>1, <2>2, <2>3, <2>4, <2>5
<1>9. QED  BY <1>4, <1>5, <1>6, <1>7, <1>8 DEF Commands, CompactDone

\* What a command leaves alone, and when it may be given.
LEMMA CommandFrame ==
  ASSUME TypeInv, CourseInv, Commands
  PROVE  /\ turn' = turn /\ scene' = scene
         /\ scene.alone /\ history' # history => \A t \in Turns : ~Live(t)
<1>1. turn' = turn /\ scene' = scene
  BY DEF Commands, CancelMessage, NewConversation, LoadSession, SetLimit, ApplyLimit, CompactCommand,
     CompactDone, Issue, settings
<1>2. ASSUME scene.alone, history' # history PROVE Quiet \/ trimDue \/ plan[Command] # None
  BY <1>2 DEF Commands, CancelMessage, NewConversation, LoadSession, SetLimit, ApplyLimit, CompactCommand,
     CompactDone, Issue
<1>3. QED  BY <1>1, <1>2 DEF CourseInv, Quiet

-----------------------------------------------------------------------------
(* The repairs. *)

\* No block of t is in h, or h begins with a summary.
Clear(t, h) ==
  \/ \A id \in Uses(h) \cup Results(h) : id[1] # t
  \/ Firm(h) /\ h[1].text = "summary"

Bare(h) == Uses(h) = {} /\ Results(h) = {}

\* An empty history holds no block.
LEMMA EmptyBare == Bare(<<>>) /\ \A t : Clear(t, <<>>)
<1>1. Bare(<<>>)
  BY BlocksAre DEF Bare
<1>2. QED  BY <1>1 DEF Bare, Clear

\* An heir holds no block of a turn that the history did not hold.
LEMMA HeirClear ==
  ASSUME NEW t, NEW h \in Sane, NEW r \in Sane, Heir(r, h)
  PROVE  (Clear(t, h) => Clear(t, r)) /\ (Bare(h) => Bare(r))
<1>1. Uses(r) \subseteq Uses(h) /\ Results(r) \subseteq Results(h)
  BY MessagesAre, ComesBlocks DEF Heir, Sane
<1>2. CASE r = <<>>
  BY <1>2, EmptyBare
<1>3. CASE r # <<>>
  BY <1>1, <1>3 DEF Heir, Clear, Bare, Firm
<1>4. QED  BY <1>2, <1>3

\* Nor does what a trim leaves.
LEMMA TrimClear ==
  ASSUME NEW t, NEW h \in Sane, NEW n \in Nat \ {0}
  PROVE  Clear(t, h) => Clear(t, trim_history(h, n))
<1>1. Heir(trim_history(h, n), h)
  BY MessagesAre, TrimHeir DEF Sane
<1>2. QED  BY <1>1, TrimSane, HeirClear

\* A message that asks for tools of another turn brings none.
LEMMA AppendClear ==
  ASSUME NEW t \in Turns, NEW h \in Sane, NEW m \in Messages, Append(h, m) \in Sane,
         Mine(t, m.uses), m.results = <<>>, NEW u \in Turns, u # t
  PROVE  Clear(u, h) => Clear(u, Append(h, m))
<1>1. /\ Uses(Append(h, m)) = Uses(h) \cup ToSet(m.uses)
      /\ Results(Append(h, m)) = Results(h) \cup ToSet(m.results)
  BY MessagesAre, AppendBlocks DEF Sane
<1>2. Firm(h) => Firm(Append(h, m)) /\ Append(h, m)[1].text = h[1].text
  BY MessagesAre, AppendBlocks DEF Sane, Firm
<1>3. ToSet(m.results) = {}
  BY ToSetIs, <<>> \in Seq(IdSet)
<1>4. QED  BY <1>1, <1>2, <1>3 DEF Clear, Mine

\* A text of the user brings none.
LEMMA UserTextClear ==
  ASSUME NEW t \in Turns, NEW h \in Sane, NEW u \in Turns, u # t
  PROVE  Clear(u, h) => Clear(u, Append(h, UserText(t)))
<1>1. UserText(t) \in Messages /\ UserText(t).uses = <<>> /\ UserText(t).results = <<>>
  BY DEF UserText, Message, Messages, Texts
<1>2. Mine(t, <<>>)
  BY ToSetIs, <<>> \in Seq(IdSet) DEF Mine
<1>3. QED  BY <1>1, <1>2, UserTextSane, AppendClear

\* An answer to another turn brings none.
LEMMA AnswerClear ==
  ASSUME NEW t \in Turns, NEW h \in Sane, NEW text \in Turns \cup {NoText}, NEW uses \in Seq(IdSet),
         Mine(t, uses), NEW u \in Turns, u # t
  PROVE  Clear(u, h) => Clear(u, Append(h, Answer(text, uses)))
<1>1. /\ Answer(text, uses) \in Messages /\ Answer(text, uses).uses = uses
      /\ Answer(text, uses).results = <<>>
  BY DEF Answer, Message, Messages, Texts
<1>2. QED  BY <1>1, AnswerSane, AppendClear

\* A result of another turn brings none.
LEMMA ResultClear ==
  ASSUME NEW t \in Turns, NEW h \in Sane, NEW id \in IdSet, id[1] = t, NEW u \in Turns, u # t
  PROVE  Clear(u, h) => Clear(u, add_tool_result(h, id))
<1>1. /\ Uses(add_tool_result(h, id)) = Uses(h)
      /\ Results(add_tool_result(h, id)) = Results(h) \cup {id}
  BY MessagesAre, AddResultBlocks DEF Sane
<1>2. Firm(h) => Firm(add_tool_result(h, id)) /\ add_tool_result(h, id)[1].text = h[1].text
  BY MessagesAre, AddResultBlocks DEF Sane, Firm
<1>3. QED  BY <1>1, <1>2 DEF Clear

\* A history that was compacted begins with a summary, and counts as clear.
LEMMA CompactedClear ==
  ASSUME NEW t, NEW h \in Sane, NEW p \in Plans
  PROVE  Clear(t, Compacted(h, p, "summary"))
<1>1. p.before \in Nat /\ p.keep \in Seq(Messages) /\ h \in Seq(Messages)
  BY DEF Plans, Sane
<1>2. "summary" \in Texts /\ "summary" # NoText
  BY NamesAssumption DEF Texts
<1>3. Firm(Compacted(h, p, "summary")) /\ Compacted(h, p, "summary")[1].text = "summary"
  <2>1. Compacted(h, p, "summary") # <<>> /\ Compacted(h, p, "summary")[1] = UserText("summary")
    BY <1>1 DEF Compacted
  <2>2. QED  BY <1>2, <2>1 DEF Firm, UserText, Message
<1>4. QED  BY <1>3 DEF Clear

\* A stored session has texts only.
LEMMA SavedPlain == \A k \in DOMAIN Saved : Saved[k].uses = <<>> /\ Saved[k].results = <<>>
<1> DEFINE Stored == [role : {"user", "assistant"}, text : {"saved"}, uses : {<<>>}, results : {<<>>}]
<1>1. Saved \in Seq(Stored)
  BY SavedAssumption
<1> HIDE DEF Stored
<1>2. \A k \in DOMAIN Saved : Saved[k] \in Stored
  BY <1>1
<1>3. QED  BY <1>2 DEF Stored

\* The session that is loaded holds no block.
LEMMA SavedBare == Bare(Saved)
<1>1. \A k \in DOMAIN Saved : Saved[k].uses = <<>> /\ Saved[k].results = <<>>
  BY SavedPlain
<1>2. ToSet(<<>>) = {}
  BY ToSetIs, <<>> \in Seq(IdSet)
<1>3. QED  BY <1>1, <1>2, BlocksAre DEF Bare

\* A history without any block holds none of a turn.
LEMMA BareClear == ASSUME NEW t, NEW h, Bare(h) PROVE Clear(t, h)
  BY DEF Bare, Clear

\* The turn is past its third repair.
Mended(t) ==
  \/ turn[t].pc \in {"ask", "asked"} /\ turn[t].tries >= 3
  \/ turn[t].pc = "repair" /\ turn[t].tries = 4

MendedInv ==
  \A t \in Turns : Mended(t) => Clear(t, Of(t)) /\ (scene.alone => Bare(Of(t)))

\* The steps of others leave no block of u.
LEMMA OthersClear ==
  ASSUME TypeInv, CourseInv, NEW t \in Turns, NEW u \in Turns, u # t, NEW r \in Sane, StepWrote(t, r),
         NEW h \in Sane, h = Of(t), Moves(t), turn' \in [Turns -> Locals]
  PROVE  Clear(u, h) => Clear(u, r)
<1> SUFFICES ASSUME Clear(u, h) PROVE Clear(u, r)
  OBVIOUS
<1>0. /\ limit \in Nat \ {0} /\ turn[t].todo \in Seq(IdSet) /\ turn[t].tries \in 0..4
      /\ Mine(t, turn[t].todo) /\ turn'[t].uses \in Seq(IdSet)
  BY Start DEF CourseInv, Locals
<1>1. CASE r = h
  BY <1>1
<1>2. CASE turn[t].pc = "compacting" /\ r = Compacted(h, plan[t], "summary")
  <2>1. plan[t] \in Plans
    BY <1>2 DEF TypeInv, TypeOK, At
  <2>2. QED  BY <1>2, <2>1, CompactedClear
<1>3. CASE r = WithMessage(t)
  <2> DEFINE m == trim_history(Append(h, UserText(t)), limit)
  <2>1. Append(h, UserText(t)) \in Sane /\ Clear(u, Append(h, UserText(t)))
    BY UserTextSane, UserTextClear
  <2>2. m \in Sane /\ Clear(u, m)
    BY <1>0, <2>1, TrimSane, TrimClear
  <2>3. r = m \/ r = sanitize_history(m)
    BY <1>3 DEF WithMessage, Trimmed
  <2> HIDE DEF m
  <2>4. Heir(sanitize_history(m), m) /\ sanitize_history(m) \in Sane
    BY <2>2, MessagesAre, SanitizeHeir, SanitizeSane DEF Sane
  <2>5. QED  BY <2>2, <2>3, <2>4, HeirClear
<1>4. CASE r = Front(h)
  <2>1. Heir(r, h)
    BY <1>4, MessagesAre, FrontHeir DEF Sane
  <2>2. QED  BY <2>1, HeirClear
<1>5. ASSUME NEW text \in Turns \cup {NoText}, r = Trimmed(Append(h, Answer(text, turn'[t].uses))),
             turn[t].pc \in {"sent", "asked", "lastAsked"}
      PROVE  Clear(u, r)
  <2>1. Mine(t, turn'[t].uses)
    <3>1. Mine(t, <<>>)
      BY ToSetIs, <<>> \in Seq(IdSet) DEF Mine
    <3>2. CASE Heads(t)
      BY <3>2, IdsMine DEF Heads
    <3>3. QED  BY <3>1, <3>2 DEF Moves, Goes, Same, Retries, Takes, Adds, Stops, CourseInv
  <2>2. Append(h, Answer(text, turn'[t].uses)) \in Sane /\ Clear(u, Append(h, Answer(text, turn'[t].uses)))
    BY <1>0, <2>1, AnswerSane, AnswerClear
  <2>3. QED  BY <1>0, <1>5, <2>2, TrimClear DEF Trimmed
<1>6. CASE turn[t].todo # <<>> /\ r = add_tool_result(h, Head(turn[t].todo))
  <2>1. Head(turn[t].todo) \in IdSet /\ Head(turn[t].todo) \in ToSet(turn[t].todo)
    BY <1>0, <1>6 DEF ToSet
  <2>2. Head(turn[t].todo)[1] = t
    BY <1>0, <2>1 DEF Mine
  <2>3. QED  BY <1>6, <2>1, <2>2, ResultClear
<1>7. CASE r = Trimmed(h)
  BY <1>0, <1>7, TrimClear DEF Trimmed
<1>8. CASE turn[t].pc = "repair" /\ r = repair(turn[t].tries, h, KeepLast)
  <2>1. turn[t].tries \in 1..4
    BY <1>0, <1>8 DEF TypeInv, At
  <2>2. Heir(r, h)
    BY <1>8, <2>1, MessagesAre, KeepAssumption, RepairHeir DEF Sane
  <2>3. QED  BY <2>2, HeirClear
<1>9. QED  BY <1>1, <1>2, <1>3, <1>4, <1>5, <1>6, <1>7, <1>8 DEF StepWrote

\* A step of a turn keeps what repairs have mended mended.
LEMMA MendedTurn ==
  ASSUME TypeInv, CourseInv, MendedInv, NEW t \in Turns, Begin(t) \/ Steps(t)
  PROVE  MendedInv'
<1>1. /\ Moves(t) /\ Others(t) /\ turn' \in [Turns -> Locals] /\ scene' = scene
      /\ history \in [Clients -> Sane] /\ Client(t) \in Clients
      /\ \A u \in Turns : Client(u)' = Client(u) /\ Client(u) \in Clients
  BY StepMoves, StepPlans, Start, ClientIs DEF settings, Client
<1>2. PICK r \in Sane : Wrote(Client(t), r) /\ StepWrote(t, r)
  BY StepWrites
<1>3. /\ history'[Client(t)] = r /\ \A c \in Clients : c # Client(t) => history'[c] = history[c]
  BY <1>1, <1>2, WriteEffect DEF Wrote
<1>4. Of(t)' = r
  BY <1>1, <1>3 DEF Of
<1>5. ASSUME Mended(t)' PROVE Clear(t, r) /\ (scene.alone => Bare(r))
  <2>1. CASE Mended(t)
    <3>1. Clear(t, Of(t)) /\ (scene.alone => Bare(Of(t)))
      BY <2>1 DEF MendedInv
    <3>2. CASE r = Of(t)
      BY <3>1, <3>2
    <3>3. CASE turn[t].pc = "repair" /\ r = repair(turn[t].tries, Of(t), KeepLast)
      <4>1. Heir(r, Of(t)) /\ Of(t) \in Sane
        <5>1. turn[t].tries \in 1..4
          BY <3>3, Start DEF TypeInv, At
        <5>2. QED  BY <3>3, <5>1, Start, MessagesAre, KeepAssumption, RepairHeir DEF Sane
      <4>2. QED  BY <3>1, <4>1, HeirClear
    <3>4. turn[t].pc \in {"ask", "asked", "repair"} /\ turn'[t].pc \in {"ask", "asked", "repair"}
      BY <1>5, <2>1 DEF Mended
    <3>5. QED  BY <1>2, <3>2, <3>3, <3>4 DEF StepWrote
  <2>2. CASE ~Mended(t)
    <3>1. turn[t].pc = "repair" /\ turn'[t].pc = "ask" /\ turn[t].tries = 3
      <4>1. turn[t].tries \in 0..4 /\ turn'[t].tries \in 0..4
        BY <1>1, Start DEF Locals
      <4>2. turn[t].pc = "results" => turn[t].tries = 0
        BY DEF CourseInv
      <4>3. QED
        BY <1>1, <1>5, <2>2, <4>1, <4>2 DEF Mended, Moves, Goes, Same, Heads, Retries, Takes, Adds, Stops, Ended
    <3>2. r = repair(3, Of(t), KeepLast)
      BY <1>2, <3>1 DEF StepWrote
    <3>3. Bare(r)
      BY <3>2, Start, MessagesAre, StripAllBlocks DEF Bare, Sane
    <3>4. QED  BY <3>3, BareClear
  <2>3. QED  BY <2>1, <2>2
<1>6. ASSUME NEW u \in Turns, u # t, Mended(u)' PROVE Clear(u, Of(u)') /\ (scene.alone => Bare(Of(u)'))
  <2>1. Mended(u) /\ Clear(u, Of(u)) /\ (scene.alone => Bare(Of(u)))
    <3>1. Mended(u)
      BY <1>1, <1>6 DEF Mended, Others
    <3>2. QED  BY <3>1 DEF MendedInv
  <2>2. Of(u)' = history'[Client(u)]
    BY <1>1 DEF Of
  <2>3. ~scene.alone
    <3>1. Live(u)
      BY <2>1 DEF Mended, Live, Ended
    <3>2. QED  BY <1>6, <3>1, LiveMoves DEF CourseInv, Quiet
  <2>4. CASE Client(u) # Client(t)
    BY <1>1, <1>3, <2>1, <2>2, <2>4 DEF Of
  <2>5. CASE Client(u) = Client(t)
    <3>1. Of(t) = Of(u) /\ Of(t) \in Sane
      BY <2>5, Start DEF Of
    <3>2. Clear(u, r)
      BY <1>1, <1>2, <1>6, <2>1, <3>1, OthersClear
    <3>3. QED  BY <1>3, <2>2, <2>3, <2>5, <3>2
  <2>6. QED  BY <2>4, <2>5
<1>7. QED  BY <1>1, <1>4, <1>5, <1>6 DEF MendedInv

\* So does a command.
LEMMA MendedCommands == ASSUME TypeInv, CourseInv, MendedInv, Commands PROVE MendedInv'
<1>1. /\ turn' = turn /\ scene' = scene /\ history \in [Clients -> Sane] /\ limit \in Nat \ {0}
      /\ \A u \in Turns : Client(u)' = Client(u) /\ Client(u) \in Clients
  BY CommandFrame, HistoryIsSane, LimitIs, ClientIs DEF TypeInv, Client
<1>2. PICK r \in Sane :
        /\ Wrote("main", r)
        /\ \/ r = history["main"]
           \/ r = <<>> \/ r = Trimmed(Saved) \/ r = Trimmed(history["main"])
           \/ plan[Command] # None /\ r = Compacted(history["main"], plan[Command], "summary")
  BY CommandWrites
<1>3. "main" \in Clients /\ history["main"] \in Sane
  BY <1>1 DEF Clients
<1>4. history'["main"] = r /\ \A c \in Clients : c # "main" => history'[c] = history[c]
  BY <1>1, <1>2, <1>3, WriteEffect DEF Wrote
<1>5. ASSUME NEW u \in Turns, Clear(u, history["main"]) PROVE Clear(u, r)
  <2>1. Clear(u, Trimmed(Saved))
    BY <1>1, SavedBare, SavedSane, BareClear, TrimClear DEF Trimmed
  <2>2. Clear(u, Trimmed(history["main"]))
    BY <1>1, <1>3, <1>5, TrimClear DEF Trimmed
  <2>3. plan[Command] # None => plan[Command] \in Plans
    BY DEF TypeInv, TypeOK
  <2>4. plan[Command] # None => Clear(u, Compacted(history["main"], plan[Command], "summary"))
    BY <1>3, <2>3, CompactedClear
  <2>5. QED  BY <1>2, <1>5, <2>1, <2>2, <2>4, EmptyBare
<1>6. ASSUME NEW u \in Turns, Mended(u)' PROVE Clear(u, Of(u)') /\ (scene.alone => Bare(Of(u)'))
  <2>1. Mended(u) /\ Clear(u, Of(u)) /\ (scene.alone => Bare(Of(u)))
    <3>1. Mended(u)
      BY <1>1, <1>6 DEF Mended
    <3>2. QED  BY <3>1 DEF MendedInv
  <2>2. Of(u)' = history'[Client(u)]
    BY <1>1 DEF Of
  <2>3. Live(u)
    BY <2>1 DEF Mended, Live, Ended
  <2>4. CASE scene.alone
    <3>1. history' = history
      BY <2>3, <2>4, CommandFrame
    <3>2. QED  BY <2>1, <2>2, <3>1 DEF Of
  <2>5. CASE ~scene.alone
    BY <1>1, <1>4, <1>5, <2>1, <2>2, <2>5 DEF Of
  <2>6. QED  BY <2>4, <2>5
<1>7. QED  BY <1>1, <1>6 DEF MendedInv

\* So does every step.
LEMMA MendedNext == TypeInv /\ CourseInv /\ MendedInv /\ [Next]_vars => MendedInv'
<1> SUFFICES ASSUME TypeInv, CourseInv, MendedInv, [Next]_vars PROVE MendedInv'
  OBVIOUS
<1>1. CASE UNCHANGED vars
  BY <1>1 DEF vars, MendedInv, Mended, Of, Client
<1>2. QED  BY <1>1, MendedTurn, MendedCommands DEF Next

\* Before anything is asked there is nothing to mend.
LEMMA MendedInit == Init => MendedInv
<1> SUFFICES ASSUME Init PROVE MendedInv
  OBVIOUS
<1>1. \A t \in Turns : turn[t] = Idle("idle", "none")
  BY DEF Init
<1>2. \A t \in Turns : turn[t].pc = "idle"
  BY <1>1 DEF Idle
<1>3. QED  BY <1>2 DEF MendedInv, Mended

(* A request made after the third repair carries no badly paired block at  *)
(* all when users wait for each other, and else none of the turn itself,   *)
(* unless a compaction that was waiting has brought its blocks back: no    *)
(* step of another turn, and no command, puts one there.                   *)
THEOREM RepairedRequestsAreClean == Spec => RepairsRemoveFlaws
<1>1. ASSUME TypeInv, MendedInv, NEW t \in Turns, Ask(t), turn[t].tries >= 3
      PROVE  LET left == Flaws(Of(t))
             IN  /\ Own(t, left) = {} \/ Of(t)[1].text = "summary"
                 /\ scene.alone => left = {}
  <2>1. Mended(t)
    BY <1>1 DEF Mended, Ask, At
  <2>2. Clear(t, Of(t)) /\ (scene.alone => Bare(Of(t)))
    BY <1>1, <2>1 DEF MendedInv
  <2>3. Flaws(Of(t)) \subseteq Uses(Of(t)) \cup Results(Of(t))
    BY <1>1, Start, MessagesAre, FlawsWithin
  <2>4. QED  BY <2>2, <2>3 DEF Clear, Bare, Own
<1>2. TypeInv /\ MendedInv /\ [Next]_vars =>
      [\A t \in Turns :
         Ask(t) /\ turn[t].tries >= 3 =>
           LET left == Flaws(Of(t))
           IN  /\ Own(t, left) = {} \/ Of(t)[1].text = "summary"
               /\ scene.alone => left = {}]_vars
  BY <1>1
<1>3. QED
  BY <1>2, TypeInit, TypeNext, CourseInit, CourseNext, MendedInit, MendedNext, PTL DEF Spec, RepairsRemoveFlaws

-----------------------------------------------------------------------------
(* What is sent opens with the user. *)

\* Two turns of one client do not both wait for their first answer.
SentAlone ==
  \A t, u \in Turns : At(t, "sent") /\ At(u, "sent") /\ Client(t) = Client(u) => t = u

\* What a bridge was sent has not changed since.
SentOpens == \A t \in Turns : At(t, "sent") /\ scene.profile[t].route = "bridge" => Opens(Of(t))

\* where a turn has something in the history, when it is alone with it
Underway == {"sent", "head", "results", "padding", "ask", "asked", "repair", "forced", "lastAsk", "lastAsked"}

FirmAlone ==
  scene.alone =>
    /\ \A c \in Clients : history[c] # <<>> => Firm(history[c])
    /\ \A t \in Turns : turn[t].pc \in Underway => Of(t) # <<>>

\* A step of a turn keeps the histories of those that await an answer to themselves.
LEMMA SentTurn ==
  ASSUME TypeInv, SentAlone, NEW t \in Turns, Begin(t) \/ Steps(t)
  PROVE  /\ SentAlone'
         /\ \A u \in Turns : u # t /\ At(u, "sent") => Of(u)' = Of(u)
<1>1. /\ Moves(t) /\ Others(t) /\ turn' \in [Turns -> Locals] /\ scene' = scene
      /\ history \in [Clients -> Sane] /\ Client(t) \in Clients
      /\ \A u \in Turns : Client(u)' = Client(u) /\ Client(u) \in Clients
  BY StepMoves, StepPlans, Start, ClientIs DEF settings, Client
<1>2. PICK r \in Sane : Wrote(Client(t), r)
  BY StepWrites
<1>3. \A c \in Clients : c # Client(t) => history'[c] = history[c]
  BY <1>1, <1>2, WriteEffect DEF Wrote
<1>4. history' = history \/ Writable(Client(t)) \/ At(t, "sent")
  BY StepWrites
<1>5. turn'[t].pc = "sent" => Writable(Client(t))
  BY StepWrites
<1>6. \A u \in Turns : Writable(Client(t)) /\ At(u, "sent") => Client(u) # Client(t)
  BY DEF Writable
<1>7. ASSUME NEW u \in Turns, u # t, At(u, "sent") PROVE Of(u)' = Of(u)
  <2>1. history' = history \/ Client(u) # Client(t)
    BY <1>4, <1>6, <1>7 DEF SentAlone
  <2>2. QED  BY <1>1, <1>3, <2>1 DEF Of
<1>8. ASSUME NEW u \in Turns, NEW v \in Turns, At(u, "sent")', At(v, "sent")', Client(u) = Client(v)
      PROVE  u = v
  <2>1. \A w \in Turns : w # t => (At(w, "sent")' <=> At(w, "sent"))
    BY <1>1 DEF Others, At
  <2>2. QED  BY <1>5, <1>6, <1>8, <2>1 DEF SentAlone, At
<1>9. QED  BY <1>1, <1>7, <1>8 DEF SentAlone

\* So does a command.
LEMMA SentCommands ==
  ASSUME TypeInv, CourseInv, SentAlone, Commands
  PROVE  SentAlone' /\ \A u \in Turns : At(u, "sent") => Of(u)' = Of(u)
<1>1. /\ turn' = turn /\ scene' = scene /\ history \in [Clients -> Sane] /\ "main" \in Clients
      /\ \A u \in Turns : Client(u)' = Client(u) /\ Client(u) \in Clients
  BY CommandFrame, HistoryIsSane, ClientIs DEF TypeInv, Client, Clients
<1>2. PICK r \in Sane : Wrote("main", r) /\ (r = history["main"] \/ Writable("main"))
  BY CommandWrites
<1>3. history'["main"] = r /\ \A c \in Clients : c # "main" => history'[c] = history[c]
  BY <1>1, <1>2, WriteEffect DEF Wrote
<1>4. ASSUME NEW u \in Turns, At(u, "sent") PROVE Of(u)' = Of(u)
  BY <1>1, <1>2, <1>3, <1>4 DEF Of, Writable
<1>5. QED  BY <1>1, <1>4 DEF SentAlone, At

\* The request a bridge is sent, if the trim may keep two messages.
LEMMA WithMessageOpens ==
  ASSUME TypeInv, NEW t \in Turns, limit >= 2, scene.profile[t].route = "bridge"
  PROVE  Opens(WithMessage(t))
<1>1. Of(t) \in Seq(Messages) /\ limit \in Nat
  BY Start
<1> DEFINE m == trim_history(Append(Of(t), UserText(t)), limit)
<1>2. UserText(t) \in Messages /\ UserText(t).role = "user" /\ UserText(t).text # NoText
  BY NamesAssumption DEF UserText, Message, Messages, Texts
<1>3. Spoken(m)
  BY <1>1, <1>2, MessagesAre, TrimSpoken
<1>4. m \in Seq(Messages)
  <2>1. m \in Sane
    BY Start, UserTextSane, TrimSane
  <2>2. QED  BY <2>1 DEF Sane
<1> HIDE DEF m
<1>5. Spoken(sanitize_history(m))
  BY <1>3, <1>4, MessagesAre, SanitizeKeeps
<1>6. sanitize_history(m) # <<>>
  BY <1>5 DEF Spoken
<1>7. sanitize_history(m) # <<>> => Opens(sanitize_history(m))
  BY <1>4, MessagesAre, SanitizeComes
<1>8. QED  BY <1>6, <1>7 DEF WithMessage, Trimmed, m

\* With limits of two or more, what was sent keeps opening with the user.
LEMMA SentOpensNext ==
  ASSUME \A n \in Limits : n >= 2, TypeInv, CourseInv, SentAlone, SentOpens, [Next]_vars
  PROVE  SentOpens'
<1>1. CASE UNCHANGED vars
  BY <1>1 DEF vars, SentOpens, At, Of, Client
<1>2. CASE Commands
  <2>1. turn' = turn /\ scene' = scene
    BY <1>2, CommandFrame
  <2>2. QED  BY <1>2, <2>1, SentCommands DEF SentOpens, At
<1>3. ASSUME NEW t \in Turns, Begin(t) \/ Steps(t) PROVE SentOpens'
  <2>1. /\ Moves(t) /\ Others(t) /\ turn' \in [Turns -> Locals] /\ scene' = scene
        /\ history \in [Clients -> Sane] /\ Client(t) \in Clients /\ Client(t)' = Client(t)
    BY <1>3, StepMoves, StepPlans, Start, ClientIs DEF settings, Client
  <2>2. PICK r \in Sane : Wrote(Client(t), r) /\ StepWrote(t, r)
    BY <1>3, StepWrites
  <2>3. Of(t)' = r
    BY <2>1, <2>2, WriteEffect DEF Wrote, Of
  <2>4. ASSUME At(t, "sent")', scene.profile[t].route = "bridge" PROVE Opens(r)
    <3>1. turn[t].pc = "send" /\ turn'[t].pc = "sent"
      BY <2>1, <2>4 DEF At, Moves, Goes, Heads, Retries, Takes, Adds, Stops, Ended
    <3>2. r = WithMessage(t)
      BY <2>2, <3>1 DEF StepWrote
    <3>3. limit >= 2
      BY DEF TypeInv, TypeOK
    <3>4. QED  BY <2>4, <3>2, <3>3, WithMessageOpens
  <2>5. ASSUME NEW u \in Turns, u # t, At(u, "sent")', scene.profile[u].route = "bridge"
        PROVE  Opens(Of(u)')
    <3>1. At(u, "sent")
      BY <2>1, <2>5 DEF Others, At
    <3>2. Of(u)' = Of(u)
      BY <1>3, <2>5, <3>1, SentTurn
    <3>3. QED  BY <2>5, <3>1, <3>2 DEF SentOpens
  <2>6. QED  BY <2>1, <2>3, <2>4, <2>5 DEF SentOpens, Opens
<1>4. QED  BY <1>1, <1>2, <1>3 DEF Next

\* A history that begins with a text of the user keeps it.
LEMMA FirmStays ==
  ASSUME NEW h \in Sane, Firm(h)
  PROVE  /\ \A n \in Nat \ {0} : Firm(trim_history(h, n))
         /\ Firm(sanitize_history(h))
         /\ \A s \in 1..4 : Firm(repair(s, h, KeepLast))
         /\ \A m \in Messages : Firm(Append(h, m))
         /\ \A id \in IdSet : Firm(add_tool_result(h, id))
         /\ Front(h) # <<>> => Firm(Front(h))
<1>1. h \in Seq(Msg(Texts, IdSet)) /\ h \in Seq(Messages)
  BY MessagesAre DEF Sane
<1>2. ASSUME NEW n \in Nat \ {0} PROVE Firm(trim_history(h, n))
  BY <1>1, TrimHeir DEF Heir
<1>3. Firm(sanitize_history(h))
  BY <1>1, SanitizeKeeps DEF Firm
<1>4. ASSUME NEW s \in 1..4 PROVE Firm(repair(s, h, KeepLast))
  BY <1>1, KeepAssumption, RepairHeir
<1>5. ASSUME NEW m \in Messages PROVE Firm(Append(h, m))
  BY <1>1, MessagesAre, AppendBlocks DEF Firm
<1>6. ASSUME NEW id \in IdSet PROVE Firm(add_tool_result(h, id))
  BY <1>1, MessagesAre, AddResultBlocks DEF Firm
<1>7. Front(h) # <<>> => Firm(Front(h))
  BY <1>1, FrontHeir DEF Heir
<1>8. QED  BY <1>2, <1>3, <1>4, <1>5, <1>6, <1>7

\* A history that was compacted opens with the summary.
LEMMA FirmCompacted == ASSUME NEW h \in Sane, NEW p \in Plans PROVE Firm(Compacted(h, p, "summary"))
<1>1. p.before \in Nat /\ p.keep \in Seq(Messages) /\ h \in Seq(Messages)
  BY DEF Plans, Sane
<1>2. "summary" # NoText
  BY NamesAssumption
<1>3. Compacted(h, p, "summary") # <<>> /\ Compacted(h, p, "summary")[1] = UserText("summary")
  BY <1>1 DEF Compacted
<1>4. QED  BY <1>2, <1>3 DEF Firm, UserText, Message

\* Trimming nothing leaves nothing.
LEMMA EmptyStays == \A n \in Nat \ {0} : trim_history(<<>>, n) = <<>>
  BY DEF trim_history

\* There is nothing before nothing.
LEMMA FrontOfEmpty == Front(<<>>) = <<>>
<1>1. Front(<<>>) = SubSeq(<<>>, 1, Len(<<>>) - 1)
  BY DEF Front
<1>2. Len(<<>>) - 1 \in Int /\ Len(<<>>) - 1 < 1 /\ 1 \in Int
  OBVIOUS
<1>3. SubSeq(<<>>, 1, Len(<<>>) - 1) = <<>>
  BY ONLY <1>2, SubSeqEmpty
<1>4. QED  BY <1>1, <1>3

\* What is sent begins with a text of the user, if the history does or is empty.
LEMMA FirmMessage ==
  ASSUME TypeInv, NEW t \in Turns, Of(t) = <<>> \/ Firm(Of(t))
  PROVE  Firm(WithMessage(t))
<1> DEFINE g == Append(Of(t), UserText(t))
           m == trim_history(g, limit)
<1>1. UserText(t) \in Messages /\ UserText(t).role = "user" /\ UserText(t).text # NoText
  BY NamesAssumption DEF UserText, Message, Messages, Texts
<1>2. g \in Sane
  BY Start, UserTextSane
<1>3. Firm(g)
  <2>1. CASE Of(t) = <<>>
    <3>1. g = <<UserText(t)>>
      BY <2>1
    <3>2. QED  BY <1>1, <3>1 DEF Firm
  <2>2. CASE Firm(Of(t))
    BY <1>1, <2>2, Start, FirmStays
  <2>3. QED  BY <2>1, <2>2
<1> HIDE DEF g
<1>4. Firm(m) /\ m \in Sane
  BY <1>2, <1>3, Start, FirmStays, TrimSane
<1> HIDE DEF m
<1>5. Firm(sanitize_history(m))
  BY <1>4, FirmStays
<1>6. QED  BY <1>4, <1>5 DEF WithMessage, Trimmed, m, g

\* When users wait for each other, a step of a turn keeps what the user opened open.
LEMMA FirmTurn ==
  ASSUME TypeInv, CourseInv, FirmAlone, NEW t \in Turns, Begin(t) \/ Steps(t)
  PROVE  FirmAlone'
<1>1. /\ Moves(t) /\ Others(t) /\ turn' \in [Turns -> Locals] /\ scene' = scene
      /\ history \in [Clients -> Sane] /\ Client(t) \in Clients
      /\ \A u \in Turns : Client(u)' = Client(u) /\ Client(u) \in Clients
  BY StepMoves, StepPlans, Start, ClientIs DEF settings, Client
<1> SUFFICES ASSUME scene.alone
             PROVE  /\ \A c \in Clients : history'[c] # <<>> => Firm(history'[c])
                    /\ \A u \in Turns : turn'[u].pc \in Underway => Of(u)' # <<>>
  BY <1>1 DEF FirmAlone, Firm
<1>2. PICK r \in Sane : Wrote(Client(t), r) /\ StepWrote(t, r)
  BY StepWrites
<1>3. history'[Client(t)] = r /\ \A c \in Clients : c # Client(t) => history'[c] = history[c]
  BY <1>1, <1>2, WriteEffect DEF Wrote
<1> DEFINE h == Of(t)
<1>4. /\ h \in Sane /\ (h = <<>> \/ Firm(h)) /\ (turn[t].pc \in Underway => Firm(h))
      /\ limit \in Nat \ {0} /\ turn[t].todo \in Seq(IdSet) /\ turn[t].tries \in 0..4
      /\ turn'[t].uses \in Seq(IdSet)
  BY <1>1, Start DEF FirmAlone, Of, Locals
<1> HIDE DEF h
<1>5. (r = <<>> \/ Firm(r)) /\ (turn'[t].pc \in Underway => r # <<>>)
  <2>1. CASE r = h /\ turn[t].pc # "send"
    <3>1. turn'[t].pc \in Underway => turn[t].pc \in Underway
      BY <1>1, <2>1 DEF Underway, Moves, Goes, Heads, Retries, Takes, Adds, Stops, Ended
    <3>2. QED  BY <1>4, <2>1, <3>1 DEF Firm
  <2>2. CASE turn[t].pc = "compacting" /\ r = Compacted(h, plan[t], "summary")
    <3>1. plan[t] \in Plans
      BY <2>2 DEF TypeInv, TypeOK, At
    <3>2. Firm(r)
      BY <1>4, <2>2, <3>1, FirmCompacted
    <3>3. QED  BY <3>2 DEF Firm
  <2>3. CASE r = WithMessage(t)
    <3>1. Firm(r)
      BY <1>4, <2>3, FirmMessage DEF h
    <3>2. QED  BY <3>1 DEF Firm
  <2>4. CASE turn[t].pc = "sent" /\ turn'[t].pc # "head" /\ r = Front(h)
    <3>1. turn'[t].pc \notin Underway \/ turn'[t].pc = "sent"
      BY <1>1, <2>4 DEF Underway, Moves, Goes, Heads, Retries, Takes, Adds, Stops, Ended
    <3>2. turn'[t].pc # "sent"
      BY <1>1, <2>4 DEF Moves, Goes, Heads, Retries, Takes, Adds, Stops, Ended
    <3>3. r # <<>> => Firm(r)
      BY <1>4, <2>4, FirmStays, FrontOfEmpty
    <3>4. QED  BY <3>1, <3>2, <3>3
  <2>5. ASSUME NEW text \in Turns \cup {NoText}, r = Trimmed(Append(h, Answer(text, turn'[t].uses))),
               turn[t].pc \in {"sent", "asked", "lastAsked"}
        PROVE  Firm(r)
    <3> DEFINE g == Append(h, Answer(text, turn'[t].uses))
    <3>1. Firm(h)
      BY <1>4, <2>5 DEF Underway
    <3>2. Answer(text, turn'[t].uses) \in Messages
      BY <1>4 DEF Answer, Message, Messages, Texts
    <3>3. g \in Sane /\ Firm(g)
      BY <1>4, <3>1, <3>2, AnswerSane, FirmStays
    <3> HIDE DEF g
    <3>4. Firm(trim_history(g, limit))
      BY <1>4, <3>3, FirmStays
    <3>5. QED  BY <2>5, <3>4 DEF Trimmed, g
  <2>6. CASE /\ turn[t].pc \in {"results", "padding", "forced"} /\ turn[t].todo # <<>>
             /\ r = add_tool_result(h, Head(turn[t].todo))
    <3>1. Firm(h) /\ Head(turn[t].todo) \in IdSet
      BY <1>4, <2>6 DEF Underway
    <3>2. Firm(r)
      BY <1>4, <2>6, <3>1, FirmStays
    <3>3. QED  BY <3>2 DEF Firm
  <2>7. CASE turn[t].pc \in {"results", "forced"} /\ r = Trimmed(h)
    <3>1. Firm(h)
      BY <1>4, <2>7 DEF Underway
    <3>2. Firm(r)
      BY <1>4, <2>7, <3>1, FirmStays DEF Trimmed
    <3>3. QED  BY <3>2 DEF Firm
  <2>8. CASE turn[t].pc = "repair" /\ r = repair(turn[t].tries, h, KeepLast)
    <3>1. Firm(h) /\ turn[t].tries \in 1..4
      BY <1>4, <2>8 DEF Underway, TypeInv, At
    <3>2. Firm(r)
      BY <1>4, <2>8, <3>1, FirmStays
    <3>3. QED  BY <3>2 DEF Firm
  <2>9. ASSUME NEW text \in Turns \cup {NoText}, r = Trimmed(Append(h, Answer(text, turn'[t].uses))),
               turn[t].pc \in {"sent", "asked", "lastAsked"}
        PROVE  r # <<>>
    BY <2>5, <2>9 DEF Firm
  <2>10. QED  BY <1>2, <2>1, <2>2, <2>3, <2>4, <2>5, <2>6, <2>7, <2>8, <2>9 DEF StepWrote, h
<1>6. ASSUME NEW c \in Clients, history'[c] # <<>> PROVE Firm(history'[c])
  BY <1>3, <1>5, <1>6 DEF FirmAlone
<1>7. ASSUME NEW u \in Turns, turn'[u].pc \in Underway PROVE Of(u)' # <<>>
  <2>1. CASE u = t
    BY <1>1, <1>3, <1>5, <1>7, <2>1 DEF Of
  <2>2. CASE u # t
    <3>1. turn[u].pc \in Underway
      BY <1>1, <1>7, <2>2 DEF Others
    <3>2. Live(u)
      BY <3>1 DEF Underway, Live, Ended
    <3>3. QED  BY <2>2, <3>2, LiveMoves DEF CourseInv, Quiet
  <2>3. QED  BY <2>1, <2>2
<1>8. QED  BY <1>6, <1>7

\* So does a command.
LEMMA FirmCommands == ASSUME TypeInv, CourseInv, FirmAlone, Commands PROVE FirmAlone'
<1>1. /\ turn' = turn /\ scene' = scene /\ history \in [Clients -> Sane] /\ limit \in Nat \ {0}
      /\ "main" \in Clients
      /\ \A u \in Turns : Client(u)' = Client(u) /\ Client(u) \in Clients
  BY CommandFrame, HistoryIsSane, LimitIs, ClientIs DEF TypeInv, Client, Clients
<1> SUFFICES ASSUME scene.alone
             PROVE  /\ \A c \in Clients : history'[c] # <<>> => Firm(history'[c])
                    /\ \A u \in Turns : turn'[u].pc \in Underway => Of(u)' # <<>>
  BY <1>1 DEF FirmAlone, Firm
<1>2. PICK r \in Sane :
        /\ Wrote("main", r)
        /\ \/ r = history["main"]
           \/ r = <<>> \/ r = Trimmed(Saved) \/ r = Trimmed(history["main"])
           \/ plan[Command] # None /\ r = Compacted(history["main"], plan[Command], "summary")
  BY CommandWrites
<1>3. history'["main"] = r /\ \A c \in Clients : c # "main" => history'[c] = history[c]
  BY <1>1, <1>2, WriteEffect DEF Wrote
<1> DEFINE h == history["main"]
<1>4. h \in Sane /\ (h = <<>> \/ Firm(h))
  BY <1>1 DEF FirmAlone
<1> HIDE DEF h
<1>5. r = <<>> \/ Firm(r)
  <2>1. CASE r = h \/ r = <<>>
    BY <1>4, <2>1
  <2>2. CASE r = Trimmed(h)
    BY <1>1, <1>4, <2>2, FirmStays, EmptyStays DEF Trimmed
  <2>3. CASE r = Trimmed(Saved)
    <3>1. Saved = <<>> \/ Firm(Saved)
      <4> DEFINE Stored == [role : {"user", "assistant"}, text : {"saved"}, uses : {<<>>}, results : {<<>>}]
      <4>1. Saved \in Seq(Stored) /\ (Saved # <<>> => Saved[1].role = "user")
        BY SavedAssumption
      <4> HIDE DEF Stored
      <4>2. Saved # <<>> => Saved[1] \in Stored
        BY <4>1
      <4>3. Saved # <<>> => Saved[1].text # NoText
        BY <4>2, NamesAssumption DEF Stored
      <4>4. QED  BY <4>1, <4>3 DEF Firm
    <3>2. QED  BY <1>1, <2>3, <3>1, SavedSane, FirmStays, EmptyStays DEF Trimmed
  <2>4. CASE plan[Command] # None /\ r = Compacted(h, plan[Command], "summary")
    <3>1. plan[Command] \in Plans
      BY <2>4 DEF TypeInv, TypeOK
    <3>2. QED  BY <1>4, <2>4, <3>1, FirmCompacted
  <2>5. QED  BY <1>2, <2>1, <2>2, <2>3, <2>4 DEF h
<1>6. ASSUME NEW c \in Clients, history'[c] # <<>> PROVE Firm(history'[c])
  BY <1>3, <1>5, <1>6 DEF FirmAlone
<1>7. ASSUME NEW u \in Turns, turn'[u].pc \in Underway PROVE Of(u)' # <<>>
  <2>1. turn[u].pc \in Underway
    BY <1>1, <1>7
  <2>2. Live(u)
    BY <2>1 DEF Underway, Live, Ended
  <2>3. history' = history
    BY <2>2, CommandFrame
  <2>4. QED  BY <1>1, <2>1, <2>3 DEF FirmAlone, Of
<1>8. QED  BY <1>6, <1>7

\* The histories start empty.
LEMMA OpensInit == Init => SentAlone /\ SentOpens /\ FirmAlone
<1> SUFFICES ASSUME Init PROVE SentAlone /\ SentOpens /\ FirmAlone
  OBVIOUS
<1>1. \A t \in Turns : turn[t] = Idle("idle", "none")
  BY DEF Init
<1>2. \A t \in Turns : turn[t].pc = "idle"
  BY <1>1 DEF Idle
<1>3. \A c \in Clients : history[c] = <<>>
  BY DEF Init
<1>4. QED  BY <1>2, <1>3 DEF SentAlone, SentOpens, FirmAlone, Underway, At

\* Every step keeps the histories of those that await an answer to themselves.
LEMMA SentNext == TypeInv /\ CourseInv /\ SentAlone /\ [Next]_vars => SentAlone'
<1>1. UNCHANGED vars /\ SentAlone => SentAlone'
  BY DEF vars, SentAlone, At, Client
<1>2. QED  BY <1>1, SentTurn, SentCommands DEF Next

\* Every step keeps what the user opened open.
LEMMA FirmNext == TypeInv /\ CourseInv /\ FirmAlone /\ [Next]_vars => FirmAlone'
<1>1. UNCHANGED vars /\ FirmAlone => FirmAlone'
  BY DEF vars, FirmAlone, Of, Client
<1>2. QED  BY <1>1, FirmTurn, FirmCommands DEF Next

(* When users wait for each other every history is empty or begins with a  *)
(* text of the user, whatever the limit, and the request of a bridge too.  *)
THEOREM HistoriesOpenWithUser ==
  Spec => [](scene.alone => \A c \in Clients : history[c] # <<>> => Opens(history[c]))
<1>1. FirmAlone => (scene.alone => \A c \in Clients : history[c] # <<>> => Opens(history[c]))
  BY DEF FirmAlone, Firm, Opens
<1>2. QED
  BY <1>1, TypeInit, TypeNext, CourseInit, CourseNext, OpensInit, FirmNext, PTL DEF Spec

(* What a bridge is sent opens with a message of the user, whoever writes  *)
(* to the history beside the turn: provided that max_history_messages lets *)
(* two messages stay.  At one, the trim keeps the first message only, and  *)
(* the cleaning drops it when it is an answer.                             *)
THEOREM RequestsOpenWithUser ==
  ASSUME \A n \in Limits : n >= 2
  PROVE  Spec => []OpensWithUser
<1>1. FirmAlone /\ SentOpens => OpensWithUser
  BY DEF FirmAlone, SentOpens, Firm, OpensWithUser, Opens
<1>2. TypeInv /\ CourseInv /\ SentAlone /\ SentOpens /\ [Next]_vars => SentOpens'
  BY SentOpensNext
<1>3. QED
  BY <1>1, <1>2, TypeInit, TypeNext, CourseInit, CourseNext, OpensInit, SentNext, FirmNext, PTL DEF Spec

-----------------------------------------------------------------------------
(* How long a history is. *)

\* What a compaction kept, and how long the history was then.
Held(p, keep, before) ==
  /\ Tidy(keep) /\ keep # <<>> /\ Len(keep) + 1 <= before
  /\ \E n \in Limits :
       /\ Len(keep) + 1 <= n + Excess(keep)
       /\ Compacts(p) = "main" /\ scene.alone => n = limit

LengthInv ==
  /\ LengthBounded
  /\ \A c \in Clients : Tidy(history[c])
  /\ \A p \in Turns \cup {Command} : plan[p] # None => Held(p, plan[p].keep, plan[p].before)

\* Cleaning, trimming and repairing make no history longer or less tidy.
LEMMA LessFits ==
  ASSUME NEW h \in Sane, NEW r \in Sane, Comes(r, h), Tidy(h)
  PROVE  Tidy(r) /\ \A n \in Nat : Fits(h, n) => Fits(r, n)
<1>1. /\ h \in Seq(Msg(Texts, IdSet)) /\ r \in Seq(Msg(Texts, IdSet)) /\ Sound(h) /\ Sound(r)
  BY MessagesAre DEF Sane
<1>2. Tidy(r)
  BY <1>1, ComesTidy
<1>3. ASSUME NEW n \in Nat, Fits(h, n) PROVE Fits(r, n)
  BY <1>1, <1>3, ComesFits
<1>4. QED  BY <1>2, <1>3

\* A trim makes a tidy history fit its limit.
LEMMA TrimFits ==
  ASSUME NEW h \in Sane, Tidy(h), NEW n \in Nat \ {0}
  PROVE  Tidy(trim_history(h, n)) /\ Fits(trim_history(h, n), n)
<1>1. h \in Seq(Msg(Texts, IdSet))
  BY MessagesAre DEF Sane
<1>2. Comes(trim_history(h, n), h) /\ Len(trim_history(h, n)) <= n /\ Len(trim_history(h, n)) \in Nat
  BY <1>1, TrimComes
<1>3. trim_history(h, n) \in Sane
  BY TrimSane
<1>4. Excess(trim_history(h, n)) \in {0, 1}
  BY DEF Excess
<1>5. QED  BY <1>2, <1>3, <1>4, LessFits DEF Fits

\* An empty history is tidy, and fits any limit.
LEMMA EmptyFits == Tidy(<<>>) /\ \A n \in Nat : Fits(<<>>, n)
<1>1. Excess(<<>>) = 0
  BY DEF Excess, Joins
<1>2. QED  BY <1>1 DEF Tidy, Fits

\* The session that is loaded is tidy.
LEMMA SavedTidy == Tidy(Saved)
  BY SavedPlain DEF Tidy

\* What a compaction keeps leaves room for the summary.
LEMMA PlanFits ==
  ASSUME NEW h \in Sane, Tidy(h), Len(h) > Recent, NEW n \in Nat, Fits(h, n)
  PROVE  /\ Tidy(ToKeep(h)) /\ ToKeep(h) # <<>> /\ Len(ToKeep(h)) + 1 <= Len(h)
         /\ Len(ToKeep(h)) + 1 <= n + Excess(ToKeep(h))
<1> DEFINE keep == ToKeep(h)
<1>1. h \in Seq(Msg(Texts, IdSet))
  BY MessagesAre DEF Sane
<1>2. /\ keep \in Seq(Msg(Texts, IdSet)) /\ Within(keep, h) /\ Len(keep) = Len(h) - SplitPoint(h)
      /\ keep # <<>> /\ Last(keep) = Last(h)
  BY <1>1, ToKeepWithin
<1>3. SplitPoint(h) \in 1..(Len(h) - Recent)
  BY <1>1, SplitPointBounds
<1> HIDE DEF keep
<1>4. Tidy(keep)
  BY <1>1, <1>2, WithinTidy
<1>5. h # <<>>
  BY <1>1, RecentAssumption
<1>6. Excess(keep) = Excess(h) /\ Excess(h) \in {0, 1}
  BY <1>2, <1>5 DEF Excess, Joins
<1>7. Len(h) \in Nat /\ Len(keep) \in Nat /\ Len(keep) + 1 <= Len(h)
  BY <1>1, <1>2, <1>3, RecentAssumption
<1>8. Len(keep) + 1 <= n + Excess(keep)
  BY <1>6, <1>7 DEF Fits
<1>9. QED  BY <1>2, <1>4, <1>7, <1>8 DEF keep

\* What a step of turn t leaves fits where the history did, or the limit, or
\* what the compaction kept.
LEMMA StepFits ==
  ASSUME TypeInv, NEW t \in Turns, NEW r \in Sane, StepWrote(t, r), Moves(t), turn' \in [Turns -> Locals],
         NEW h, h = Of(t), Tidy(h), NEW n \in Nat, Fits(h, n), NEW m \in Nat,
         plan[t] # None => /\ Tidy(plan[t].keep) /\ plan[t].keep # <<>>
                           /\ Len(plan[t].keep) + 1 <= plan[t].before
                           /\ Len(plan[t].keep) + 1 <= m + Excess(plan[t].keep)
  PROVE  Tidy(r) /\ (Fits(r, n) \/ Fits(r, limit) \/ (At(t, "compacting") /\ plan[t] # None /\ Fits(r, m)))
<1>1. h \in Sane /\ limit \in Nat \ {0} /\ turn[t].tries \in 0..4 /\ turn[t].todo \in Seq(IdSet)
      /\ turn'[t].uses \in Seq(IdSet)
  BY Start DEF Locals
<1>2. h \in Seq(Msg(Texts, IdSet)) /\ NoText \in Texts
  BY <1>1, MessagesAre DEF Sane
<1>3. ASSUME NEW g \in Sane, Tidy(g) PROVE Tidy(Trimmed(g)) /\ Fits(Trimmed(g), limit)
  BY <1>1, <1>3, TrimFits DEF Trimmed
<1>4. CASE r = h
  BY <1>4
<1>5. CASE turn[t].pc = "compacting" /\ r = Compacted(h, plan[t], "summary")
  <2> DEFINE p == plan[t]
  <2>1. p # None /\ p \in Plans
    BY <1>5 DEF TypeInv, TypeOK, At
  <2>2. p.before \in Nat /\ p.keep \in Seq(Msg(Texts, IdSet)) /\ "summary" \in Texts /\ "summary" # NoText
    BY <2>1, MessagesAre, NamesAssumption DEF Plans, Texts
  <2> HIDE DEF p
  <2>3. /\ Tidy(p.keep) /\ p.keep # <<>> /\ Len(p.keep) + 1 <= p.before
        /\ Len(p.keep) + 1 <= m + Excess(p.keep)
    BY <2>1 DEF p
  <2>4. Tidy(Compacted(h, p, "summary")) /\ (Fits(Compacted(h, p, "summary"), n) \/ Fits(Compacted(h, p, "summary"), m))
    BY <1>2, <2>2, <2>3, CompactedFits
  <2>5. QED  BY <1>5, <2>1, <2>4 DEF p, At
<1>6. CASE r = WithMessage(t)
  <2> DEFINE g == Append(h, UserText(t))
             s == trim_history(g, limit)
  <2>1. UserText(t) \in Msg(Texts, IdSet) /\ UserText(t).results = <<>>
    <3>1. UserText(t) \in Messages /\ UserText(t).results = <<>>
      BY NamesAssumption DEF UserText, Message, Messages, Texts
    <3>2. QED  BY <3>1, MessagesAre
  <2>2. g \in Sane /\ Tidy(g)
    BY <1>1, <1>2, <2>1, UserTextSane, AppendTidy
  <2> HIDE DEF g
  <2>3. Tidy(s) /\ Fits(s, limit) /\ s \in Sane
    BY <1>1, <2>2, TrimFits, TrimSane
  <2> HIDE DEF s
  <2>4. sanitize_history(s) \in Sane /\ Comes(sanitize_history(s), s)
    BY <2>3, SanitizeSane, SanitizeComes, MessagesAre DEF Sane
  <2>5. Tidy(sanitize_history(s)) /\ Fits(sanitize_history(s), limit)
    BY <1>1, <2>3, <2>4, LessFits
  <2>6. QED  BY <1>6, <2>3, <2>5 DEF WithMessage, Trimmed, s, g
<1>7. CASE r = Front(h)
  <2>1. CASE h = <<>>
    BY <1>7, <2>1, FrontOfEmpty, EmptyFits
  <2>2. CASE h # <<>>
    <3>1. Comes(Front(h), h)
      BY <1>2, <2>2, FrontWithin, WithinComes
    <3>2. QED  BY <1>1, <1>7, <3>1, LessFits
  <2>3. QED  BY <2>1, <2>2
<1>8. ASSUME NEW text \in Turns \cup {NoText}, r = Trimmed(Append(h, Answer(text, turn'[t].uses)))
      PROVE  Tidy(r) /\ Fits(r, limit)
  <2>1. Answer(text, turn'[t].uses) \in Msg(Texts, IdSet) /\ Answer(text, turn'[t].uses).results = <<>>
    <3>1. /\ Answer(text, turn'[t].uses) \in Messages /\ Answer(text, turn'[t].uses).results = <<>>
      BY <1>1 DEF Answer, Message, Messages, Texts
    <3>2. QED  BY <3>1, MessagesAre
  <2>2. Append(h, Answer(text, turn'[t].uses)) \in Sane /\ Tidy(Append(h, Answer(text, turn'[t].uses)))
    BY <1>1, <1>2, <2>1, AnswerSane, AppendTidy
  <2>3. QED  BY <1>3, <1>8, <2>2
<1>9. CASE turn[t].todo # <<>> /\ r = add_tool_result(h, Head(turn[t].todo))
  <2>1. Head(turn[t].todo) \in IdSet
    BY <1>1, <1>9
  <2>2. QED  BY <1>2, <1>9, <2>1, AddResultFits
<1>10. CASE r = Trimmed(h)
  BY <1>1, <1>3, <1>10
<1>11. CASE turn[t].pc = "repair" /\ r = repair(turn[t].tries, h, KeepLast)
  <2>1. turn[t].tries \in 1..4
    BY <1>1, <1>11 DEF TypeInv, At
  <2>2. Comes(repair(turn[t].tries, h, KeepLast), h)
    BY <1>2, <2>1, KeepAssumption, RepairComes
  <2>3. QED  BY <1>1, <1>11, <2>2, LessFits
<1>12. QED  BY <1>4, <1>5, <1>6, <1>7, <1>8, <1>9, <1>10, <1>11 DEF StepWrote

\* A step of a turn.
LEMMA LengthTurn ==
  ASSUME TypeInv, CourseInv, LengthInv, NEW t \in Turns, Begin(t) \/ Steps(t)
  PROVE  LengthInv'
<1>1. /\ Moves(t) /\ Others(t) /\ turn' \in [Turns -> Locals] /\ scene' = scene /\ limit' = limit
      /\ trimDue' = trimDue /\ history \in [Clients -> Sane] /\ Client(t) \in Clients
      /\ Limits \subseteq Nat /\ limit \in Limits
  BY StepMoves, StepPlans, Start, ScenesAssumption DEF settings, TypeOK
<1>2. \A p \in Turns \cup {Command} : Compacts(p)' = Compacts(p)
  BY <1>1 DEF Compacts, Client
<1>3. PICK r \in Sane : Wrote(Client(t), r) /\ StepWrote(t, r)
  BY StepWrites
<1>4. history'[Client(t)] = r /\ \A c \in Clients : c # Client(t) => history'[c] = history[c]
  BY <1>1, <1>3, WriteEffect DEF Wrote
<1> DEFINE h == Of(t)
           main == Client(t) = "main" /\ scene.alone
<1>5. Tidy(h) /\ \E n \in Limits : Fits(h, n) /\ (main /\ ~trimDue => n = limit)
  BY <1>1 DEF LengthInv, LengthBounded, Of
<1>6. Live(t) /\ main => ~trimDue
  BY DEF CourseInv
<1>7. PICK n \in Limits : Fits(h, n) /\ (main /\ ~trimDue => n = limit)
  BY <1>5
<1>8. PICK m \in Limits : plan[t] # None =>
        /\ Tidy(plan[t].keep) /\ plan[t].keep # <<>>
        /\ Len(plan[t].keep) + 1 <= plan[t].before
        /\ Len(plan[t].keep) + 1 <= m + Excess(plan[t].keep)
        /\ main => m = limit
  <2>1. CASE plan[t] = None
    BY <1>1, <2>1
  <2>2. CASE plan[t] # None
    <3>1. Held(t, plan[t].keep, plan[t].before) /\ (Compacts(t) = Client(t))
      BY <2>2, NamesAssumption DEF LengthInv, Compacts
    <3>2. QED  BY <3>1 DEF Held
  <2>3. QED  BY <2>1, <2>2
<1>9. Tidy(r) /\ (Fits(r, n) \/ Fits(r, limit) \/ (At(t, "compacting") /\ plan[t] # None /\ Fits(r, m)))
  <2>1. n \in Nat /\ m \in Nat
    BY <1>1
  <2>2. QED  BY <1>1, <1>3, <1>5, <1>7, <1>8, <2>1, StepFits
<1> HIDE DEF h, main
<1>10. LengthBounded'
  <2>1. \E k \in Limits : Fits(r, k) /\ (main /\ ~trimDue => k = limit)
    BY <1>1, <1>7, <1>8, <1>9
  <2>2. ASSUME NEW c \in Clients
        PROVE  \E k \in Limits : Fits(history'[c], k) /\ (c = "main" /\ scene.alone /\ ~trimDue => k = limit)
    BY <1>4, <2>1 DEF LengthInv, LengthBounded, main
  <2>3. QED  BY <1>1, <2>2 DEF LengthBounded
<1>11. \A c \in Clients : Tidy(history'[c])
  BY <1>4, <1>9 DEF LengthInv
<1>12. \A p \in Turns \cup {Command} : \A keep, before : Held(p, keep, before) => Held(p, keep, before)'
  BY <1>1, <1>2 DEF Held
<1>13. plan \in [Turns \cup {Command} -> Plans \cup {None}]
  BY DEF TypeInv, TypeOK
<1>14. ASSUME NEW p \in Turns \cup {Command}, plan'[p] # None
       PROVE  Held(p, plan'[p].keep, plan'[p].before)
  <2>1. CASE plan'[p] = plan[p]
    BY <1>14, <2>1 DEF LengthInv
  <2>2. CASE p = t /\ At(t, "routed") /\ Len(h) > Recent /\ plan'[p] = PlanOf(Client(t))
    <3> DEFINE keep == ToKeep(h)
    <3>1. plan'[p].keep = keep /\ plan'[p].before = Len(h)
      BY <2>2 DEF PlanOf, Of, h
    <3>2. h \in Sane /\ n \in Nat
      BY <1>1, Start DEF h
    <3>3. /\ Tidy(keep) /\ keep # <<>> /\ Len(keep) + 1 <= Len(h) /\ Len(keep) + 1 <= n + Excess(keep)
      BY <1>5, <1>7, <2>2, <3>2, PlanFits
    <3> HIDE DEF keep
    <3>10. Live(t)
      BY <2>2 DEF At, Live, Ended
    <3>11. Compacts(p) = "main" /\ scene.alone => n = limit
      BY <1>6, <1>7, <2>2, <3>10, NamesAssumption DEF main, Compacts
    <3>12. QED  BY <3>1, <3>3, <3>11 DEF Held
  <2>3. QED  BY <1>13, <1>14, <2>1, <2>2, StepPlans DEF h
<1>15. QED  BY <1>10, <1>11, <1>12, <1>14 DEF LengthInv

\* What a command does to the limit.
LEMMA CommandLimits ==
  ASSUME TypeInv, CourseInv, Commands
  PROVE  \/ limit' = limit /\ trimDue' = trimDue
         \/ limit' = limit /\ trimDue' = FALSE /\ plan' = plan /\ Wrote("main", Trimmed(history["main"]))
         \/ /\ trimDue' = TRUE /\ history' = history /\ plan' = plan
            /\ scene.alone => \A p \in Turns \cup {Command} : plan[p] = None
<1>1. CASE SetLimit
  <2>1. trimDue' = TRUE /\ history' = history /\ plan' = plan /\ (scene.alone => Quiet)
    BY <1>1 DEF SetLimit, Issue
  <2>2. ASSUME Quiet, NEW p \in Turns \cup {Command} PROVE plan[p] = None
    <3>1. CASE p = Command
      BY <2>2, <3>1 DEF Quiet
    <3>2. CASE p \in Turns
      BY <2>2, <3>2 DEF Quiet, CourseInv, At, Live, Ended
    <3>3. QED  BY <3>1, <3>2
  <2>3. QED  BY <2>1, <2>2
<1>2. CASE ApplyLimit
  BY <1>2 DEF ApplyLimit, Write, Wrote
<1>3. CASE CancelMessage \/ NewConversation \/ LoadSession \/ CompactCommand \/ CompactDone
  <2>1. limit' = limit /\ trimDue' = trimDue
    BY <1>3 DEF CancelMessage, NewConversation, LoadSession, CompactCommand, CompactDone, settings
  <2>2. QED  BY <2>1
<1>4. QED  BY <1>1, <1>2, <1>3 DEF Commands

\* What a command does to the compactions that wait.
LEMMA CommandPlans ==
  ASSUME TypeInv, CourseInv, Commands
  PROVE  \A p \in Turns \cup {Command} : plan'[p] # None =>
           \/ plan'[p] = plan[p]
           \/ /\ p = Command /\ plan'[p] = PlanOf("main") /\ Len(history["main"]) > Recent
              /\ history' = history
              /\ scene.alone => ~trimDue
<1>1. plan \in [Turns \cup {Command} -> Plans \cup {None}]
  BY DEF TypeInv, TypeOK
<1>2. CASE plan' = plan
  BY <1>2
<1>3. CASE plan' = [plan EXCEPT ![Command] = None]
  BY <1>1, <1>3
<1>4. CASE /\ plan' = [plan EXCEPT ![Command] = PlanOf("main")] /\ Len(history["main"]) > Recent
           /\ history' = history
           /\ scene.alone => Quiet
  BY <1>1, <1>4 DEF Quiet
<1>5. QED
  BY <1>2, <1>3, <1>4 DEF Commands, CancelMessage, NewConversation, LoadSession, SetLimit, ApplyLimit,
     CompactCommand, CompactDone, Issue, settings

\* A command.
LEMMA LengthCommands ==
  ASSUME TypeInv, CourseInv, LengthInv, Commands
  PROVE  LengthInv'
<1>1. /\ turn' = turn /\ scene' = scene /\ history \in [Clients -> Sane] /\ "main" \in Clients
      /\ Limits \subseteq Nat /\ limit \in Limits /\ limit \in Nat \ {0} /\ limit' \in Limits
      /\ plan \in [Turns \cup {Command} -> Plans \cup {None}]
  <2>1. TypeInv'
    BY TypeCommands
  <2>2. QED  BY <2>1, CommandFrame, HistoryIsSane, LimitIs, ScenesAssumption DEF TypeInv, TypeOK, Clients
<1>2. \A p \in Turns \cup {Command} : Compacts(p)' = Compacts(p)
  BY <1>1 DEF Compacts, Client
<1> DEFINE h == history["main"]
<1>3. h \in Sane /\ Tidy(h)
  BY <1>1 DEF LengthInv
<1>4. PICK n \in Limits : Fits(h, n) /\ (scene.alone /\ ~trimDue => n = limit)
  BY <1>1 DEF LengthInv, LengthBounded
<1> HIDE DEF h
<1>5. n \in Nat
  BY <1>1
<1>6. ASSUME NEW c \in Clients, c # "main", NEW r, Wrote("main", r) PROVE history'[c] = history[c]
  BY <1>1, <1>6 DEF Wrote
<1>7. ASSUME limit' = limit, trimDue' = trimDue PROVE LengthInv'
  <2>1. PICK r \in Sane :
          /\ Wrote("main", r)
          /\ \/ r = h
             \/ r = <<>> \/ r = Trimmed(Saved) \/ r = Trimmed(h)
             \/ plan[Command] # None /\ r = Compacted(h, plan[Command], "summary")
    BY CommandWrites DEF h
  <2>2. history'["main"] = r /\ \A c \in Clients : c # "main" => history'[c] = history[c]
    BY <1>1, <2>1, WriteEffect DEF Wrote
  <2>3. Tidy(r) /\ \E k \in Limits : Fits(r, k) /\ (scene.alone /\ ~trimDue => k = limit)
    <3>1. CASE r = h
      BY <1>3, <1>4, <3>1
    <3>2. CASE r = <<>>
      BY <1>1, <3>2, EmptyFits
    <3>3. CASE r = Trimmed(Saved) \/ r = Trimmed(h)
      BY <1>1, <1>3, <3>3, SavedSane, SavedTidy, TrimFits DEF Trimmed
    <3>4. CASE plan[Command] # None /\ r = Compacted(h, plan[Command], "summary")
      <4> DEFINE p == plan[Command]
      <4>1. p \in Plans /\ p # None
        BY <1>1, <3>4
      <4>2. Held(Command, p.keep, p.before)
        BY <3>4 DEF LengthInv
      <4>3. p.before \in Nat /\ p.keep \in Seq(Msg(Texts, IdSet)) /\ "summary" \in Texts /\ "summary" # NoText
        BY <4>1, MessagesAre, NamesAssumption DEF Plans, Texts
      <4> HIDE DEF p
      <4>4. PICK m \in Limits : Len(p.keep) + 1 <= m + Excess(p.keep) /\ (scene.alone => m = limit)
        BY <4>2 DEF Held, Compacts
      <4>5. m \in Nat /\ h \in Seq(Msg(Texts, IdSet)) /\ Tidy(p.keep) /\ p.keep # <<>> /\ Len(p.keep) + 1 <= p.before
        BY <1>1, <1>3, <4>2, MessagesAre DEF Held, Sane
      <4>6. Tidy(Compacted(h, p, "summary")) /\ (Fits(Compacted(h, p, "summary"), n) \/ Fits(Compacted(h, p, "summary"), m))
        BY <1>3, <1>4, <1>5, <4>3, <4>4, <4>5, CompactedFits
      <4>7. Tidy(r) /\ (Fits(r, n) \/ Fits(r, m))
        BY <3>4, <4>6 DEF p
      <4>8. QED  BY <1>4, <4>4, <4>7
    <3>5. QED  BY <2>1, <3>1, <3>2, <3>3, <3>4
  <2>4. LengthBounded'
    <3>1. ASSUME NEW c \in Clients
          PROVE  \E k \in Limits : Fits(history'[c], k) /\ (c = "main" /\ scene.alone /\ ~trimDue => k = limit)
      BY <2>2, <2>3 DEF LengthInv, LengthBounded
    <3>2. QED  BY <1>1, <1>7, <3>1 DEF LengthBounded
  <2>5. \A c \in Clients : Tidy(history'[c])
    BY <2>2, <2>3 DEF LengthInv
  <2>6. ASSUME NEW p \in Turns \cup {Command}, plan'[p] # None PROVE Held(p, plan'[p].keep, plan'[p].before)
    <3>1. CASE plan'[p] = plan[p]
      BY <2>6, <3>1 DEF LengthInv
    <3>2. CASE p = Command /\ plan'[p] = PlanOf("main") /\ Len(h) > Recent /\ (scene.alone => ~trimDue)
      <4>1. plan'[p].keep = ToKeep(h) /\ plan'[p].before = Len(h)
        BY <3>2 DEF PlanOf, h
      <4>2. /\ Tidy(ToKeep(h)) /\ ToKeep(h) # <<>> /\ Len(ToKeep(h)) + 1 <= Len(h)
            /\ Len(ToKeep(h)) + 1 <= n + Excess(ToKeep(h))
        BY <1>3, <1>4, <1>5, <3>2, PlanFits
      <4>3. QED  BY <1>4, <3>2, <4>1, <4>2 DEF Held
    <3>3. QED  BY <2>6, <3>1, <3>2, CommandPlans DEF h
  <2>7. \A p \in Turns \cup {Command} : \A keep, before : Held(p, keep, before) => Held(p, keep, before)'
    BY <1>1, <1>2, <1>7 DEF Held
  <2>8. QED  BY <2>4, <2>5, <2>6, <2>7 DEF LengthInv
<1>8. CASE limit' = limit /\ trimDue' = FALSE /\ plan' = plan /\ Wrote("main", Trimmed(h))
  <2>1. history'["main"] = Trimmed(h) /\ \A c \in Clients : c # "main" => history'[c] = history[c]
    BY <1>1, <1>8 DEF Wrote
  <2>2. Tidy(Trimmed(h)) /\ Fits(Trimmed(h), limit)
    BY <1>1, <1>3, TrimFits DEF Trimmed
  <2>3. LengthBounded'
    <3>1. ASSUME NEW c \in Clients
          PROVE  \E k \in Limits : Fits(history'[c], k) /\ (c = "main" => k = limit)
      BY <1>1, <2>1, <2>2 DEF LengthInv, LengthBounded
    <3>2. QED  BY <1>1, <1>8, <3>1 DEF LengthBounded
  <2>4. \A c \in Clients : Tidy(history'[c])
    BY <2>1, <2>2 DEF LengthInv
  <2>5. \A p \in Turns \cup {Command} : \A keep, before : Held(p, keep, before) => Held(p, keep, before)'
    BY <1>1, <1>2, <1>8 DEF Held
  <2>6. QED  BY <1>8, <2>3, <2>4, <2>5 DEF LengthInv
<1>9. CASE /\ trimDue' = TRUE /\ history' = history /\ plan' = plan
           /\ scene.alone => \A p \in Turns \cup {Command} : plan[p] = None
  <2>1. LengthBounded'
    BY <1>1, <1>9 DEF LengthInv, LengthBounded
  <2>2. \A p \in Turns \cup {Command} : plan[p] # None => Held(p, plan[p].keep, plan[p].before)'
    BY <1>1, <1>2, <1>9 DEF LengthInv, Held
  <2>3. QED  BY <1>9, <2>1, <2>2 DEF LengthInv
<1>10. QED  BY <1>7, <1>8, <1>9, CommandLimits DEF h

\* The histories start within the limit.
LEMMA LengthInit == Init => LengthInv
<1> SUFFICES ASSUME Init PROVE LengthInv
  OBVIOUS
<1>1. /\ \A c \in Clients : history[c] = <<>>
      /\ limit \in Limits /\ Limits \subseteq Nat
      /\ \A p \in Turns \cup {Command} : plan[p] = None
  BY ScenesAssumption DEF Init
<1>2. QED  BY <1>1, EmptyFits DEF LengthInv, LengthBounded

\* Every step keeps them within it.
LEMMA LengthNext == TypeInv /\ CourseInv /\ LengthInv /\ [Next]_vars => LengthInv'
<1>1. UNCHANGED vars /\ LengthInv => LengthInv'
  BY DEF vars, LengthInv, LengthBounded, Held, Compacts, Client
<1>2. QED  BY <1>1, LengthTurn, LengthCommands DEF Next

(* No history grows past a limit that was set by more than one message of  *)
(* results, and the application's has only the present limit, once it is   *)
(* in force, as long as users wait for each other.                         *)
THEOREM HistoriesAreBounded == Spec => []LengthBounded
<1>1. LengthInv => LengthBounded
  BY DEF LengthInv
<1>2. QED
  BY <1>1, TypeInit, TypeNext, CourseInit, CourseNext, LengthInit, LengthNext, PTL DEF Spec

-----------------------------------------------------------------------------
(* Which results are there twice. *)

\* the ids of the turns that went past the output limit
Spent == {id \in IdSet : turn[id[1]].mark = "over"}

\* Turn t may yet add a result for id.
Unspent(t, id) ==
  \/ turn[t].pc \in {"idle", "routed", "compacting", "send", "sent"}
  \/ turn[t].pc = "head" /\ id[2] >= turn[t].round
  \/ turn[t].pc \in {"results", "forced"} /\ (id[2] > turn[t].round \/ id \in ToSet(turn[t].todo))
  \/ turn[t].pc \in {"ask", "asked", "repair"} /\ id[2] > turn[t].round

\* The uses of round n, each once.
Batch(s, n) == \A i, j \in DOMAIN s : s[i][2] = n /\ (s[i] = s[j] => i = j)

BatchInv ==
  \A t \in Turns :
    /\ turn[t].pc \in {"idle", "routed", "compacting", "send", "sent", "head", "ask", "asked", "repair"} =>
         turn[t].mark = "none"
    /\ turn[t].pc = "results" /\ turn[t].todo # <<>> => turn[t].mark # "over"
    /\ turn[t].pc = "padding" => turn[t].mark = "over"
    /\ turn[t].pc = "head" => Batch(turn[t].uses, turn[t].round)
    /\ turn[t].pc \in {"results", "forced"} /\ turn[t].mark # "over" => Batch(turn[t].todo, turn[t].round)

\* The ids of a round are of that round, each once.
LEMMA IdsBatch == ASSUME NEW t, NEW n, NEW w \in Nat PROVE Batch(Ids(t, n, w), n)
  BY DEF Batch, Ids

\* What is left of a batch is one, without its first.
LEMMA TailBatch ==
  ASSUME NEW s \in Seq(IdSet), s # <<>>, NEW n, Batch(s, n)
  PROVE  Batch(Tail(s), n) /\ Head(s)[2] = n /\ Head(s) \notin ToSet(Tail(s)) /\ ToSet(Tail(s)) \subseteq ToSet(s)
<1>1. /\ Len(s) \in Nat \ {0} /\ 1 \in DOMAIN s /\ Head(s) = s[1]
      /\ \A k \in DOMAIN Tail(s) : k \in Nat /\ k + 1 # 1 /\ k + 1 \in DOMAIN s /\ Tail(s)[k] = s[k + 1]
  OBVIOUS
<1>2. \A i, j \in DOMAIN Tail(s) : i + 1 = j + 1 => i = j
  BY <1>1
<1>3. Batch(Tail(s), n)
  BY <1>1, <1>2 DEF Batch
<1>4. \A k \in DOMAIN Tail(s) : Tail(s)[k] # s[1]
  BY <1>1 DEF Batch
<1>5. QED  BY <1>1, <1>3, <1>4 DEF ToSet, Batch

\* A step of a turn keeps the batches in their rounds.
LEMMA BatchTurn ==
  ASSUME TypeInv, BatchInv, NEW t \in Turns, Begin(t) \/ Steps(t)
  PROVE  BatchInv'
<1>1. Moves(t) /\ Others(t) /\ turn[t].uses \in Seq(IdSet) /\ turn[t].todo \in Seq(IdSet)
  BY StepMoves, Start
<1> DEFINE Good(u) ==
      /\ turn'[u].pc \in {"idle", "routed", "compacting", "send", "sent", "head", "ask", "asked", "repair"} =>
           turn'[u].mark = "none"
      /\ turn'[u].pc = "results" /\ turn'[u].todo # <<>> => turn'[u].mark # "over"
      /\ turn'[u].pc = "padding" => turn'[u].mark = "over"
      /\ turn'[u].pc = "head" => Batch(turn'[u].uses, turn'[u].round)
      /\ turn'[u].pc \in {"results", "forced"} /\ turn'[u].mark # "over" => Batch(turn'[u].todo, turn'[u].round)
<1>2. ASSUME Goes(t) PROVE Good(t)
  BY <1>2 DEF Goes, Same, BatchInv
<1>3. ASSUME Heads(t) PROVE Good(t)
  <2>1. Batch(turn'[t].uses, turn'[t].round)
    BY <1>3, IdsBatch DEF Heads
  <2>2. turn'[t].mark = "none" /\ turn'[t].pc = "head"
    BY <1>3 DEF Heads, BatchInv
  <2>3. QED  BY <2>1, <2>2
<1>4. ASSUME Retries(t) PROVE Good(t)
  BY <1>4 DEF Retries, BatchInv
<1>5. ASSUME Takes(t) PROVE Good(t)
  BY <1>5 DEF Takes, BatchInv
<1>6. ASSUME Adds(t) PROVE Good(t)
  <2>1. turn[t].mark # "over" => turn[t].pc \in {"results", "forced"} /\ Batch(turn[t].todo, turn[t].round)
    BY <1>6 DEF Adds, BatchInv
  <2>2. turn[t].mark # "over" => Batch(Tail(turn[t].todo), turn[t].round)
    BY <1>1, <1>6, <2>1, TailBatch DEF Adds
  <2>3. turn[t].pc = "results" => turn[t].mark # "over"
    BY <1>6 DEF Adds, BatchInv
  <2>4. turn[t].pc = "padding" => turn[t].mark = "over"
    BY DEF BatchInv
  <2>5. QED  BY <1>6, <2>2, <2>3, <2>4 DEF Adds
<1>7. ASSUME Stops(t) PROVE Good(t)
  BY <1>7 DEF Stops, Ended
<1>8. Good(t)
  BY <1>1, <1>2, <1>3, <1>4, <1>5, <1>6, <1>7 DEF Moves
<1>9. \A u \in Turns : u # t => Good(u)
  BY <1>1 DEF Others, BatchInv
<1> HIDE DEF Good
<1>10. \A u \in Turns : Good(u)
  BY <1>8, <1>9
<1>11. QED  BY <1>10 DEF BatchInv, Good

\* No batch is asked for at the start.
LEMMA BatchInit == Init => BatchInv
<1> SUFFICES ASSUME Init PROVE BatchInv
  OBVIOUS
<1>1. \A t \in Turns : turn[t] = Idle("idle", "none")
  BY DEF Init
<1>2. \A t \in Turns : turn[t].pc = "idle" /\ turn[t].mark = "none"
  BY <1>1 DEF Idle
<1>3. QED  BY <1>2 DEF BatchInv

\* Every step keeps the batches in their rounds.
LEMMA BatchNext == TypeInv /\ CourseInv /\ BatchInv /\ [Next]_vars => BatchInv'
<1> SUFFICES ASSUME TypeInv, CourseInv, BatchInv, [Next]_vars PROVE BatchInv'
  OBVIOUS
<1>1. CASE UNCHANGED vars
  BY <1>1 DEF vars, BatchInv
<1>2. CASE Commands
  BY <1>2, CommandFrame DEF BatchInv
<1>3. QED  BY <1>1, <1>2, BatchTurn DEF Next

\* What may yet be added only gets less, and once the output limit is passed
\* it stays so.
LEMMA SpentGrows ==
  ASSUME TypeInv, CourseInv, BatchInv, NEW t \in Turns, Begin(t) \/ Steps(t)
  PROVE  /\ Spent \subseteq Spent'
         /\ \A u \in Turns, id \in IdSet : Unspent(u, id)' => Unspent(u, id) \/ id \in Spent \/ id[1] # u
<1>1. Moves(t) /\ Others(t) /\ turn' \in [Turns -> Locals] /\ turn \in [Turns -> Locals]
  BY StepMoves DEF TypeInv, TypeOK
<1>2. \A u \in Turns : turn[u].mark = "over" => turn'[u].mark = "over"
  <2>1. turn[t].mark = "over" => turn'[t].mark = "over"
    BY <1>1 DEF Moves, Goes, Same, Heads, Retries, Takes, Adds, Stops, BatchInv
  <2>2. QED  BY <1>1, <2>1 DEF Others
<1>3. Spent \subseteq Spent'
  BY <1>2 DEF Spent, IdSet
<1>4. ASSUME NEW id \in IdSet, Unspent(t, id)', id \notin Spent, id[1] = t PROVE Unspent(t, id)
  <2>1. turn[t].mark # "over" /\ turn'[t].round \in Nat /\ turn[t].round \in Nat /\ id[2] \in Nat
    BY <1>1, <1>4 DEF Spent, Locals, IdSet
  <2>2. CASE Goes(t)
    BY <1>4, <2>2 DEF Goes, Same, Unspent
  <2>3. CASE Heads(t)
    BY <1>4, <2>1, <2>3 DEF Heads, Unspent
  <2>4. CASE Retries(t)
    BY <1>4, <2>4 DEF Retries, Unspent
  <2>5. CASE Takes(t)
    <3>1. CASE turn[t].pc = "head"
      <4>1. Batch(turn[t].uses, turn[t].round)
        BY <3>1 DEF BatchInv
      <4>2. id \in ToSet(turn[t].uses) => id[2] = turn[t].round
        BY <4>1 DEF Batch, ToSet
      <4>3. id[2] > turn[t].round \/ id \in ToSet(turn[t].uses)
        BY <1>4, <2>5 DEF Takes, Unspent
      <4>4. QED  BY <2>1, <3>1, <4>2, <4>3 DEF Unspent
    <3>2. CASE turn[t].pc \in {"results", "padding"}
      BY <2>1, <2>5, <3>2 DEF Takes, BatchInv
    <3>3. QED  BY <2>5, <3>1, <3>2 DEF Takes
  <2>6. CASE Adds(t)
    <3>1. turn[t].pc \in {"results", "forced"} /\ Batch(turn[t].todo, turn[t].round) /\ turn[t].todo \in Seq(IdSet)
      BY <1>1, <2>1, <2>6 DEF Adds, BatchInv, Locals
    <3>2. ToSet(Tail(turn[t].todo)) \subseteq ToSet(turn[t].todo)
      BY <2>6, <3>1, TailBatch DEF Adds
    <3>3. ToSet(<<>>) = {}
      BY ToSetIs, <<>> \in Seq(IdSet)
    <3>4. turn'[t].pc = turn[t].pc /\ turn'[t].round = turn[t].round
          /\ (turn'[t].todo = Tail(turn[t].todo) \/ turn'[t].todo = <<>>)
      BY <2>6 DEF Adds
    <3>5. QED  BY <1>4, <3>1, <3>2, <3>3, <3>4 DEF Unspent
  <2>7. CASE Stops(t)
    BY <1>4, <2>7 DEF Stops, Unspent, Ended
  <2>8. QED  BY <1>1, <2>2, <2>3, <2>4, <2>5, <2>6, <2>7 DEF Moves
<1>5. \A u \in Turns, id \in IdSet : u # t /\ Unspent(u, id)' => Unspent(u, id)
  BY <1>1 DEF Others, Unspent
<1>6. QED  BY <1>3, <1>4, <1>5

\* What is added could be, and cannot be again.
LEMMA AddsSpends ==
  ASSUME TypeInv, CourseInv, BatchInv, NEW t \in Turns, Begin(t) \/ Steps(t), Adds(t),
         NEW id, id = Head(turn[t].todo)
  PROVE  /\ id \in IdSet /\ id[1] = t
         /\ id \in Spent \/ Unspent(t, id)
         /\ id \in Spent' \/ ~Unspent(t, id)'
<1>1. turn[t].todo \in Seq(IdSet) /\ turn[t].todo # <<>> /\ Mine(t, turn[t].todo)
  BY Start DEF Adds, CourseInv
<1>2. id \in IdSet /\ id \in ToSet(turn[t].todo)
  BY <1>1 DEF ToSet
<1>3. id[1] = t
  BY <1>1, <1>2 DEF Mine
<1>4. CASE turn[t].mark = "over"
  <2>1. id \in Spent
    BY <1>2, <1>3, <1>4 DEF Spent
  <2>2. id \in Spent'
    BY <2>1, SpentGrows
  <2>3. QED  BY <1>2, <1>3, <2>1, <2>2
<1>5. CASE turn[t].mark # "over"
  <2>1. turn[t].pc \in {"results", "forced"} /\ Batch(turn[t].todo, turn[t].round)
    BY <1>5 DEF Adds, BatchInv
  <2>2. Unspent(t, id)
    BY <1>2, <2>1 DEF Unspent
  <2>3. CASE turn'[t].mark = "over"
    <3>1. id \in Spent'
      BY <1>2, <1>3, <2>3 DEF Spent
    <3>2. QED  BY <1>2, <1>3, <2>2, <3>1
  <2>4. CASE turn'[t].mark # "over"
    <3>1. turn'[t].todo = Tail(turn[t].todo) /\ turn'[t].round = turn[t].round /\ turn'[t].pc = turn[t].pc
      BY <2>4 DEF Adds
    <3>2. id[2] = turn[t].round /\ id \notin ToSet(Tail(turn[t].todo)) /\ turn[t].round \in Nat
      BY <1>1, <2>1, TailBatch, Start DEF Locals
    <3>3. ~Unspent(t, id)'
      BY <2>1, <3>1, <3>2 DEF Unspent
    <3>4. QED  BY <1>2, <1>3, <2>2, <3>3
  <2>5. QED  BY <2>3, <2>4
<1>6. QED  BY <1>4, <1>5

\* What a step of turn t leaves of its history: a result is added by one step
\* only, comes back with a compaction, or was there, no further up.
LEMMA StepSingle ==
  ASSUME TypeInv, NEW t \in Turns, NEW r \in Sane, StepWrote(t, r), Moves(t), turn' \in [Turns -> Locals],
         NEW h, h = Of(t), NEW E, Single(h, E),
         \A id : Adds(t) /\ id = Head(turn[t].todo) /\ id \in Results(h) => id \in E,
         plan[t] # None => Single(plan[t].keep, E) /\ Past(h, plan[t].before, Results(plan[t].keep) \ E)
  PROVE  /\ Single(r, E)
         /\ \A id \in Results(r) : \/ id \in Results(h)
                                   \/ plan[t] # None /\ id \in Results(plan[t].keep)
                                   \/ Adds(t) /\ id = Head(turn[t].todo)
         /\ turn[t].pc # "compacting" =>
              \A n \in Nat : \A ids :
                Past(h, n, ids) /\ (Adds(t) => Head(turn[t].todo) \notin ids) => Past(r, n, ids)
<1> DEFINE Part(g) == /\ Single(g, E) /\ Results(g) \subseteq Results(h)
                      /\ \A n \in Nat : \A ids : Past(h, n, ids) => Past(g, n, ids)
<1>1. h \in Sane /\ limit \in Nat \ {0} /\ turn[t].tries \in 0..4 /\ turn[t].todo \in Seq(IdSet)
      /\ turn'[t].uses \in Seq(IdSet)
  BY Start DEF Locals
<1>2. h \in Seq(Msg(Texts, IdSet)) /\ r \in Seq(Msg(Texts, IdSet)) /\ NoText \in Texts
  BY <1>1, MessagesAre DEF Sane
<1>3. ASSUME NEW g \in Sane, Part(g), NEW s \in Sane, Comes(s, g) PROVE Part(s)
  <2>1. g \in Seq(Msg(Texts, IdSet)) /\ s \in Seq(Msg(Texts, IdSet))
    BY MessagesAre DEF Sane
  <2>2. Results(s) \subseteq Results(g)
    BY <1>3, <2>1, ComesBlocks
  <2>3. Single(s, E) /\ \A n \in Nat : \A ids : Past(g, n, ids) => Past(s, n, ids)
    BY <1>3, <2>1, ComesSingle
  <2>4. QED  BY <1>3, <2>2, <2>3
<1>4. ASSUME NEW g \in Sane, Part(g) PROVE Part(Trimmed(g)) /\ Trimmed(g) \in Sane
  <2>1. Trimmed(g) \in Sane
    BY <1>1, TrimSane DEF Trimmed
  <2>2. Comes(Trimmed(g), g)
    <3>1. g \in Seq(Msg(Texts, IdSet))
      BY MessagesAre DEF Sane
    <3>2. QED  BY <1>1, <3>1, TrimComes DEF Trimmed
  <2>3. QED  BY <1>3, <1>4, <2>1, <2>2
<1>5. ASSUME NEW m \in Messages, m.results = <<>>, Append(h, m) \in Sane PROVE Part(Append(h, m))
  <2>1. m \in Msg(Texts, IdSet)
    BY MessagesAre
  <2>2. ToSet(m.results) = {}
    BY <1>5, ToSetIs, <<>> \in Seq(IdSet)
  <2>3. Results(Append(h, m)) = Results(h) \cup ToSet(m.results)
    BY <1>2, <2>1, AppendBlocks
  <2>4. Single(Append(h, m), E) /\ \A n, ids : Past(h, n, ids) => Past(Append(h, m), n, ids)
    BY <1>2, <1>5, <2>1, AppendSingle
  <2>5. QED  BY <2>2, <2>3, <2>4
<1>6. Part(h)
  OBVIOUS
<1>7. CASE turn[t].pc = "compacting" /\ r = Compacted(h, plan[t], "summary")
  <2> DEFINE p == plan[t]
  <2>1. p # None /\ p \in Plans
    BY <1>7 DEF TypeInv, TypeOK, At
  <2>2. p.before \in Nat /\ p.keep \in Seq(Msg(Texts, IdSet)) /\ "summary" \in Texts /\ "summary" # NoText
    BY <2>1, MessagesAre, NamesAssumption DEF Plans, Texts
  <2> HIDE DEF p
  <2>3. Single(p.keep, E) /\ Past(h, p.before, Results(p.keep) \ E)
    BY <2>1 DEF p
  <2>4. /\ Single(Compacted(h, p, "summary"), E)
        /\ Results(Compacted(h, p, "summary")) \subseteq Results(h) \cup Results(p.keep)
    BY <1>2, <2>2, <2>3, CompactedSingle
  <2>5. QED  BY <1>7, <2>1, <2>4 DEF p
<1>8. CASE Adds(t) /\ r = add_tool_result(h, Head(turn[t].todo))
  <2>1. Head(turn[t].todo) \in IdSet
    BY <1>1, <1>8 DEF Adds
  <2>2. Results(r) = Results(h) \cup {Head(turn[t].todo)}
    BY <1>2, <1>8, <2>1, AddResultBlocks
  <2>3. /\ Single(r, E)
        /\ \A n, ids : Head(turn[t].todo) \notin ids /\ Past(h, n, ids) => Past(r, n, ids)
    BY <1>2, <1>8, <2>1, AddResultSingle
  <2>4. QED  BY <1>8, <2>2, <2>3
<1>9. ASSUME Part(r)
      PROVE  /\ Single(r, E)
             /\ \A id \in Results(r) : id \in Results(h)
             /\ \A n \in Nat : \A ids : Past(h, n, ids) => Past(r, n, ids)
  BY <1>9
<1>10. CASE r = h
  BY <1>10
<1>11. CASE r = WithMessage(t)
  <2> DEFINE s == Trimmed(Append(h, UserText(t)))
  <2>1. UserText(t) \in Messages /\ UserText(t).results = <<>> /\ Append(h, UserText(t)) \in Sane
    BY <1>1, UserTextSane DEF UserText, Message, Messages, Texts
  <2>2. Part(s) /\ s \in Sane
    BY <1>4, <1>5, <2>1
  <2> HIDE DEF s, Part
  <2>3. sanitize_history(s) \in Sane /\ Comes(sanitize_history(s), s)
    BY <2>2, SanitizeSane, SanitizeComes, MessagesAre DEF Sane
  <2>4. Part(sanitize_history(s))
    BY <1>3, <2>2, <2>3
  <2>5. Part(r)
    BY <1>11, <2>2, <2>4 DEF WithMessage, s
  <2>6. QED  BY <1>9, <2>5
<1>12. CASE r = Front(h)
  <2>1. CASE h = <<>>
    BY <1>10, <1>12, <2>1, FrontOfEmpty
  <2>2. CASE h # <<>>
    <3>1. Comes(Front(h), h)
      BY <1>2, <2>2, FrontWithin, WithinComes
    <3>2. Part(r)
      BY <1>1, <1>3, <1>6, <1>12, <3>1
    <3>3. QED  BY <1>9, <3>2
  <2>3. QED  BY <2>1, <2>2
<1>13. ASSUME NEW text \in Turns \cup {NoText}, r = Trimmed(Append(h, Answer(text, turn'[t].uses))) PROVE Part(r)
  <2>1. /\ Answer(text, turn'[t].uses) \in Messages /\ Answer(text, turn'[t].uses).results = <<>>
        /\ Append(h, Answer(text, turn'[t].uses)) \in Sane
    BY <1>1, AnswerSane DEF Answer, Message, Messages, Texts
  <2>2. QED  BY <1>4, <1>5, <1>13, <2>1
<1>14. CASE r = Trimmed(h)
  <2>1. Part(r)
    BY <1>1, <1>4, <1>6, <1>14
  <2>2. QED  BY <1>9, <2>1
<1>15. CASE turn[t].pc = "repair" /\ r = repair(turn[t].tries, h, KeepLast)
  <2>1. turn[t].tries \in 1..4
    BY <1>1, <1>15 DEF TypeInv, At
  <2>2. Comes(repair(turn[t].tries, h, KeepLast), h)
    BY <1>2, <2>1, KeepAssumption, RepairComes
  <2>3. Part(r)
    BY <1>1, <1>3, <1>6, <1>15, <2>2
  <2>4. QED  BY <1>9, <2>3
<1> HIDE DEF Part
<1>16. turn'[t].pc = turn[t].pc => Adds(t)
  BY DEF Moves, Goes, Heads, Retries, Takes, Stops
<1>17. QED
  BY <1>7, <1>8, <1>9, <1>10, <1>11, <1>12, <1>13, <1>14, <1>15, <1>16 DEF StepWrote

Fresh(h) == \A id \in Results(h) : id \in Spent \/ ~Unspent(id[1], id)

\* What is answered twice went past the output limit, what is answered will
\* not be again, and what a compaction keeps is not beyond the length the
\* history had then.
OnceInv ==
  /\ \A c \in Clients : Single(history[c], Spent) /\ Fresh(history[c])
  /\ \A p \in Turns \cup {Command} : plan[p] # None =>
       /\ Single(plan[p].keep, Spent) /\ Fresh(plan[p].keep)
       /\ Past(history[Compacts(p)], plan[p].before, Results(plan[p].keep) \ Spent)

\* What a compaction means to keep answers nothing twice that the history does not.
LEMMA PlanSingle ==
  ASSUME NEW h \in Sane, Len(h) > Recent, NEW E, Single(h, E)
  PROVE  /\ Single(ToKeep(h), E) /\ Results(ToKeep(h)) \subseteq Results(h)
         /\ \A ids : Past(h, Len(h), ids)
<1>1. h \in Seq(Msg(Texts, IdSet))
  BY MessagesAre DEF Sane
<1>2. ToKeep(h) \in Seq(Msg(Texts, IdSet)) /\ Within(ToKeep(h), h)
  BY <1>1, ToKeepWithin
<1>3. Comes(ToKeep(h), h)
  BY <1>1, <1>2, WithinComes
<1>4. \A k \in DOMAIN h : ~(k > Len(h))
  BY <1>1
<1>5. QED  BY <1>1, <1>2, <1>3, <1>4, ComesSingle, ComesBlocks DEF Past

\* What holds for the ids that were spent holds when more are.
LEMMA SingleGrows ==
  ASSUME NEW E, NEW F, E \subseteq F
  PROVE  /\ \A h : Single(h, E) => Single(h, F)
         /\ \A h, n, ids : Past(h, n, ids \ E) => Past(h, n, ids \ F)
  BY DEF Single, Past

\* A step of a turn answers no use twice, as long as compactions do not overlap.
LEMMA OnceTurn ==
  ASSUME TypeInv, CourseInv, BatchInv, OnceInv, OneCompaction, NEW t \in Turns, Begin(t) \/ Steps(t)
  PROVE  OnceInv'
<1>1. /\ Moves(t) /\ Others(t) /\ turn' \in [Turns -> Locals] /\ scene' = scene
      /\ history \in [Clients -> Sane] /\ Client(t) \in Clients
      /\ plan \in [Turns \cup {Command} -> Plans \cup {None}]
  BY StepMoves, StepPlans, Start DEF settings, TypeInv, TypeOK
<1>2. \A p \in Turns \cup {Command} : Compacts(p)' = Compacts(p)
  BY <1>1 DEF Compacts, Client
<1>3. PICK r \in Sane : Wrote(Client(t), r) /\ StepWrote(t, r)
  BY StepWrites
<1>4. history'[Client(t)] = r /\ \A c \in Clients : c # Client(t) => history'[c] = history[c]
  BY <1>1, <1>3, WriteEffect DEF Wrote
<1> DEFINE h == Of(t)
<1>5. h \in Sane /\ Single(h, Spent) /\ Fresh(h)
  BY <1>1, Start DEF OnceInv, Of
<1>6. Compacts(t) = Client(t)
  BY NamesAssumption DEF Compacts
<1>7. plan[t] # None => /\ Single(plan[t].keep, Spent) /\ Fresh(plan[t].keep)
                        /\ Past(h, plan[t].before, Results(plan[t].keep) \ Spent)
  BY <1>6 DEF OnceInv, Of
<1>8. \A id : Adds(t) /\ id = Head(turn[t].todo) =>
        /\ id \in IdSet /\ id[1] = t
        /\ id \in Spent \/ Unspent(t, id)
        /\ id \in Spent' \/ ~Unspent(t, id)'
  BY AddsSpends
<1>9. \A id, g : Adds(t) /\ id = Head(turn[t].todo) /\ Fresh(g) /\ id \in Results(g) => id \in Spent
  BY <1>8 DEF Fresh
<1> HIDE DEF h
<1>10. /\ Single(r, Spent)
       /\ \A id \in Results(r) : \/ id \in Results(h)
                                 \/ plan[t] # None /\ id \in Results(plan[t].keep)
                                 \/ Adds(t) /\ id = Head(turn[t].todo)
       /\ turn[t].pc # "compacting" =>
            \A n \in Nat : \A ids :
              Past(h, n, ids) /\ (Adds(t) => Head(turn[t].todo) \notin ids) => Past(r, n, ids)
  <2>1. \A id : Adds(t) /\ id = Head(turn[t].todo) /\ id \in Results(h) => id \in Spent
    BY <1>5, <1>9
  <2>2. h = Of(t)
    BY DEF h
  <2>3. QED  BY <1>1, <1>3, <1>5, <1>7, <2>1, <2>2, StepSingle
<1>11. Spent \subseteq Spent'
  BY SpentGrows
<1>12. ASSUME NEW g \in Sane, Fresh(g) PROVE \A id \in Results(g) : id \in Spent' \/ ~Unspent(id[1], id)'
  <2>1. Results(g) \subseteq IdSet
    BY MessagesAre, FlawsWithin DEF Sane
  <2>2. \A id \in IdSet : id[1] \in Turns
    BY DEF IdSet
  <2>3. QED  BY <1>11, <1>12, <2>1, <2>2, SpentGrows DEF Fresh
<1>13. ASSUME NEW p \in Turns \cup {Command}, plan[p] # None PROVE plan[p].keep \in Sane /\ plan[p].before \in Nat
  BY <1>1, <1>13 DEF TypeInv, Plans, Sane
<1>14. \A id \in Results(r) : id \in Spent' \/ ~Unspent(id[1], id)'
  <2>1. plan[t] # None => plan[t].keep \in Sane /\ Fresh(plan[t].keep)
    BY <1>7, <1>13
  <2>2. QED  BY <1>5, <1>8, <1>10, <1>12, <2>1
<1>15. ASSUME NEW c \in Clients PROVE Single(history'[c], Spent') /\ Fresh(history[c])'
  <2>1. CASE c = Client(t)
    <3>1. Single(r, Spent')
      BY <1>10, <1>11, SingleGrows
    <3>2. QED  BY <1>4, <1>14, <2>1, <3>1 DEF Fresh
  <2>2. CASE c # Client(t)
    <3>1. Single(history[c], Spent) /\ Fresh(history[c]) /\ history[c] \in Sane
      BY <1>1 DEF OnceInv
    <3>2. Single(history[c], Spent')
      BY <1>11, <3>1, SingleGrows
    <3>3. \A id \in Results(history[c]) : id \in Spent' \/ ~Unspent(id[1], id)'
      BY <1>12, <3>1
    <3>4. QED  BY <1>4, <2>2, <3>2, <3>3 DEF Fresh
  <2>3. QED  BY <2>1, <2>2
<1>16. ASSUME NEW p \in Turns \cup {Command}, plan'[p] # None
       PROVE  /\ Single(plan'[p].keep, Spent') /\ Fresh(plan[p].keep)'
              /\ Past(history'[Compacts(p)], plan'[p].before, Results(plan'[p].keep) \ Spent')
  <2>1. CASE plan'[p] = plan[p]
    <3> DEFINE keep == plan[p].keep
               before == plan[p].before
    <3>1. /\ Single(keep, Spent) /\ Fresh(keep) /\ keep \in Sane /\ before \in Nat
          /\ Past(history[Compacts(p)], before, Results(keep) \ Spent)
      BY <1>13, <1>16, <2>1 DEF OnceInv
    <3>2. Single(keep, Spent')
      BY <1>11, <3>1, SingleGrows
    <3>3. \A id \in Results(keep) : id \in Spent' \/ ~Unspent(id[1], id)'
      BY <1>12, <3>1
    <3> HIDE DEF keep, before
    <3>4. Past(history'[Compacts(p)], before, Results(keep) \ Spent)
      <4>1. CASE Compacts(p) # Client(t)
        <5>1. Compacts(p) \in Clients
          BY ClientIs DEF Compacts, Clients
        <5>2. QED  BY <1>4, <3>1, <4>1, <5>1
      <4>2. CASE Compacts(p) = Client(t)
        <5>1. turn[t].pc # "compacting"
          <6>1. SUFFICES ASSUME turn[t].pc = "compacting" PROVE FALSE
            OBVIOUS
          <6>2. plan[t] # None /\ plan[p] # None
            BY <1>16, <2>1, <6>1 DEF TypeInv, At
          <6>3. p = t
            BY <1>6, <4>2, <6>2 DEF OneCompaction
          <6>4. turn'[t].pc # "compacting"
            BY <1>1, <6>1 DEF Moves, Goes, Heads, Retries, Takes, Adds, Stops, Ended
          <6>5. plan' = [plan EXCEPT ![t] = None]
            BY <6>1, <6>4, StepPlans DEF At
          <6>6. QED  BY <1>1, <1>16, <6>3, <6>5
        <5>2. Adds(t) => Head(turn[t].todo) \notin Results(keep) \ Spent
          BY <1>9, <3>1
        <5>3. Past(h, before, Results(keep) \ Spent)
          BY <3>1, <4>2 DEF h, Of
        <5>4. Past(r, before, Results(keep) \ Spent)
          BY <1>10, <3>1, <5>1, <5>2, <5>3
        <5>5. QED  BY <1>4, <4>2, <5>4
      <4>3. QED  BY <4>1, <4>2
    <3>5. Past(history'[Compacts(p)], before, Results(keep) \ Spent')
      BY <1>11, <3>4, SingleGrows
    <3>6. QED  BY <2>1, <3>2, <3>3, <3>5 DEF keep, before, Fresh
  <2>2. CASE p = t /\ At(t, "routed") /\ Len(h) > Recent /\ plan'[p] = PlanOf(Client(t))
    <3>1. plan'[p].keep = ToKeep(h) /\ plan'[p].before = Len(h)
      BY <2>2 DEF PlanOf, Of, h
    <3>2. Single(ToKeep(h), Spent) /\ Results(ToKeep(h)) \subseteq Results(h) /\ \A ids : Past(h, Len(h), ids)
      BY <1>5, <2>2, PlanSingle
    <3>3. Single(ToKeep(h), Spent')
      BY <1>11, <3>2, SingleGrows
    <3>4. \A id \in Results(ToKeep(h)) : id \in Spent' \/ ~Unspent(id[1], id)'
      BY <1>5, <1>12, <3>2
    <3>5. turn[t].pc # "compacting" /\ ~Adds(t) /\ Len(h) \in Nat
      BY <1>5, <2>2 DEF At, Adds, Sane
    <3>6. \A ids : Past(r, Len(h), ids)
      BY <1>10, <3>2, <3>5
    <3>7. history'[Compacts(p)] = r
      BY <1>4, <1>6, <2>2
    <3>8. QED  BY <3>1, <3>3, <3>4, <3>6, <3>7 DEF Fresh
  <2>3. QED  BY <1>1, <1>16, <2>1, <2>2, StepPlans DEF h
<1>17. QED  BY <1>2, <1>15, <1>16 DEF OnceInv

\* Nor does a command.
LEMMA OnceCommands ==
  ASSUME TypeInv, CourseInv, OnceInv, OneCompaction, Commands
  PROVE  OnceInv'
<1>1. /\ turn' = turn /\ scene' = scene /\ history \in [Clients -> Sane] /\ "main" \in Clients
      /\ plan \in [Turns \cup {Command} -> Plans \cup {None}] /\ limit \in Nat \ {0}
  BY CommandFrame, HistoryIsSane, LimitIs DEF TypeInv, TypeOK, Clients
<1>2. /\ \A p \in Turns \cup {Command} : Compacts(p)' = Compacts(p)
      /\ Spent' = Spent /\ \A g : Fresh(g) => \A id \in Results(g) : id \in Spent' \/ ~Unspent(id[1], id)'
  BY <1>1 DEF Compacts, Client, Spent, Unspent, Fresh
<1> DEFINE h == history["main"]
<1>3. h \in Sane /\ Single(h, Spent) /\ Fresh(h)
  BY <1>1 DEF OnceInv
<1>4. PICK r \in Sane :
        /\ Wrote("main", r)
        /\ \/ r = h
           \/ r = <<>> \/ r = Trimmed(Saved) \/ r = Trimmed(h)
           \/ plan[Command] # None /\ plan'[Command] = None /\ r = Compacted(h, plan[Command], "summary")
  BY CommandWrites DEF h
<1>5. history'["main"] = r /\ \A c \in Clients : c # "main" => history'[c] = history[c]
  BY <1>1, <1>4, WriteEffect DEF Wrote
<1>6. plan[Command] # None =>
        /\ Single(plan[Command].keep, Spent) /\ Fresh(plan[Command].keep)
        /\ Past(h, plan[Command].before, Results(plan[Command].keep) \ Spent)
  BY DEF OnceInv, Compacts
<1> HIDE DEF h
<1> DEFINE Part(g) == /\ Single(g, Spent) /\ \A id \in Results(g) : id \in Spent \/ ~Unspent(id[1], id)
                      /\ \A n \in Nat : \A ids : Past(h, n, ids) => Past(g, n, ids)
           Back == plan[Command] # None /\ plan'[Command] = None /\ r = Compacted(h, plan[Command], "summary")
<1>7. ASSUME NEW g \in Sane, Bare(g) PROVE Part(g)
  <2>1. \A k \in DOMAIN g : \A i \in DOMAIN g[k].results : FALSE
    <3>1. ASSUME NEW k \in DOMAIN g, NEW i \in DOMAIN g[k].results PROVE g[k].results[i] \in Results(g)
      <4>1. g[k].results[i] \in ToSet(g[k].results)
        BY DEF ToSet
      <4>2. QED  BY <4>1, BlocksAre
    <3>2. QED  BY <1>7, <3>1 DEF Bare
  <2>2. QED  BY <1>7, <2>1 DEF Single, Past, Bare
<1>8. Part(Trimmed(h))
  <2>1. h \in Seq(Msg(Texts, IdSet)) /\ Trimmed(h) \in Seq(Msg(Texts, IdSet)) /\ Comes(Trimmed(h), h)
    BY <1>1, <1>3, MessagesAre, TrimComes DEF Trimmed, Sane
  <2>2. /\ Single(Trimmed(h), Spent)
        /\ \A n \in Nat : \A ids : Past(h, n, ids) => Past(Trimmed(h), n, ids)
    BY <1>3, <2>1, ComesSingle
  <2>3. Results(Trimmed(h)) \subseteq Results(h)
    BY <2>1, ComesBlocks
  <2>4. QED  BY <1>3, <2>2, <2>3 DEF Fresh
<1>9. Part(r) \/ Back
  <2>1. Part(h)
    BY <1>3 DEF Fresh
  <2>2. Part(<<>>)
    BY <1>7, EmptyBare, EmptySane
  <2>3. Part(Trimmed(Saved))
    <3>1. Heir(Trimmed(Saved), Saved)
      BY <1>1, MessagesAre, SavedSane, TrimHeir DEF Sane, Trimmed
    <3>2. Trimmed(Saved) \in Sane
      BY <1>1, SavedSane, TrimSane DEF Trimmed
    <3>3. Bare(Trimmed(Saved))
      BY <3>1, <3>2, SavedSane, SavedBare, HeirClear
    <3>4. QED  BY <1>7, <3>2, <3>3
  <2> HIDE DEF Part
  <2>4. QED  BY <1>4, <1>8, <2>1, <2>2, <2>3
<1>10. Back => Single(r, Spent) /\ \A id \in Results(r) : id \in Spent \/ ~Unspent(id[1], id)
  <2> SUFFICES ASSUME Back PROVE Single(r, Spent) /\ \A id \in Results(r) : id \in Spent \/ ~Unspent(id[1], id)
    OBVIOUS
  <2> DEFINE p == plan[Command]
  <2>1. p \in Plans /\ p # None
    BY <1>1
  <2> HIDE DEF p
  <2>2. p.before \in Nat /\ p.keep \in Seq(Msg(Texts, IdSet)) /\ "summary" \in Texts /\ "summary" # NoText
        /\ h \in Seq(Msg(Texts, IdSet))
    BY <1>3, <2>1, MessagesAre, NamesAssumption DEF Plans, Texts, Sane
  <2>3. Single(p.keep, Spent) /\ Fresh(p.keep) /\ Past(h, p.before, Results(p.keep) \ Spent)
    BY <1>6, <2>1 DEF p
  <2>4. /\ Single(Compacted(h, p, "summary"), Spent)
        /\ Results(Compacted(h, p, "summary")) \subseteq Results(h) \cup Results(p.keep)
    BY <1>3, <2>2, <2>3, CompactedSingle
  <2>5. r = Compacted(h, p, "summary")
    BY DEF p
  <2>6. QED  BY <1>3, <2>3, <2>4, <2>5 DEF Fresh
<1>11. Single(r, Spent) /\ \A id \in Results(r) : id \in Spent \/ ~Unspent(id[1], id)
  BY <1>9, <1>10
<1>12. ASSUME NEW c \in Clients PROVE Single(history'[c], Spent') /\ Fresh(history[c])'
  <2>1. CASE c = "main"
    BY <1>1, <1>2, <1>5, <1>11, <2>1 DEF Fresh, Unspent
  <2>2. CASE c # "main"
    <3>1. Single(history[c], Spent) /\ Fresh(history[c])
      BY DEF OnceInv
    <3>2. QED  BY <1>2, <1>5, <2>2, <3>1 DEF Fresh
  <2>3. QED  BY <2>1, <2>2
<1>13. ASSUME NEW p \in Turns \cup {Command}, plan'[p] # None
       PROVE  /\ Single(plan'[p].keep, Spent') /\ Fresh(plan[p].keep)'
              /\ Past(history'[Compacts(p)], plan'[p].before, Results(plan'[p].keep) \ Spent')
  <2>1. CASE plan'[p] = plan[p]
    <3>1. /\ Single(plan[p].keep, Spent) /\ Fresh(plan[p].keep) /\ plan[p].before \in Nat
          /\ Past(history[Compacts(p)], plan[p].before, Results(plan[p].keep) \ Spent)
      BY <1>1, <1>13, <2>1 DEF OnceInv, Plans
    <3>2. Past(history'[Compacts(p)], plan[p].before, Results(plan[p].keep) \ Spent)
      <4>1. CASE Compacts(p) # "main"
        <5>1. Compacts(p) \in Clients
          BY ClientIs DEF Compacts, Clients
        <5>2. QED  BY <1>5, <3>1, <4>1, <5>1
      <4>2. CASE Compacts(p) = "main" /\ Part(r)
        BY <1>5, <3>1, <4>2 DEF h
      <4>3. CASE Compacts(p) = "main" /\ Back
        <5>1. p = Command
          BY <1>13, <2>1, <4>3 DEF OneCompaction, Compacts
        <5>2. QED  BY <1>13, <4>3, <5>1
      <4>4. QED  BY <1>9, <4>1, <4>2, <4>3
    <3>3. QED  BY <1>2, <2>1, <3>1, <3>2 DEF Fresh
  <2>2. CASE p = Command /\ plan'[p] = PlanOf("main") /\ Len(h) > Recent /\ history' = history
    <3>1. plan'[p].keep = ToKeep(h) /\ plan'[p].before = Len(h)
      BY <2>2 DEF PlanOf, h
    <3>2. Single(ToKeep(h), Spent) /\ Results(ToKeep(h)) \subseteq Results(h) /\ \A ids : Past(h, Len(h), ids)
      BY <1>3, <2>2, PlanSingle
    <3>3. \A ids : Past(history'["main"], Len(h), ids)
      BY <2>2, <3>2 DEF h
    <3>4. QED  BY <1>2, <1>3, <2>2, <3>1, <3>2, <3>3 DEF Fresh, Compacts
  <2>3. QED  BY <1>13, <2>1, <2>2, CommandPlans DEF h
<1>14. QED  BY <1>2, <1>12, <1>13 DEF OnceInv

\* Nothing is answered at the start.
LEMMA OnceInit == Init => OnceInv
<1> SUFFICES ASSUME Init PROVE OnceInv
  OBVIOUS
<1>1. /\ \A c \in Clients : history[c] = <<>>
      /\ \A p \in Turns \cup {Command} : plan[p] = None
  BY DEF Init
<1>2. Single(<<>>, Spent) /\ Fresh(<<>>)
  BY EmptyBare DEF Single, Fresh, Bare
<1>3. QED  BY <1>1, <1>2 DEF OnceInv

\* No step answers a use twice, as long as compactions do not overlap.
LEMMA OnceNext == TypeInv /\ CourseInv /\ BatchInv /\ OnceInv /\ OneCompaction /\ [Next]_vars => OnceInv'
<1>1. UNCHANGED vars /\ OnceInv => OnceInv'
  BY DEF vars, OnceInv, Spent, Unspent, Fresh, Compacts, Client
<1>2. QED  BY <1>1, OnceTurn, OnceCommands DEF Next

(* No tool use is answered twice, but in a batch that went past the output *)
(* limit, as long as no two compactions of one client wait at a time: not  *)
(* by a retry, a repair, another turn, a command or a compaction, whatever *)
(* is added while it waits.                                                *)
THEOREM DuplicatesArePastTheLimit == Spec => DuplicatesOnlyPastLimit
<1>1. ASSUME TypeInv, OnceInv PROVE \A c \in Clients : AnsweredOnce(history[c])
  <2> SUFFICES ASSUME NEW c \in Clients, NEW p \in ResultPlaces(history[c]), NEW q \in ResultPlaces(history[c]),
                      p # q, ResultAt(history[c], p) = ResultAt(history[c], q)
               PROVE  turn[ResultAt(history[c], p)[1]].mark = "over"
    BY DEF AnsweredOnce
  <2> DEFINE h == history[c]
  <2>1. \A o \in ResultPlaces(h) : /\ o = <<o[1], o[2]>> /\ o[1] \in DOMAIN h /\ o[2] \in DOMAIN h[o[1]].results
                                   /\ ResultAt(h, o) = h[o[1]].results[o[2]]
    BY DEF ResultPlaces, ResultAt
  <2>2. Single(h, Spent)
    BY <1>1 DEF OnceInv
  <2>3. ResultAt(h, p) \in Spent
    <3>1. ~(p[1] = q[1] /\ p[2] = q[2])
      BY <2>1
    <3>2. QED  BY <2>1, <2>2, <3>1 DEF Single
  <2>4. QED  BY <2>3 DEF Spent
<1>2. TypeInv /\ OnceInv => \A c \in Clients : AnsweredOnce(history[c])
  BY <1>1
<1>3. QED
  BY <1>2, TypeInit, TypeNext, CourseInit, CourseNext, BatchInit, BatchNext, OnceInit, OnceNext, PTL
     DEF Spec, DuplicatesOnlyPastLimit

-----------------------------------------------------------------------------
(* Which blocks of a request are badly paired, when users wait for each    *)
(* other.                                                                  *)

\* The turn of id was cut short, or went past the output limit.
Excused(id) == At(id[1], "cut") \/ turn[id[1]].mark = "over"

\* Turn t may yet ask for the tool of id.
Yet(t, id) ==
  \/ turn[t].pc \in {"idle", "routed", "compacting", "send", "sent"}
  \/ turn[t].pc \in {"head", "results", "padding", "ask", "asked", "repair"} /\ id[2] > turn[t].round

\* Turn t has asked for tools, and their results are still to come or to be trimmed.
AtWork(t) == turn[t].pc \in {"results", "forced"} \/ (At(t, "head") /\ turn[t].uses # <<>>)
Todo(t)   == IF At(t, "head") THEN turn[t].uses ELSE turn[t].todo

\* the last answer of t in the history, with the results so far right after it
Together(t) ==
  \E p \in Nat, done \in Seq(IdSet) : turn[t].uses = done \o Todo(t) /\ Batched(Of(t), p, turn[t].uses, done)

\* Every tool use is in one message, and was not asked for before.
AskedOnce ==
  \A c \in Clients : UsedOnce(history[c]) /\ \A id \in Uses(history[c]) : ~Yet(id[1], id)

\* The history does not change while a summary is waited for.
PlansStand ==
  \A p \in Turns \cup {Command} :
    plan[p] # None => /\ Len(history[Compacts(p)]) > Recent
                      /\ plan[p].before = Len(history[Compacts(p)]) /\ plan[p].keep = ToKeep(history[Compacts(p)])

GapsExcused ==
  \A c \in Clients : \A id \in Flaws(history[c]) :
    \/ Excused(id)
    \/ AtWork(id[1]) /\ Client(id[1]) = c /\ id \in ToSet(turn[id[1]].uses)

SentPlain == \A t \in Turns : At(t, "sent") => Last(Of(t)).results = <<>>

\* What a turn at work has asked for: the results join it, until they are trimmed.
WorkTogether ==
  \A t \in Turns : AtWork(t) =>
    /\ turn[t].uses # <<>>
    /\ turn[t].pc \in {"results", "forced"} => ToSet(turn[t].todo) \subseteq ToSet(turn[t].uses)
    /\ turn[t].mark # "over" => /\ Batch(turn[t].uses, turn[t].round)
                                /\ limit >= 2 => Together(t)

\* A batch that was answered is in the history, each use right before its result.
BatchIn(t) ==
  turn[t].pc \in {"ask", "asked"} /\ turn[t].tries = 0 /\ limit >= 3 =>
    ToSet(turn[t].uses) \subseteq Results(Of(t)) \ Flaws(Of(t))

GapInv ==
  scene.alone =>
    /\ OnceInv
    /\ AskedOnce /\ PlansStand /\ GapsExcused /\ SentPlain /\ WorkTogether
    /\ \A t \in Turns : BatchIn(t)

\* When users wait for each other, nobody else is under way while a turn steps.
LEMMA AloneTurn ==
  ASSUME TypeInv, CourseInv, scene.alone, NEW t \in Turns, Begin(t) \/ Steps(t)
  PROVE  /\ \A u \in Turns : u # t => turn'[u] = turn[u] /\ ~Live(u) /\ ~Live(u)'
         /\ plan[Command] = None
         /\ \A u \in Turns : u # t => plan[u] = None
<1>1. Others(t)
  BY StepMoves
<1>2. (\A u \in Turns : u # t => ~Live(u)) /\ plan[Command] = None
  <2>1. CASE Live(t)
    BY <2>1 DEF CourseInv
  <2>2. CASE ~Live(t)
    BY <2>2, LiveMoves DEF Quiet
  <2>3. QED  BY <2>1, <2>2
<1>3. \A u \in Turns : u # t => ~Live(u)'
  BY <1>2, LiveMoves
<1>4. \A u \in Turns : u # t => plan[u] = None
  BY <1>2 DEF CourseInv, Live, At, Ended
<1>5. QED  BY <1>1, <1>2, <1>3, <1>4 DEF Others

\* An excuse holds from then on, and what may be asked for only gets less.
LEMMA ExcusesHold ==
  ASSUME TypeInv, CourseInv, BatchInv, NEW t \in Turns, Begin(t) \/ Steps(t)
  PROVE  /\ \A id \in IdSet : Excused(id) => Excused(id)'
         /\ \A u \in Turns, id \in IdSet : Yet(u, id)' => Yet(u, id)
<1>1. Moves(t) /\ Others(t) /\ turn' \in [Turns -> Locals] /\ turn \in [Turns -> Locals]
  BY StepMoves DEF TypeInv, TypeOK
<1>2. \A u \in Turns : turn[u].mark = "over" => turn'[u].mark = "over"
  <2>1. turn[t].mark = "over" => turn'[t].mark = "over"
    BY <1>1 DEF Moves, Goes, Same, Heads, Retries, Takes, Adds, Stops, BatchInv
  <2>2. QED  BY <1>1, <2>1 DEF Others
<1>3. \A u \in Turns : At(u, "cut") => At(u, "cut")'
  <2>1. turn[t].pc # "cut"
    BY <1>1 DEF Moves, Goes, Heads, Retries, Takes, Adds, Stops, Ended
  <2>2. QED  BY <1>1, <2>1 DEF Others, At
<1>4. \A id \in IdSet : id[1] \in Turns /\ id[2] \in Nat
  BY DEF IdSet
<1>5. \A id \in IdSet : Excused(id) => Excused(id)'
  BY <1>2, <1>3, <1>4 DEF Excused
<1>6. ASSUME NEW id \in IdSet, Yet(t, id)' PROVE Yet(t, id)
  <2>1. turn'[t].round \in Nat /\ turn[t].round \in Nat /\ id[2] \in Nat
    BY <1>1, <1>4 DEF Locals
  <2>2. CASE Goes(t)
    BY <1>6, <2>2 DEF Goes, Same, Yet
  <2>3. CASE Heads(t)
    BY <1>6, <2>1, <2>3 DEF Heads, Yet
  <2>4. CASE Retries(t) \/ Takes(t) \/ Adds(t)
    BY <1>6, <2>4 DEF Retries, Takes, Adds, Yet
  <2>5. CASE Stops(t)
    BY <1>6, <2>5 DEF Stops, Yet, Ended
  <2>6. QED  BY <1>1, <2>2, <2>3, <2>4, <2>5 DEF Moves
<1>7. \A u \in Turns, id \in IdSet : u # t /\ Yet(u, id)' => Yet(u, id)
  BY <1>1 DEF Others, Yet
<1>8. QED  BY <1>5, <1>6, <1>7

\* What an answer asks for is new.
LEMMA HeadsNew ==
  ASSUME TypeInv, NEW t \in Turns, Heads(t), turn' \in [Turns -> Locals], NEW id \in ToSet(turn'[t].uses)
  PROVE  id \in IdSet /\ id[1] = t /\ Yet(t, id) /\ ~Yet(t, id)'
<1>1. turn'[t].uses \in Seq(IdSet) /\ turn'[t].round \in Nat /\ turn[t].round \in Nat
  BY Start DEF Locals
<1>2. PICK w \in Nat : turn'[t].uses = Ids(t, turn'[t].round, w)
  BY DEF Heads
<1>3. id \in IdSet /\ id[1] = t /\ id[2] = turn'[t].round
  BY <1>1, <1>2 DEF Ids, ToSet
<1>4. Yet(t, id)
  BY <1>1, <1>3 DEF Heads, Yet
<1>5. ~Yet(t, id)'
  BY <1>1, <1>3 DEF Heads, Yet
<1>6. QED  BY <1>3, <1>4, <1>5

\* Cleaning leaves no block unpaired that was not.
LEMMA SanitizeFlaws ==
  ASSUME NEW T, NEW X, NEW h \in Seq(Msg(T, X)), Firm(h)
  PROVE  Flaws(sanitize_history(h)) \subseteq Flaws(h)
  BY SanitizeIs, StripFlaws

\* What is done to a history leaves no block unpaired but those it adds.
LEMMA StepFlaws ==
  ASSUME TypeInv, NEW t \in Turns, NEW r \in Sane, StepWrote(t, r), Moves(t), turn' \in [Turns -> Locals],
         NEW h, h = Of(t), h = <<>> \/ Firm(h), turn[t].pc \in Underway => Firm(h), Tidy(h), UsedOnce(h),
         At(t, "compacting") => Len(h) > Recent /\ plan[t].before = Len(h) /\ plan[t].keep = ToKeep(h),
         At(t, "sent") => Last(h).results = <<>>,
         Heads(t) => ToSet(turn'[t].uses) \cap Uses(h) = {}
  PROVE  /\ UsedOnce(r)
         /\ \A id \in Uses(r) : id \in Uses(h) \/ (Heads(t) /\ id \in ToSet(turn'[t].uses))
         /\ \A id \in Flaws(r) : \/ id \in Flaws(h)
                                 \/ Heads(t) /\ id \in ToSet(turn'[t].uses)
                                 \/ Adds(t) /\ id = Head(turn[t].todo)
<1> DEFINE New == IF Heads(t) THEN ToSet(turn'[t].uses) ELSE {}
           Part(g) == UsedOnce(g) /\ Uses(g) \subseteq Uses(h) \cup New /\ Flaws(g) \subseteq Flaws(h) \cup New
<1>1. h \in Sane /\ limit \in Nat \ {0} /\ turn[t].tries \in 0..4 /\ turn[t].todo \in Seq(IdSet)
      /\ turn'[t].uses \in Seq(IdSet)
  BY Start DEF Locals
<1>2. h \in Seq(Msg(Texts, IdSet)) /\ r \in Seq(Msg(Texts, IdSet)) /\ NoText \in Texts /\ Sound(h)
  BY <1>1, MessagesAre DEF Sane
<1>3. Part(h)
  OBVIOUS
<1>4. ASSUME Part(r)
      PROVE  /\ UsedOnce(r)
             /\ \A id \in Uses(r) : id \in Uses(h) \/ (Heads(t) /\ id \in ToSet(turn'[t].uses))
             /\ \A id \in Flaws(r) : id \in Flaws(h) \/ (Heads(t) /\ id \in ToSet(turn'[t].uses))
  BY <1>4
<1>5. ASSUME NEW g \in Sane, Firm(g), Tidy(g), Part(g)
      PROVE  Trimmed(g) \in Sane /\ Firm(Trimmed(g)) /\ Tidy(Trimmed(g)) /\ Part(Trimmed(g))
  <2>1. g \in Seq(Msg(Texts, IdSet)) /\ Sound(g)
    BY MessagesAre DEF Sane
  <2>2. Trimmed(g) \in Sane /\ Firm(Trimmed(g))
    BY <1>1, <1>5, TrimSane, FirmStays DEF Trimmed
  <2>3. Trimmed(g) \in Seq(Msg(Texts, IdSet)) /\ Comes(Trimmed(g), g)
    BY <1>1, <2>1, TrimComes DEF Trimmed
  <2>4. UsedOnce(Trimmed(g)) /\ Uses(Trimmed(g)) \subseteq Uses(g) /\ Tidy(Trimmed(g))
    BY <1>5, <2>1, <2>3, ComesUsedOnce, ComesBlocks, ComesTidy
  <2>5. Flaws(Trimmed(g)) \subseteq Flaws(g)
    BY <1>1, <1>5, <2>1, TrimFlaws DEF Trimmed
  <2>6. QED  BY <1>5, <2>2, <2>4, <2>5
<1>6. ASSUME NEW m \in Messages, m.results = <<>>, Append(h, m) \in Sane, ToSet(m.uses) \subseteq New,
             Firm(Append(h, m))
      PROVE  Tidy(Append(h, m)) /\ Part(Append(h, m))
  <2>1. m \in Msg(Texts, IdSet)
    BY MessagesAre
  <2>2. ToSet(m.uses) \cap Uses(h) = {}
    BY <1>6
  <2>3. UsedOnce(Append(h, m)) /\ Uses(Append(h, m)) = Uses(h) \cup ToSet(m.uses)
    BY <1>2, <2>1, <2>2, AppendUsedOnce, AppendBlocks
  <2>4. Flaws(Append(h, m)) \subseteq Flaws(h) \cup ToSet(m.uses)
    BY <1>2, <1>6, <2>1, AppendFlaws
  <2>5. Tidy(Append(h, m))
    BY <1>2, <1>6, <2>1, AppendTidy
  <2>6. QED  BY <1>6, <2>3, <2>4, <2>5
<1>7. CASE turn[t].pc = "compacting" /\ r = Compacted(h, plan[t], "summary")
  <2> DEFINE p == plan[t]
  <2>1. Len(h) > Recent /\ p.before = Len(h) /\ p.keep = ToKeep(h)
    BY <1>7 DEF At
  <2>2. h # <<>>
    BY <2>1, RecentAssumption
  <2>3. "summary" \in Texts /\ "summary" # NoText
    BY NamesAssumption DEF Texts
  <2> HIDE DEF p
  <2>4. /\ Flaws(Compacted(h, p, "summary")) \subseteq Flaws(h) /\ UsedOnce(Compacted(h, p, "summary"))
        /\ Uses(Compacted(h, p, "summary")) \subseteq Uses(h)
    BY <1>2, <2>1, <2>2, <2>3, CompactedFlaws
  <2>5. QED  BY <1>4, <1>7, <2>4 DEF p
<1>8. CASE Adds(t) /\ r = add_tool_result(h, Head(turn[t].todo))
  <2>1. Head(turn[t].todo) \in IdSet
    BY <1>1, <1>8 DEF Adds
  <2>2. Uses(r) = Uses(h) /\ Flaws(r) \subseteq Flaws(h) \cup {Head(turn[t].todo)} /\ UsedOnce(r)
    BY <1>2, <1>8, <2>1, AddResultBlocks, AddResultFlaws, AddResultUsedOnce
  <2>3. QED  BY <1>8, <2>2
<1>9. CASE r = h
  BY <1>3, <1>4, <1>9
<1>10. CASE r = WithMessage(t)
  <2> DEFINE m == UserText(t)
             s == Trimmed(Append(h, m))
  <2>1. m \in Messages /\ m.results = <<>> /\ m.uses = <<>> /\ m.role = "user" /\ m.text # NoText
    BY NamesAssumption DEF UserText, Message, Messages, Texts
  <2>2. Append(h, m) \in Sane
    BY <1>1, UserTextSane
  <2> HIDE DEF m
  <2>3. ToSet(m.uses) = {}
    BY <2>1, ToSetIs, <<>> \in Seq(IdSet)
  <2>4. Firm(Append(h, m))
    <3>1. CASE h = <<>>
      <4>1. Append(h, m) = <<m>>
        BY <3>1
      <4>2. QED  BY <2>1, <4>1 DEF Firm
    <3>2. CASE Firm(h)
      BY <1>1, <2>1, <3>2, FirmStays
    <3>3. QED  BY <3>1, <3>2
  <2>5. Tidy(Append(h, m)) /\ Part(Append(h, m))
    BY <1>6, <2>1, <2>2, <2>3, <2>4
  <2> HIDE DEF Part
  <2>6. s \in Sane /\ Firm(s) /\ Part(s)
    BY <1>5, <2>2, <2>4, <2>5
  <2> HIDE DEF s
  <2>7. s \in Seq(Msg(Texts, IdSet))
    BY <2>6, MessagesAre DEF Sane
  <2>8. sanitize_history(s) \in Seq(Msg(Texts, IdSet)) /\ Comes(sanitize_history(s), s)
    BY <2>7, SanitizeComes
  <2>9. /\ UsedOnce(sanitize_history(s)) /\ Uses(sanitize_history(s)) \subseteq Uses(s)
        /\ Flaws(sanitize_history(s)) \subseteq Flaws(s)
    BY <2>6, <2>7, <2>8, ComesUsedOnce, ComesBlocks, SanitizeFlaws DEF Part
  <2>10. Part(sanitize_history(s))
    BY <2>6, <2>9 DEF Part
  <2>11. r = s \/ r = sanitize_history(s)
    BY <1>10 DEF WithMessage, s, m
  <2>12. Part(r)
    BY <2>6, <2>10, <2>11
  <2>13. QED  BY <1>4, <2>12
<1>11. CASE turn[t].pc = "sent" /\ r = Front(h)
  <2>1. h # <<>> /\ Last(h).results = <<>>
    BY <1>11 DEF Underway, Firm, At
  <2>2. Flaws(Front(h)) \subseteq Flaws(h) /\ Comes(Front(h), h)
    BY <1>2, <2>1, FrontFlaws, FrontHeir DEF Heir
  <2>3. Uses(r) \subseteq Uses(h) /\ UsedOnce(r)
    BY <1>2, <1>11, <2>2, ComesBlocks, ComesUsedOnce
  <2>4. QED  BY <1>4, <1>11, <2>2, <2>3
<1>12. ASSUME NEW text \in Turns \cup {NoText}, r = Trimmed(Append(h, Answer(text, turn'[t].uses))),
              turn[t].pc \in {"sent", "asked", "lastAsked"}, turn'[t].uses = <<>> \/ Heads(t)
       PROVE  Part(r)
  <2> DEFINE m == Answer(text, turn'[t].uses)
  <2>1. m \in Messages /\ m.results = <<>> /\ m.uses = turn'[t].uses
    BY <1>1 DEF Answer, Message, Messages, Texts
  <2>2. Append(h, m) \in Sane /\ Firm(h)
    BY <1>1, <1>12, AnswerSane DEF Underway
  <2> HIDE DEF m
  <2>3. Firm(Append(h, m))
    BY <1>1, <2>1, <2>2, FirmStays
  <2>4. ToSet(<<>>) = {}
    BY ToSetIs, <<>> \in Seq(IdSet)
  <2>5. ToSet(m.uses) \subseteq New
    BY <1>12, <2>1, <2>4
  <2>6. Tidy(Append(h, m)) /\ Part(Append(h, m))
    BY <1>6, <2>1, <2>2, <2>3, <2>5
  <2> HIDE DEF Part
  <2>7. Part(Trimmed(Append(h, m)))
    BY <1>5, <2>2, <2>3, <2>6
  <2>8. QED  BY <1>12, <2>7 DEF m
<1>13. CASE turn[t].pc \in {"results", "forced"} /\ r = Trimmed(h)
  <2>1. Firm(h)
    BY <1>13 DEF Underway
  <2>2. Part(r)
    BY <1>1, <1>3, <1>5, <1>13, <2>1
  <2>3. QED  BY <1>4, <2>2
<1>14. CASE turn[t].pc = "repair" /\ r = repair(turn[t].tries, h, KeepLast)
  <2>1. turn[t].tries \in 1..4 /\ Firm(h)
    BY <1>1, <1>14 DEF TypeInv, At, Underway
  <2>2. Comes(r, h) /\ Flaws(r) \subseteq Flaws(h)
    BY <1>2, <1>14, <2>1, KeepAssumption, RepairComes, RepairFlaws
  <2>3. UsedOnce(r) /\ Uses(r) \subseteq Uses(h)
    BY <1>2, <2>2, ComesUsedOnce, ComesBlocks
  <2>4. QED  BY <1>4, <2>2, <2>3
<1> HIDE DEF Part
<1>15. turn'[t].pc = turn[t].pc => Adds(t)
  BY DEF Moves, Goes, Heads, Retries, Takes, Stops
<1>16. /\ turn[t].pc \in {"sent", "asked"} /\ turn'[t].pc = "head" => Heads(t)
       /\ turn[t].pc = "lastAsked" => turn'[t].uses = <<>>
  BY DEF Moves, Goes, Heads, Retries, Takes, Adds, Stops, Ended
<1>17. CASE /\ <<turn[t].pc, turn'[t].pc>> \in {<<"sent", "head">>, <<"asked", "head">>, <<"lastAsked", "answered">>}
            /\ \E text \in Turns \cup {NoText} : r = Trimmed(Append(h, Answer(text, turn'[t].uses)))
  <2>1. PICK text \in Turns \cup {NoText} : r = Trimmed(Append(h, Answer(text, turn'[t].uses)))
    BY <1>17
  <2>2. turn[t].pc \in {"sent", "asked", "lastAsked"} /\ (turn'[t].uses = <<>> \/ Heads(t))
    BY <1>16, <1>17
  <2>3. Part(r)
    BY <1>12, <2>1, <2>2
  <2>4. QED  BY <1>4, <2>3
<1>18. QED
  BY <1>7, <1>8, <1>9, <1>10, <1>11, <1>13, <1>14, <1>15, <1>17 DEF StepWrote

\* A batch whose results are all there is well paired.
LEMMA BatchThere ==
  ASSUME TypeInv, CourseInv, GapInv, scene.alone, NEW t \in Turns, turn[t].pc \in {"results", "forced"},
         turn[t].todo = <<>>, turn[t].mark # "over", limit >= 2
  PROVE  /\ ToSet(turn[t].uses) \subseteq Results(Of(t)) \ Flaws(Of(t))
         /\ \E p \in Nat : Batched(Of(t), p, turn[t].uses, turn[t].uses)
<1> DEFINE h == Of(t)
           uses == turn[t].uses
<1>1. h \in Sane /\ uses \in Seq(IdSet) /\ Client(t) \in Clients /\ h = history[Client(t)]
  BY Start, ClientIs DEF Of
<1>2. h \in Seq(Msg(Texts, IdSet))
  BY <1>1, MessagesAre DEF Sane
<1>3. uses # <<>> /\ Batch(uses, turn[t].round) /\ Together(t)
  BY DEF GapInv, WorkTogether, AtWork
<1>4. PICK p \in Nat, done \in Seq(IdSet) : uses = done \o turn[t].todo /\ Batched(h, p, uses, done)
  BY <1>3 DEF Together, Todo, At
<1>5. done = uses
  BY <1>4
<1>6. UsedOnce(h) /\ Single(h, Spent)
  BY <1>1 DEF GapInv, AskedOnce, OnceInv
<1>7. \A i, j \in DOMAIN uses : uses[i] = uses[j] => i = j
  BY <1>3 DEF Batch
<1>8. ASSUME NEW id \in ToSet(uses) PROVE id \notin Spent
  <2>1. id[1] = t
    BY <1>8 DEF CourseInv, Mine
  <2>2. QED  BY <2>1 DEF Spent
<1> HIDE DEF h, uses
<1>9. \A id \in ToSet(uses) : id \notin Flaws(h) /\ id \in Results(h)
  BY <1>2, <1>3, <1>4, <1>5, <1>6, <1>7, <1>8, BatchPaired
<1>10. QED  BY <1>4, <1>5, <1>9 DEF h, uses

\* What a step leaves of the history it writes, when users wait for each other.
LEMMA TurnLeaves ==
  ASSUME TypeInv, CourseInv, FirmAlone, LengthInv, GapInv, scene.alone, NEW t \in Turns, Begin(t) \/ Steps(t)
  PROVE  \E r \in Sane :
           /\ Wrote(Client(t), r) /\ StepWrote(t, r)
           /\ Of(t)' = r /\ history'[Client(t)] = r /\ \A c \in Clients : c # Client(t) => history'[c] = history[c]
           /\ UsedOnce(r)
           /\ \A id \in Uses(r) : id \in Uses(Of(t)) \/ (Heads(t) /\ id \in ToSet(turn'[t].uses))
           /\ \A id \in Flaws(r) : \/ id \in Flaws(Of(t))
                                   \/ Heads(t) /\ id \in ToSet(turn'[t].uses)
                                   \/ Adds(t) /\ id = Head(turn[t].todo)
<1>1. /\ Moves(t) /\ Others(t) /\ turn' \in [Turns -> Locals] /\ scene' = scene
      /\ history \in [Clients -> Sane] /\ Client(t) \in Clients /\ Client(t)' = Client(t)
  BY StepMoves, StepPlans, Start, ClientIs DEF settings, Client
<1>2. PICK r \in Sane : Wrote(Client(t), r) /\ StepWrote(t, r)
  BY StepWrites
<1>3. history'[Client(t)] = r /\ \A c \in Clients : c # Client(t) => history'[c] = history[c]
  BY <1>1, <1>2, WriteEffect DEF Wrote
<1>4. Of(t)' = r
  BY <1>1, <1>3 DEF Of
<1> DEFINE h == Of(t)
<1>5. /\ h = <<>> \/ Firm(h)
      /\ turn[t].pc \in Underway => Firm(h)
      /\ Tidy(h) /\ UsedOnce(h) /\ \A id \in Uses(h) : ~Yet(id[1], id)
  BY <1>1 DEF FirmAlone, LengthInv, GapInv, AskedOnce, Of
<1>6. At(t, "compacting") => Len(h) > Recent /\ plan[t].before = Len(h) /\ plan[t].keep = ToKeep(h)
  BY NamesAssumption DEF TypeInv, GapInv, PlansStand, Compacts, Of
<1>7. At(t, "sent") => Last(h).results = <<>>
  BY DEF GapInv, SentPlain
<1>8. Heads(t) => ToSet(turn'[t].uses) \cap Uses(h) = {}
  BY <1>1, <1>5, HeadsNew
<1> HIDE DEF h
<1>9. /\ UsedOnce(r)
      /\ \A id \in Uses(r) : id \in Uses(h) \/ (Heads(t) /\ id \in ToSet(turn'[t].uses))
      /\ \A id \in Flaws(r) : \/ id \in Flaws(h)
                              \/ Heads(t) /\ id \in ToSet(turn'[t].uses)
                              \/ Adds(t) /\ id = Head(turn[t].todo)
  <2>1. h = Of(t)
    BY DEF h
  <2>2. QED  BY <1>1, <1>2, <1>5, <1>6, <1>7, <1>8, <2>1, StepFlaws
<1>10. QED  BY <1>2, <1>3, <1>4, <1>9 DEF h

\* No tool use comes twice.
LEMMA AskedTurn ==
  ASSUME TypeInv, CourseInv, FirmAlone, LengthInv, BatchInv, GapInv, scene.alone, NEW t \in Turns, Begin(t) \/ Steps(t)
  PROVE  AskedOnce'
<1>1. PICK r \in Sane :
        /\ history'[Client(t)] = r /\ \A c \in Clients : c # Client(t) => history'[c] = history[c]
        /\ UsedOnce(r)
        /\ \A id \in Uses(r) : id \in Uses(Of(t)) \/ (Heads(t) /\ id \in ToSet(turn'[t].uses))
  BY TurnLeaves
<1>2. Client(t) \in Clients /\ turn' \in [Turns -> Locals] /\ history \in [Clients -> Sane]
  BY Start, StepMoves, ClientIs
<1>3. ASSUME NEW c \in Clients, NEW id \in Uses(history[c]) PROVE ~Yet(id[1], id)'
  <2>1. history[c] \in Seq(Msg(Texts, IdSet))
    BY <1>2, MessagesAre DEF Sane
  <2>2. id \in IdSet
    BY <1>3, <2>1, FlawsWithin
  <2>3. id[1] \in Turns
    BY <2>2 DEF IdSet
  <2>4. ~Yet(id[1], id)
    BY <1>3 DEF GapInv, AskedOnce
  <2>5. QED  BY <2>2, <2>3, <2>4, ExcusesHold
<1>4. ASSUME NEW c \in Clients PROVE UsedOnce(history'[c]) /\ \A id \in Uses(history'[c]) : ~Yet(id[1], id)'
  <2>1. CASE c = Client(t)
    <3>1. ASSUME NEW id \in Uses(r) PROVE ~Yet(id[1], id)'
      <4>1. CASE id \in Uses(Of(t))
        BY <1>2, <1>3, <4>1 DEF Of
      <4>2. CASE Heads(t) /\ id \in ToSet(turn'[t].uses)
        BY <1>2, <4>2, HeadsNew
      <4>3. QED  BY <1>1, <3>1, <4>1, <4>2
    <3>2. QED  BY <1>1, <2>1, <3>1
  <2>2. CASE c # Client(t)
    BY <1>1, <1>3, <2>2 DEF GapInv, AskedOnce
  <2>3. QED  BY <2>1, <2>2
<1>5. QED  BY <1>4 DEF AskedOnce, Yet

\* A summary that is waited for is one of the history as it is.
LEMMA PlansTurn ==
  ASSUME TypeInv, CourseInv, scene.alone, NEW t \in Turns, Begin(t) \/ Steps(t)
  PROVE  PlansStand'
<1>1. /\ Moves(t) /\ scene' = scene /\ history \in [Clients -> Sane] /\ Client(t) \in Clients
      /\ plan \in [Turns \cup {Command} -> Plans \cup {None}]
  BY StepMoves, StepPlans, Start, ClientIs DEF settings, TypeInv, TypeOK
<1>2. ASSUME NEW p \in Turns \cup {Command}, plan'[p] # None
      PROVE  /\ Len(history'[Compacts(p)]) > Recent
             /\ plan'[p].before = Len(history'[Compacts(p)]) /\ plan'[p].keep = ToKeep(history'[Compacts(p)])
  <2>1. p # t => plan[p] = None
    BY AloneTurn
  <2>2. At(t, "compacting") => turn'[t].pc # "compacting"
    BY <1>1 DEF At, Moves, Goes, Heads, Retries, Takes, Adds, Stops, Ended
  <2>3. At(t, "routed") /\ p = t /\ Len(Of(t)) > Recent /\ plan'[t] = PlanOf(Client(t))
    BY <1>1, <1>2, <2>1, <2>2, StepPlans DEF CourseInv
  <2>4. history' = history
    <3>1. PICK r \in Sane : Wrote(Client(t), r) /\ StepWrote(t, r)
      BY StepWrites
    <3>2. r = Of(t)
      BY <2>3, <3>1 DEF StepWrote, At
    <3>3. QED  BY <1>1, <3>1, <3>2 DEF Wrote, Of
  <2>5. Compacts(p) = Client(t)
    BY <2>3, NamesAssumption DEF Compacts
  <2>6. plan'[p].before = Len(Of(t)) /\ plan'[p].keep = ToKeep(Of(t))
    BY <2>3 DEF PlanOf, Of
  <2>7. QED  BY <2>3, <2>4, <2>5, <2>6 DEF Of
<1>3. \A p \in Turns \cup {Command} : Compacts(p)' = Compacts(p)
  BY <1>1 DEF Compacts, Client
<1>4. QED  BY <1>2, <1>3 DEF PlansStand

\* A trim after which a turn is no longer at work leaves nothing of its batch unpaired.
LEMMA WorkCloses ==
  ASSUME TypeInv, CourseInv, FirmAlone, LengthInv, GapInv, scene.alone, NEW t \in Turns,
         turn[t].pc \in {"results", "forced"}, turn[t].todo = <<>>, turn[t].mark # "over",
         NEW id \in ToSet(turn[t].uses)
  PROVE  id \notin Flaws(Trimmed(Of(t)))
<1> DEFINE h == Of(t)
<1>1. h \in Sane /\ limit \in Nat \ {0} /\ Client(t) \in Clients /\ h = history[Client(t)]
  BY Start, ClientIs DEF Of
<1>2. h \in Seq(Msg(Texts, IdSet)) /\ Sound(h)
  BY <1>1, MessagesAre DEF Sane
<1>3. Firm(h) /\ Tidy(h) /\ UsedOnce(h)
  BY <1>1 DEF FirmAlone, LengthInv, GapInv, AskedOnce, Underway
<1>4. CASE limit = 1
  <2> DEFINE s == trim_history(h, limit)
  <2>1. /\ s \in Sane /\ Firm(s) /\ Len(s) <= 1 /\ Tidy(s)
    BY <1>1, <1>2, <1>3, <1>4, TrimSane, FirmStays, TrimComes, ComesTidy
  <2> HIDE DEF s
  <2>2. s \in Seq(Msg(Texts, IdSet)) /\ Sound(s)
    BY <2>1, MessagesAre DEF Sane
  <2>3. Flaws(s) = {}
    BY <2>1, <2>2, FirmSingle
  <2>4. QED  BY <2>3 DEF s, Trimmed
<1>5. CASE limit >= 2
  <2>1. id \notin Flaws(h)
    BY <1>5, BatchThere
  <2>2. Flaws(trim_history(h, limit)) \subseteq Flaws(h)
    BY <1>1, <1>2, <1>3, TrimFlaws
  <2>3. QED  BY <2>1, <2>2 DEF Trimmed
<1>6. QED  BY <1>1, <1>4, <1>5

\* What is badly paired after a step is excused, or the turn is at work on it.
LEMMA GapsTurn ==
  ASSUME TypeInv, CourseInv, FirmAlone, LengthInv, BatchInv, GapInv, scene.alone, NEW t \in Turns, Begin(t) \/ Steps(t)
  PROVE  GapsExcused'
<1>1. /\ Moves(t) /\ Others(t) /\ turn' \in [Turns -> Locals] /\ scene' = scene
      /\ history \in [Clients -> Sane] /\ Client(t) \in Clients /\ limit \in Nat \ {0}
      /\ \A u \in Turns : Client(u)' = Client(u)
      /\ turn[t].uses \in Seq(IdSet) /\ turn[t].todo \in Seq(IdSet)
  BY StepMoves, StepPlans, Start, ClientIs DEF settings, Client
<1>2. PICK r \in Sane :
        /\ StepWrote(t, r)
        /\ history'[Client(t)] = r /\ \A c \in Clients : c # Client(t) => history'[c] = history[c]
        /\ \A id \in Flaws(r) : \/ id \in Flaws(Of(t))
                                \/ Heads(t) /\ id \in ToSet(turn'[t].uses)
                                \/ Adds(t) /\ id = Head(turn[t].todo)
  BY TurnLeaves
<1> DEFINE Kept(c, id) ==
      Excused(id)' \/ (AtWork(id[1])' /\ Client(id[1]) = c /\ id \in ToSet(turn'[id[1]].uses))
<1>3. ASSUME NEW id \in IdSet, Excused(id) PROVE Excused(id)'
  BY <1>3, ExcusesHold
<1>4. ASSUME NEW c \in Clients, NEW id \in Flaws(history[c]) PROVE id \in IdSet /\ id[1] \in Turns
  <2>1. history[c] \in Seq(Msg(Texts, IdSet))
    BY <1>1, MessagesAre DEF Sane
  <2>2. id \in IdSet
    BY <1>4, <2>1, FlawsWithin
  <2>3. QED  BY <2>2 DEF IdSet
<1>5. \A u \in Turns : AtWork(u) => u = t
  BY AloneTurn DEF AtWork, At, Live, Ended
<1>6. ASSUME NEW id \in IdSet, id[1] = t, id \in ToSet(turn[t].uses), AtWork(t), id \in Flaws(r)
      PROVE  Kept(Client(t), id)
  <2>1. AtWork(t)' /\ turn'[t].uses = turn[t].uses => Kept(Client(t), id)
    BY <1>6
  <2>2. turn'[t].pc = "cut" \/ turn'[t].mark = "over" => Excused(id)'
    BY <1>6 DEF Excused, At
  <2>3. turn[t].uses # <<>>
    BY <1>6 DEF GapInv, WorkTogether
  <2>4. CASE turn[t].pc = "head"
    <3>1. Takes(t) \/ Stops(t)
      BY <1>1, <2>4 DEF Moves, Goes, Heads, Retries, Adds
    <3>2. CASE Takes(t)
      BY <2>1, <2>4, <3>2 DEF Takes, AtWork
    <3>3. CASE Stops(t)
      BY <2>2, <2>3, <2>4, <3>3 DEF Stops
    <3>4. QED  BY <3>1, <3>2, <3>3
  <2>5. CASE turn[t].pc \in {"results", "forced"}
    <3>1. CASE Adds(t)
      BY <2>1, <2>5, <3>1 DEF Adds, AtWork
    <3>2. CASE ~Adds(t)
      <4>1. r = Trimmed(Of(t)) /\ turn[t].todo = <<>>
        <5>1. turn'[t].pc # turn[t].pc
          BY <1>1, <3>2 DEF Moves, Goes, Heads, Retries, Takes, Stops
        <5>2. QED  BY <1>2, <2>5, <5>1 DEF StepWrote
      <4>2. turn[t].mark = "over"
        BY <1>6, <2>5, <4>1, WorkCloses
      <4>3. QED  BY <1>3, <1>6, <4>2 DEF Excused
    <3>3. QED  BY <3>1, <3>2
  <2>6. QED  BY <1>6, <2>4, <2>5 DEF AtWork, At
<1>7. ASSUME NEW id \in ToSet(turn'[t].uses), Heads(t) PROVE Kept(Client(t), id)
  <2>1. id[1] = t
    BY <1>1, <1>7, HeadsNew
  <2>2. turn'[t].uses # <<>>
    BY <1>7, ToSetIs, <<>> \in Seq(IdSet)
  <2>3. AtWork(t)'
    BY <1>7, <2>2 DEF AtWork, At, Heads
  <2>4. QED  BY <1>7, <2>1, <2>3
<1>8. ASSUME NEW id, id = Head(turn[t].todo), Adds(t) PROVE Kept(Client(t), id)
  <2>1. id \in IdSet /\ id \in ToSet(turn[t].todo)
    BY <1>1, <1>8 DEF Adds, ToSet
  <2>2. id[1] = t
    BY <2>1 DEF CourseInv, Mine
  <2>3. CASE turn[t].pc = "padding"
    <3>1. turn[t].mark = "over"
      BY <2>3 DEF BatchInv
    <3>2. QED  BY <1>3, <2>1, <2>2, <3>1 DEF Excused
  <2>4. CASE turn[t].pc \in {"results", "forced"}
    <3>1. id \in ToSet(turn[t].uses)
      BY <2>1, <2>4 DEF GapInv, WorkTogether, AtWork
    <3>2. AtWork(t)' /\ turn'[t].uses = turn[t].uses
      BY <1>8, <2>4 DEF Adds, AtWork
    <3>3. QED  BY <2>2, <3>1, <3>2
  <2>5. QED  BY <1>8, <2>3, <2>4 DEF Adds
<1>9. ASSUME NEW c \in Clients, NEW id \in Flaws(history'[c]) PROVE Kept(c, id)
  <2>1. CASE id \in Flaws(history[c]) /\ Excused(id)
    BY <1>3, <1>4, <2>1
  <2>2. CASE id \in Flaws(history[c]) /\ ~Excused(id)
    <3>1. AtWork(id[1]) /\ Client(id[1]) = c /\ id \in ToSet(turn[id[1]].uses)
      BY <2>2 DEF GapInv, GapsExcused
    <3>2. id[1] = t /\ id \in IdSet
      BY <1>4, <1>5, <2>2, <3>1
    <3>3. id \in Flaws(r)
      BY <1>2, <1>9, <3>1, <3>2
    <3> HIDE DEF Kept
    <3>4. QED  BY <1>6, <3>1, <3>2, <3>3
  <2>3. CASE id \notin Flaws(history[c])
    <3>1. c = Client(t)
      BY <1>2, <1>9, <2>3
    <3>2. (Heads(t) /\ id \in ToSet(turn'[t].uses)) \/ (Adds(t) /\ id = Head(turn[t].todo))
      BY <1>2, <1>9, <2>3, <3>1 DEF Of
    <3> HIDE DEF Kept
    <3>3. QED  BY <1>7, <1>8, <3>1, <3>2
  <2> HIDE DEF Kept
  <2>4. QED  BY <2>1, <2>2, <2>3
<1>10. ASSUME NEW c \in Clients, NEW id \in Flaws(history'[c])
       PROVE  Excused(id)' \/ (AtWork(id[1])' /\ Client(id[1])' = c /\ id \in ToSet(turn'[id[1]].uses))
  <2>1. history'[c] \in Seq(Msg(Texts, IdSet))
    <3>1. history'[c] \in Sane
      BY <1>1, <1>2
    <3>2. QED  BY <3>1, MessagesAre DEF Sane
  <2>2. id \in IdSet
    BY <1>10, <2>1, FlawsWithin
  <2>3. id[1] \in Turns
    BY <2>2 DEF IdSet
  <2>4. QED  BY <1>1, <1>9, <1>10, <2>3
<1>11. QED  BY <1>10 DEF GapsExcused, Excused, AtWork

\* The first of a rest, moved to the end of what is done.
LEMMA HeadMoves ==
  ASSUME NEW X, NEW s \in Seq(X), NEW u \in Seq(X), u # <<>>
  PROVE  s \o u = Append(s, Head(u)) \o Tail(u)
<1> DEFINE v == Append(s, Head(u)) \o Tail(u)
           w == s \o u
<1>1. Head(u) \in X /\ Tail(u) \in Seq(X) /\ Len(Tail(u)) = Len(u) - 1 /\ Head(u) = u[1]
  OBVIOUS
<1>2. Append(s, Head(u)) \in Seq(X) /\ Len(Append(s, Head(u))) = Len(s) + 1
  BY <1>1
<1>3. v \in Seq(X) /\ w \in Seq(X) /\ Len(v) = Len(w)
  BY <1>1, <1>2
<1>4. ASSUME NEW k \in 1..Len(w) PROVE v[k] = w[k]
  <2>1. CASE k <= Len(s)
    BY <1>1, <1>2, <2>1
  <2>2. CASE k = Len(s) + 1
    BY <1>1, <1>2, <2>2
  <2>3. CASE k > Len(s) + 1
    <3> DEFINE j == k - Len(s)
    <3>1. j \in 2..Len(u) /\ w[k] = u[j]
      BY <2>3
    <3>2. v[k] = Tail(u)[j - 1] /\ j - 1 \in 1..Len(Tail(u))
      BY <1>1, <1>2, <2>3
    <3>3. Tail(u)[j - 1] = u[j]
      BY <3>1, <3>2
    <3>4. QED  BY <3>1, <3>2, <3>3
  <2>4. QED  BY <2>1, <2>2, <2>3
<1> HIDE DEF v, w
<1>5. v = w
  BY <1>3, <1>4
<1>6. QED  BY <1>5 DEF v, w

\* The last message that is sent is the user's text, or no message of results at least.
LEMMA WithMessagePlain ==
  ASSUME TypeInv, NEW t \in Turns, Of(t) = <<>> \/ Firm(Of(t)), Tidy(Of(t))
  PROVE  Last(WithMessage(t)).results = <<>>
<1> DEFINE m == UserText(t)
           g == Append(Of(t), m)
           s == trim_history(g, limit)
<1>1. m \in Messages /\ m.results = <<>> /\ m.uses = <<>> /\ m.role = "user" /\ m.text # NoText
  BY NamesAssumption DEF UserText, Message, Messages, Texts
<1>2. g \in Sane /\ Of(t) \in Sane /\ limit \in Nat \ {0}
  BY Start, UserTextSane
<1> HIDE DEF m
<1>3. Of(t) \in Seq(Msg(Texts, IdSet)) /\ m \in Msg(Texts, IdSet) /\ g \in Seq(Msg(Texts, IdSet)) /\ Sound(g)
  BY <1>1, <1>2, MessagesAre DEF Sane
<1>4. Firm(g) /\ Last(g) = m
  <2>1. CASE Of(t) = <<>>
    <3>1. g = <<m>>
      BY <2>1
    <3>2. QED  BY <1>1, <3>1 DEF Firm, Last
  <2>2. CASE Firm(Of(t))
    <3>1. Last(g) = m
      BY <1>3 DEF Last
    <3>2. QED  BY <1>1, <1>2, <2>2, <3>1, FirmStays
  <2>3. QED  BY <2>1, <2>2
<1>5. Tidy(g)
  BY <1>1, <1>3, AppendTidy
<1> HIDE DEF g
<1>6. s \in Sane /\ Firm(s) /\ Tidy(s) /\ Len(s) <= limit
  BY <1>2, <1>3, <1>4, <1>5, TrimSane, FirmStays, TrimComes, ComesTidy
<1>7. limit >= 2 => Last(s) = m
  BY <1>1, <1>2, <1>3, <1>4, TrimLast
<1> HIDE DEF s
<1>8. s \in Seq(Msg(Texts, IdSet)) /\ Sound(s)
  BY <1>6, MessagesAre DEF Sane
<1> DEFINE z == sanitize_history(s)
<1>9. z \in Sane /\ Firm(z) /\ Comes(z, s)
  BY <1>6, <1>8, SanitizeSane, FirmStays, SanitizeComes
<1>10. limit >= 2 => Last(z) = m
  BY <1>1, <1>6, <1>7, <1>8, PlainLast
<1> HIDE DEF z
<1>11. z \in Seq(Msg(Texts, IdSet)) /\ Sound(z)
  BY <1>9, MessagesAre DEF Sane
<1>12. Tidy(z) /\ Len(z) <= Len(s)
  BY <1>6, <1>8, <1>9, <1>11, ComesTidy, ComesShorter
<1>13. Last(s).results = <<>> /\ Last(z).results = <<>>
  <2>1. CASE limit >= 2
    BY <1>1, <1>7, <1>10, <2>1
  <2>2. CASE limit = 1
    <3>1. Len(s) <= 1 /\ Len(z) <= 1
      BY <1>6, <1>8, <1>11, <1>12, <2>2
    <3>2. QED  BY <1>6, <1>8, <1>9, <1>11, <1>12, <3>1, FirmSingle
  <2>3. QED  BY <1>2, <2>1, <2>2
<1>14. QED  BY <1>13 DEF WithMessage, Trimmed, z, s, g, m

\* The message that a turn sends first holds no result.
LEMMA SentPlainTurn ==
  ASSUME TypeInv, CourseInv, FirmAlone, LengthInv, GapInv, scene.alone, NEW t \in Turns, Begin(t) \/ Steps(t)
  PROVE  SentPlain'
<1>1. PICK r \in Sane : StepWrote(t, r) /\ Of(t)' = r
  BY TurnLeaves
<1>2. Moves(t) /\ Client(t) \in Clients
  BY StepMoves, ClientIs
<1>3. ASSUME At(t, "sent")' PROVE Last(r).results = <<>>
  <2>1. turn[t].pc = "send" /\ turn'[t].pc = "sent"
    BY <1>2, <1>3 DEF At, Moves, Goes, Heads, Retries, Takes, Adds, Stops, Ended
  <2>2. r = WithMessage(t)
    BY <1>1, <2>1 DEF StepWrote
  <2>3. (Of(t) = <<>> \/ Firm(Of(t))) /\ Tidy(Of(t))
    BY <1>2 DEF FirmAlone, LengthInv, Of
  <2>4. QED  BY <2>2, <2>3, WithMessagePlain
<1>4. \A u \in Turns : At(u, "sent")' => u = t
  BY AloneTurn DEF Live, At, Ended
<1>5. \A u \in Turns : At(u, "sent")' => Last(Of(u)').results = <<>>
  BY <1>1, <1>3, <1>4
<1>6. QED  BY <1>5 DEF SentPlain

\* An answer is the last message after its trim, if two messages may stay.
LEMMA AnswerLast ==
  ASSUME TypeInv, NEW t \in Turns, Firm(Of(t)), limit >= 2, NEW text \in Turns \cup {NoText},
         NEW uses \in Seq(IdSet), NEW r, r = Trimmed(Append(Of(t), Answer(text, uses)))
  PROVE  r # <<>> /\ r \in Sane /\ Last(r).uses = uses /\ Last(r).results = <<>>
<1> DEFINE m == Answer(text, uses)
           g == Append(Of(t), m)
<1>1. m \in Messages /\ m.results = <<>> /\ m.uses = uses /\ m.role = "assistant"
  BY DEF Answer, Message, Messages, Texts
<1>2. g \in Sane /\ Of(t) \in Sane /\ limit \in Nat \ {0}
  BY Start, AnswerSane
<1> HIDE DEF m
<1>3. Of(t) \in Seq(Msg(Texts, IdSet)) /\ m \in Msg(Texts, IdSet) /\ g \in Seq(Msg(Texts, IdSet))
  BY <1>1, <1>2, MessagesAre DEF Sane
<1>4. Firm(g) /\ Last(g) = m
  BY <1>1, <1>2, <1>3, FirmStays DEF Last
<1> HIDE DEF g
<1>5. trim_history(g, limit) # <<>> /\ Last(trim_history(g, limit)) = m
  BY <1>1, <1>2, <1>3, <1>4, TrimLast
<1>6. trim_history(g, limit) \in Sane
  BY <1>2, TrimSane
<1>7. r = trim_history(g, limit)
  BY DEF Trimmed, g, m
<1>8. QED  BY <1>1, <1>5, <1>6, <1>7

\* A batch stays together while its results are added.
LEMMA WorkTurn ==
  ASSUME TypeInv, CourseInv, FirmAlone, LengthInv, BatchInv, GapInv, scene.alone, NEW t \in Turns, Begin(t) \/ Steps(t)
  PROVE  WorkTogether'
<1>1. /\ Moves(t) /\ Others(t) /\ turn' \in [Turns -> Locals] /\ scene' = scene /\ limit' = limit
      /\ Client(t) \in Clients /\ limit \in Nat \ {0}
      /\ turn[t].uses \in Seq(IdSet) /\ turn[t].todo \in Seq(IdSet) /\ turn'[t].uses \in Seq(IdSet)
  BY StepMoves, StepPlans, Start, ClientIs DEF settings, Locals
<1>2. PICK r \in Sane : StepWrote(t, r) /\ Of(t)' = r
  BY TurnLeaves
<1> DEFINE h == Of(t)
<1>3. h \in Sane /\ (turn[t].pc \in Underway => Firm(h))
  BY <1>1, Start DEF FirmAlone, Of
<1>4. h \in Seq(Msg(Texts, IdSet)) /\ r \in Seq(Msg(Texts, IdSet)) /\ NoText \in Texts
  BY <1>3, MessagesAre DEF Sane
<1>5. \A u \in Turns : AtWork(u)' => u = t
  BY AloneTurn DEF AtWork, At, Live, Ended
<1> DEFINE Work == /\ turn'[t].uses # <<>>
                   /\ turn'[t].pc \in {"results", "forced"} => ToSet(turn'[t].todo) \subseteq ToSet(turn'[t].uses)
                   /\ turn'[t].mark # "over" => /\ Batch(turn'[t].uses, turn'[t].round)
                                                /\ limit >= 2 => Together(t)'
<1>6. ASSUME NEW p \in Nat, NEW done \in Seq(IdSet), NEW todo, todo = IF turn'[t].pc = "head" THEN turn'[t].uses ELSE turn'[t].todo,
             turn'[t].uses = done \o todo, Batched(r, p, turn'[t].uses, done)
      PROVE  Together(t)'
  <2>1. Todo(t)' = todo
    BY <1>6 DEF Todo, At
  <2>2. Batched(Of(t), p, turn[t].uses, done)'
    BY <1>2, <1>6 DEF Batched
  <2>3. QED  BY <1>6, <2>1, <2>2 DEF Together
<1>7. ASSUME Heads(t), turn'[t].uses # <<>> PROVE Work
  <2>1. Batch(turn'[t].uses, turn'[t].round)
    BY <1>7, IdsBatch DEF Heads
  <2>2. ASSUME limit >= 2 PROVE Together(t)'
    <3>0. Firm(h) /\ \E text \in Turns \cup {NoText} : r = Trimmed(Append(h, Answer(text, turn'[t].uses)))
      <4>1. turn[t].pc \in {"sent", "asked"} /\ turn'[t].pc = "head" /\ Firm(h)
        BY <1>3, <1>7 DEF Heads, Underway
      <4>2. QED  BY <1>2, <4>1 DEF StepWrote
    <3>1. PICK text \in Turns \cup {NoText} : r = Trimmed(Append(h, Answer(text, turn'[t].uses)))
      BY <3>0
    <3>2. r # <<>> /\ Last(r).uses = turn'[t].uses /\ Last(r).results = <<>>
      <4> DEFINE uses == turn'[t].uses
      <4>1. uses \in Seq(IdSet) /\ r = Trimmed(Append(Of(t), Answer(text, uses))) /\ Firm(Of(t))
        BY <1>1, <3>0, <3>1
      <4> HIDE DEF uses
      <4>2. r # <<>> /\ Last(r).uses = uses /\ Last(r).results = <<>>
        BY ONLY TypeInv, t \in Turns, <2>2, <4>1, AnswerLast
      <4>3. QED  BY <4>2 DEF uses
    <3>3. Len(r) \in Nat /\ Len(r) \in DOMAIN r
      BY <1>4, <3>2
    <3>4. Batched(r, Len(r), turn'[t].uses, <<>>)
      BY <3>2, <3>3 DEF Batched, Last
    <3>5. <<>> \in Seq(IdSet) /\ turn'[t].uses = <<>> \o turn'[t].uses /\ turn'[t].pc = "head"
      BY <1>1, <1>7 DEF Heads
    <3>6. QED  BY <1>6, <3>3, <3>4, <3>5
  <2>3. turn'[t].pc = "head"
    BY <1>7 DEF Heads
  <2> HIDE DEF h
  <2>4. QED  BY <1>7, <2>1, <2>2, <2>3
<1>8. ASSUME Takes(t), turn'[t].pc \in {"results", "forced"} PROVE Work
  <2>1. turn[t].uses # <<>> /\ turn'[t].uses = turn[t].uses /\ turn'[t].todo = turn[t].uses
        /\ turn'[t].mark = turn[t].mark /\ turn'[t].round = turn[t].round
    BY <1>8 DEF Takes
  <2>2. ASSUME turn'[t].mark # "over" PROVE Batch(turn'[t].uses, turn'[t].round) /\ (limit >= 2 => Together(t)')
    <3>1. turn[t].pc = "head"
      BY <1>8, <2>1, <2>2 DEF Takes, BatchInv
    <3>2. Batch(turn[t].uses, turn[t].round) /\ (limit >= 2 => Together(t))
      BY <2>1, <2>2, <3>1 DEF GapInv, WorkTogether, AtWork, At
    <3>3. r = h
      BY <1>2, <3>1 DEF StepWrote
    <3>4. ASSUME limit >= 2 PROVE Together(t)'
      <4>1. PICK p \in Nat, done \in Seq(IdSet) : turn[t].uses = done \o turn[t].uses /\ Batched(h, p, turn[t].uses, done)
        BY <3>1, <3>2, <3>4 DEF Together, Todo, At
      <4>2. QED  BY <1>6, <1>8, <2>1, <3>3, <4>1
    <3>5. QED  BY <2>1, <3>2, <3>4
  <2>3. QED  BY <1>8, <2>1, <2>2
<1>9. ASSUME Adds(t), turn[t].pc \in {"results", "forced"} PROVE Work
  <2>1. /\ turn[t].todo # <<>> /\ turn'[t].uses = turn[t].uses /\ turn'[t].round = turn[t].round
        /\ turn'[t].pc = turn[t].pc
        /\ turn'[t].todo = Tail(turn[t].todo) \/ (turn'[t].todo = <<>> /\ turn'[t].mark = "over")
        /\ turn[t].mark = "over" => turn'[t].mark = "over"
    BY <1>9 DEF Adds, BatchInv
  <2>2. /\ turn[t].uses # <<>> /\ ToSet(turn[t].todo) \subseteq ToSet(turn[t].uses)
        /\ turn[t].mark # "over" => Batch(turn[t].uses, turn[t].round) /\ (limit >= 2 => Together(t))
    BY <1>9 DEF GapInv, WorkTogether, AtWork
  <2>3. Head(turn[t].todo) \in IdSet /\ Tail(turn[t].todo) \in Seq(IdSet)
        /\ turn[t].todo = <<Head(turn[t].todo)>> \o Tail(turn[t].todo)
    BY <1>1, <2>1
  <2>4. ToSet(turn'[t].todo) \subseteq ToSet(turn[t].todo)
    <3>1. ToSet(<<>>) = {}
      BY ToSetIs, <<>> \in Seq(IdSet)
    <3>2. \A k \in DOMAIN Tail(turn[t].todo) : k + 1 \in DOMAIN turn[t].todo /\ Tail(turn[t].todo)[k] = turn[t].todo[k + 1]
      BY <1>1, <2>1
    <3>3. ToSet(Tail(turn[t].todo)) \subseteq ToSet(turn[t].todo)
      BY <3>2 DEF ToSet
    <3>4. QED  BY <2>1, <3>1, <3>3
  <2>5. ASSUME turn'[t].mark # "over", limit >= 2 PROVE Together(t)'
    <3>1. Together(t) /\ turn'[t].todo = Tail(turn[t].todo)
      BY <2>1, <2>2, <2>5
    <3>2. PICK p \in Nat, done \in Seq(IdSet) : turn[t].uses = done \o turn[t].todo /\ Batched(h, p, turn[t].uses, done)
      BY <1>9, <3>1 DEF Together, Todo, At
    <3> DEFINE id == Head(turn[t].todo)
               more == Append(done, id)
    <3>3. r = add_tool_result(h, id)
      BY <1>2, <1>9, <2>1 DEF StepWrote
    <3>4. more \in Seq(IdSet) /\ turn[t].uses = more \o Tail(turn[t].todo)
      <4>1. more \in Seq(IdSet)
        BY <2>3
      <4>2. done \o turn[t].todo = Append(done, Head(turn[t].todo)) \o Tail(turn[t].todo)
        BY ONLY <1>1, <2>1, done \in Seq(IdSet), HeadMoves
      <4>3. QED  BY <3>2, <4>1, <4>2
    <3>5. Batched(r, p, turn[t].uses, more)
      BY <1>4, <2>3, <3>2, <3>3, AddResultBatch
    <3> HIDE DEF more
    <3>6. turn'[t].pc # "head"
      BY <1>9, <2>1
    <3>7. QED  BY <1>6, <2>1, <3>1, <3>4, <3>5, <3>6
  <2>6. QED  BY <2>1, <2>2, <2>4, <2>5
<1>10. ASSUME AtWork(t)' PROVE Work
  <2>1. turn'[t].pc \in {"head", "results", "forced"} /\ (turn'[t].pc = "head" => turn'[t].uses # <<>>)
    BY <1>10 DEF AtWork, At
  <2>2. \/ Heads(t) /\ turn'[t].uses # <<>>
        \/ Takes(t) /\ turn'[t].pc \in {"results", "forced"}
        \/ Adds(t) /\ turn[t].pc \in {"results", "forced"}
    BY <1>1, <2>1 DEF Moves, Goes, Heads, Retries, Takes, Adds, Stops, Ended
  <2> HIDE DEF Work
  <2>3. QED  BY <1>7, <1>8, <1>9, <2>2
<1>11. \A u \in Turns : AtWork(u)' =>
         /\ turn'[u].uses # <<>>
         /\ turn'[u].pc \in {"results", "forced"} => ToSet(turn'[u].todo) \subseteq ToSet(turn'[u].uses)
         /\ turn'[u].mark # "over" => /\ Batch(turn'[u].uses, turn'[u].round)
                                      /\ limit' >= 2 => Together(u)'
  BY <1>1, <1>5, <1>10
<1>12. QED  BY <1>11 DEF WorkTogether, Batch

\* The batch that goes out with the next request has its results, if three messages may stay.
LEMMA BatchInTurn ==
  ASSUME TypeInv, CourseInv, FirmAlone, LengthInv, GapInv, scene.alone, NEW t \in Turns, Begin(t) \/ Steps(t)
  PROVE  \A u \in Turns : BatchIn(u)'
<1>1. /\ Moves(t) /\ Others(t) /\ turn' \in [Turns -> Locals] /\ scene' = scene /\ limit' = limit
      /\ Client(t) \in Clients /\ limit \in Nat \ {0} /\ turn[t].uses \in Seq(IdSet)
  BY StepMoves, StepPlans, Start, ClientIs DEF settings, Locals
<1>2. PICK r \in Sane : StepWrote(t, r) /\ Of(t)' = r
  BY TurnLeaves
<1> DEFINE h == Of(t)
           uses == turn[t].uses
<1>3. h \in Sane /\ (turn[t].pc \in Underway => Firm(h)) /\ Tidy(h) /\ UsedOnce(h)
  BY <1>1, Start DEF FirmAlone, LengthInv, GapInv, AskedOnce, Of
<1>4. h \in Seq(Msg(Texts, IdSet)) /\ r \in Seq(Msg(Texts, IdSet)) /\ Sound(h)
  BY <1>3, MessagesAre DEF Sane
<1>5. ASSUME turn[t].pc = "results", turn'[t].pc = "ask", limit >= 3 PROVE ToSet(uses) \subseteq Results(r) \ Flaws(r)
  <2>1. turn[t].todo = <<>> /\ r = trim_history(h, limit) /\ turn[t].mark # "over"
    BY <1>1, <1>2, <1>5 DEF StepWrote, Trimmed, Moves, Goes, Heads, Retries, Takes, Adds, Stops, Ended
  <2>2. ToSet(uses) \subseteq Results(h) \ Flaws(h)
    BY <1>1, <1>5, <2>1, BatchThere
  <2>3. PICK p \in Nat : Batched(h, p, uses, uses)
    BY <1>1, <1>5, <2>1, BatchThere
  <2>4. uses # <<>>
    BY <1>5 DEF GapInv, WorkTogether, AtWork
  <2>5. Firm(h)
    BY <1>3, <1>5 DEF Underway
  <2> HIDE DEF h, uses
  <2>6. p + 1 = Len(h) /\ h[p + 1].results = uses /\ h[p].uses = uses /\ p \in DOMAIN h
    BY <2>3, <2>4 DEF Batched
  <2>7. Len(h) >= 2 /\ Len(h) \in DOMAIN h /\ Last(h).results = uses /\ h[Len(h) - 1].uses = uses
    BY <1>4, <2>6 DEF Last
  <2>8. Last(h).uses = <<>>
    BY <1>3, <1>4, <2>4, <2>7 DEF Tidy, Sound, Last
  <2>9. r # <<>> /\ Last(r) = Last(h)
    BY <1>1, <1>4, <1>5, <2>1, <2>5, <2>7, <2>8, TrimLast
  <2>10. ToSet(uses) \subseteq Results(r)
    <3>1. Len(r) \in DOMAIN r /\ r[Len(r)].results = uses
      BY <1>4, <2>7, <2>9 DEF Last
    <3>2. QED  BY <3>1, BlocksAre
  <2>11. Flaws(r) \subseteq Flaws(h)
    BY <1>1, <1>3, <1>4, <2>1, <2>5, TrimFlaws
  <2>12. QED  BY <2>2, <2>10, <2>11
<1>6. ASSUME turn'[t].pc \in {"ask", "asked"}, turn'[t].tries = 0, limit >= 3
      PROVE  ToSet(turn'[t].uses) \subseteq Results(r) \ Flaws(r)
  <2>1. Goes(t)
    BY <1>1, <1>6 DEF Moves, Heads, Retries, Takes, Adds, Stops, Ended
  <2>2. turn'[t].uses = uses /\ turn[t].tries = 0
    BY <1>6, <2>1 DEF Goes, Same
  <2>3. CASE turn[t].pc = "results" /\ turn'[t].pc = "ask"
    BY <1>5, <1>6, <2>2, <2>3
  <2>4. CASE turn[t].pc = "ask"
    <3>1. ToSet(uses) \subseteq Results(h) \ Flaws(h)
      BY <1>6, <2>2, <2>4 DEF GapInv, BatchIn
    <3>2. r = h
      BY <1>2, <2>4 DEF StepWrote
    <3>3. QED  BY <2>2, <3>1, <3>2
  <2>5. turn[t].pc # "repair"
    BY <2>2 DEF TypeInv, At
  <2>6. QED  BY <1>6, <2>1, <2>3, <2>4, <2>5 DEF Goes
<1>7. \A u \in Turns : turn'[u].pc \in {"ask", "asked"} => u = t
  BY AloneTurn DEF Live, Ended
<1> HIDE DEF h
<1>8. \A u \in Turns :
        turn'[u].pc \in {"ask", "asked"} /\ turn'[u].tries = 0 /\ limit' >= 3 =>
          ToSet(turn'[u].uses) \subseteq Results(Of(u)') \ Flaws(Of(u)')
  BY <1>1, <1>2, <1>6, <1>7
<1>9. QED  BY <1>8 DEF BatchIn

\* A step of a turn keeps what is said of the gaps.
LEMMA GapTurn ==
  ASSUME TypeInv, CourseInv, FirmAlone, LengthInv, BatchInv, GapInv, NEW t \in Turns, Begin(t) \/ Steps(t)
  PROVE  GapInv'
<1>1. scene' = scene
  BY StepPlans DEF settings
<1>2. ASSUME scene.alone
      PROVE  OnceInv' /\ AskedOnce' /\ PlansStand' /\ GapsExcused' /\ SentPlain' /\ WorkTogether' /\ \A u \in Turns : BatchIn(u)'
  <2>1. OneCompaction
    BY <1>2, AloneTurn DEF OneCompaction
  <2>2. OnceInv
    BY <1>2 DEF GapInv
  <2>3. OnceInv'
    BY <2>1, <2>2, OnceTurn
  <2>4. QED  BY <1>2, <2>3, AskedTurn, PlansTurn, GapsTurn, SentPlainTurn, WorkTurn, BatchInTurn
<1>3. QED  BY <1>1, <1>2 DEF GapInv

\* When users wait for each other, a command that writes or sets the limit
\* finds no turn under way, and leaves no compaction waiting that it has not
\* just begun.
LEMMA AloneCommands ==
  ASSUME TypeInv, CourseInv, scene.alone, Commands
  PROVE  /\ history' # history => plan'[Command] = None
         /\ history' # history \/ limit' # limit => \A t \in Turns : ~Live(t)
         /\ OneCompaction
<1>1. plan \in [Turns \cup {Command} -> Plans \cup {None}]
  BY DEF TypeInv, TypeOK
<1>2. history' # history => plan'[Command] = None
  <2>1. CASE NewConversation \/ LoadSession
    BY <2>1 DEF NewConversation, LoadSession, Issue, Quiet
  <2>2. CASE ApplyLimit
    BY <2>2 DEF ApplyLimit, CourseInv
  <2>3. CASE CompactDone
    BY <1>1, <2>3 DEF CompactDone
  <2>4. CASE CancelMessage \/ SetLimit \/ CompactCommand
    BY <2>4 DEF CancelMessage, SetLimit, CompactCommand
  <2>5. QED  BY <2>1, <2>2, <2>3, <2>4 DEF Commands
<1>3. limit' # limit => \A t \in Turns : ~Live(t)
  <2>1. CASE SetLimit
    BY <2>1 DEF SetLimit, Issue, Quiet
  <2>2. CASE CancelMessage \/ NewConversation \/ LoadSession \/ ApplyLimit \/ CompactCommand \/ CompactDone
    BY <2>2 DEF CancelMessage, NewConversation, LoadSession, ApplyLimit, CompactCommand, CompactDone, settings
  <2>3. QED  BY <2>1, <2>2 DEF Commands
<1>4. \A t \in Turns : plan[t] # None => Live(t)
  BY DEF CourseInv, Live, At, Ended
<1>5. OneCompaction
  BY <1>4 DEF OneCompaction, CourseInv
<1>6. QED  BY <1>2, <1>3, <1>5, CommandFrame

\* What a command leaves in the history of the application has no flaw that was not there.
LEMMA CommandLeaves ==
  ASSUME TypeInv, CourseInv, FirmAlone, LengthInv, GapInv, scene.alone, Commands
  PROVE  \A c \in Clients : /\ UsedOnce(history'[c]) /\ Uses(history'[c]) \subseteq Uses(history[c])
                            /\ Flaws(history'[c]) \subseteq Flaws(history[c])
<1>1. history \in [Clients -> Sane] /\ limit \in Nat \ {0} /\ "main" \in Clients
  BY HistoryIsSane, LimitIs DEF TypeInv, Clients
<1> DEFINE h == history["main"]
<1>2. PICK r \in Sane :
        /\ Wrote("main", r)
        /\ \/ r = h
           \/ r = <<>> \/ r = Trimmed(Saved) \/ r = Trimmed(h)
           \/ plan[Command] # None /\ r = Compacted(h, plan[Command], "summary")
  BY CommandWrites
<1>3. history'["main"] = r /\ \A c \in Clients : c # "main" => history'[c] = history[c]
  BY <1>1, <1>2, WriteEffect DEF Wrote
<1>4. h \in Sane /\ (h = <<>> \/ Firm(h)) /\ Tidy(h) /\ UsedOnce(h)
  BY <1>1 DEF FirmAlone, LengthInv, GapInv, AskedOnce
<1>5. plan[Command] # None => Len(h) > Recent /\ plan[Command].before = Len(h) /\ plan[Command].keep = ToKeep(h)
  BY DEF GapInv, PlansStand, Compacts
<1> HIDE DEF h
<1> DEFINE Part(g) == UsedOnce(g) /\ Uses(g) \subseteq Uses(h) /\ Flaws(g) \subseteq Flaws(h)
<1>6. h \in Seq(Msg(Texts, IdSet)) /\ Sound(h) /\ r \in Seq(Msg(Texts, IdSet))
  BY <1>4, MessagesAre DEF Sane
<1>7. ASSUME NEW g \in Sane, Bare(g) PROVE Part(g)
  <2>1. Flaws(g) = {} /\ Uses(g) = {}
    BY <1>7, MessagesAre, FlawsWithin DEF Bare, Sane
  <2>2. UsedOnce(g)
    BY <2>1, BlocksAre DEF UsedOnce
  <2>3. QED  BY <2>1, <2>2
<1>8. ASSUME r = h PROVE Part(r)
  BY <1>4, <1>8
<1>9. ASSUME r = <<>> PROVE Part(r)
  BY <1>7, <1>9, EmptyBare
<1>10. ASSUME r = Trimmed(Saved) PROVE Part(r)
  <2>1. Heir(Trimmed(Saved), Saved)
    BY <1>1, MessagesAre, SavedSane, TrimHeir DEF Sane, Trimmed
  <2>2. Bare(Trimmed(Saved))
    BY <1>10, <2>1, SavedSane, SavedBare, HeirClear
  <2>3. QED  BY <1>7, <1>10, <2>2
<1>11. ASSUME r = Trimmed(h) PROVE Part(r)
  <2>1. CASE h = <<>>
    BY <1>1, <1>4, <1>11, <2>1, EmptyStays DEF Trimmed
  <2>2. CASE Firm(h)
    <3>1. Comes(r, h) /\ Flaws(r) \subseteq Flaws(h)
      BY <1>1, <1>4, <1>6, <1>11, <2>2, TrimComes, TrimFlaws DEF Trimmed
    <3>2. QED  BY <1>4, <1>6, <3>1, ComesUsedOnce, ComesBlocks
  <2>3. QED  BY <1>4, <2>1, <2>2
<1>12. ASSUME plan[Command] # None, r = Compacted(h, plan[Command], "summary") PROVE Part(r)
  <2> DEFINE p == plan[Command]
  <2>1. Len(h) > Recent /\ p.before = Len(h) /\ p.keep = ToKeep(h)
    BY <1>5, <1>12
  <2>2. h # <<>>
    BY <2>1, RecentAssumption
  <2>3. "summary" \in Texts /\ "summary" # NoText
    BY NamesAssumption DEF Texts
  <2> HIDE DEF p
  <2>4. Part(Compacted(h, p, "summary"))
    BY <1>4, <1>6, <2>1, <2>2, <2>3, CompactedFlaws
  <2>5. QED  BY <1>12, <2>4 DEF p
<1> HIDE DEF Part
<1>13. Part(r)
  BY <1>2, <1>8, <1>9, <1>10, <1>11, <1>12
<1>14. \A c \in Clients : UsedOnce(history[c])
  BY DEF GapInv, AskedOnce
<1>15. QED  BY <1>3, <1>13, <1>14 DEF Part, h

\* A command leaves nothing badly paired.
LEMMA GapCommands ==
  ASSUME TypeInv, CourseInv, FirmAlone, LengthInv, GapInv, Commands
  PROVE  GapInv'
<1>1. /\ turn' = turn /\ scene' = scene /\ history \in [Clients -> Sane]
      /\ \A u \in Turns : Client(u)' = Client(u) /\ Client(u) \in Clients
      /\ \A p \in Turns \cup {Command} : Compacts(p)' = Compacts(p) /\ Compacts(p) \in Clients
  BY CommandFrame, HistoryIsSane, ClientIs DEF TypeInv, Client, Compacts, Clients
<1>2. ASSUME scene.alone
      PROVE  OnceInv' /\ AskedOnce' /\ PlansStand' /\ GapsExcused' /\ SentPlain' /\ WorkTogether' /\ \A u \in Turns : BatchIn(u)'
  <2>1. /\ history' # history => plan'[Command] = None
        /\ history' # history \/ limit' # limit => \A t \in Turns : ~Live(t)
    BY <1>2, AloneCommands
  <2>2. \A c \in Clients : /\ UsedOnce(history'[c]) /\ Uses(history'[c]) \subseteq Uses(history[c])
                          /\ Flaws(history'[c]) \subseteq Flaws(history[c])
    BY <1>2, CommandLeaves
  <2>3. OnceInv'
    <3>1. OnceInv /\ OneCompaction
      BY <1>2, AloneCommands DEF GapInv
    <3>2. QED  BY <3>1, OnceCommands
  <2>4. AskedOnce'
    BY <1>1, <1>2, <2>2 DEF GapInv, AskedOnce, Yet
  <2>5. PlansStand'
    <3>1. \A p \in Turns : plan[p] # None => Live(p)
      BY DEF CourseInv, Live, At, Ended
    <3>2. ASSUME NEW p \in Turns \cup {Command}, plan'[p] # None
          PROVE  /\ Len(history'[Compacts(p)]) > Recent
                 /\ plan'[p].before = Len(history'[Compacts(p)]) /\ plan'[p].keep = ToKeep(history'[Compacts(p)])
      <4>1. CASE plan'[p] = plan[p]
        <5>1. history' = history
          BY <2>1, <3>1, <3>2, <4>1
        <5>2. QED  BY <1>2, <3>2, <4>1, <5>1 DEF GapInv, PlansStand
      <4>2. CASE p = Command /\ plan'[p] = PlanOf("main") /\ Len(history["main"]) > Recent /\ history' = history
        <5>1. Compacts(p) = "main"
          BY <4>2 DEF Compacts
        <5>2. plan'[p].before = Len(history["main"]) /\ plan'[p].keep = ToKeep(history["main"])
          BY <4>2 DEF PlanOf
        <5>3. QED  BY <4>2, <5>1, <5>2
      <4>3. QED  BY <3>2, <4>1, <4>2, CommandPlans
    <3>3. QED  BY <1>1, <3>2 DEF PlansStand
  <2>6. GapsExcused'
    <3>1. ASSUME NEW c \in Clients, NEW id \in Flaws(history'[c])
          PROVE  Excused(id) \/ (AtWork(id[1]) /\ Client(id[1]) = c /\ id \in ToSet(turn[id[1]].uses))
      BY <1>2, <2>2, <3>1 DEF GapInv, GapsExcused
    <3>2. \A c \in Clients : \A id \in Flaws(history'[c]) : id[1] \in Turns
      <4>1. ASSUME NEW c \in Clients, NEW id \in Flaws(history'[c]) PROVE id[1] \in Turns
        <5>1. id \in Flaws(history[c]) /\ history[c] \in Seq(Msg(Texts, IdSet))
          BY <1>1, <2>2, <4>1, MessagesAre DEF Sane
        <5>2. id \in IdSet
          BY <5>1, FlawsWithin
        <5>3. QED  BY <5>2 DEF IdSet
      <4>2. QED  BY <4>1
    <3>3. QED  BY <1>1, <3>1, <3>2 DEF GapsExcused, Excused, AtWork, At
  <2>7. SentPlain' /\ WorkTogether' /\ \A u \in Turns : BatchIn(u)'
    <3>1. CASE history' = history /\ limit' = limit
      <4>1. \A u \in Turns : Of(u)' = Of(u) /\ (AtWork(u)' <=> AtWork(u)) /\ (Together(u)' <=> Together(u))
        <5>1. \A u \in Turns : Of(u)' = Of(u) /\ (AtWork(u)' <=> AtWork(u)) /\ Todo(u)' = Todo(u)
          BY <1>1, <3>1 DEF Of, AtWork, At, Todo
        <5>2. \A u \in Turns : Together(u)' <=> Together(u)
          BY <1>1, <5>1 DEF Together, Batched
        <5>3. QED  BY <5>1, <5>2
      <4>2. SentPlain'
        BY <1>1, <1>2, <4>1 DEF GapInv, SentPlain, At
      <4>3. WorkTogether'
        BY <1>1, <1>2, <3>1, <4>1 DEF GapInv, WorkTogether, Batch
      <4>4. \A u \in Turns : BatchIn(u)'
        BY <1>1, <1>2, <3>1, <4>1 DEF GapInv, BatchIn
      <4>5. QED  BY <4>2, <4>3, <4>4
    <3>2. CASE history' # history \/ limit' # limit
      <4>1. \A u \in Turns : turn'[u].pc \in Ended \cup {"idle"}
        BY <1>1, <2>1, <3>2 DEF Live
      <4>2. QED  BY <4>1 DEF SentPlain, WorkTogether, BatchIn, AtWork, At, Ended
    <3>3. QED  BY <3>1, <3>2
  <2>8. QED  BY <2>3, <2>4, <2>5, <2>6, <2>7
<1>3. QED  BY <1>1, <1>2 DEF GapInv

\* There is no gap at the start.
LEMMA GapInit == Init => GapInv
<1> SUFFICES ASSUME Init PROVE GapInv
  OBVIOUS
<1>1. /\ \A c \in Clients : history[c] = <<>>
      /\ \A p \in Turns \cup {Command} : plan[p] = None
      /\ \A t \in Turns : turn[t] = Idle("idle", "none")
  BY DEF Init
<1>2. \A t \in Turns : turn[t].pc = "idle"
  BY <1>1 DEF Idle
<1>3. Uses(<<>>) = {} /\ Flaws(<<>>) = {} /\ UsedOnce(<<>>)
  BY BlocksAre DEF UsedOnce
<1>4. OnceInv
  BY OnceInit
<1>5. QED
  BY <1>1, <1>2, <1>3, <1>4 DEF GapInv, AskedOnce, PlansStand, GapsExcused, SentPlain, WorkTogether, AtWork, At, BatchIn

\* Every step keeps what is said of the gaps.
LEMMA GapNext ==
  TypeInv /\ CourseInv /\ FirmAlone /\ LengthInv /\ BatchInv /\ GapInv /\ [Next]_vars => GapInv'
<1>1. ASSUME UNCHANGED vars, GapInv PROVE GapInv'
  <2>1. \A t \in Turns : Of(t)' = Of(t) /\ (Together(t)' <=> Together(t))
    BY <1>1 DEF vars, Of, Client, Together, Todo, At, Batched
  <2>2. OnceInv => OnceInv'
    BY <1>1 DEF vars, OnceInv, Spent, Unspent, Fresh, Compacts, Client
  <2>3. AskedOnce /\ PlansStand /\ GapsExcused => (AskedOnce /\ PlansStand /\ GapsExcused)'
    BY <1>1 DEF vars, AskedOnce, Yet, PlansStand, Compacts, Client, GapsExcused, Excused, AtWork, At
  <2>4. SentPlain /\ WorkTogether /\ (\A t \in Turns : BatchIn(t))
          => (SentPlain /\ WorkTogether)' /\ \A t \in Turns : BatchIn(t)'
    BY <1>1, <2>1 DEF vars, SentPlain, WorkTogether, AtWork, At, Batch, BatchIn
  <2>5. QED  BY <1>1, <2>2, <2>3, <2>4 DEF GapInv, vars
<1>2. QED  BY <1>1, GapTurn, GapCommands DEF Next

(* When users wait for each other, a block of a request that is badly      *)
(* paired is left from a turn that was cut short or went past the output   *)
(* limit: with any limit on the history, and through every trim,           *)
(* compaction, repair, refusal and command.                                *)
THEOREM GapsAreExcused == Spec => []GapsComeFromCutTurns
<1>1. ASSUME TypeInv, CourseInv, GapInv PROVE GapsComeFromCutTurns
  <2>1. ASSUME NEW t \in Turns, scene.alone, Asking(t), NEW id \in Flaws(Of(t)) PROVE Excused(id)
    <3>1. Live(t) /\ ~AtWork(t)
      BY <2>1 DEF Asking, At, AtWork, Live, Ended
    <3>2. Of(t) = history[Client(t)] /\ Client(t) \in Clients
      BY ClientIs DEF Of
    <3>3. Excused(id) \/ AtWork(id[1])
      BY <1>1, <2>1, <3>2 DEF GapInv, GapsExcused
    <3>4. id[1] \in Turns
      <4>1. Of(t) \in Seq(Msg(Texts, IdSet))
        BY <1>1, Start, MessagesAre DEF Sane
      <4>2. id \in IdSet
        BY <2>1, <4>1, FlawsWithin
      <4>3. QED  BY <4>2 DEF IdSet
    <3>5. AtWork(id[1]) => Live(id[1])
      BY DEF AtWork, At, Live, Ended
    <3>6. QED  BY <1>1, <2>1, <3>1, <3>3, <3>4, <3>5 DEF CourseInv
  <2>2. QED  BY <2>1 DEF GapsComeFromCutTurns, Excused
<1>2. TypeInv /\ CourseInv /\ GapInv => GapsComeFromCutTurns
  BY <1>1
<1>3. QED
  BY <1>2, TypeInit, TypeNext, CourseInit, CourseNext, OpensInit, FirmNext, LengthInit, LengthNext,
     BatchInit, BatchNext, GapInit, GapNext, PTL DEF Spec

(* When users wait for each other, the results of a batch all reach the    *)
(* model, each right after the use it answers: provided that               *)
(* max_history_messages lets three messages stay, the first, the answer    *)
(* and its results.  At two, the trim after the batch keeps the results    *)
(* without the answer, and the cleaning strips them.                       *)
THEOREM BatchesReachTheModel ==
  ASSUME \A n \in Limits : n >= 3
  PROVE  Spec => []BatchReachesModel
<1>1. TypeInv /\ GapInv => BatchReachesModel
  BY DEF TypeInv, TypeOK, GapInv, BatchIn, BatchReachesModel, At
<1>2. QED
  BY <1>1, TypeInit, TypeNext, CourseInit, CourseNext, OpensInit, FirmNext, LengthInit, LengthNext,
     BatchInit, BatchNext, GapInit, GapNext, PTL DEF Spec
=============================================================================
