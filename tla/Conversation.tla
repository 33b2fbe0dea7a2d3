---------------------------- MODULE Conversation ----------------------------
(***************************************************************************)
(* The conversation history of a ClaudeClient (claude.rs) as a sequence of *)
(* messages, and the functions that cut, clean and repair it.              *)
(*                                                                         *)
(* A message is kept as far as those functions look into it: who wrote it, *)
(* whose text it carries (a turn, a summary, nobody's), the ids of the     *)
(* tools it asks for and the ids of the tools it answers.  The results of  *)
(* a batch share one message, in the order they were added.                *)
(***************************************************************************)
EXTENDS Naturals, Sequences, FiniteSets, SequencesExt

CONSTANTS
  NoText,   \* a message without a text block
  Recent    \* COMPACT_PRESERVE_RECENT

ASSUME RecentAssumption == Recent \in Nat \ {0}

Message(role, text, uses, results) ==
  [role |-> role, text |-> text, uses |-> uses, results |-> results]

UserText(text)          == Message("user", text, <<>>, <<>>)
Answer(text, uses)      == Message("assistant", text, uses, <<>>)
ToolResult(id)          == Message("user", NoText, <<>>, <<id>>)

\* The elements of s at the places in S, in the order they have in s.
Nth(S, n)  == CHOOSE k \in S : Cardinality({j \in S : j <= k}) = n
Only(s, S) == [n \in 1..Cardinality(S) |-> s[Nth(S, n)]]

Uses(h)    == UNION {ToSet(h[k].uses)    : k \in DOMAIN h}
Results(h) == UNION {ToSet(h[k].results) : k \in DOMAIN h}

-----------------------------------------------------------------------------
(* Cleaning *)

\* while history.first() is an assistant message: history.remove(0)
DropLeading(h) == Only(h, {k \in DOMAIN h : \E j \in 1..k : h[j].role = "user"})

(* Mutant: nothing is in flight. *)
InFlight_none(h) == {}

\* the tool uses of the last assistant message, which may still be in flight
InFlight(h) ==
  LET asked == {k \in DOMAIN h : h[k].role = "assistant"}
  IN  UNION {ToSet(h[k].uses) : k \in {k \in asked : \A j \in asked : j <= k}}

Less(s, ids) == Only(s, {k \in DOMAIN s : s[k] \notin ids})

Without(m, ids) == [m EXCEPT !.uses = Less(@, ids), !.results = Less(@, ids)]

Blank(m) == m.text = NoText /\ m.uses = <<>> /\ m.results = <<>>

Stripped(h, ids) == [k \in DOMAIN h |-> Without(h[k], ids)]

(* Mutant: a message that lost its last block stays. *)
Strip_blank(h, ids) == Stripped(h, ids)

\* Strips the blocks of those ids; a message that loses its last block goes.
Strip(h, ids) ==
  Only(Stripped(h, ids), {k \in DOMAIN h : LET m == Without(h[k], ids) IN m = h[k] \/ ~Blank(m)})

\* The orphans are looked for in the whole history, not side by side.
sanitize_history(history) ==
  LET h == DropLeading(history)
  IN  DropLeading(Strip(h, (Results(h) \ Uses(h)) \cup ((Uses(h) \ Results(h)) \ InFlight(h))))

(* Mutants: only the newest messages stay; one message too many does. *)
trim_history_tail(h, max) == IF Len(h) > max THEN SubSeq(h, Len(h) - max + 1, Len(h)) ELSE h

trim_history_loose(h, max) ==
  IF Len(h) > max
  THEN sanitize_history(<<h[1]>> \o SubSeq(h, Len(h) - max, Len(h)))
  ELSE h

\* The first message stays, the oldest of the others go.
trim_history(h, max) ==
  IF Len(h) > max
  THEN sanitize_history(<<h[1]>> \o SubSeq(h, Len(h) - max + 2, Len(h)))
  ELSE h

-----------------------------------------------------------------------------
(* Adding *)

\* The message at the end is one of results.
Joins(h) == h # <<>> /\ Last(h).results # <<>>

\* A result joins the message of results at the end, if there is one.
add_tool_result(h, id) ==
  IF Joins(h)
  THEN [h EXCEPT ![Len(h)].results = Append(@, id)]
  ELSE Append(h, ToolResult(id))

-----------------------------------------------------------------------------
(* The four repairs of a history the provider refuses *)

CompactTo(h, keep) ==
  sanitize_history(IF Len(h) <= keep + 1 THEN h
                   ELSE <<h[1]>> \o SubSeq(h, Len(h) - keep + 1, Len(h)))

(* Mutant: the third repair is the first again. *)
repair_again(strategy, h, keep) ==
  CASE strategy \in {1, 3} -> sanitize_history(h)
    [] strategy = 2 -> CompactTo(h, keep)
    [] strategy = 4 -> IF h = <<>> THEN h ELSE <<h[1]>>

repair(strategy, h, keep) ==
  CASE strategy = 1 -> sanitize_history(h)
    [] strategy = 2 -> CompactTo(h, keep)
    [] strategy = 3 -> DropLeading(Strip(h, Uses(h) \cup Results(h)))
    [] strategy = 4 -> IF h = <<>> THEN h ELSE <<h[1]>>

-----------------------------------------------------------------------------
(* Compaction: what is kept is chosen before the summary is asked for, and *)
(* the history is replaced after it has come.                              *)

\* The number of messages to summarise: back from the wanted split until the
\* first message kept is not one of results; never nothing.
SplitPoint(h) ==
  LET wanted == Len(h) - Recent
      good   == {k \in 1..wanted : h[k + 1].results = <<>>}
  IN  IF good = {} THEN wanted ELSE CHOOSE k \in good : \A j \in good : j <= k

ToKeep(h) == SubSeq(h, SplitPoint(h) + 1, Len(h))

\* What came since is what now lies beyond the length the history had then.
Compacted(h, plan, summary) ==
  <<UserText(summary)>> \o plan.keep \o SubSeq(h, plan.before + 1, Len(h))

-----------------------------------------------------------------------------
(* What a provider asks of a request (external: the service's own check,   *)
(* as the comments and the error texts of claude.rs state it).             *)

Times(id, s) == Cardinality({k \in DOMAIN s : s[k] = id})

\* the uses of message k and how often the message after it answers them
AnsweredNext(h, k, id) == k < Len(h) /\ Times(id, h[k + 1].results) = 1
AskedBefore(h, k, id)  == k > 1 /\ id \in ToSet(h[k - 1].uses)

Flaws(h) ==
  (UNION {{id \in ToSet(h[k].uses)   : ~AnsweredNext(h, k, id)} : k \in DOMAIN h})
  \cup
  (UNION {{id \in ToSet(h[k].results) : ~AskedBefore(h, k, id)} : k \in DOMAIN h})

Opens(h) == h # <<>> /\ h[1].role = "user"

\* n messages at most, but for one of results at the end
Excess(h)  == IF Joins(h) THEN 1 ELSE 0
Fits(h, n) == Len(h) <= n + Excess(h)
=============================================================================
