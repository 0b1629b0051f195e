----------------------------- MODULE Conversation -----------------------------
(***************************************************************************)
(* The messages exchanged with the model (core/llm.rs), and their form on  *)
(* the wire (repo-explorer-llm lib.rs).                                    *)
(*                                                                         *)
(* The content of a message is what it shows of the repository: findings,  *)
(* or lines of a file. Prompts, nudges and errors show nothing. Some       *)
(* providers have no ids for calls: the name of the tool is the id then,   *)
(* so that several calls may have the same.                                *)
(***************************************************************************)
EXTENDS Findings

NoId == "no id"

Message(role, calls, id, content) == [role |-> role, calls |-> calls, id |-> id, content |-> content]

SystemMessage == Message("system", <<>>, NoId, <<>>)

UserMessage == Message("user", <<>>, NoId, <<>>)

AssistantText == Message("assistant", <<>>, NoId, <<>>)

AssistantToolCalls(calls) ==
  Message("assistant", [k \in DOMAIN calls |-> [id |-> calls[k].id, name |-> calls[k].name]], NoId, <<>>)

ToolMessage(id, content) == Message("tool", <<>>, id, content)

-----------------------------------------------------------------------------
(* What a turn adds.                                                       *)

\* push_nudge, after text.
Nudge == <<AssistantText, UserMessage>>

FinishCalls(calls) == Picked(calls, {k \in DOMAIN calls : calls[k].name = "finish"})

OtherCalls(calls) == Picked(calls, {k \in DOMAIN calls : calls[k].name # "finish"})

\* Mutant of CallsAnswered: a finish call that was rejected stays without an answer.
OthersAnswered(calls, shown) ==
  <<AssistantToolCalls(calls)>>
    \o [k \in DOMAIN OtherCalls(calls) |-> ToolMessage(OtherCalls(calls)[k].id, shown[k])]

\* Calls none of which finished: resolve_finish's rejections come first, then
\* the results of the others, of which the k-th shows shown[k].
CallsAnswered(calls, shown) ==
  <<AssistantToolCalls(calls)>>
    \o [k \in DOMAIN FinishCalls(calls) |-> ToolMessage(FinishCalls(calls)[k].id, <<>>)]
    \o [k \in DOMAIN OtherCalls(calls) |-> ToolMessage(OtherCalls(calls)[k].id, shown[k])]

-----------------------------------------------------------------------------
(* On the wire.                                                            *)

\* The tool behind an id, by the last call that has it.
FnNames(messages) ==
  LET calls == FlattenSeq([i \in DOMAIN messages |-> messages[i].calls])
      lastOf(id) == CHOOSE k \in DOMAIN calls :
                      calls[k].id = id /\ \A j \in DOMAIN calls : calls[j].id = id => j <= k
  IN  [id \in {calls[k].id : k \in DOMAIN calls} |-> calls[lastOf(id)].name]

\* to_genai_message: a result names the tool whose call it answers.
ToGenaiMessage(m, names) ==
  [role |-> m.role, calls |-> m.calls,
   result |-> [id |-> m.id, name |-> IF m.id \in DOMAIN names THEN names[m.id] ELSE Missing]]

\* merge_consecutive_tool_messages: a message opens one of the request unless it is
\* a tool's after another tool's; one that a tool's opens has the results of all.
MergeConsecutiveToolMessages(mapped) ==
  LET tool(i) == mapped[i].role = "tool"
      opening == InOrder({i \in DOMAIN mapped : ~(tool(i) /\ i > 1 /\ tool(i - 1))})
      merged(i) == {j \in DOMAIN mapped : i <= j /\ \A l \in i .. j : tool(l)}
      results(i) == [k \in 1 .. Cardinality(merged(i)) |-> mapped[i + k - 1].result]
  IN  [k \in DOMAIN opening |-> [calls |-> mapped[opening[k]].calls, results |-> results(opening[k])]]

ToGenaiMessages(messages) ==
  MergeConsecutiveToolMessages(
    [i \in DOMAIN messages |-> ToGenaiMessage(messages[i], FnNames(messages))])

\* from_genai_response: Missing for an answer of neither calls nor text, an
\* error like any other.
FromGenaiResponse(reply) ==
  IF reply.calls = <<>> /\ ~reply.text THEN Missing ELSE reply

\* usage_from and total, 0 if nothing is reported; a count is Missing or an
\* integer.
UsageFrom(usage) ==
  LET count(n) == IF n = Missing THEN 0 ELSE Upper(n, 0)
  IN  count(usage.prompt) + count(usage.completion)

\* What a provider's API accepts: each message with calls is followed by one
\* with their results, as many for an id as it has calls, and there are no
\* other results.
WellFormed(request) ==
  LET with(s, x) == {k \in DOMAIN s : s[k] = x}
  IN  \A i \in DOMAIN request :
        /\ request[i].calls # <<>> =>
             /\ i < Len(request)
             /\ LET results == request[i + 1].results
                IN  \A x \in Range(request[i].calls) \cup Range(results) :
                      Cardinality(with(request[i].calls, x)) = Cardinality(with(results, x))
        /\ request[i].results # <<>> => i > 1 /\ request[i - 1].calls # <<>>
=============================================================================
