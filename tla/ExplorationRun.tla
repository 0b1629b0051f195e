---------------------------- MODULE ExplorationRun ----------------------------
(***************************************************************************)
(* One exploration from its ranked candidates to its answer: the early     *)
(* exit, verification by the model, by the local judge or by both, and the *)
(* fallback, a loop of the model and its tools or an offline synthesis     *)
(* (agent.rs run from stage 3 on, verify.rs, judge_verify.rs).             *)
(*                                                                         *)
(* The provider behind the router answers what it likes, out of Replies:   *)
(* an error, text, or calls of tools. The local judge thinks what it       *)
(* likes, out of Opinions. The files may be edited between any two steps.  *)
(* The texts of prompts, notes and summaries are left out.                 *)
(***************************************************************************)
EXTENDS Dispatch, LocalJudge, Requests, Brief

CONSTANTS
  Configs, Env,    \* configurations, and the environment they are valid in
  Requested,       \* requests, of module Requests
  Outcomes,        \* what stage 2 may come to: [candidates, confidence, exact, unique]
  Disks,           \* states of the files, see module Findings
  Architectures,   \* what get_architecture may answer: Missing, or lines of module Brief
  Replies,         \* Missing for an error, or [calls, text, usage]: calls of module
                   \* Dispatch, whether there is text, tokens of the prompt and the answer
  Opinions,        \* what the judge may think of each candidate, permille
  SeedCandidates,  \* SEED_CANDIDATES
  OfflineMax,      \* OFFLINE_FALLBACK_MAX_FINDINGS
  MaxRejections,   \* MAX_SINGLE_CALL_REJECTIONS
  MaxEdits,        \* bounds the edits
  MaxCounted       \* calls are counted so far

ASSUME ConfigsAreValid == \A c \in Configs : IsConfig(c) /\ Validate(c, Env) = "valid"
ASSUME CountsAreNat == {MaxCounted, SeedCandidates, OfflineMax} \subseteq Nat

\* What the types of the source say of requests, candidates, files, calls and opinions.
ASSUME RequestsAreTyped == \A r \in Requested : r.max = Missing \/ r.max \in Nat
ASSUME OutcomesAreTyped == \A o \in Outcomes : AreCandidates(o.candidates)
ASSUME DisksAreTyped ==
  \A d \in Disks :
    /\ IsFiniteSet(DOMAIN d) /\ DOMAIN d \subseteq DOMAIN Plain \cap DOMAIN PathRank
    /\ \A p \in DOMAIN Plain : Plain[p] \in DOMAIN d
    /\ \A p \in DOMAIN d : d[p] = Missing \/ IsList(d[p].lines)
ASSUME RepliesAreTyped ==
  \A r \in Replies : r # Missing =>
    /\ IsList(r.calls)
    /\ \A c \in Range(r.calls) :
         /\ c.name = "finish" /\ FinishFindings(c) # Missing =>
              /\ IsList(FinishFindings(c))
              /\ \A f \in Range(FinishFindings(c)) : IsLocation(f.loc) /\ f.text = Authored
         /\ c.name \in {"grep", "find"} /\ Accepted(c) =>
              Given(c.args, "max_results") = Missing \/ Given(c.args, "max_results") \in Nat
\* Calls of one id are calls of one tool: an id is unique, or it is the tool's name.
ASSUME IdsNameTools ==
  \A r, s \in Replies \ {Missing} : \A c \in Range(r.calls), d \in Range(s.calls) :
    c.id = d.id => c.name = d.name
ASSUME ArchitecturesAreTyped ==
  \A a \in Architectures : a # Missing =>
    /\ IsList(a)
    /\ \A line \in Range(a) :
         /\ IsList(line.cols) /\ IsList(line.cells)
         /\ \A cell \in Range(line.cells) : cell.size \in Nat /\ cell.num \in Nat
ASSUME OpinionsAreTyped ==
  \A opinion \in Opinions, o \in Outcomes : \A i \in DOMAIN o.candidates : opinion[i] \in Nat

\* The labels of module Findings, with and without an answer of the model.
Verified == {"exact", "overlap", "disjoint", "judge-escalated"}

Escalated == {"llm-escalated", "both-escalated"}

ASSUME MissingIsNoLabel == Missing \notin Verified \cup Escalated
ASSUME MissingIsNoSet == \A o \in Outcomes : \A S \in SUBSET DOMAIN o.candidates : S # Missing

VARIABLES
  query, outcome,  \* chosen at the start, as config is
  disk,
  pc,         \* "gate", "verify", "loop", "offline" or "over"
  llm,        \* verification by the model
  judge,      \* verification by the local judge
  scores,     \* escalate_scores
  agreement,  \* metrics.shadow_agreement
  messages,   \* the conversation of the verification or the loop
  brief,      \* the length of the repository brief, Missing if there is none
  loop,       \* the fallback loop: [turn, strikes, findings]
  spent,      \* TokenBudget.spent
  answer,     \* how it ended: [by, raw, findings]
  seen,       \* history: the states of the files since the start
  asked,      \* history: the calls of the router, and those of them that were
  late,       \* begun when the budget was spent
  edits

chosen == <<config, query, outcome>>
talk == <<messages, brief>>
judging == <<call, worker>>
history == <<asked, late>>
vars == <<chosen, disk, pc, llm, judge, judging, scores, agreement, talk, loop, spent, answer,
          seen, history, edits>>

Settings == config.agent

Mode == config.judge.mode

Providers == config.providers # <<>>

Candidates == outcome.candidates

-----------------------------------------------------------------------------
(* Endings.                                                                *)

\* Verified locations and the end of the run, by whatever stage.
Cap == ResponseCap(Settings.cap, Settings.detailedCap, query.detailed)

Answered(by, raw) ==
  [by |-> by, raw |-> raw, findings |-> TidyAndTruncate(raw, Cap, query.max)]

\* finalize_and_complete, and the only error.
Complete(by, raw) == pc' = "over" /\ answer' = Answered(by, raw)

Fail == pc' = "over" /\ answer' = [by |-> "error", raw |-> <<>>, findings |-> <<>>]

\* Stage 5.
Escalate ==
  /\ pc' = IF Settings.fallback = "off" THEN "offline" ELSE "loop"
  /\ UNCHANGED answer

-----------------------------------------------------------------------------
(* Stage 3.                                                                *)

\* early_exit_route.
Route ==
  IF Candidates = <<>> THEN Missing
  ELSE IF outcome.confidence >= Settings.earlyExit /\ outcome.exact THEN "confidence"
  ELSE IF Settings.skipVerify /\ outcome.unique # Missing THEN "unique-symbol" ELSE Missing

Early == Answered("early", FindingsIn(VerifiedFindings(Candidates, disk)))

\* Mutant of Authorized: any finding will do, on either route.
AuthorizedByAny == Route # Missing /\ Early.findings # <<>>

\* The route by one symbol is void if that very candidate is not in the answer.
Authorized ==
  CASE Route = "unique-symbol" -> CandidateSurvived(Early.findings, Candidates[outcome.unique])
    [] Route = "confidence" -> Early.findings # <<>>
    [] OTHER -> FALSE

\* How a conversation begins: the system's part and the query with its candidates.
Prompts == <<SystemMessage, UserMessage>>

\* The verifiers that a mode starts.
Verifying ==
  /\ pc' = "verify"
  /\ messages' = IF Mode = "laya" THEN <<>> ELSE Prompts
  /\ llm' = [llm EXCEPT !.at = IF Mode = "laya" THEN "none" ELSE "asking"]
  /\ judge' = [judge EXCEPT !.at = IF Mode = "off" THEN "none" ELSE "rendering"]
  /\ UNCHANGED answer

Gate ==
  /\ pc = "gate"
  /\ \/ /\ Authorized
        /\ Complete("early", Early.raw)
        /\ UNCHANGED <<llm, judge, messages>>
     \/ /\ ~Authorized
        /\ outcome.confidence >= Settings.fallbackConfidence /\ Candidates # <<>>
        /\ Verifying
     \/ /\ ~Authorized
        /\ outcome.confidence < Settings.fallbackConfidence \/ Candidates = <<>>
        /\ Escalate
        /\ UNCHANGED <<llm, judge, messages>>
  /\ UNCHANGED <<chosen, disk, judging, scores, agreement, brief, loop, spent, seen, history, edits>>

-----------------------------------------------------------------------------
(* Calls of the model.                                                     *)

Exhausted == Settings.tokenBudget # 0 /\ spent >= Settings.tokenBudget

\* What the provider makes of the model's answer, Missing for an error.
Response(reply) == IF reply = Missing THEN Missing ELSE FromGenaiResponse(reply)

CallsOf(reply) == IF Response(reply) = Missing THEN <<>> ELSE reply.calls

\* TokenBudget::add, after the answer to a call; what is beyond the budget makes
\* no difference.
Charge(reply) ==
  /\ spent' = IF Response(reply) = Missing
              THEN spent
              ELSE Lower(spent + UsageFrom(reply.usage), Settings.tokenBudget)
  /\ asked' = Lower(asked + 1, MaxCounted)
  /\ late' = IF Exhausted THEN Lower(late + 1, MaxCounted) ELSE late

Finishes(reply) ==
  LET calls == FinishCalls(CallsOf(reply))
  IN  [k \in DOMAIN calls |-> FinishFindings(calls[k])]

Lenient(reply, cands) ==
  FirstResult([k \in DOMAIN Finishes(reply) |-> ParseFinishLenient(Finishes(reply)[k], disk, cands)])

\* What a turn adds to the conversation, its other calls showing so much.
TurnMessages(reply, shown) ==
  IF CallsOf(reply) = <<>> THEN Nudge ELSE CallsAnswered(CallsOf(reply), shown)

VerifyTurns == Upper(1, Settings.maxVerify)

\* A turn of verify. Its last turn, or one begun without budget, only asks for
\* finish; what it answers is read the same way, and turns go on without budget.
VerifyTurn(reply) ==
  /\ llm.at = "asking"
  /\ LET result == ResolveFinish(Finishes(reply), disk, Candidates)
         ends == Response(reply) = Missing \/ llm.turn + 1 = VerifyTurns
         others == OtherCalls(CallsOf(reply))
         shown == [k \in DOMAIN others |-> Expanded(others[k], Candidates, disk)]
     IN  IF result # Missing
         THEN /\ llm' = [at |-> "finished", turn |-> llm.turn + 1, findings |-> result]
              /\ messages' = <<>>
         ELSE /\ llm' = [llm EXCEPT !.at = IF ends THEN "escalated" ELSE "asking", !.turn = @ + 1]
              /\ messages' = IF ends THEN <<>> ELSE messages \o TurnMessages(reply, shown)
  /\ Charge(reply)
  /\ UNCHANGED <<chosen, disk, pc, judge, judging, scores, agreement, brief, loop, answer, seen, edits>>

-----------------------------------------------------------------------------
(* The local judge.                                                        *)

Unjudged == [at |-> "none", scores |-> Missing, findings |-> <<>>, selected |-> {}]

States == RenderJudgeStates(Candidates, disk)

\* Without a state there is nothing to ask.
JudgeAsked(opinion) ==
  /\ judge.at = "rendering"
  /\ IF States = <<>>
     THEN judge' = [judge EXCEPT !.at = "escalated"] /\ UNCHANGED judging
     ELSE judge' = [judge EXCEPT !.at = "asked"] /\ AskJudge(States, opinion)
  /\ UNCHANGED <<chosen, disk, pc, llm, scores, agreement, talk, loop, spent, answer, seen, history,
                 edits>>

JudgeWorks ==
  /\ judge.at = "asked"
  /\ JudgeSteps
  /\ UNCHANGED <<chosen, disk, pc, llm, judge, scores, agreement, talk, loop, spent, answer, seen,
                 history, edits>>

\* judge_verify, after the call.
JudgeAnswers ==
  /\ judge.at = "asked" /\ call.at \in {"answered", "failed"}
  /\ LET given == [i \in DOMAIN Candidates |-> ScoreOf(i)]
         selected == SelectIndices(given, config.judge.threshold)
         verified == VerifiedFindings([k \in DOMAIN selected |-> Candidates[selected[k]]], disk)
     IN  judge' = IF call.at = "failed"
                  THEN [judge EXCEPT !.at = "failed"]
                  ELSE [at |-> IF verified = <<>> THEN "escalated" ELSE "finished",
                        scores |-> given,
                        findings |-> FindingsIn(verified),
                        selected |-> {selected[verified[k].at] : k \in DOMAIN verified}]
  /\ UNCHANGED <<chosen, disk, pc, llm, judging, scores, agreement, talk, loop, spent, answer, seen,
                 history, edits>>

-----------------------------------------------------------------------------
(* The end of stage 4.                                                     *)

LlmDone == llm.at \in {"finished", "escalated"}

JudgeDone == judge.at \in {"finished", "escalated", "failed"}

\* What becomes of the model's verification.
SettleLlm ==
  IF llm.at = "finished" THEN Complete("verify", llm.findings) ELSE Escalate

SettleOff ==
  /\ Mode = "off" /\ LlmDone
  /\ SettleLlm
  /\ UNCHANGED <<llm, scores, agreement, messages>>

\* Mutant of SettleLaya: a judge that failed is always replaced by the model.
SettleLayaByModel ==
  /\ Mode = "laya" /\ JudgeDone
  /\ \/ /\ judge.at = "finished"
        /\ Complete("judge", judge.findings)
        /\ UNCHANGED <<llm, scores, messages>>
     \/ /\ judge.at = "escalated"
        /\ Escalate
        /\ scores' = judge.scores
        /\ UNCHANGED <<llm, messages>>
     \/ /\ judge.at = "failed" /\ llm.at = "none"
        /\ llm' = [llm EXCEPT !.at = "asking"]
        /\ messages' = Prompts
        /\ UNCHANGED <<pc, scores, answer>>
     \/ /\ judge.at = "failed" /\ LlmDone
        /\ SettleLlm
        /\ UNCHANGED <<llm, scores, messages>>
  /\ UNCHANGED agreement

\* A judge that escalates hands its scores on if it gave any; one that failed is
\* replaced by the model, if there is one.
SettleLaya ==
  /\ Mode = "laya" /\ JudgeDone
  /\ \/ /\ judge.at = "finished"
        /\ Complete("judge", judge.findings)
        /\ UNCHANGED <<llm, scores, messages>>
     \/ /\ judge.at = "escalated"
        /\ Escalate
        /\ scores' = judge.scores
        /\ UNCHANGED <<llm, messages>>
     \/ /\ judge.at = "failed" /\ Providers /\ llm.at = "none"
        /\ llm' = [llm EXCEPT !.at = "asking"]
        /\ messages' = Prompts
        /\ UNCHANGED <<pc, scores, answer>>
     \/ /\ judge.at = "failed" /\ LlmDone
        /\ SettleLlm
        /\ UNCHANGED <<llm, scores, messages>>
     \/ /\ judge.at = "failed" /\ ~Providers
        /\ Escalate
        /\ UNCHANGED <<llm, scores, messages>>
  /\ UNCHANGED agreement

\* record_judge_outcome: what a judge that did not fail has selected.
JudgeSelected == IF judge.at = "finished" THEN judge.selected ELSE Missing

\* Mutant of SettleShadow: the scores of the judge are handed on here too.
SettleShadowWithScores ==
  /\ Mode = "shadow" /\ LlmDone /\ JudgeDone
  /\ agreement' = Missing
  /\ SettleLlm
  /\ scores' = judge.scores
  /\ UNCHANGED <<llm, messages>>

\* Both have verified; the judge is compared, and the model's answer counts.
SettleShadow ==
  /\ Mode = "shadow" /\ LlmDone /\ JudgeDone
  /\ agreement' =
       IF judge.at = "failed"
       THEN Missing
       ELSE Agreement(IF llm.at = "finished" THEN OverlapSet(Candidates, llm.findings) ELSE Missing,
                      JudgeSelected)
  /\ SettleLlm
  /\ UNCHANGED <<llm, scores, messages>>

\* What the judge said is of no use to a later stage, but for the scores.
Settle ==
  /\ pc = "verify"
  /\ SettleOff \/ SettleLaya \/ SettleShadow
  /\ IF pc' = "verify"
     THEN UNCHANGED <<judge, call>>
     ELSE judge' = Unjudged /\ call' = NoCall
  /\ UNCHANGED <<chosen, disk, worker, brief, loop, spent, seen, history, edits>>

-----------------------------------------------------------------------------
(* Stage 5.                                                                *)

OfflineFallback ==
  /\ pc = "offline"
  /\ Complete("offline", OfflineFindings(Candidates, scores, disk, OfflineMax))
  /\ UNCHANGED <<chosen, disk, llm, judge, judging, scores, agreement, talk, loop, spent, seen, history,
                 edits>>

Seeds == SubSeq(Candidates, 1, Lower(SeedCandidates, Len(Candidates)))

\* repo_brief of an answer of get_architecture.
BriefOf(architecture) ==
  IF architecture = Missing THEN Missing ELSE RenderBrief(architecture, Settings.brief.maxTokens)

\* The loop begins, with a brief if that is wanted and a turn can make use of it.
OpenLoop ==
  /\ pc = "loop" /\ messages = <<>>
  /\ LET wanted == /\ Settings.brief.enabled /\ Settings.brief.maxTokens # 0
                   /\ ~Exhausted /\ Settings.maxFallback # 0
     IN  brief' \in IF wanted THEN {BriefOf(a) : a \in Architectures} ELSE {Missing}
  /\ messages' = IF brief' = Missing THEN Prompts ELSE <<SystemMessage>> \o Prompts
  /\ UNCHANGED <<chosen, disk, pc, llm, judge, judging, scores, agreement, loop, spent, answer, seen,
                 history, edits>>

\* Mutant of Looping: the budget is not tested before a turn.
LoopingUnbudgeted == pc = "loop" /\ messages # <<>> /\ loop.turn < Settings.maxFallback

Looping ==
  /\ pc = "loop" /\ messages # <<>>
  /\ loop.turn < Settings.maxFallback
  /\ ~Exhausted

\* A lone call of another tool than finish, so often.
Rejected(reply) ==
  /\ Len(CallsOf(reply)) = 1 /\ Len(OtherCalls(CallsOf(reply))) = 1
  /\ loop.strikes < MaxRejections

\* What the other calls of a turn show, each of its own state of the files.
ShownOf(reply, disks) ==
  LET others == OtherCalls(CallsOf(reply))
      shown(k) == IF Rejected(reply) THEN <<>> ELSE Dispatched(others[k], disks[k], Settings.cap)
  IN  [k \in DOMAIN others |-> shown(k)]

\* Mutant of NextLoop: the findings of a turn replace those of earlier turns.
NextLoopForgets(reply, shown) ==
  [turn |-> loop.turn + 1,
   strikes |-> CASE Rejected(reply) -> loop.strikes + 1
                 [] ~Rejected(reply) /\ OtherCalls(CallsOf(reply)) # <<>> -> 0
                 [] OTHER -> loop.strikes,
   findings |-> Accumulate(<<>>, FindingsShown(FlattenSeq(shown)))]

\* The loop after a turn that did not finish: calls are executed, a lone one is
\* rejected, and an answer without a call is a turn like any other.
NextLoop(reply, shown) ==
  [turn |-> loop.turn + 1,
   strikes |-> CASE Rejected(reply) -> loop.strikes + 1
                 [] ~Rejected(reply) /\ OtherCalls(CallsOf(reply)) # <<>> -> 0
                 [] OTHER -> loop.strikes,
   findings |-> Accumulate(loop.findings, FindingsShown(FlattenSeq(shown)))]

\* A turn. The memo of tool results may answer a call with what was true earlier,
\* so that a call sees the files as they were at some time of the run.
LoopTurn(reply) ==
  /\ Looping
  /\ LET result == ResolveFinish(Finishes(reply), disk, Seeds)
     IN  \/ /\ Response(reply) = Missing
            /\ Fail
            /\ UNCHANGED <<loop, messages>>
         \/ /\ result # Missing
            /\ Complete("loop", result)
            /\ UNCHANGED <<loop, messages>>
         \/ /\ Response(reply) # Missing /\ result = Missing
            /\ \E disks \in [DOMAIN OtherCalls(CallsOf(reply)) -> seen] :
                 /\ loop' = NextLoop(reply, ShownOf(reply, disks))
                 /\ messages' = messages \o TurnMessages(reply, ShownOf(reply, disks))
            /\ UNCHANGED <<pc, answer>>
  /\ Charge(reply)
  /\ UNCHANGED <<chosen, disk, llm, judge, judging, scores, agreement, brief, seen, edits>>

\* What is left without a finish: what was gathered and the candidates as they are.
Synthesis ==
  Accumulate(loop.findings, [i \in DOMAIN Candidates |-> FindingOf(Candidates[i])])

\* forced_finish when turns or tokens are used up. Whatever it says, the run ends.
ForcedFinish(reply) ==
  /\ pc = "loop" /\ messages # <<>> /\ ~Looping
  /\ messages' = Append(messages, UserMessage)
  /\ LET result == Lenient(reply, Seeds)
     IN  IF result # Missing THEN Complete("loop", result) ELSE Complete("stopped", Synthesis)
  /\ Charge(reply)
  /\ UNCHANGED <<chosen, disk, llm, judge, judging, scores, agreement, brief, loop, seen, edits>>

-----------------------------------------------------------------------------

Edit(d) ==
  /\ edits < MaxEdits
  /\ d # disk
  /\ pc # "over"
  /\ disk' = d
  /\ seen' = seen \cup {d}
  /\ edits' = edits + 1
  /\ UNCHANGED <<chosen, pc, llm, judge, judging, scores, agreement, talk, loop, spent, answer, history>>

Init ==
  /\ config \in Configs /\ outcome \in Outcomes
  /\ query \in QueriesOf(Requested)
  /\ disk \in Disks
  /\ pc = "gate"
  /\ llm = [at |-> "none", turn |-> 0, findings |-> <<>>]
  /\ judge = Unjudged
  /\ call = NoCall
  /\ worker \in IF config.judge.backend = "candle" THEN {"none", "ready", "failed", "gone"} ELSE {"none"}
  /\ scores = Missing /\ agreement = Missing
  /\ messages = <<>> /\ brief = Missing
  /\ loop = [turn |-> 0, strikes |-> 0, findings |-> <<>>]
  /\ spent = 0
  /\ answer = Missing
  /\ seen = {disk}
  /\ asked = 0 /\ late = 0 /\ edits = 0

Step ==
  \/ Gate
  \/ \E opinion \in Opinions : JudgeAsked(opinion)
  \/ JudgeWorks
  \/ JudgeAnswers
  \/ \E reply \in Replies : VerifyTurn(reply) \/ LoopTurn(reply) \/ ForcedFinish(reply)
  \/ Settle
  \/ OfflineFallback
  \/ OpenLoop

\* A run that is over stays so; before that a run always has a step, or TLC would
\* report a deadlock.
Over == pc = "over" /\ UNCHANGED vars

Next ==
  \/ Step
  \/ \E d \in Disks : Edit(d)
  \/ Over

Spec == Init /\ [][Next]_vars

(***************************************************************************)
(* A run goes on: providers, the judge and the disk answer or fail, within *)
(* their own timeouts. A step is possible until the run is over, so this   *)
(* is WF_vars(Step), said without ENABLED, which TLC is slow to evaluate.  *)
(***************************************************************************)
Fairness == []<>(pc = "over") \/ []<><<Step>>_vars

FairSpec == Spec /\ Fairness

-----------------------------------------------------------------------------

(***************************************************************************)
(* Every run comes to an answer, or to an error, whatever the model says:  *)
(* answers without a call, lone calls and bad finish calls all use up      *)
(* turns (agent.rs:1678-1800, verify.rs:79-145).                           *)
(***************************************************************************)
Ends == <>(pc = "over")

(***************************************************************************)
(* A run calls the model no more often than its turns allow, and once more *)
(* for the forced finish; with the budget spent, only later turns of the   *)
(* verification and that last call are left (agent.rs:1683, verify.rs:81). *)
(***************************************************************************)
BudgetBoundsCalls ==
  /\ asked <= VerifyTurns + Settings.maxFallback + 1
  /\ late <= VerifyTurns

(***************************************************************************)
(* A configuration without providers never calls the model, and without    *)
(* the loop a run neither fails nor ends in it, whatever becomes of the    *)
(* judge (config.rs:883-891, agent.rs:938-957 and 1020-1042).              *)
(***************************************************************************)
OfflineNeverAsks ==
  /\ ~Providers => asked = 0
  /\ Settings.fallback = "off" /\ pc = "over" => answer.by \notin {"loop", "stopped", "error"}

(***************************************************************************)
(* What an answer cites existed: unless it was put together without a      *)
(* finish, each location lies within a file of the repository as it was at *)
(* some time of the run, and if the model reported it the text was cut at  *)
(* this very place from this very version (dispatch.rs verify_location,    *)
(* tools.rs validate_finding).                                             *)
(***************************************************************************)
AnswersCiteDisk ==
  pc = "over" /\ answer.by \notin {"stopped", "error"} =>
    \A k \in DOMAIN answer.findings : \E d \in seen :
      LET f == answer.findings[k]
          file == d[f.loc.path]
          lines == ResponseOf(answer.findings, answer.by, Candidates).findings[k].lines
      IN  /\ file # Missing /\ ~file.escapes
          /\ lines # Missing =>
               /\ lines[1] \in 1 .. Len(file.lines)
               /\ lines[2] <= Len(file.lines) \/ lines[2] = lines[1]
          /\ answer.by \in {"verify", "loop"} =>
               \/ lines = Missing /\ f.text = Authored
               \/ f.text = CapSnippet(SliceLines(file, f.loc.start, f.loc.end), Cap)

(***************************************************************************)
(* A run that ends early because one symbol alone is trusted answers with  *)
(* that symbol, where the file had its line at some time of the run:       *)
(* others that survived the check on disk and the cuts do not stand in for *)
(* one that did not (agent.rs:801-816, candidate_survived).                *)
(***************************************************************************)
SoleSymbolIsAnswered ==
  pc = "over" /\ answer.by = "early" /\ Route = "unique-symbol" =>
    LET sole == NormalizeLocation(Candidates[outcome.unique].loc)
    IN  \E k \in DOMAIN answer.findings, d \in seen :
          /\ answer.findings[k].loc.path = sole.path /\ answer.findings[k].loc.start = sole.start
          /\ d[sole.path] # Missing /\ ~d[sole.path].escapes
          /\ sole.start <= Len(d[sole.path].lines)

(***************************************************************************)
(* The judge's scores are whole and in place: once it has answered, every  *)
(* candidate with a line has the probability that its own state was given, *)
(* in whatever order the answers came and whoever else waits for the       *)
(* thread; no other candidate has any (lib.rs:69-110, judge_verify.rs).    *)
(***************************************************************************)
JudgedWhole ==
  judge.scores # Missing =>
    \A i \in DOMAIN Candidates :
      judge.scores[i] = IF IsUnknown(Candidates[i].loc) THEN Missing ELSE call.opinion[i]

(***************************************************************************)
(* No request is one that a provider's API turns down: each call of the    *)
(* model has its one result in the very next message, whether it finished  *)
(* badly, was rejected, failed or named no tool, and even when ids repeat  *)
(* (agent.rs:1738-1795, verify.rs:96-129, llm lib.rs to_genai_messages).   *)
(***************************************************************************)
EveryCallIsAnswered ==
  llm.at = "asking" \/ pc = "loop" => WellFormed(ToGenaiMessages(messages))

(***************************************************************************)
(* When the loop is stopped without a finish, nothing is lost: every       *)
(* finding that a call of any turn showed the model is in the answer, and  *)
(* so is every candidate (agent.rs:1788-1795 and 1809-1815).               *)
(***************************************************************************)
SynthesisKeepsWhatWasShown ==
  pc = "over" /\ answer.by = "stopped" =>
    LET shown == FindingsShown(FlattenSeq([k \in DOMAIN messages |-> messages[k].content]))
        kept == {DedupeKey(f) : f \in Range(answer.raw)}
    IN  /\ \A f \in Range(shown) : DedupeKey(f) \in kept
        /\ \A c \in Range(Candidates) : DedupeKey(FindingOf(c)) \in kept

(***************************************************************************)
(* An answer has no finding twice, and duplicates never cost it another    *)
(* one: it holds as many as were found, up to max_results                  *)
(* (agent.rs tidy_and_truncate).                                           *)
(***************************************************************************)
DuplicatesCostNothing ==
  pc = "over" =>
    LET keys(s) == {DedupeKey([f EXCEPT !.loc.path = Plain[@]]) : f \in Range(s)}
        found == Cardinality(keys(answer.raw))
    IN  /\ Len(answer.findings) = IF query.max = Missing THEN found ELSE Lower(query.max, found)
        /\ Cardinality(keys(answer.findings)) = Len(answer.findings)

(***************************************************************************)
(* In shadow mode the judge is only observed: no answer is its own, none   *)
(* is ordered by its scores, and what is recorded of its agreement with    *)
(* the model goes with how the run ended (agent.rs:958-1003).              *)
(***************************************************************************)
ShadowOnlyObserves ==
  Mode = "shadow" /\ pc = "over" =>
    /\ scores = Missing
    /\ answer.by # "judge"
    /\ agreement \in Verified => answer.by = "verify"
    /\ agreement \in Escalated => answer.by \notin {"early", "verify"}

(***************************************************************************)
(* A brief never has more tokens than it may, counted as a whole, though   *)
(* what is added is counted line by line (brief.rs push_if_fits).          *)
(***************************************************************************)
BriefFitsBudget ==
  brief # Missing => EstimateTokens(brief) <= Settings.brief.maxTokens
=============================================================================
