--------------------------- MODULE ExplorationProofs ---------------------------
(***************************************************************************)
(* What a run costs and whom it listens to, for any configurations,        *)
(* requests, candidates, files, answers and opinions: proofs about         *)
(* ExplorationRun.                                                         *)
(***************************************************************************)
EXTENDS ExplorationRun, FindingsProofs

Stages == {"gate", "verify", "loop", "offline", "over"}

\* What the argument needs to know of the shape of the variables.
Shape ==
  /\ config \in Configs /\ outcome \in Outcomes
  /\ pc \in Stages
  /\ asked \in Nat /\ late \in Nat
  /\ llm = [at |-> llm.at, turn |-> llm.turn, findings |-> llm.findings]
  /\ llm.turn \in Nat
  /\ judge = [at |-> judge.at, scores |-> judge.scores, findings |-> judge.findings,
              selected |-> judge.selected]
  /\ loop = [turn |-> loop.turn, strikes |-> loop.strikes, findings |-> loop.findings]
  /\ loop.turn \in Nat

\* The model is asked in its stages only, in laya mode only for a judge that failed,
\* and not at all without a provider.
Asking ==
  /\ llm.at = "none" => llm.turn = 0
  /\ llm.at = "asking" => pc = "verify" /\ llm.turn < VerifyTurns
  /\ llm.turn <= VerifyTurns
  /\ Mode = "laya" /\ pc = "verify" => llm.at = "none" \/ judge.at = "failed"
  /\ ~Providers => llm.at # "asking"
  /\ pc = "gate" => llm.at = "none"
  /\ Settings.fallback = "off" => pc # "loop"

\* Turns pay for calls. The first turn of a verification has the whole budget, and a
\* turn of the loop has some of it left.
Counted ==
  /\ loop.turn <= Settings.maxFallback
  /\ pc \in {"gate", "verify"} /\ llm.turn = 0 => spent = 0
  /\ ~Providers => asked = 0
  /\ pc # "over" => asked <= llm.turn + loop.turn /\ (late = 0 \/ late < llm.turn)
  /\ pc = "over" => BudgetBoundsCalls

Costs == Shape /\ Asking /\ Counted

-----------------------------------------------------------------------------

\* What an accepted configuration says.
LEMMA ConfigFacts ==
  ASSUME config \in Configs
  PROVE  /\ Settings.maxFallback \in Nat /\ Settings.tokenBudget \in Nat
         /\ VerifyTurns \in Nat \ {0}
         /\ ~Providers => Mode = "laya" /\ Settings.fallback = "off"
<1>1. IsConfig(config) /\ Validate(config, Env) = "valid"
  BY ConfigsAreValid
<1>2. /\ Settings.maxFallback \in Nat /\ Settings.tokenBudget \in Nat
      /\ Settings.maxVerify \in Nat
  BY <1>1 DEF IsConfig, AgentSettings, Settings
<1>3. VerifyTurns \in Nat \ {0}
  BY <1>2 DEF VerifyTurns, Upper
<1>4. LlmError(config, Env) = "valid"
  BY <1>1 DEF Validate
<1>5. ~Providers => ~LlmRequired(config)
  BY <1>4 DEF LlmError, Providers
<1> QED
  BY <1>2, <1>3, <1>5 DEF LlmRequired, Mode, Settings

LEMMA CostsAtFirst == Init => Costs
<1> SUFFICES ASSUME Init PROVE Costs
  OBVIOUS
<1> USE DEF Init
<1>1. Shape
  BY DEF Shape, Unjudged, Stages
<1>2. Asking
  BY <1>1, ConfigFacts DEF Asking, Shape
<1>3. Counted
  BY <1>1, ConfigFacts DEF Counted, Shape
<1> QED
  BY <1>1, <1>2, <1>3 DEF Costs

\* The frame of the facts above: a step that changes none of this changes none of them.
costly == <<config, outcome, pc, asked, late, llm, judge, loop, spent>>

LEMMA CostsFramed == Costs /\ UNCHANGED costly => Costs'
BY DEF Costs, Shape, Asking, Counted, BudgetBoundsCalls, costly, Settings, Mode, VerifyTurns, Providers

\* Charging for a call counts it, as late only if the budget was spent.
LEMMA ChargeCounts ==
  ASSUME Shape, NEW reply, Charge(reply)
  PROVE  /\ asked' \in Nat /\ late' \in Nat
         /\ asked' <= asked + 1 /\ late' <= late + 1
         /\ ~Exhausted => late' = late
BY CountsAreNat DEF Shape, Charge, Lower

\* Nothing is exhausted before the first call.
LEMMA FirstIsPaid ==
  ASSUME Shape, spent = 0
  PROVE  ~Exhausted
BY ConfigFacts DEF Shape, Exhausted

LEMMA GateCosts == Costs /\ Gate => Costs'
<1> SUFFICES ASSUME Costs, Gate PROVE Costs'
  OBVIOUS
<1> USE DEF Costs
<1>1. /\ UNCHANGED <<config, outcome, asked, late, loop, spent>>
      /\ pc = "gate" /\ pc' \in {"over", "verify", "loop", "offline"}
      /\ pc' # "verify" => UNCHANGED <<llm, judge>>
      /\ Settings.fallback = "off" => pc' # "loop"
  BY DEF Gate, chosen, history, Complete, Escalate, Verifying
<1>2. pc' = "verify" => /\ llm' = [llm EXCEPT !.at = IF Mode = "laya" THEN "none" ELSE "asking"]
                        /\ judge' = [judge EXCEPT !.at = IF Mode = "off" THEN "none" ELSE "rendering"]
  BY DEF Gate, Complete, Escalate, Verifying
<1>3. llm.at = "none" /\ llm.turn = 0 /\ spent = 0
  BY <1>1 DEF Asking, Counted
<1>4. Shape'
  <2>1. CASE pc' # "verify"
    BY <1>1, <2>1 DEF Shape, Stages
  <2>2. CASE pc' = "verify"
    BY <1>1, <1>2, <2>2 DEF Shape, Stages
  <2> QED
    BY <2>1, <2>2
<1>5. /\ llm'.turn = 0
      /\ llm'.at = "none" \/ (pc' = "verify" /\ Mode # "laya" /\ llm'.at = "asking")
  BY <1>1, <1>2, <1>3 DEF Shape
<1>6. Asking'
  BY <1>1, <1>5, ConfigFacts DEF Asking, Shape, Mode, VerifyTurns, Settings, Providers
<1>7. Counted'
  BY <1>1, <1>3, <1>5, ConfigFacts DEF Counted, Shape, BudgetBoundsCalls, VerifyTurns, Settings, Providers
<1> QED
  BY <1>4, <1>6, <1>7

LEMMA VerifyTurnCosts ==
  ASSUME Costs, NEW reply, VerifyTurn(reply)
  PROVE  Costs'
<1> USE DEF Costs
<1>1. /\ UNCHANGED <<config, outcome, pc, judge, loop>>
      /\ llm.at = "asking" /\ Charge(reply)
  BY DEF VerifyTurn, chosen
<1>2. \/ llm' = [at |-> "finished", turn |-> llm.turn + 1,
                  findings |-> ResolveFinish(Finishes(reply), disk, Candidates)]
      \/ \E at \in {"escalated", "asking"} :
           /\ llm' = [llm EXCEPT !.at = at, !.turn = @ + 1]
           /\ at = "asking" => llm.turn + 1 # VerifyTurns
  BY DEF VerifyTurn
<1> DEFINE TurnTaken ==
      /\ llm' = [at |-> llm'.at, turn |-> llm'.turn, findings |-> llm'.findings]
      /\ llm'.turn = llm.turn + 1
      /\ llm'.at # "none" /\ (llm'.at = "asking" => llm.turn + 1 # VerifyTurns)
<1>3. TurnTaken
  <2>1. CASE llm' = [at |-> "finished", turn |-> llm.turn + 1,
                     findings |-> ResolveFinish(Finishes(reply), disk, Candidates)]
    BY <2>1
  <2>2. ASSUME NEW at \in {"escalated", "asking"},
               llm' = [llm EXCEPT !.at = at, !.turn = @ + 1],
               at = "asking" => llm.turn + 1 # VerifyTurns
        PROVE  TurnTaken
    <3>1. llm' = [at |-> at, turn |-> llm.turn + 1, findings |-> llm.findings]
      BY <2>2 DEF Shape
    <3> QED
      BY <2>2, <3>1
  <2> QED
    BY <1>2, <2>1, <2>2
<1>4. /\ asked' \in Nat /\ late' \in Nat
      /\ asked' <= asked + 1 /\ late' <= late + 1
      /\ ~Exhausted => late' = late
  BY <1>1, ChargeCounts
<1>5. Shape'
  BY <1>1, <1>3, <1>4 DEF Shape
<1>6. pc = "verify" /\ llm.turn < VerifyTurns /\ VerifyTurns \in Nat /\ Providers
  BY <1>1, ConfigFacts DEF Asking, Shape
<1>7. Asking'
  BY <1>1, <1>3, <1>6 DEF Asking, Shape, Mode, VerifyTurns, Settings, Providers
<1>8. late' = 0 \/ late' < llm.turn + 1
  <2>1. CASE llm.turn = 0
    BY <2>1, <1>4, <1>6, FirstIsPaid DEF Counted, Shape
  <2>2. CASE llm.turn # 0
    BY <2>2, <1>4, <1>6 DEF Counted, Shape
  <2> QED
    BY <2>1, <2>2
<1>9. Counted'
  BY <1>1, <1>3, <1>4, <1>6, <1>8 DEF Counted, Shape, Settings, Providers
<1> QED
  BY <1>5, <1>7, <1>9

LEMMA JudgeCosts ==
  ASSUME Costs, (\E opinion \in Opinions : JudgeAsked(opinion)) \/ JudgeAnswers
  PROVE  Costs'
<1> USE DEF Costs
<1>1. UNCHANGED <<config, outcome, pc, llm, loop, spent, asked, late>>
  BY DEF JudgeAsked, JudgeAnswers, chosen, history
<1>2. judge.at # "failed"
  BY DEF JudgeAsked, JudgeAnswers
<1>3. \/ \E at \in {"escalated", "asked", "failed"} : judge' = [judge EXCEPT !.at = at]
      \/ \E at, given, found, chosenOnes :
            judge' = [at |-> at, scores |-> given, findings |-> found, selected |-> chosenOnes]
  <2>1. CASE \E opinion \in Opinions : JudgeAsked(opinion)
    BY <2>1 DEF JudgeAsked
  <2>2. CASE JudgeAnswers
    BY <2>2 DEF JudgeAnswers
  <2> QED
    BY <2>1, <2>2
<1>4. Shape'
  <2>1. judge' = [at |-> judge'.at, scores |-> judge'.scores, findings |-> judge'.findings,
                  selected |-> judge'.selected]
    BY <1>3 DEF Shape
  <2> QED
    BY <1>1, <2>1 DEF Shape
<1>5. Asking' /\ Counted'
  BY <1>1, <1>2 DEF Asking, Counted, BudgetBoundsCalls, Mode, VerifyTurns, Settings, Providers
<1> QED
  BY <1>4, <1>5

\* Where the end of stage 4 leads.
LEMMA EndingsLeave ==
  /\ \A by, raw : Complete(by, raw) => pc' = "over"
  /\ Escalate => pc' \in {"loop", "offline"} /\ (Settings.fallback = "off" => pc' # "loop")
  /\ SettleLlm => pc' \in {"over", "loop", "offline"} /\ (Settings.fallback = "off" => pc' # "loop")
BY DEF Complete, Escalate, SettleLlm

LEMMA SettleCosts == Costs /\ Settle => Costs'
<1> SUFFICES ASSUME Costs, Settle PROVE Costs'
  OBVIOUS
<1> USE DEF Costs
<1>1. /\ UNCHANGED <<config, outcome, asked, late, loop, spent>>
      /\ pc = "verify" /\ pc' \in {"over", "verify", "loop", "offline"}
      /\ pc' = "verify" => judge' = judge
      /\ pc' # "verify" => judge' = Unjudged /\ llm' = llm /\ llm.at # "asking"
      /\ Settings.fallback = "off" => pc' # "loop"
      /\ pc' = "verify" => /\ Mode = "laya" /\ judge.at = "failed" /\ llm.at = "none"
                           /\ llm' = [llm EXCEPT !.at = "asking"] /\ Providers
  <2>1. UNCHANGED <<config, outcome, asked, late, loop, spent>> /\ pc = "verify"
    BY DEF Settle, chosen, history
  <2>2. /\ pc' = "verify" => judge' = judge
        /\ pc' # "verify" => judge' = Unjudged
    BY DEF Settle
  <2>3. CASE SettleOff
    BY <2>1, <2>2, <2>3, EndingsLeave DEF SettleOff, LlmDone
  <2>4. CASE SettleLaya
    <3>1. llm.at = "none" \/ judge.at = "failed"
      BY <2>1, <2>4 DEF SettleLaya, Asking
    <3>2. \/ judge.at \in {"finished", "escalated"} /\ llm' = llm
             /\ pc' \in {"over", "loop", "offline"} /\ (Settings.fallback = "off" => pc' # "loop")
          \/ judge.at = "failed" /\ llm' = llm /\ pc' \in {"over", "loop", "offline"}
             /\ (LlmDone \/ ~Providers) /\ (Settings.fallback = "off" => pc' # "loop")
          \/ /\ judge.at = "failed" /\ llm.at = "none" /\ pc' = pc
             /\ llm' = [llm EXCEPT !.at = "asking"] /\ Providers
      BY <2>4, EndingsLeave DEF SettleLaya
    <3>3. ~Providers => llm.at # "asking"
      BY DEF Asking
    <3> QED
      BY <2>1, <2>2, <2>4, <3>1, <3>2, <3>3 DEF SettleLaya, LlmDone
  <2>5. CASE SettleShadow
    BY <2>1, <2>2, <2>5, EndingsLeave DEF SettleShadow, LlmDone
  <2> QED
    BY <2>1, <2>3, <2>4, <2>5 DEF Settle
<1>2. /\ llm' = [at |-> llm'.at, turn |-> llm'.turn, findings |-> llm'.findings]
      /\ llm'.turn = llm.turn /\ (pc' = "verify" => llm'.at = "asking")
  BY <1>1 DEF Shape
<1>3. Shape'
  BY <1>1, <1>2 DEF Shape, Stages, Unjudged
<1>4. VerifyTurns \in Nat \ {0}
  BY ConfigFacts DEF Shape
<1>5. Asking'
  BY <1>1, <1>2, <1>4 DEF Asking, Shape, Mode, VerifyTurns, Settings, Providers
<1>6. Counted'
  BY <1>1, <1>2, <1>4, ConfigFacts DEF Counted, Asking, Shape, BudgetBoundsCalls, VerifyTurns, Settings, Providers
<1> QED
  BY <1>3, <1>5, <1>6

LEMMA LoopCosts ==
  ASSUME Costs, NEW reply, LoopTurn(reply) \/ ForcedFinish(reply)
  PROVE  Costs'
<1> USE DEF Costs
<1>1. /\ UNCHANGED <<config, outcome, llm, judge>> /\ Charge(reply)
      /\ pc = "loop" /\ pc' \in {"loop", "over"}
      /\ pc' = "loop" => Looping
      /\ pc' = "over" => loop' = loop
  BY DEF LoopTurn, ForcedFinish, chosen, Complete, Fail, Looping
<1>2. pc' = "loop" => \E shown : loop' = NextLoop(reply, shown)
  BY DEF LoopTurn, ForcedFinish, Complete, Fail
<1>3. /\ asked' \in Nat /\ late' \in Nat
      /\ asked' <= asked + 1 /\ late' <= late + 1
      /\ ~Exhausted => late' = late
  BY <1>1, ChargeCounts
<1>4. /\ loop' = [turn |-> loop'.turn, strikes |-> loop'.strikes, findings |-> loop'.findings]
      /\ loop'.turn = IF pc' = "loop" THEN loop.turn + 1 ELSE loop.turn
  BY <1>1, <1>2 DEF NextLoop, Shape
<1>5. Shape'
  BY <1>1, <1>3, <1>4 DEF Shape, Stages
<1>6. Asking'
  BY <1>1 DEF Asking, Shape, Mode, VerifyTurns, Settings, Providers
<1>7. VerifyTurns \in Nat \ {0} /\ Settings.maxFallback \in Nat /\ Providers
  BY <1>1, ConfigFacts DEF Shape, Asking
<1>8. CASE pc' = "loop"
  <2>1. loop.turn < Settings.maxFallback /\ late' = late
    BY <1>1, <1>3, <1>8 DEF Looping
  <2>2. Counted'
    BY <1>1, <1>3, <1>4, <1>7, <1>8, <2>1 DEF Counted, Shape, Settings, Providers
  <2> QED
    BY <1>5, <1>6, <2>2
<1>9. CASE pc' = "over"
  <2>1. asked' <= VerifyTurns + Settings.maxFallback + 1 /\ late' <= VerifyTurns
    BY <1>1, <1>3, <1>7 DEF Counted, Asking, Shape
  <2>2. Counted'
    BY <1>1, <1>4, <1>7, <1>9, <2>1 DEF Counted, Shape, BudgetBoundsCalls, VerifyTurns, Settings, Providers
  <2> QED
    BY <1>5, <1>6, <2>2
<1> QED
  BY <1>1, <1>8, <1>9

LEMMA OfflineCosts == Costs /\ OfflineFallback => Costs'
<1> SUFFICES ASSUME Costs, OfflineFallback PROVE Costs'
  OBVIOUS
<1> USE DEF Costs
<1>1. /\ UNCHANGED <<config, outcome, llm, judge, loop, spent, asked, late>>
      /\ pc = "offline" /\ pc' = "over"
  BY DEF OfflineFallback, chosen, history, Complete
<1>2. Shape' /\ Asking'
  BY <1>1 DEF Shape, Asking, Stages, Mode, VerifyTurns, Settings, Providers
<1>3. VerifyTurns \in Nat \ {0} /\ Settings.maxFallback \in Nat
  BY ConfigFacts DEF Shape
<1>4. Counted'
  BY <1>1, <1>3 DEF Counted, Asking, Shape, BudgetBoundsCalls, VerifyTurns, Settings, Providers
<1> QED
  BY <1>2, <1>4

LEMMA CostsKept == Costs /\ [Next]_vars => Costs'
<1> SUFFICES ASSUME Costs, [Next]_vars PROVE Costs'
  OBVIOUS
<1>1. CASE Gate
  BY <1>1, GateCosts
<1>2. CASE (\E opinion \in Opinions : JudgeAsked(opinion)) \/ JudgeAnswers
  BY <1>2, JudgeCosts
<1>3. CASE JudgeWorks \/ OpenLoop \/ (\E d \in Disks : Edit(d)) \/ Over \/ UNCHANGED vars
  <2>1. UNCHANGED costly
    BY <1>3 DEF JudgeWorks, OpenLoop, Edit, Over, vars, chosen, judging, history, costly, JudgeSteps
  <2> QED
    BY <2>1, CostsFramed
<1>4. ASSUME NEW reply \in Replies, VerifyTurn(reply) PROVE Costs'
  BY <1>4, VerifyTurnCosts
<1>5. ASSUME NEW reply \in Replies, LoopTurn(reply) \/ ForcedFinish(reply) PROVE Costs'
  BY <1>5, LoopCosts
<1>6. CASE Settle
  BY <1>6, SettleCosts
<1>7. CASE OfflineFallback
  BY <1>7, OfflineCosts
<1> QED
  BY <1>1, <1>2, <1>3, <1>4, <1>5, <1>6, <1>7 DEF Next, Step

(***************************************************************************)
(* Whatever the model and the judge answer, a run calls the model at most  *)
(* once a turn and once more to force a finish, and with its tokens spent  *)
(* only where the code does not look (agent.rs:1683, verify.rs:81).        *)
(***************************************************************************)
THEOREM BudgetAlwaysBounds == Spec => []BudgetBoundsCalls
<1>1. Costs => BudgetBoundsCalls
  <2> SUFFICES ASSUME Costs PROVE BudgetBoundsCalls
    OBVIOUS
  <2>1. VerifyTurns \in Nat \ {0} /\ Settings.maxFallback \in Nat
    BY ConfigFacts DEF Costs, Shape
  <2> QED
    BY <2>1 DEF Costs, Counted, Asking, Shape, BudgetBoundsCalls
<1> QED
  BY <1>1, CostsAtFirst, CostsKept, PTL DEF Spec

(***************************************************************************)
(* Whatever becomes of the judge, a configuration without providers never  *)
(* has the model called, and without the loop no run ends in it or in an   *)
(* error; and in shadow mode what the judge says reaches no answer         *)
(* (config.rs:883-891, agent.rs:938-1042).                                 *)
(***************************************************************************)
Heard ==
  /\ Settings.fallback = "off" /\ pc = "over" => answer.by \notin {"loop", "stopped", "error"}
  /\ Mode = "shadow" =>
       /\ scores = Missing
       /\ pc \in {"gate", "verify"} => agreement = Missing
       /\ pc \in {"loop", "offline"} => agreement \notin Verified
  /\ ShadowOnlyObserves

heard == <<config, pc, answer, scores, agreement>>

LEMMA EndingsTell ==
  /\ \A by, raw : Complete(by, raw) => pc' = "over" /\ answer'.by = by
  /\ Fail => pc' = "over" /\ answer'.by = "error"
  /\ Escalate => pc' \in {"loop", "offline"}
  /\ SettleLlm => IF llm.at = "finished" THEN pc' = "over" /\ answer'.by = "verify"
                                        ELSE pc' \in {"loop", "offline"}
BY DEF Complete, Fail, Escalate, SettleLlm, Answered

\* What is recorded of the agreement tells whether the model finished.
LEMMA AgreementTells ==
  ASSUME NEW cands, NEW theirs, NEW findings, NEW finished \in BOOLEAN,
         OverlapSet(cands, findings) # Missing
  PROVE  LET a == Agreement(IF finished THEN OverlapSet(cands, findings) ELSE Missing, theirs)
         IN  /\ a \in Verified => finished
             /\ a \in Escalated => ~finished
BY DEF Agreement, Verified, Escalated

LEMMA HeardFramed == Heard /\ UNCHANGED heard => Heard'
BY DEF Heard, heard, ShadowOnlyObserves, Settings, Mode

LEMMA SettleHeard == Costs /\ Heard /\ Settle => Heard'
<1> SUFFICES ASSUME Costs, Heard, Settle PROVE Heard'
  OBVIOUS
<1>1. config' = config /\ pc = "verify"
  BY DEF Settle, chosen
<1>2. CASE SettleOff
  <2>1. Mode = "off" /\ SettleLlm
    BY <1>2 DEF SettleOff
  <2> QED
    BY <1>1, <2>1, EndingsTell DEF Heard, ShadowOnlyObserves, Settings, Mode
<1>3. CASE SettleLaya
  <2>1. /\ Mode = "laya"
        /\ \/ pc' = "over" /\ answer'.by \in {"judge", "verify"}
           \/ pc' \in {"loop", "offline"}
           \/ pc' = "verify"
    BY <1>1, <1>3, EndingsTell DEF SettleLaya
  <2> QED
    BY <1>1, <2>1 DEF Heard, ShadowOnlyObserves, Settings, Mode
<1>4. CASE SettleShadow
  <2>1. Mode = "shadow" /\ SettleLlm /\ scores' = Missing
    BY <1>4 DEF SettleShadow, Heard
  <2>2. /\ agreement' \in Verified => llm.at = "finished"
        /\ agreement' \in Escalated => llm.at # "finished"
    <3>1. OverlapSet(Candidates, llm.findings) # Missing
      <4>1. OverlapSet(Candidates, llm.findings) \in SUBSET DOMAIN outcome.candidates
        BY DEF OverlapSet, Candidates
      <4>2. outcome \in Outcomes
        BY DEF Costs, Shape
      <4> QED
        BY <4>1, <4>2, MissingIsNoSet
    <3>2. CASE judge.at = "failed"
      BY <1>4, <3>2, MissingIsNoLabel DEF SettleShadow
    <3>3. CASE judge.at # "failed"
      <4> DEFINE finished == llm.at = "finished"
      <4>1. agreement' = Agreement(IF finished THEN OverlapSet(Candidates, llm.findings) ELSE Missing,
                                   JudgeSelected)
        BY <1>4, <3>3 DEF SettleShadow
      <4> QED
        BY <3>1, <4>1, AgreementTells
    <3> QED
      BY <3>2, <3>3
  <2> QED
    BY <1>1, <2>1, <2>2, EndingsTell DEF Heard, ShadowOnlyObserves, Settings, Mode
<1> QED
  BY <1>2, <1>3, <1>4 DEF Settle

LEMMA HeardKept == Costs /\ Heard /\ [Next]_vars => Heard'
<1> SUFFICES ASSUME Costs, Heard, [Next]_vars PROVE Heard'
  OBVIOUS
<1>1. CASE Gate
  <2>1. /\ config' = config /\ scores' = scores /\ agreement' = agreement
        /\ pc = "gate"
        /\ \/ pc' = "over" /\ answer'.by = "early"
           \/ pc' \in {"verify", "loop", "offline"}
    BY <1>1, EndingsTell DEF Gate, Verifying, chosen
  <2> QED
    BY <2>1, MissingIsNoLabel DEF Heard, ShadowOnlyObserves, Settings, Mode
<1>2. CASE \/ \E opinion \in Opinions : JudgeAsked(opinion)
           \/ JudgeWorks \/ JudgeAnswers
           \/ \E reply \in Replies : VerifyTurn(reply)
           \/ OpenLoop \/ (\E d \in Disks : Edit(d)) \/ Over \/ UNCHANGED vars
  <2>1. UNCHANGED heard
    BY <1>2 DEF JudgeAsked, JudgeWorks, JudgeAnswers, VerifyTurn, OpenLoop, Edit, Over, vars, chosen,
                heard
  <2> QED
    BY <2>1, HeardFramed
<1>3. ASSUME NEW reply \in Replies, LoopTurn(reply) \/ ForcedFinish(reply) PROVE Heard'
  <2>1. /\ config' = config /\ scores' = scores /\ agreement' = agreement /\ pc = "loop"
        /\ \/ pc' = "over" /\ answer'.by \in {"loop", "stopped", "error"}
           \/ pc' = "loop"
    <3>1. CASE LoopTurn(reply)
      <4>1. /\ config' = config /\ scores' = scores /\ agreement' = agreement /\ pc = "loop"
            /\ \/ Fail
               \/ \E found : Complete("loop", found)
               \/ UNCHANGED <<pc, answer>>
        BY <3>1 DEF LoopTurn, Looping, chosen
      <4> QED
        BY <4>1, EndingsTell
    <3>2. CASE ForcedFinish(reply)
      <4>1. /\ config' = config /\ scores' = scores /\ agreement' = agreement /\ pc = "loop"
            /\ \E by \in {"loop", "stopped"} : \E found : Complete(by, found)
        BY <3>2 DEF ForcedFinish, chosen
      <4> QED
        BY <4>1, EndingsTell
    <3> QED
      BY <1>3, <3>1, <3>2
  <2>2. Settings.fallback # "off"
    BY <2>1 DEF Costs, Asking
  <2> QED
    BY <2>1, <2>2 DEF Heard, ShadowOnlyObserves, Settings, Mode
<1>4. CASE Settle
  BY <1>4, SettleHeard
<1>5. CASE OfflineFallback
  <2>1. /\ config' = config /\ scores' = scores /\ agreement' = agreement
        /\ pc = "offline" /\ pc' = "over" /\ answer'.by = "offline"
    BY <1>5, EndingsTell DEF OfflineFallback, chosen
  <2> QED
    BY <2>1 DEF Heard, ShadowOnlyObserves, Settings, Mode
<1> QED
  BY <1>1, <1>2, <1>3, <1>4, <1>5 DEF Next, Step

LEMMA HeardAtFirst == Init => Heard
BY DEF Init, Heard, ShadowOnlyObserves

(***************************************************************************)
(* Without providers the router is never called, and without the loop no   *)
(* run fails or ends in it, whatever the judge does (config.rs:883-891,    *)
(* agent.rs:938-957 and 1020-1042).                                        *)
(***************************************************************************)
THEOREM OfflineAsksNobody == Spec => []OfflineNeverAsks
<1>1. Costs /\ Heard => OfflineNeverAsks
  BY DEF Costs, Counted, Heard, OfflineNeverAsks
<1> QED
  BY <1>1, CostsAtFirst, CostsKept, HeardAtFirst, HeardKept, PTL DEF Spec

(***************************************************************************)
(* A judge in the shadow changes no answer, and what is recorded of it is  *)
(* recorded of the run that ended so (agent.rs:958-1003).                  *)
(***************************************************************************)
THEOREM ShadowIsNotHeard == Spec => []ShadowOnlyObserves
<1>1. Heard => ShadowOnlyObserves
  BY DEF Heard
<1> QED
  BY <1>1, CostsAtFirst, CostsKept, HeardAtFirst, HeardKept, PTL DEF Spec

-----------------------------------------------------------------------------
(* The scores of the judge.                                                *)

\* The call under way is about the candidates with a line, and what it has of them
\* is theirs.
CallIsTheirs ==
  LET of(k) == call.states[k].of
  IN  /\ call = [at |-> call.at, states |-> call.states, opinion |-> call.opinion, got |-> call.got]
      /\ call.got = [k \in DOMAIN call.states |-> call.got[k]]
      /\ \A k \in DOMAIN call.states :
           /\ of(k) \in DOMAIN Candidates /\ ~IsUnknown(Candidates[of(k)].loc)
           /\ call.got[k] \in {Missing, call.opinion[of(k)]}
           /\ call.at = "answered" => call.got[k] = call.opinion[of(k)]
      /\ \A i \in DOMAIN Candidates :
           IsUnknown(Candidates[i].loc) \/ \E k \in DOMAIN call.states : of(k) = i

\* Scores come of such a call, and there is no other until they are used.
Judged ==
  /\ judge.at = "asked" => CallIsTheirs
  /\ judge.at # "none" => pc = "verify"
  /\ judge.scores # Missing => judge.at \in {"escalated", "finished"}
  /\ JudgedWhole

LEMMA StatesAreTheirs ==
  ASSUME Shape
  PROVE  /\ \E n \in Nat : DOMAIN States = 1 .. n
         /\ \A k \in DOMAIN States :
              States[k].of \in DOMAIN Candidates /\ ~IsUnknown(Candidates[States[k].of].loc)
         /\ \A i \in DOMAIN Candidates :
              IsUnknown(Candidates[i].loc) \/ \E k \in DOMAIN States : States[k].of = i
<1> DEFINE S == {i \in DOMAIN Candidates : ~IsUnknown(Candidates[i].loc)}
<1>1. PICK n \in Nat : DOMAIN Candidates = 1 .. n
  BY OutcomesAreTyped DEF Shape, Candidates, AreCandidates, IsList
<1>2. S \in SUBSET (1 .. n)
  BY <1>1
<1>3. /\ DOMAIN States = DOMAIN InOrder(S)
      /\ \A k \in DOMAIN InOrder(S) : States[k].of = InOrder(S)[k]
  BY DEF States, RenderJudgeStates
<1>4. /\ Cardinality(S) \in Nat
      /\ InOrder(S) \in [1 .. Cardinality(S) -> S]
      /\ \A x \in S : \E k \in 1 .. Cardinality(S) : InOrder(S)[k] = x
  <2>1. Cardinality(S) \in 0 .. n
    BY <1>2, InOrderLists
  <2>2. InOrder(S) \in [1 .. Cardinality(S) -> S]
    BY <1>2, InOrderLists
  <2>3. \A x \in S : \E k \in 1 .. Cardinality(S) : InOrder(S)[k] = x
    BY <1>2, InOrderLists
  <2> QED
    BY <2>1, <2>2, <2>3
<1> QED
  BY <1>3, <1>4

LEMMA JudgedAtFirst == Init => Judged
BY DEF Init, Judged, JudgedWhole, Unjudged

LEMMA AskedIsTheirs ==
  ASSUME Shape, Judged, NEW opinion, JudgeAsked(opinion)
  PROVE  Judged'
<1>1. /\ UNCHANGED <<config, outcome, pc>> /\ judge.at = "rendering" /\ judge.scores = Missing
      /\ \/ judge' = [judge EXCEPT !.at = "escalated"]
         \/ judge' = [judge EXCEPT !.at = "asked"] /\ AskJudge(States, opinion)
  BY DEF JudgeAsked, chosen, Judged
<1>2. judge'.scores = Missing
  BY <1>1 DEF Shape
<1>3. ASSUME AskJudge(States, opinion) PROVE CallIsTheirs'
  <2>1. /\ call'.states = States /\ call'.opinion = opinion /\ call'.at # "answered"
        /\ call'.got = [k \in DOMAIN States |-> Missing]
        /\ call' = [at |-> call'.at, states |-> call'.states, opinion |-> call'.opinion, got |-> call'.got]
    BY <1>3 DEF AskJudge
  <2>2. Candidates' = Candidates
    BY <1>1 DEF Candidates
  <2> QED
    BY <2>1, <2>2, StatesAreTheirs DEF CallIsTheirs
<1>4. judge'.at = "asked" => CallIsTheirs'
  BY <1>1, <1>3 DEF Shape
<1>5. pc' = "verify"
  BY <1>1 DEF Judged
<1> QED
  BY <1>2, <1>4, <1>5 DEF Judged, JudgedWhole

LEMMA WorksIsTheirs ==
  ASSUME Shape, Judged, JudgeWorks
  PROVE  Judged'
<1>1. UNCHANGED <<config, outcome, pc, judge>> /\ judge.at = "asked" /\ JudgeSteps /\ CallIsTheirs
  BY DEF JudgeWorks, chosen, Judged
<1>2. Candidates' = Candidates
  BY <1>1 DEF Candidates
<1>3. CASE \E at : at # "answered" /\ call' = [call EXCEPT !.at = at]
  BY <1>1, <1>2, <1>3 DEF CallIsTheirs, Judged, JudgedWhole
<1>4. CASE call' = call
  BY <1>1, <1>2, <1>4 DEF CallIsTheirs, Judged, JudgedWhole
<1>5. CASE JudgeStates
  <2>1. call.at = "queued"
    BY <1>5 DEF JudgeStates
  <2>2. CASE call' = [call EXCEPT !.at = "failed"]
    BY <1>1, <1>3, <2>2
  <2>3. CASE call' = [call EXCEPT !.at = "answered",
                                  !.got = [k \in DOMAIN call.states |-> call.opinion[call.states[k].of]]]
    <3>1. call' = [at |-> "answered", states |-> call.states, opinion |-> call.opinion,
                   got |-> [k \in DOMAIN call.states |-> call.opinion[call.states[k].of]]]
      BY <1>1, <2>3 DEF CallIsTheirs
    <3>2. CallIsTheirs'
      BY <1>1, <1>2, <3>1 DEF CallIsTheirs
    <3> QED
      BY <1>1, <3>2 DEF Judged, JudgedWhole
  <2> QED
    BY <1>5, <2>2, <2>3 DEF JudgeStates
<1>6. ASSUME NEW k \in DOMAIN call.states, JudgeOne(k) PROVE Judged'
  <2> DEFINE got == [call.got EXCEPT ![k] = call.opinion[call.states[k].of]]
             at == IF Unanswered(got) = {} THEN "answered" ELSE call.at
  <2>1. call' = [at |-> at, states |-> call.states, opinion |-> call.opinion, got |-> got]
    BY <1>1, <1>6 DEF JudgeOne, CallIsTheirs
  <2>2. /\ got = [j \in DOMAIN call.states |-> got[j]]
        /\ \A j \in DOMAIN call.states : got[j] \in {Missing, call.opinion[call.states[j].of]}
    BY <1>1 DEF CallIsTheirs
  <2>3. call.at # "answered"
    BY <1>6 DEF JudgeOne
  <2>4. at = "answered" => \A j \in DOMAIN call.states : got[j] = call.opinion[call.states[j].of]
    BY <2>2, <2>3 DEF Unanswered
  <2> HIDE DEF got, at
  <2>5. CallIsTheirs'
    BY <1>1, <1>2, <2>1, <2>2, <2>4 DEF CallIsTheirs
  <2> QED
    BY <1>1, <2>5 DEF Judged, JudgedWhole
<1> QED
  BY <1>1, <1>3, <1>4, <1>5, <1>6 DEF JudgeSteps, PostingFails, LoadWorker, SubmitJob, JobTimesOut, WorkerDies

LEMMA ScoreIsTheirs ==
  ASSUME CallIsTheirs, call.at = "answered", NEW i \in DOMAIN Candidates
  PROVE  ScoreOf(i) = IF IsUnknown(Candidates[i].loc) THEN Missing ELSE call.opinion[i]
<1> DEFINE ks == {k \in DOMAIN call.states : call.states[k].of = i}
<1>1. \A k \in ks : call.got[k] = call.opinion[i]
  BY DEF CallIsTheirs
<1>2. ks = {} <=> IsUnknown(Candidates[i].loc)
  BY DEF CallIsTheirs
<1>3. ks # {} => (CHOOSE k \in ks : TRUE) \in ks
  OBVIOUS
<1>4. ScoreOf(i) = IF ks = {} THEN Missing ELSE call.got[CHOOSE k \in ks : TRUE]
  BY DEF ScoreOf
<1> HIDE DEF ks
<1> QED
  BY <1>1, <1>2, <1>3, <1>4

LEMMA AnswersAreTheirs ==
  ASSUME Costs, Judged, JudgeAnswers
  PROVE  Judged'
<1>1. UNCHANGED <<config, outcome, pc, call>> /\ judge.at = "asked" /\ CallIsTheirs
      /\ call.at \in {"answered", "failed"} /\ judge.scores = Missing
  BY DEF JudgeAnswers, chosen, judging, Judged
<1>2. Candidates' = Candidates
  BY <1>1 DEF Candidates
<1>3. CASE call.at = "failed"
  <2>1. judge' = [judge EXCEPT !.at = "failed"]
    BY <1>3 DEF JudgeAnswers
  <2>2. judge'.at = "failed" /\ judge'.scores = Missing
    BY <1>1, <2>1 DEF Costs, Shape
  <2>3. pc' = "verify"
    BY <1>1 DEF Judged
  <2> QED
    BY <2>2, <2>3 DEF Judged, JudgedWhole
<1>4. CASE call.at = "answered"
  <2>1. /\ judge'.at \in {"escalated", "finished"}
        /\ judge'.scores = [i \in DOMAIN Candidates |-> ScoreOf(i)]
    BY <1>4 DEF JudgeAnswers
  <2>2. \A i \in DOMAIN Candidates :
          ScoreOf(i) = IF IsUnknown(Candidates[i].loc) THEN Missing ELSE call.opinion[i]
    BY <1>1, <1>4, ScoreIsTheirs
  <2>3. pc = "verify"
    BY <1>1 DEF Judged
  <2>4. JudgedWhole'
    BY <1>1, <1>2, <2>1, <2>2 DEF JudgedWhole
  <2> QED
    BY <1>1, <2>1, <2>3, <2>4 DEF Judged
<1> QED
  BY <1>1, <1>3, <1>4

LEMMA JudgedFramed ==
  ASSUME Judged, UNCHANGED <<outcome, judge, call>>, pc' = pc \/ judge.at = "none"
  PROVE  Judged'
BY DEF Judged, JudgedWhole, CallIsTheirs, Candidates

LEMMA JudgedKept == Costs /\ Judged /\ [Next]_vars => Judged'
<1> SUFFICES ASSUME Costs, Judged, [Next]_vars PROVE Judged'
  OBVIOUS
<1>1. ASSUME NEW opinion, JudgeAsked(opinion) PROVE Judged'
  BY <1>1, AskedIsTheirs DEF Costs
<1>2. CASE JudgeWorks
  BY <1>2, WorksIsTheirs DEF Costs
<1>3. CASE JudgeAnswers
  BY <1>3, AnswersAreTheirs
<1>4. CASE Gate
  <2>1. /\ UNCHANGED <<outcome, call>> /\ judge.at = "none" /\ judge.scores = Missing
        /\ judge' = judge \/ (pc' = "verify" /\ judge' = [judge EXCEPT !.at = IF Mode = "off" THEN "none" ELSE "rendering"])
    BY <1>4 DEF Gate, chosen, judging, Judged, Verifying
  <2>2. judge'.scores = Missing /\ judge'.at # "asked" /\ (judge'.at # "none" => pc' = "verify")
    BY <2>1 DEF Costs, Shape
  <2> QED
    BY <2>2 DEF Judged, JudgedWhole
<1>5. CASE Settle
  <2>1. CASE pc' = "verify"
    <3>1. UNCHANGED <<outcome, judge, call, pc>>
      BY <1>5, <2>1 DEF Settle, chosen
    <3> QED
      BY <3>1, JudgedFramed
  <2>2. CASE pc' # "verify"
    <3>1. judge' = Unjudged
      BY <1>5, <2>2 DEF Settle
    <3> QED
      BY <3>1 DEF Judged, JudgedWhole, Unjudged
  <2> QED
    BY <2>1, <2>2
<1>6. CASE \/ \E reply \in Replies : VerifyTurn(reply) \/ LoopTurn(reply) \/ ForcedFinish(reply)
           \/ OfflineFallback \/ OpenLoop \/ (\E d \in Disks : Edit(d)) \/ Over \/ UNCHANGED vars
  <2>1. UNCHANGED <<outcome, judge, call>> /\ (pc' = pc \/ pc # "verify")
    BY <1>6 DEF VerifyTurn, LoopTurn, Looping, ForcedFinish, OfflineFallback, OpenLoop, Edit, Over, vars,
                chosen, judging
  <2> QED
    BY <2>1, JudgedFramed DEF Judged
<1> QED
  BY <1>1, <1>2, <1>3, <1>4, <1>5, <1>6 DEF Next, Step

(***************************************************************************)
(* Whole and in place are the scores of the judge, for any candidates,     *)
(* opinions and numbers of permits, in whatever order answers come         *)
(* (lib.rs:69-110, judge_verify.rs).                                       *)
(***************************************************************************)
THEOREM ScoresAreWhole == Spec => []JudgedWhole
<1>1. Judged => JudgedWhole
  BY DEF Judged
<1> QED
  BY <1>1, CostsAtFirst, CostsKept, JudgedAtFirst, JudgedKept, PTL DEF Spec

-----------------------------------------------------------------------------
\* The first of each key is kept, and nothing else.
LEMMA KeptOnce ==
  ASSUME NEW s, NEW t, AreFindings(s), AreFindings(t)
  PROVE  LET c == Accumulate(s, t)
         IN  /\ AreFindings(c)
             /\ \A f \in Range(c) : f \in Range(s) \cup Range(t)
             /\ \A f \in Range(s) \cup Range(t) : \E k \in DOMAIN c : DedupeKey(c[k]) = DedupeKey(f)
             /\ \A k, l \in DOMAIN c : DedupeKey(c[k]) = DedupeKey(c[l]) => k = l
<1> DEFINE all == s \o t
           n == Len(all)
           isFirst(i) == \A j \in 1 .. i - 1 : DedupeKey(all[j]) # DedupeKey(all[i])
           S == {i \in DOMAIN all : isFirst(i)}
           c == Accumulate(s, t)
<1>1. /\ AreFindings(all) /\ n \in Nat /\ DOMAIN all = 1 .. n /\ \A i \in 1 .. n : IsFinding(all[i])
      /\ Range(all) = Range(s) \cup Range(t)
  BY FindingsAfter, FindingsList
<1>2. c = Picked(all, S)
  BY DEF Accumulate
<1>3. S \in SUBSET (1 .. n)
  BY <1>1
<1>4. \A i \in 1 .. n : \E j \in S : DedupeKey(all[j]) = DedupeKey(all[i])
  <2> SUFFICES ASSUME NEW i \in 1 .. n PROVE \E j \in S : DedupeKey(all[j]) = DedupeKey(all[i])
    OBVIOUS
  <2> DEFINE T == {j \in 1 .. n : DedupeKey(all[j]) = DedupeKey(all[i])}
  <2>1. T \in SUBSET Nat /\ T # {}
    BY <1>1
  <2>2. PICK j \in T : \A l \in T : j <= l
    BY <2>1, LeastNumber
  <2>3. \A l \in 1 .. j - 1 : DedupeKey(all[l]) # DedupeKey(all[j])
    BY <1>1, <2>2
  <2>4. j \in S
    BY <1>1, <2>2, <2>3
  <2> QED
    BY <2>2, <2>4
<1>5. \A i, j \in S : DedupeKey(all[i]) = DedupeKey(all[j]) => i = j
  <2> SUFFICES ASSUME NEW i \in S, NEW j \in S, DedupeKey(all[i]) = DedupeKey(all[j]) PROVE i = j
    OBVIOUS
  <2>1. i \in 1 .. n /\ j \in 1 .. n /\ isFirst(i) /\ isFirst(j)
    BY <1>3
  <2>2. i \in Int /\ j \in Int /\ 1 <= i /\ 1 <= j
    BY <1>1, <2>1
  <2> DEFINE key(k) == DedupeKey(all[k])
  <2>3. key(i) = key(j) /\ (\A k \in 1 .. i - 1 : key(k) # key(i)) /\ (\A k \in 1 .. j - 1 : key(k) # key(j))
    BY <2>1
  <2> HIDE DEF key
  <2>4. ~(i < j) /\ ~(j < i)
    BY <2>2, <2>3
  <2> QED
    BY <2>2, <2>4
<1> HIDE DEF all, n, S, c
<1> DEFINE m == Cardinality(S)
           at == InOrder(S)
<1>6. /\ m \in Nat
      /\ c = [k \in 1 .. m |-> all[at[k]]]
      /\ \A k \in 1 .. m : at[k] \in S
      /\ \A i \in S : \E k \in 1 .. m : at[k] = i
      /\ \A k, l \in 1 .. m : k < l => at[k] < at[l]
  <2>1. /\ Cardinality(S) \in 0 .. n
        /\ Picked(all, S) = [k \in 1 .. Cardinality(S) |-> all[InOrder(S)[k]]]
        /\ \A k \in 1 .. Cardinality(S) : InOrder(S)[k] \in S
        /\ \A i \in S : \E k \in 1 .. Cardinality(S) : InOrder(S)[k] = i
        /\ \A k, l \in 1 .. Cardinality(S) : k < l => InOrder(S)[k] < InOrder(S)[l]
    BY <1>1, <1>3, PickedLists
  <2> QED
    BY <1>2, <2>1
<1> HIDE DEF m, at
<1>7. \A k \in 1 .. m : at[k] \in 1 .. n
  BY <1>3, <1>6
<1>8. AreFindings(c) /\ DOMAIN c = 1 .. m
  <2>1. c = [k \in 1 .. m |-> c[k]] /\ \A k \in 1 .. m : IsFinding(c[k])
    BY <1>1, <1>6, <1>7
  <2> QED
    BY <1>6, <2>1, TypedFindings
<1>9. \A f \in Range(c) : f \in Range(s) \cup Range(t)
  BY <1>1, <1>6, <1>7, <1>8 DEF Range
<1>10. ASSUME NEW f \in Range(s) \cup Range(t)
       PROVE  \E k \in DOMAIN c : DedupeKey(c[k]) = DedupeKey(f)
  <2>1. PICK i \in 1 .. n : f = all[i]
    BY <1>1 DEF Range
  <2>2. PICK j \in S : DedupeKey(all[j]) = DedupeKey(all[i])
    BY <1>4
  <2>3. PICK k \in 1 .. m : at[k] = j
    BY <1>6
  <2> QED
    BY <1>6, <1>8, <2>1, <2>2, <2>3
<1>11. ASSUME NEW k \in DOMAIN c, NEW l \in DOMAIN c, DedupeKey(c[k]) = DedupeKey(c[l])
       PROVE  k = l
  <2>1. k \in 1 .. m /\ l \in 1 .. m /\ at[k] = at[l]
    BY <1>5, <1>6, <1>8, <1>11
  <2>2. at[k] \in Int
    BY <1>1, <1>7, <2>1
  <2>3. ~(k < l) /\ ~(l < k)
    BY <1>6, <2>1, <2>2
  <2> QED
    BY <1>6, <2>1, <2>3
<1> QED
  BY <1>8, <1>9, <1>10, <1>11 DEF c

\* A finding with its path normalised, and its key.
Plainly(f) == [f EXCEPT !.loc.path = Plain[@]]

LEMMA PlainlyIs ==
  ASSUME NEW f, IsFinding(f)
  PROVE  /\ IsFinding(Plainly(f))
         /\ Plainly(f) = [loc |-> Plainly(f).loc, text |-> f.text, note |-> f.note]
         /\ Plainly(f).loc = [path |-> Plain[f.loc.path], start |-> f.loc.start, end |-> f.loc.end]
<1> DEFINE loc == [path |-> Plain[f.loc.path], start |-> f.loc.start, end |-> f.loc.end]
<1>1. f = [loc |-> f.loc, text |-> f.text, note |-> f.note] /\ IsLocation(f.loc)
  BY DEF IsFinding
<1>2. [f.loc EXCEPT !.path = Plain[@]] = loc
  BY <1>1 DEF IsLocation
<1>3. Plainly(f) = [loc |-> loc, text |-> f.text, note |-> f.note]
  BY <1>1, <1>2 DEF Plainly
<1>4. IsLocation(loc)
  BY <1>1, PlainIsPlain DEF IsLocation
<1> QED
  BY <1>3, <1>4 DEF IsFinding

LEMMA PlainlyTwice ==
  ASSUME NEW f, IsFinding(f), NEW text
  PROVE  LET g == [Plainly(f) EXCEPT !.text = text]
         IN  /\ IsFinding(g) /\ g = [loc |-> Plainly(f).loc, text |-> text, note |-> f.note]
             /\ DedupeKey(Plainly(g)) = DedupeKey(Plainly(f))
             /\ DedupeKey(g) = DedupeKey(Plainly(f))
<1> DEFINE p == Plainly(f)
           g == [p EXCEPT !.text = text]
<1>1. /\ IsFinding(p) /\ p = [loc |-> p.loc, text |-> f.text, note |-> f.note]
      /\ p.loc = [path |-> Plain[f.loc.path], start |-> f.loc.start, end |-> f.loc.end]
  BY PlainlyIs
<1> HIDE DEF p
<1>2. g = [loc |-> p.loc, text |-> text, note |-> f.note]
  BY <1>1
<1>3. IsFinding(g)
  BY <1>1, <1>2 DEF IsFinding
<1> HIDE DEF g
<1>4. Plainly(g).loc = p.loc /\ Plainly(g).note = f.note
  <2>1. Plain[Plain[f.loc.path]] = Plain[f.loc.path]
    BY PlainIsPlain DEF IsFinding, IsLocation
  <2>2. Plainly(g) = [loc |-> Plainly(g).loc, text |-> text, note |-> f.note]
        /\ Plainly(g).loc = [path |-> Plain[g.loc.path], start |-> g.loc.start, end |-> g.loc.end]
    BY <1>2, <1>3, PlainlyIs
  <2> QED
    BY <1>1, <1>2, <2>1, <2>2
<1>5. p.note = f.note /\ g.loc = p.loc /\ g.note = f.note
  BY <1>1, <1>2
<1> QED
  BY <1>2, <1>3, <1>4, <1>5 DEF DedupeKey, p, g

\* Tidying keeps the keys, each once.
LEMMA Tidied ==
  ASSUME NEW s, AreFindings(s), NEW cap
  PROVE  LET t == TidyFindings(s, cap)
         IN  /\ AreFindings(t)
             /\ \A k \in DOMAIN t : \E i \in DOMAIN s :
                  /\ t[k] = [loc |-> Plainly(s[i]).loc, text |-> CapSnippet(s[i].text, cap), note |-> s[i].note]
                  /\ DedupeKey(Plainly(t[k])) = DedupeKey(Plainly(s[i]))
                  /\ DedupeKey(t[k]) = DedupeKey(Plainly(s[i]))
             /\ \A i \in DOMAIN s : \E k \in DOMAIN t : DedupeKey(Plainly(t[k])) = DedupeKey(Plainly(s[i]))
             /\ \A k, l \in DOMAIN t : DedupeKey(Plainly(t[k])) = DedupeKey(Plainly(t[l])) => k = l
<1> DEFINE plain == [k \in DOMAIN s |-> Plainly(s[k])]
           kept == Accumulate(<<>>, plain)
           t == TidyFindings(s, cap)
<1>1. /\ Len(s) \in Nat /\ DOMAIN s = 1 .. Len(s)
      /\ \A k \in 1 .. Len(s) : IsFinding(s[k])
  BY FindingsList
<1>2. AreFindings(plain) /\ DOMAIN plain = 1 .. Len(s) /\ \A k \in 1 .. Len(s) : plain[k] = Plainly(s[k])
  <2>1. \A k \in 1 .. Len(s) : plain[k] = Plainly(s[k]) /\ IsFinding(plain[k])
    BY <1>1, PlainlyIs
  <2>2. plain = [k \in 1 .. Len(s) |-> plain[k]]
    BY <1>1
  <2> HIDE DEF plain
  <2> QED
    BY <1>1, <2>1, <2>2, TypedFindings
<1>3. t = [k \in DOMAIN kept |-> [kept[k] EXCEPT !.text = CapSnippet(@, cap)]]
  BY DEF TidyFindings, Plainly
<1> HIDE DEF plain, t
<1>4. /\ AreFindings(kept)
      /\ \A f \in Range(kept) : f \in Range(<<>>) \cup Range(plain)
      /\ \A f \in Range(<<>>) \cup Range(plain) : \E k \in DOMAIN kept : DedupeKey(kept[k]) = DedupeKey(f)
      /\ \A k, l \in DOMAIN kept : DedupeKey(kept[k]) = DedupeKey(kept[l]) => k = l
  BY <1>2, NoFindings, KeptOnce
<1> HIDE DEF kept
<1>5. Len(kept) \in Nat /\ DOMAIN kept = 1 .. Len(kept)
  BY <1>4, FindingsList
<1>6. ASSUME NEW k \in DOMAIN kept
      PROVE  \E i \in DOMAIN s :
               /\ kept[k] = Plainly(s[i])
               /\ IsFinding(t[k])
               /\ t[k] = [loc |-> Plainly(s[i]).loc, text |-> CapSnippet(s[i].text, cap), note |-> s[i].note]
               /\ DedupeKey(Plainly(t[k])) = DedupeKey(Plainly(s[i]))
               /\ DedupeKey(t[k]) = DedupeKey(Plainly(s[i]))
  <2>1. kept[k] \in Range(plain)
    BY <1>4 DEF Range
  <2>2. PICK i \in DOMAIN s : kept[k] = Plainly(s[i])
    BY <1>1, <1>2, <2>1 DEF Range
  <2>3. IsFinding(s[i])
    BY <1>1
  <2>4. Plainly(s[i]) = [loc |-> Plainly(s[i]).loc, text |-> s[i].text, note |-> s[i].note]
    BY <2>3, PlainlyIs
  <2>5. Plainly(s[i]).text = s[i].text
    BY <2>4
  <2>6. t[k] = [Plainly(s[i]) EXCEPT !.text = CapSnippet(s[i].text, cap)]
    BY <1>3, <2>2, <2>5
  <2> QED
    BY <2>2, <2>3, <2>6, PlainlyTwice
<1>7. AreFindings(t) /\ DOMAIN t = DOMAIN kept
  <2>1. t = [k \in 1 .. Len(kept) |-> t[k]]
    BY <1>3, <1>5
  <2> QED
    BY <1>5, <1>6, <2>1, TypedFindings
<1>8. \A k \in DOMAIN kept : DedupeKey(Plainly(t[k])) = DedupeKey(kept[k])
  BY <1>6
<1>9. ASSUME NEW i \in DOMAIN s
      PROVE  \E k \in DOMAIN t : DedupeKey(Plainly(t[k])) = DedupeKey(Plainly(s[i]))
  <2>1. Plainly(s[i]) \in Range(plain)
    BY <1>1, <1>2 DEF Range
  <2> QED
    BY <1>4, <1>7, <1>8, <2>1
<1> QED
  BY <1>4, <1>6, <1>7, <1>8, <1>9 DEF t

\* As many keys as there are, if none comes twice.
LEMMA KeysCounted ==
  ASSUME NEW n \in Nat, NEW key, \A i, j \in 1 .. n : key[i] = key[j] => i = j
  PROVE  Cardinality({key[i] : i \in 1 .. n}) = n
<1> DEFINE K == {key[i] : i \in 1 .. n}
           f == [i \in 1 .. n |-> key[i]]
<1>1. f \in Injection(1 .. n, K)
  BY DEF Injection, IsInjective
<1>2. f \in Surjection(1 .. n, K)
  BY DEF Surjection
<1>3. f \in Bijection(1 .. n, K)
  BY <1>1, <1>2 DEF Bijection
<1>4. IsFiniteSet(1 .. n) /\ Cardinality(1 .. n) = n
  BY FS_Interval
<1>5. Cardinality(K) = Cardinality(1 .. n)
  <2> HIDE DEF f, K
  <2>1. ExistsBijection(1 .. n, K)
    BY <1>3 DEF ExistsBijection
  <2> QED
    BY <1>3, <1>4, <2>1, FS_Bijection
<1> QED
  BY <1>4, <1>5

\* A finding of an answer, and the one it was before.
ComesFrom(f, s, cap) ==
  \E i \in DOMAIN s :
    f = [loc |-> Plainly(s[i]).loc, text |-> CapSnippet(s[i].text, cap), note |-> s[i].note]

\* tidy_and_truncate: as many findings as there are keys, up to the limit.
LEMMA DuplicatesAreFree ==
  ASSUME NEW s, AreFindings(s), NEW cap, NEW max \in Nat \cup {Missing}
  PROVE  LET t == TidyAndTruncate(s, cap, max)
             found == Cardinality({DedupeKey(Plainly(f)) : f \in Range(s)})
         IN  /\ AreFindings(t)
             /\ \A k \in DOMAIN t : ComesFrom(t[k], s, cap)
             /\ max = Missing => \A i \in DOMAIN s : \E k \in DOMAIN t : DedupeKey(t[k]) = DedupeKey(Plainly(s[i]))
             /\ Len(t) = IF max = Missing THEN found ELSE Lower(max, found)
             /\ Cardinality({DedupeKey(Plainly(f)) : f \in Range(t)}) = Len(t)
<1> DEFINE u == TidyFindings(s, cap)
           t == TidyAndTruncate(s, cap, max)
           keys(x) == {DedupeKey(Plainly(f)) : f \in Range(x)}
           n == Len(u)
           m == IF max = Missing THEN n ELSE Lower(max, n)
<1>1. /\ AreFindings(u)
      /\ \A k \in DOMAIN u : \E i \in DOMAIN s :
           /\ u[k] = [loc |-> Plainly(s[i]).loc, text |-> CapSnippet(s[i].text, cap), note |-> s[i].note]
           /\ DedupeKey(Plainly(u[k])) = DedupeKey(Plainly(s[i]))
           /\ DedupeKey(u[k]) = DedupeKey(Plainly(s[i]))
      /\ \A i \in DOMAIN s : \E k \in DOMAIN u : DedupeKey(Plainly(u[k])) = DedupeKey(Plainly(s[i]))
      /\ \A k, l \in DOMAIN u : DedupeKey(Plainly(u[k])) = DedupeKey(Plainly(u[l])) => k = l
  BY Tidied
<1>2. t = IF max = Missing THEN u ELSE SubSeq(u, 1, m)
  BY DEF TidyAndTruncate
<1> HIDE DEF u, t
<1>3. n \in Nat /\ DOMAIN u = 1 .. n /\ u = [k \in 1 .. n |-> u[k]] /\ \A k \in 1 .. n : IsFinding(u[k])
  BY <1>1, FindingsList
<1>4. m \in 0 .. n /\ (max = Missing => m = n)
  BY <1>3 DEF Lower
<1>5. t = [k \in 1 .. m |-> u[k]]
  <2>1. CASE max = Missing
    BY <1>2, <1>3, <2>1
  <2>2. CASE max # Missing
    <3>1. u \in Seq(Range(u))
      BY <1>1, FindingsList
    <3>2. /\ SubSeq(u, 1, m) \in Seq(Range(u)) /\ Len(SubSeq(u, 1, m)) = m
          /\ \A k \in 1 .. m : SubSeq(u, 1, m)[k] = u[k]
      <4>1. \A k \in 1 .. m : u[k] \in Range(u)
        BY <1>3, <1>4 DEF Range
      <4>2. /\ SubSeq(u, 1, m) \in Seq(Range(u))
            /\ Len(SubSeq(u, 1, m)) = IF 1 <= m THEN m - 1 + 1 ELSE 0
            /\ \A k \in 1 .. m - 1 + 1 : SubSeq(u, 1, m)[k] = u[1 + k - 1]
        BY <1>4, <4>1, SubSeqProperties
      <4> HIDE DEF m, n
      <4> QED
        BY <1>4, <4>2
    <3>3. SubSeq(u, 1, m) = [k \in 1 .. m |-> SubSeq(u, 1, m)[k]]
      BY <3>2, LenProperties
    <3> QED
      BY <1>2, <2>2, <3>2, <3>3
  <2> QED
    BY <2>1, <2>2
<1> HIDE DEF m, n
<1>6. AreFindings(t) /\ Len(t) = m /\ DOMAIN t = 1 .. m
  <2>1. t = [k \in 1 .. m |-> t[k]] /\ \A k \in 1 .. m : IsFinding(t[k])
    BY <1>3, <1>4, <1>5
  <2> QED
    BY <1>4, <2>1, TypedFindings
<1>7. Cardinality(keys(u)) = n
  <2> DEFINE key == [k \in 1 .. n |-> DedupeKey(Plainly(u[k]))]
  <2>1. \A i, j \in 1 .. n : key[i] = key[j] => i = j
    BY <1>1, <1>3
  <2>2. keys(u) = {key[i] : i \in 1 .. n}
    BY <1>3 DEF Range
  <2> HIDE DEF key, keys
  <2> QED
    BY <1>3, <2>1, <2>2, KeysCounted
<1>8. Cardinality(keys(t)) = m
  <2> DEFINE key == [k \in 1 .. m |-> DedupeKey(Plainly(u[k]))]
  <2>1. \A i, j \in 1 .. m : key[i] = key[j] => i = j
    BY <1>1, <1>3, <1>4
  <2>2. keys(t) = {key[i] : i \in 1 .. m}
    BY <1>5, <1>6 DEF Range
  <2> HIDE DEF key, keys
  <2> QED
    BY <1>4, <2>1, <2>2, KeysCounted
<1>9. keys(s) = keys(u)
  <2>1. \A f \in Range(s) : \E g \in Range(u) : DedupeKey(Plainly(g)) = DedupeKey(Plainly(f))
    BY <1>1 DEF Range
  <2>2. \A g \in Range(u) : \E f \in Range(s) : DedupeKey(Plainly(g)) = DedupeKey(Plainly(f))
    BY <1>1 DEF Range
  <2> QED
    BY <2>1, <2>2
<1>10. \A k \in DOMAIN t : k \in DOMAIN u /\ t[k] = u[k]
  BY <1>3, <1>4, <1>5, <1>6
<1>11. max = Missing => \A k \in DOMAIN u : k \in DOMAIN t
  BY <1>3, <1>4, <1>6
<1>12. ASSUME max = Missing, NEW i \in DOMAIN s
       PROVE  \E k \in DOMAIN t : DedupeKey(t[k]) = DedupeKey(Plainly(s[i]))
  <2>1. PICK k \in DOMAIN u : DedupeKey(Plainly(u[k])) = DedupeKey(Plainly(s[i]))
    BY <1>1
  <2>2. DedupeKey(u[k]) = DedupeKey(Plainly(u[k]))
    BY <1>1
  <2> QED
    BY <1>10, <1>11, <1>12, <2>1, <2>2
<1>13. \A k \in DOMAIN t : ComesFrom(t[k], s, cap)
  BY <1>1, <1>10 DEF ComesFrom
<1>14. Len(t) = IF max = Missing THEN Cardinality(keys(s)) ELSE Lower(max, Cardinality(keys(s)))
  BY <1>6, <1>7, <1>9 DEF m
<1>15. Cardinality(keys(t)) = Len(t)
  BY <1>6, <1>8
<1> HIDE DEF keys
<1> QED
  BY <1>6, <1>12, <1>13, <1>14, <1>15 DEF t, keys

\* A location that files have; a finding at one, and one whose text was cut there.
InFile(loc, d) ==
  LET file == d[loc.path]
  IN  /\ IsLocation(loc) /\ Plain[loc.path] = loc.path
      /\ file # Missing /\ ~file.escapes
      /\ Len(file.lines) \in Nat /\ loc.start <= Len(file.lines) /\ loc.end <= Len(file.lines)

Placed(f, d) == IsFinding(f) /\ InFile(f.loc, d)

Cut(f, d) ==
  /\ Placed(f, d)
  /\ f.text = SliceLines(d[f.loc.path], f.loc.start, f.loc.end) \/ (f.loc.start = 0 /\ f.text = Authored)

\* Lists of findings that are placed or cut in some of these states of the files.
PlacedIn(s, D) == AreFindings(s) /\ \A k \in 1 .. Len(s) : \E d \in D : Placed(s[k], d)

CutIn(s, D) == AreFindings(s) /\ \A k \in 1 .. Len(s) : \E d \in D : Cut(s[k], d)

LEMMA CutIsPlaced == \A s, D : CutIn(s, D) => PlacedIn(s, D)
BY DEF CutIn, PlacedIn, Cut

LEMMA ClampedIs ==
  ASSUME NEW loc, IsLocation(loc), NEW lines \in Nat, ClampLocation(loc, lines) # Missing
  PROVE  LET c == ClampLocation(loc, lines)
         IN  /\ IsLocation(c) /\ c.path = loc.path /\ c.start = loc.start
             /\ c.start <= lines /\ c.end <= lines
<1> DEFINE end == Lower(loc.end, Upper(lines, loc.start))
<1>1. loc = [path |-> loc.path, start |-> loc.start, end |-> loc.end]
      /\ loc.path \in DOMAIN Plain /\ loc.start \in Nat /\ loc.end \in Nat
  BY DEF IsLocation
<1>2. loc.start <= lines /\ ClampLocation(loc, lines) = [loc EXCEPT !.end = end]
  BY <1>1 DEF ClampLocation
<1>3. end \in Nat /\ end <= lines
  BY <1>1, <1>2 DEF Lower, Upper
<1> HIDE DEF end
<1>4. [loc EXCEPT !.end = end] = [path |-> loc.path, start |-> loc.start, end |-> end]
  BY <1>1
<1> QED
  BY <1>1, <1>2, <1>3, <1>4 DEF IsLocation

LEMMA NormalIs ==
  ASSUME NEW loc, IsLocation(loc)
  PROVE  LET n == NormalizeLocation(loc)
         IN  /\ IsLocation(n) /\ n.path = Plain[loc.path] /\ Plain[n.path] = n.path
             /\ loc.start = 0 => n.start = 0
BY PlainIsPlain DEF NormalizeLocation, IsLocation, Lower, Upper

LEMMA VerifiedIs ==
  ASSUME NEW loc, IsLocation(loc), NEW d \in Disks, VerifyLocation(loc, d) # Missing
  PROVE  LET v == VerifyLocation(loc, d)
         IN  InFile(v, d) /\ v.path = Plain[loc.path] /\ (loc.start = 0 => v.start = 0)
<1> DEFINE n == NormalizeLocation(loc)
           v == VerifyLocation(loc, d)
           file == d[n.path]
<1>1. /\ IsLocation(n) /\ n.path = Plain[loc.path] /\ Plain[n.path] = n.path
      /\ loc.start = 0 => n.start = 0
  BY NormalIs
<1>2. ReadCanonical(d, n.path) # Missing
  BY DEF VerifyLocation
<1>3. file # Missing /\ ~file.escapes /\ ReadCanonical(d, n.path) = file
  BY <1>2 DEF ReadCanonical
<1>4. v = ClampLocation(n, Len(file.lines))
  BY <1>2, <1>3 DEF VerifyLocation
<1>5. Len(file.lines) \in Nat
  <2>1. n.path \in DOMAIN d
    BY <1>1, DisksAreTyped DEF IsLocation
  <2> QED
    BY <1>3, <2>1, DisksAreTyped DEF IsList
<1> HIDE DEF n
<1>6. /\ IsLocation(v) /\ v.path = n.path /\ v.start = n.start
      /\ v.start <= Len(file.lines) /\ v.end <= Len(file.lines)
  BY <1>1, <1>4, <1>5, ClampedIs
<1> QED
  BY <1>1, <1>3, <1>5, <1>6 DEF InFile

\* What is left of candidates is placed.
LEMMA VerifiedAre ==
  ASSUME NEW n \in Nat, NEW cands, DOMAIN cands = 1 .. n, \A k \in 1 .. n : IsCandidate(cands[k]),
         NEW d \in Disks
  PROVE  LET v == VerifiedFindings(cands, d)
         IN  /\ IsList(v)
             /\ \A k \in 1 .. Len(v) : v[k].at \in 1 .. n /\ Placed(v[k].finding, d)
<1> DEFINE checked(i) == VerifyLocation(cands[i].loc, d)
           S == {i \in DOMAIN cands : checked(i) # Missing}
           kept == InOrder(S)
           v == VerifiedFindings(cands, d)
           m == Cardinality(S)
<1>1. S \in SUBSET (1 .. n) /\ m \in Nat /\ kept \in [1 .. m -> S]
  <2>1. S \in SUBSET (1 .. n)
    OBVIOUS
  <2>2. Cardinality(S) \in 0 .. n /\ InOrder(S) \in [1 .. Cardinality(S) -> S]
    <3> HIDE DEF S
    <3> QED
      BY <2>1, InOrderLists
  <2>3. Cardinality(S) \in Nat
    BY <2>2
  <2> HIDE DEF S
  <2> QED
    BY <2>1, <2>2, <2>3
<1>2. v = [k \in 1 .. m |->
             [at |-> kept[k], finding |-> FindingOf([cands[kept[k]] EXCEPT !.loc = checked(kept[k])])]]
  BY <1>1 DEF VerifiedFindings
<1>3. \A i \in S : i \in 1 .. n /\ InFile(checked(i), d)
  BY VerifiedIs DEF IsCandidate
<1>4. ASSUME NEW k \in 1 .. m
      PROVE  v[k].at \in 1 .. n /\ Placed(v[k].finding, d)
  <2> DEFINE i == kept[k]
             c == [cands[i] EXCEPT !.loc = checked(i)]
  <2>1. i \in S /\ i \in 1 .. n /\ IsCandidate(cands[i]) /\ InFile(checked(i), d)
    BY <1>1, <1>3
  <2>2. v[k].at = i /\ v[k].finding = FindingOf(c)
    <3>1. v[k] = [at |-> i, finding |-> FindingOf(c)]
      BY <1>2
    <3> QED
      BY <3>1
  <2>3. c.loc = checked(i)
    BY <2>1 DEF IsCandidate
  <2> HIDE DEF i, c, v, checked
  <2>4. IsFinding(FindingOf(c)) /\ FindingOf(c).loc = checked(i)
    BY <2>1, <2>3 DEF FindingOf, IsFinding, InFile
  <2> QED
    BY <2>1, <2>2, <2>4 DEF Placed
<1>5. v = [k \in 1 .. m |-> v[k]]
  BY <1>2
<1> HIDE DEF v, m
<1>6. IsList(v) /\ Len(v) = m
  BY <1>1, <1>5, ListOf
<1> QED
  BY <1>4, <1>6 DEF v

LEMMA FindingsInAre ==
  ASSUME NEW v, IsList(v), NEW D, NEW d \in D, \A k \in 1 .. Len(v) : Placed(v[k].finding, d)
  PROVE  PlacedIn(FindingsIn(v), D)
<1> DEFINE s == FindingsIn(v)
<1>1. Len(v) \in Nat /\ DOMAIN v = 1 .. Len(v)
  BY ListIs
<1>2. s = [k \in 1 .. Len(v) |-> v[k].finding]
  BY <1>1 DEF FindingsIn
<1>3. s = [k \in 1 .. Len(v) |-> s[k]] /\ \A k \in 1 .. Len(v) : s[k] = v[k].finding
  BY <1>2
<1> HIDE DEF s
<1>4. AreFindings(s) /\ Len(s) = Len(v)
  BY <1>1, <1>3, TypedFindings DEF Placed
<1> QED
  BY <1>3, <1>4 DEF PlacedIn, s

-----------------------------------------------------------------------------

\* A finding that the model reports, if it is valid, is cut.
LEMMA ValidatedIs ==
  ASSUME NEW f, IsLocation(f.loc), f.text = Authored, NEW d \in Disks,
         NEW cands, \A k \in DOMAIN cands : IsCandidate(cands[k]),
         ValidateFinding(f, d, cands) # Missing
  PROVE  Cut(ValidateFinding(f, d, cands).finding, d)
<1> DEFINE own == VerifyLocation(f.loc, d)
           file == d[own.path]
           registry == ClampLocation(cands[f.id].loc, Len(file.lines))
           cited == /\ Cites(f, cands)
                    /\ cands[f.id].loc.path = own.path
                    /\ ~IsUnknown(cands[f.id].loc)
                    /\ SnapsToCandidate(own, cands[f.id].loc)
                    /\ registry # Missing
           loc == IF cited THEN registry ELSE own
           uncut == ~cited /\ f.loc.start = 0 /\ f.loc.end = 0
           text == IF uncut THEN f.text ELSE SliceLines(file, loc.start, loc.end)
<1>1. own # Missing /\ ValidateFinding(f, d, cands) =
        [cited |-> cited, finding |-> [loc |-> loc, note |-> f.note, text |-> text]]
  BY DEF ValidateFinding
<1>2. InFile(own, d) /\ (f.loc.start = 0 => own.start = 0)
  BY <1>1, VerifiedIs
<1>3. InFile(loc, d) /\ loc.path = own.path
  <2>1. CASE ~cited
    BY <1>2, <2>1
  <2>2. CASE cited
    <3>1. IsLocation(cands[f.id].loc) /\ cands[f.id].loc.path = own.path /\ registry # Missing
      BY <2>2 DEF Cites, IsCandidate
    <3>2. Len(file.lines) \in Nat
      BY <1>2 DEF InFile
    <3> HIDE DEF own
    <3>3. /\ IsLocation(registry) /\ registry.path = own.path
          /\ registry.start <= Len(file.lines) /\ registry.end <= Len(file.lines)
      BY <3>1, <3>2, ClampedIs
    <3>4. loc = registry
      BY <2>2
    <3> HIDE DEF registry, loc
    <3> QED
      BY <1>2, <3>3, <3>4 DEF InFile
  <2> QED
    BY <2>1, <2>2
<1> DEFINE g == [loc |-> loc, note |-> f.note, text |-> text]
<1>4. ValidateFinding(f, d, cands).finding = g
  BY <1>1
<1>5. text = SliceLines(d[loc.path], loc.start, loc.end) \/ (loc.start = 0 /\ text = Authored)
  BY <1>2, <1>3
<1> HIDE DEF own, registry, cited, loc, uncut, text
<1>6. IsFinding(g)
  BY <1>3 DEF IsFinding, InFile
<1> QED
  BY <1>3, <1>4, <1>5, <1>6 DEF Cut, Placed

\* The findings of a finish call.
AreReported(findings) ==
  findings # Missing => IsList(findings) /\ \A k \in 1 .. Len(findings) :
                          IsLocation(findings[k].loc) /\ findings[k].text = Authored

LEMMA ParsedAre ==
  ASSUME NEW findings, AreReported(findings), NEW d \in Disks,
         NEW cands, \A k \in DOMAIN cands : IsCandidate(cands[k])
  PROVE  /\ ParseFinish(findings, d, cands) # Missing => CutIn(ParseFinish(findings, d, cands), {d})
         /\ ParseFinishLenient(findings, d, cands) # Missing =>
              CutIn(ParseFinishLenient(findings, d, cands), {d})
<1> SUFFICES ASSUME findings # Missing
             PROVE  /\ ParseFinish(findings, d, cands) # Missing => CutIn(ParseFinish(findings, d, cands), {d})
                    /\ ParseFinishLenient(findings, d, cands) # Missing =>
                         CutIn(ParseFinishLenient(findings, d, cands), {d})
  BY DEF ParseFinish, ParseFinishLenient
<1> DEFINE n == Len(findings)
           all == Validated(findings, d, cands)
<1>1. n \in Nat /\ DOMAIN findings = 1 .. n
  BY ListIs DEF AreReported
<1>2. \A k \in 1 .. n : all[k] # Missing => Cut(all[k].finding, d)
  <2>1. \A k \in 1 .. n : all[k] = ValidateFinding(findings[k], d, cands)
    BY <1>1 DEF Validated
  <2> QED
    BY <2>1, ValidatedIs DEF AreReported
<1>3. DOMAIN all = 1 .. n
  BY <1>1 DEF Validated
<1>4. ParseFinish(findings, d, cands) # Missing => CutIn(ParseFinish(findings, d, cands), {d})
  <2> SUFFICES ASSUME ParseFinish(findings, d, cands) # Missing
               PROVE  CutIn(ParseFinish(findings, d, cands), {d})
    OBVIOUS
  <2> DEFINE s == ParseFinish(findings, d, cands)
  <2>1. Missing \notin Range(all) /\ s = [k \in 1 .. n |-> all[k].finding]
    BY <1>1 DEF ParseFinish
  <2>2. s = [k \in 1 .. n |-> s[k]] /\ \A k \in 1 .. n : s[k] = all[k].finding
    BY <2>1
  <2>3. \A k \in 1 .. n : Cut(s[k], d)
    BY <1>2, <1>3, <2>1, <2>2 DEF Range
  <2> HIDE DEF s, n, all
  <2>4. AreFindings(s) /\ Len(s) = n
    BY <1>1, <2>2, <2>3, TypedFindings DEF Cut, Placed
  <2> QED
    BY <2>3, <2>4 DEF CutIn, s
<1>5. ParseFinishLenient(findings, d, cands) # Missing =>
        CutIn(ParseFinishLenient(findings, d, cands), {d})
  <2> SUFFICES ASSUME ParseFinishLenient(findings, d, cands) # Missing
               PROVE  CutIn(ParseFinishLenient(findings, d, cands), {d})
    OBVIOUS
  <2> DEFINE s == ParseFinishLenient(findings, d, cands)
             S == {k \in DOMAIN findings : all[k] # Missing}
             full == [k \in DOMAIN findings |-> all[k].finding]
             m == Cardinality(S)
  <2>1. s = Picked(full, S)
    BY DEF ParseFinishLenient
  <2>2. S \in SUBSET (1 .. n)
    BY <1>1
  <2>3. /\ m \in Nat /\ s = [k \in 1 .. m |-> full[InOrder(S)[k]]]
        /\ \A k \in 1 .. m : InOrder(S)[k] \in S
    <3> HIDE DEF S, n, full, s
    <3>1. /\ Cardinality(S) \in 0 .. n
          /\ Picked(full, S) = [k \in 1 .. Cardinality(S) |-> full[InOrder(S)[k]]]
          /\ \A k \in 1 .. Cardinality(S) : InOrder(S)[k] \in S
      BY <1>1, <2>2, PickedLists
    <3> QED
      BY <2>1, <3>1
  <2>4. \A i \in S : Cut(full[i], d)
    BY <1>1, <1>2
  <2>5. s = [k \in 1 .. m |-> s[k]] /\ \A k \in 1 .. m : Cut(s[k], d)
    <3> HIDE DEF S, full, m, s
    <3> QED
      BY <2>3, <2>4
  <2> HIDE DEF s, m, n, all
  <2>6. AreFindings(s) /\ Len(s) = m
    BY <2>3, <2>5, TypedFindings DEF Cut, Placed
  <2> QED
    BY <2>5, <2>6 DEF CutIn, s
<1> QED
  BY <1>4, <1>5

\* Of several results the first.
LEMMA FirstIsOne ==
  ASSUME NEW n \in Nat, NEW results, DOMAIN results = 1 .. n, FirstResult(results) # Missing
  PROVE  \E k \in 1 .. n : results[k] # Missing /\ FirstResult(results) = results[k]
<1> DEFINE good == {k \in DOMAIN results : results[k] # Missing}
<1>1. good # {} /\ FirstResult(results) = results[Min(good)]
  BY DEF FirstResult
<1>2. good \in SUBSET Nat
  OBVIOUS
<1>3. \E k \in good : \A j \in good : k <= j
  BY <1>1, <1>2, LeastNumber
<1>4. Min(good) \in good
  BY <1>3 DEF Min
<1> QED
  BY <1>1, <1>4

\* The candidates, and those the loop starts from.
LEMMA CandidatesAre ==
  ASSUME Shape
  PROVE  /\ Len(Candidates) \in Nat /\ DOMAIN Candidates = 1 .. Len(Candidates)
         /\ \A k \in DOMAIN Candidates : IsCandidate(Candidates[k])
         /\ \A k \in DOMAIN Seeds : IsCandidate(Seeds[k])
<1>1. AreCandidates(Candidates)
  BY OutcomesAreTyped DEF Shape, Candidates
<1>2. /\ Len(Candidates) \in Nat /\ DOMAIN Candidates = 1 .. Len(Candidates)
      /\ \A k \in 1 .. Len(Candidates) : IsCandidate(Candidates[k])
  BY <1>1, ListIs DEF AreCandidates
<1> DEFINE n == Lower(SeedCandidates, Len(Candidates))
<1>3. n \in 0 .. Len(Candidates)
  BY <1>2, CountsAreNat DEF Lower
<1>4. Seeds = [k \in 1 .. n |-> Candidates[k]]
  <2>1. Candidates \in Seq(Range(Candidates))
    BY <1>1, ListIs DEF AreCandidates
  <2>2. \A k \in 1 .. n : Candidates[k] \in Range(Candidates)
    BY <1>2, <1>3 DEF Range
  <2> DEFINE s == SubSeq(Candidates, 1, n)
  <2>3. /\ s \in Seq(Range(Candidates)) /\ Len(s) = IF 1 <= n THEN n - 1 + 1 ELSE 0
        /\ \A k \in 1 .. n - 1 + 1 : s[k] = Candidates[1 + k - 1]
    BY <1>3, <2>2, SubSeqProperties
  <2>4. Seeds = s
    BY DEF Seeds
  <2> HIDE DEF n, s
  <2>5. Len(s) = n /\ \A k \in 1 .. n : s[k] = Candidates[k]
    BY <1>2, <1>3, <2>3
  <2>6. s = [k \in 1 .. n |-> s[k]]
    BY <2>3, <2>5, LenProperties
  <2> QED
    BY <2>4, <2>5, <2>6
<1> HIDE DEF n
<1>5. \A k \in DOMAIN Seeds : IsCandidate(Seeds[k])
  BY <1>2, <1>3, <1>4
<1> QED
  BY <1>2, <1>5

\* The calls of an answer, and those of them that finish.
LEMMA CallsAre ==
  ASSUME NEW reply \in Replies
  PROVE  /\ Len(CallsOf(reply)) \in Nat /\ DOMAIN CallsOf(reply) = 1 .. Len(CallsOf(reply))
         /\ CallsOf(reply) # <<>> => reply # Missing /\ CallsOf(reply) = reply.calls
<1>1. CASE Response(reply) = Missing
  BY <1>1 DEF CallsOf
<1>2. CASE Response(reply) # Missing
  <2>1. reply # Missing /\ CallsOf(reply) = reply.calls
    BY <1>2 DEF CallsOf, Response
  <2>2. IsList(reply.calls)
    BY <2>1, RepliesAreTyped
  <2> QED
    BY <2>1, <2>2, ListIs
<1> QED
  BY <1>1, <1>2

LEMMA FinishesAre ==
  ASSUME NEW reply \in Replies
  PROVE  \E n \in Nat : /\ DOMAIN Finishes(reply) = 1 .. n
                        /\ \A k \in 1 .. n : AreReported(Finishes(reply)[k])
<1> DEFINE calls == CallsOf(reply)
           S == {k \in DOMAIN calls : calls[k].name = "finish"}
           m == Cardinality(S)
           F == FinishCalls(calls)
<1>1. /\ Len(calls) \in Nat /\ DOMAIN calls = 1 .. Len(calls)
      /\ calls # <<>> => reply # Missing /\ calls = reply.calls
  BY CallsAre
<1>2. S \in SUBSET (1 .. Len(calls))
  BY <1>1
<1>3. F = Picked(calls, S)
  BY DEF FinishCalls
<1> HIDE DEF calls, S, F
<1>4. /\ m \in Nat /\ F = [k \in 1 .. m |-> calls[InOrder(S)[k]]]
      /\ \A k \in 1 .. m : InOrder(S)[k] \in S
  <2>1. /\ Cardinality(S) \in 0 .. Len(calls)
        /\ Picked(calls, S) = [k \in 1 .. Cardinality(S) |-> calls[InOrder(S)[k]]]
        /\ \A k \in 1 .. Cardinality(S) : InOrder(S)[k] \in S
    BY <1>1, <1>2, PickedLists
  <2> QED
    BY <1>1, <1>3, <2>1
<1> HIDE DEF m
<1>5. \A k \in 1 .. m : AreReported(FinishFindings(F[k]))
  <2> SUFFICES ASSUME NEW k \in 1 .. m PROVE AreReported(FinishFindings(F[k]))
    OBVIOUS
  <2>1. F[k] \in Range(calls) /\ F[k].name = "finish" /\ calls # <<>>
    <3>1. InOrder(S)[k] \in DOMAIN calls /\ calls[InOrder(S)[k]].name = "finish"
      BY <1>4 DEF S
    <3>2. calls # <<>>
      BY <3>1
    <3> QED
      BY <1>4, <3>1, <3>2 DEF Range
  <2>2. FinishFindings(F[k]) # Missing =>
          /\ IsList(FinishFindings(F[k]))
          /\ \A f \in Range(FinishFindings(F[k])) : IsLocation(f.loc) /\ f.text = Authored
    BY <1>1, <2>1, RepliesAreTyped
  <2> QED
    BY <2>2, ListIs DEF AreReported, Range
<1>6. Finishes(reply) = [k \in 1 .. m |-> FinishFindings(F[k])]
  BY <1>4 DEF Finishes, calls, F
<1> QED
  BY <1>4, <1>5, <1>6

LEMMA ResolvedIs ==
  ASSUME NEW reply \in Replies, NEW d \in Disks,
         NEW cands, \A k \in DOMAIN cands : IsCandidate(cands[k]),
         ResolveFinish(Finishes(reply), d, cands) # Missing
  PROVE  CutIn(ResolveFinish(Finishes(reply), d, cands), {d})
<1> DEFINE F == Finishes(reply)
           parsed == [k \in DOMAIN F |-> ParseFinish(F[k], d, cands)]
<1>1. PICK n \in Nat : DOMAIN F = 1 .. n /\ \A k \in 1 .. n : AreReported(F[k])
  BY FinishesAre
<1>2. ResolveFinish(F, d, cands) = FirstResult(parsed)
  BY DEF ResolveFinish
<1>3. DOMAIN parsed = 1 .. n /\ \A k \in 1 .. n : parsed[k] = ParseFinish(F[k], d, cands)
  BY <1>1
<1> HIDE DEF F, parsed
<1>4. FirstResult(parsed) # Missing
  BY <1>2 DEF F
<1>5. PICK k \in 1 .. n : parsed[k] # Missing /\ FirstResult(parsed) = parsed[k]
  BY <1>3, <1>4, FirstIsOne
<1>6. CutIn(ParseFinish(F[k], d, cands), {d})
  BY <1>1, <1>3, <1>5, ParsedAre
<1> QED
  BY <1>2, <1>3, <1>5, <1>6 DEF F

LEMMA LenientIs ==
  ASSUME NEW reply \in Replies, disk \in Disks,
         NEW cands, \A k \in DOMAIN cands : IsCandidate(cands[k]),
         Lenient(reply, cands) # Missing
  PROVE  CutIn(Lenient(reply, cands), {disk})
<1> DEFINE F == Finishes(reply)
           parsed == [k \in DOMAIN F |-> ParseFinishLenient(F[k], disk, cands)]
<1>1. PICK n \in Nat : DOMAIN F = 1 .. n /\ \A k \in 1 .. n : AreReported(F[k])
  BY FinishesAre
<1>2. Lenient(reply, cands) = FirstResult(parsed)
  BY DEF Lenient
<1>3. DOMAIN parsed = 1 .. n /\ \A k \in 1 .. n : parsed[k] = ParseFinishLenient(F[k], disk, cands)
  BY <1>1
<1> HIDE DEF F, parsed
<1>4. FirstResult(parsed) # Missing
  BY <1>2
<1>5. PICK k \in 1 .. n : parsed[k] # Missing /\ FirstResult(parsed) = parsed[k]
  BY <1>3, <1>4, FirstIsOne
<1>6. CutIn(ParseFinishLenient(F[k], disk, cands), {disk})
  BY <1>1, <1>3, <1>5, ParsedAre
<1> QED
  BY <1>2, <1>3, <1>5, <1>6

-----------------------------------------------------------------------------

\* Scores of n candidates.
AreScores(scored, n) == scored \in [1 .. n -> Nat \cup {Missing}]

LEMMA SelectedAre ==
  ASSUME NEW n \in Nat, NEW scored, AreScores(scored, n), NEW threshold
  PROVE  \E m \in Nat : SelectIndices(scored, threshold) \in [1 .. m -> 1 .. n]
<1> DEFINE S == {i \in DOMAIN scored : scored[i] # Missing /\ scored[i] >= threshold * 10}
           better(i, j) == scored[i] > scored[j] \/ (scored[i] = scored[j] /\ i < j)
           R == {p \in S \X S : better(p[1], p[2])}
           rank == [i \in S |-> Cardinality({j \in S : better(j, i)}) + 1]
           ranked == [x \in S |-> Cardinality({y \in S : <<y, x>> \in R}) + 1]
<1>1. S \in SUBSET (1 .. n) /\ \A i \in S : scored[i] \in Nat
  BY DEF AreScores
<1>3. SelectIndices(scored, threshold) = ByRank(rank)
  BY DEF SelectIndices
<1> HIDE DEF S
<1>2. IsFiniteSet(S) /\ Cardinality(S) \in Nat
  <2>1. IsFiniteSet(S)
    BY <1>1, InOrderLists
  <2> QED
    BY <2>1, FS_CardinalityType
<1>4. /\ \A x \in S : <<x, x>> \notin R
      /\ \A x, y, z \in S : <<x, y>> \in R /\ <<y, z>> \in R => <<x, z>> \in R
      /\ \A x, y \in S : x = y \/ <<x, y>> \in R \/ <<y, x>> \in R
      /\ \A x, y \in S : <<x, y>> \in R <=> better(x, y)
  <2>1. \A x, y \in S : <<x, y>> \in R <=> better(x, y)
    OBVIOUS
  <2> HIDE DEF R
  <2>2. \A x \in S : <<x, x>> \notin R
    BY <1>1, <2>1
  <2>3. \A x, y \in S : x = y \/ <<x, y>> \in R \/ <<y, x>> \in R
    <3> SUFFICES ASSUME NEW x \in S, NEW y \in S, x # y PROVE better(x, y) \/ better(y, x)
      BY <2>1
    <3> QED
      BY <1>1
  <2>4. \A x, y, z \in S : <<x, y>> \in R /\ <<y, z>> \in R => <<x, z>> \in R
    <3> SUFFICES ASSUME NEW x \in S, NEW y \in S, NEW z \in S, better(x, y), better(y, z)
                 PROVE  better(x, z)
      BY <2>1
    <3>1. scored[x] \in Nat /\ scored[y] \in Nat /\ scored[z] \in Nat /\ x \in Nat /\ y \in Nat /\ z \in Nat
      BY <1>1
    <3> QED
      BY <3>1
  <2> QED
    BY <2>1, <2>2, <2>3, <2>4
<1>5. rank = ranked
  <2>1. \A x \in S : {j \in S : better(j, x)} = {y \in S : <<y, x>> \in R}
    BY <1>4
  <2> QED
    BY <2>1
<1>6. /\ ranked \in [S -> 1 .. Cardinality(S)]
      /\ \A x, y \in S : ranked[x] = ranked[y] => x = y
  <2> HIDE DEF R
  <2>1. /\ \A x \in S : <<x, x>> \notin R
        /\ \A x, y, z \in S : <<x, y>> \in R /\ <<y, z>> \in R => <<x, z>> \in R
        /\ \A x, y \in S : x = y \/ <<x, y>> \in R \/ <<y, x>> \in R
    BY <1>4
  <2> QED
    BY <1>2, <2>1, OrderRanks
<1> HIDE DEF rank, ranked
<1>7. ByRank(ranked) \in [1 .. Cardinality(S) -> S]
  BY <1>2, <1>6, ByRankLists
<1>8. ByRank(ranked) \in [1 .. Cardinality(S) -> 1 .. n]
  BY <1>1, <1>7
<1> QED
  BY <1>2, <1>3, <1>5, <1>8

\* What is left of some of the candidates is placed.
LEMMA ChosenAre ==
  ASSUME NEW n \in Nat, NEW cands, DOMAIN cands = 1 .. n, \A k \in 1 .. n : IsCandidate(cands[k]),
         NEW m \in Nat, NEW order \in [1 .. m -> 1 .. n], NEW d \in Disks
  PROVE  LET v == VerifiedFindings([k \in DOMAIN order |-> cands[order[k]]], d)
         IN  IsList(v) /\ \A k \in 1 .. Len(v) : v[k].at \in 1 .. m /\ Placed(v[k].finding, d)
<1> DEFINE picked == [k \in DOMAIN order |-> cands[order[k]]]
<1>1. DOMAIN picked = 1 .. m /\ \A k \in 1 .. m : IsCandidate(picked[k])
  OBVIOUS
<1> HIDE DEF picked
<1>2. /\ IsList(VerifiedFindings(picked, d))
      /\ \A k \in 1 .. Len(VerifiedFindings(picked, d)) :
           VerifiedFindings(picked, d)[k].at \in 1 .. m /\ Placed(VerifiedFindings(picked, d)[k].finding, d)
  BY <1>1, VerifiedAre
<1> QED
  BY <1>2 DEF picked

LEMMA OfflineAre ==
  ASSUME NEW n \in Nat, NEW cands, DOMAIN cands = 1 .. n, \A k \in 1 .. n : IsCandidate(cands[k]),
         NEW scored, scored = Missing \/ AreScores(scored, n), NEW D, NEW d \in D, d \in Disks
  PROVE  PlacedIn(OfflineFindings(cands, scored, d, OfflineMax), D)
<1> DEFINE first == IF scored = Missing THEN <<>> ELSE SelectIndices(scored, 0)
           rest == InOrder(DOMAIN cands \ Range(first))
           order == first \o rest
           v == VerifiedFindings([k \in DOMAIN order |-> cands[order[k]]], d)
           m == Lower(OfflineMax, Len(v))
           w == SubSeq(v, 1, m)
<1>1. first \in Seq(1 .. n)
  <2>1. CASE scored = Missing
    BY <2>1
  <2>2. CASE scored # Missing
    <3>1. PICK l \in Nat : SelectIndices(scored, 0) \in [1 .. l -> 1 .. n]
      BY <2>2, SelectedAre
    <3> QED
      BY <2>2, <3>1, SeqDef
  <2> QED
    BY <2>1, <2>2
<1> HIDE DEF first
<1>2. rest \in Seq(1 .. n)
  <2> DEFINE S == DOMAIN cands \ Range(first)
  <2>1. S \in SUBSET (1 .. n)
    OBVIOUS
  <2> HIDE DEF S
  <2>2. Cardinality(S) \in 0 .. n
    BY <2>1, InOrderLists
  <2>3. InOrder(S) \in [1 .. Cardinality(S) -> S]
    BY <2>1, InOrderLists
  <2>4. Cardinality(S) \in Nat
    BY <2>2
  <2>5. InOrder(S) \in [1 .. Cardinality(S) -> 1 .. n]
    BY <2>1, <2>3
  <2>6. InOrder(S) \in Seq(1 .. n)
    BY <2>4, <2>5, SeqDef
  <2> QED
    BY <2>6 DEF S
<1> HIDE DEF rest
<1>3. Len(order) \in Nat /\ order \in [1 .. Len(order) -> 1 .. n]
  BY <1>1, <1>2, ConcatProperties, LenProperties
<1> HIDE DEF order
<1>4. IsList(v) /\ \A k \in 1 .. Len(v) : Placed(v[k].finding, d)
  BY <1>3, ChosenAre
<1> HIDE DEF v
<1>5. m \in 0 .. Len(v) /\ Len(v) \in Nat /\ DOMAIN v = 1 .. Len(v) /\ v \in Seq(Range(v))
  BY <1>4, ListIs, CountsAreNat DEF Lower
<1>6. w \in Seq(Range(v)) /\ Len(w) = m /\ \A k \in 1 .. m : w[k] = v[k]
  <2>1. \A k \in 1 .. m : v[k] \in Range(v)
    BY <1>5 DEF Range
  <2> HIDE DEF m
  <2>2. /\ SubSeq(v, 1, m) \in Seq(Range(v)) /\ Len(SubSeq(v, 1, m)) = IF 1 <= m THEN m - 1 + 1 ELSE 0
        /\ \A k \in 1 .. m - 1 + 1 : SubSeq(v, 1, m)[k] = v[1 + k - 1]
    BY <1>5, <2>1, SubSeqProperties
  <2> QED
    BY <1>5, <2>2
<1> HIDE DEF w, m
<1>7. IsList(w) /\ \A k \in 1 .. Len(w) : Placed(w[k].finding, d)
  BY <1>4, <1>5, <1>6, SeqIsList
<1>8. PlacedIn(FindingsIn(w), D)
  BY <1>7, FindingsInAre
<1>9. OfflineFindings(cands, scored, d, OfflineMax) = FindingsIn(w)
  BY DEF OfflineFindings, w, m, v, order, rest, first
<1> QED
  BY <1>8, <1>9

-----------------------------------------------------------------------------
\* Some of the first ones.
LEMMA FirstFindings ==
  ASSUME NEW s, AreFindings(s), NEW max \in Nat
  PROVE  AreFindings(SubSeq(s, 1, Lower(max, Len(s))))
<1> DEFINE m == Lower(max, Len(s))
<1>1. /\ Len(s) \in Nat /\ DOMAIN s = 1 .. Len(s) /\ s \in Seq(Range(s))
      /\ \A k \in 1 .. Len(s) : IsFinding(s[k])
  BY FindingsList
<1>2. m \in 0 .. Len(s)
  BY <1>1 DEF Lower
<1> HIDE DEF m
<1>3. \A k \in 1 .. m : s[k] \in Range(s)
  BY <1>1, <1>2 DEF Range
<1>4. /\ SubSeq(s, 1, m) \in Seq(Range(s)) /\ Len(SubSeq(s, 1, m)) = IF 1 <= m THEN m - 1 + 1 ELSE 0
      /\ \A k \in 1 .. m - 1 + 1 : SubSeq(s, 1, m)[k] = s[1 + k - 1]
  BY <1>2, <1>3, SubSeqProperties
<1>5. Len(SubSeq(s, 1, m)) = m /\ \A k \in 1 .. m : SubSeq(s, 1, m)[k] = s[k]
  BY <1>1, <1>2, <1>4
<1>6. IsList(SubSeq(s, 1, m))
  BY <1>4, SeqIsList
<1>7. \A k \in 1 .. Len(SubSeq(s, 1, m)) : IsFinding(SubSeq(s, 1, m)[k])
  BY <1>1, <1>2, <1>5
<1> QED
  BY <1>6, <1>7 DEF AreFindings, m

LEMMA CompressedAre ==
  ASSUME NEW s, AreFindings(s), NEW cap
  PROVE  AreFindings(CompressFindings(s, cap))
<1> DEFINE t == TidyFindings(s, cap)
           n == Len(t)
           before(f, g) == \/ PathRank[f.loc.path] < PathRank[g.loc.path]
                           \/ f.loc.path = g.loc.path /\ f.loc.start < g.loc.start
           earlier(i, j) == before(t[i], t[j]) \/ (~before(t[j], t[i]) /\ i < j)
           rank == [i \in DOMAIN t |-> Cardinality({j \in DOMAIN t : earlier(j, i)}) + 1]
           order == ByRank(rank)
           c == [k \in DOMAIN order |-> t[order[k]]]
<1>1. CompressFindings(s, cap) = c
  BY DEF CompressFindings, Sorted
<1>2. /\ AreFindings(t)
      /\ \A k \in DOMAIN t : \E i \in DOMAIN s :
           t[k] = [loc |-> Plainly(s[i]).loc, text |-> CapSnippet(s[i].text, cap), note |-> s[i].note]
  BY Tidied
<1>3. \A k \in DOMAIN t : t[k].loc.path \in DOMAIN PathRank /\ t[k].loc.start \in Nat
  <2> SUFFICES ASSUME NEW k \in DOMAIN t
               PROVE  t[k].loc.path \in DOMAIN PathRank /\ t[k].loc.start \in Nat
    OBVIOUS
  <2>1. PICK i \in DOMAIN s : t[k].loc = Plainly(s[i]).loc
    BY <1>2
  <2>2. IsFinding(s[i])
    BY FindingsList
  <2>3. Plainly(s[i]).loc = [path |-> Plain[s[i].loc.path], start |-> s[i].loc.start, end |-> s[i].loc.end]
    BY <2>2, PlainlyIs
  <2> QED
    BY <2>1, <2>2, <2>3, PathsAreOrdered DEF IsFinding, IsLocation
<1> HIDE DEF t
<1>4. n \in Nat /\ DOMAIN t = 1 .. n /\ \A k \in 1 .. n : IsFinding(t[k])
  BY <1>2, FindingsList
<1> DEFINE a == [i \in 1 .. n |-> PathRank[t[i].loc.path]]
           b == [i \in 1 .. n |-> t[i].loc.start]
           ahead(i, j) == a[i] < a[j] \/ (a[i] = a[j] /\ b[i] < b[j])
           R == {p \in (1 .. n) \X (1 .. n) : ahead(p[1], p[2]) \/ (~ahead(p[2], p[1]) /\ p[1] < p[2])}
           ranked == [x \in 1 .. n |-> Cardinality({y \in 1 .. n : <<y, x>> \in R}) + 1]
<1>5. \A i \in 1 .. n : a[i] \in Nat /\ b[i] \in Nat
  BY <1>3, <1>4, PathsAreOrdered
<1>6. \A i, j \in 1 .. n : before(t[i], t[j]) <=> ahead(i, j)
  <2> SUFFICES ASSUME NEW i \in 1 .. n, NEW j \in 1 .. n PROVE before(t[i], t[j]) <=> ahead(i, j)
    OBVIOUS
  <2>1. t[i].loc.path = t[j].loc.path <=> a[i] = a[j]
    BY <1>3, <1>4, PathsAreOrdered
  <2> QED
    BY <2>1
<1> HIDE DEF n, before
<1>7. \A i, j \in 1 .. n : <<i, j>> \in R <=> earlier(i, j)
  BY <1>6
<1> HIDE DEF earlier
<1>8. rank = ranked
  <2>1. \A x \in 1 .. n : {j \in 1 .. n : earlier(j, x)} = {y \in 1 .. n : <<y, x>> \in R}
    BY <1>7
  <2> QED
    BY <1>4, <2>1
<1> HIDE DEF a, b
<1>9. /\ \A x \in 1 .. n : <<x, x>> \notin R
      /\ \A x, y, z \in 1 .. n : <<x, y>> \in R /\ <<y, z>> \in R => <<x, z>> \in R
      /\ \A x, y \in 1 .. n : x = y \/ <<x, y>> \in R \/ <<y, x>> \in R
  <2>1. \A x, y \in 1 .. n : <<x, y>> \in R <=> (ahead(x, y) \/ (~ahead(y, x) /\ x < y))
    OBVIOUS
  <2> HIDE DEF R
  <2>2. \A x \in 1 .. n : <<x, x>> \notin R
    <3> SUFFICES ASSUME NEW x \in 1 .. n PROVE ~(ahead(x, x) \/ (~ahead(x, x) /\ x < x))
      BY <2>1
    <3>1. a[x] \in Nat /\ b[x] \in Nat /\ x \in Int
      BY <1>5
    <3> QED
      BY <3>1
  <2>3. \A x, y \in 1 .. n : x = y \/ <<x, y>> \in R \/ <<y, x>> \in R
    <3> SUFFICES ASSUME NEW x \in 1 .. n, NEW y \in 1 .. n
                 PROVE  x = y \/ <<x, y>> \in R \/ <<y, x>> \in R
      OBVIOUS
    <3>1. x \in Int /\ y \in Int
      OBVIOUS
    <3>2. x = y \/ (ahead(x, y) \/ (~ahead(y, x) /\ x < y)) \/ (ahead(y, x) \/ (~ahead(x, y) /\ y < x))
      BY <3>1
    <3> QED
      BY <2>1, <3>2
  <2>4. \A x, y, z \in 1 .. n : <<x, y>> \in R /\ <<y, z>> \in R => <<x, z>> \in R
    <3> SUFFICES ASSUME NEW x \in 1 .. n, NEW y \in 1 .. n, NEW z \in 1 .. n, <<x, y>> \in R, <<y, z>> \in R
                 PROVE  <<x, z>> \in R
      OBVIOUS
    <3>1. /\ a[x] \in Nat /\ a[y] \in Nat /\ a[z] \in Nat /\ b[x] \in Nat /\ b[y] \in Nat /\ b[z] \in Nat
          /\ x \in Int /\ y \in Int /\ z \in Int
      BY <1>5
    <3>2. /\ ahead(x, y) \/ (~ahead(y, x) /\ x < y)
          /\ ahead(y, z) \/ (~ahead(z, y) /\ y < z)
      BY <2>1
    <3>3. ahead(x, z) \/ (~ahead(z, x) /\ x < z)
      BY <3>1, <3>2
    <3> QED
      BY <2>1, <3>3
  <2> QED
    BY <2>2, <2>3, <2>4
<1> HIDE DEF R
<1>10. IsFiniteSet(1 .. n) /\ Cardinality(1 .. n) = n
  BY <1>4, FS_Interval
<1>11. ranked \in [1 .. n -> 1 .. n] /\ \A x, y \in 1 .. n : ranked[x] = ranked[y] => x = y
  BY <1>9, <1>10, OrderRanks
<1> HIDE DEF rank, ranked
<1>12. order \in [1 .. n -> 1 .. n]
  BY <1>8, <1>10, <1>11, ByRankLists
<1> HIDE DEF order
<1>13. c = [k \in 1 .. n |-> c[k]] /\ \A k \in 1 .. n : IsFinding(c[k])
  BY <1>4, <1>12
<1> HIDE DEF c
<1> QED
  BY <1>1, <1>4, <1>13, TypedFindings

\* Paths in their order.
LEMMA PathsInOrder ==
  ASSUME NEW W, IsFiniteSet(W), W \subseteq DOMAIN PathRank
  PROVE  LET paths == ByRank([p \in W |-> Cardinality({q \in W : PathRank[q] < PathRank[p]}) + 1])
         IN  Cardinality(W) \in Nat /\ paths \in [1 .. Cardinality(W) -> W]
<1> DEFINE R == {p \in W \X W : PathRank[p[1]] < PathRank[p[2]]}
           rank == [p \in W |-> Cardinality({q \in W : PathRank[q] < PathRank[p]}) + 1]
           ranked == [x \in W |-> Cardinality({y \in W : <<y, x>> \in R}) + 1]
<1>1. \A p \in W : PathRank[p] \in Nat
  BY PathsAreOrdered
<1>2. \A p, q \in W : PathRank[p] = PathRank[q] => p = q
  BY PathsAreOrdered
<1>3. \A x, y \in W : <<x, y>> \in R <=> PathRank[x] < PathRank[y]
  OBVIOUS
<1> HIDE DEF R
<1>4. /\ \A x \in W : <<x, x>> \notin R
      /\ \A x, y, z \in W : <<x, y>> \in R /\ <<y, z>> \in R => <<x, z>> \in R
      /\ \A x, y \in W : x = y \/ <<x, y>> \in R \/ <<y, x>> \in R
  <2>1. \A x \in W : <<x, x>> \notin R
    BY <1>1, <1>3
  <2>2. \A x, y \in W : x = y \/ <<x, y>> \in R \/ <<y, x>> \in R
    <3> SUFFICES ASSUME NEW x \in W, NEW y \in W PROVE x = y \/ <<x, y>> \in R \/ <<y, x>> \in R
      OBVIOUS
    <3>1. PathRank[x] \in Nat /\ PathRank[y] \in Nat
      BY <1>1
    <3>2. PathRank[x] = PathRank[y] \/ PathRank[x] < PathRank[y] \/ PathRank[y] < PathRank[x]
      BY <3>1
    <3> QED
      BY <1>2, <1>3, <3>2
  <2>3. \A x, y, z \in W : <<x, y>> \in R /\ <<y, z>> \in R => <<x, z>> \in R
    <3> SUFFICES ASSUME NEW x \in W, NEW y \in W, NEW z \in W, <<x, y>> \in R, <<y, z>> \in R
                 PROVE  <<x, z>> \in R
      OBVIOUS
    <3>1. PathRank[x] < PathRank[y] /\ PathRank[y] < PathRank[z]
      BY <1>3
    <3>2. PathRank[x] \in Nat /\ PathRank[y] \in Nat /\ PathRank[z] \in Nat
      BY <1>1
    <3>3. PathRank[x] < PathRank[z]
      BY <3>1, <3>2
    <3> QED
      BY <1>3, <3>3
  <2> QED
    BY <2>1, <2>2, <2>3
<1>5. rank = ranked
  <2>1. \A x \in W : {q \in W : PathRank[q] < PathRank[x]} = {y \in W : <<y, x>> \in R}
    BY <1>3
  <2> QED
    BY <2>1
<1>6. ranked \in [W -> 1 .. Cardinality(W)] /\ \A x, y \in W : ranked[x] = ranked[y] => x = y
  BY <1>4, OrderRanks
<1> HIDE DEF rank, ranked
<1>7. Cardinality(W) \in Nat /\ ByRank(ranked) \in [1 .. Cardinality(W) -> W]
  BY <1>6, ByRankLists
<1> QED
  BY <1>5, <1>7 DEF rank

LEMMA LinesFoundAre ==
  ASSUME NEW p \in DOMAIN Plain, NEW lines, IsList(lines), NEW pattern
  PROVE  AreFindings(LinesFound(p, lines, pattern))
<1> DEFINE S == {i \in DOMAIN lines : LineMatches(lines[i], pattern)}
           at == InOrder(S)
           s == LinesFound(p, lines, pattern)
           m == Cardinality(S)
<1>1. Len(lines) \in Nat /\ DOMAIN lines = 1 .. Len(lines)
  BY ListIs
<1>2. S \in SUBSET (1 .. Len(lines))
  BY <1>1
<1>3. s = [k \in DOMAIN at |-> [loc |-> [path |-> p, start |-> at[k], end |-> at[k]],
                                text |-> lines[at[k]], note |-> Missing]]
  BY DEF LinesFound
<1> HIDE DEF S
<1>4. m \in Nat /\ at \in [1 .. m -> S]
  <2>1. m \in 0 .. Len(lines)
    BY <1>1, <1>2, InOrderLists
  <2>2. at \in [1 .. m -> S]
    BY <1>1, <1>2, InOrderLists
  <2> HIDE DEF m, at
  <2> QED
    BY <1>1, <2>1, <2>2
<1> HIDE DEF at, s, m
<1>5. \A k \in 1 .. m : at[k] \in Nat
  <2> SUFFICES ASSUME NEW k \in 1 .. m PROVE at[k] \in Nat
    OBVIOUS
  <2>1. at[k] \in S
    BY <1>4
  <2>2. at[k] \in 1 .. Len(lines)
    BY <1>2, <2>1
  <2> QED
    BY <1>1, <2>2
<1>6. ASSUME NEW k \in 1 .. m PROVE IsFinding(s[k])
  <2> DEFINE loc == [path |-> p, start |-> at[k], end |-> at[k]]
             f == [loc |-> loc, text |-> lines[at[k]], note |-> Missing]
  <2>1. s[k] = f
    BY <1>3, <1>4
  <2>2. IsLocation(loc)
    BY <1>5 DEF IsLocation
  <2> HIDE DEF loc
  <2>3. IsFinding(f)
    BY <2>2 DEF IsFinding
  <2> QED
    BY <2>1, <2>3
<1>7. s = [k \in 1 .. m |-> s[k]]
  BY <1>3, <1>4
<1> QED
  BY <1>4, <1>6, <1>7, TypedFindings DEF s

LEMMA PatternFoundAre ==
  ASSUME NEW d \in Disks, NEW c,
         Given(c.args, "max_results") = Missing \/ Given(c.args, "max_results") \in Nat
  PROVE  AreFindings(PatternFound(c, d))
<1> DEFINE names == c.name = "find"
           files == Searchable(d)
           pattern == IF names THEN AnyToken ELSE c.args.pattern
           glob == IF names THEN c.args.pattern ELSE Missing
           max == Given(c.args, "max_results")
           W == Walked(files, glob, Given(c.args, "scope"))
           paths == ByRank([p \in W |-> Cardinality({q \in W : PathRank[q] < PathRank[p]}) + 1])
           parts == [k \in DOMAIN paths |-> LinesFound(paths[k], files[paths[k]].lines, pattern)]
           all == FlattenSeq(parts)
           found == TextFound(files, pattern, glob, Given(c.args, "scope"), max)
           n == Cardinality(W)
<1>1. /\ DOMAIN files \subseteq DOMAIN d
      /\ \A p \in DOMAIN files : files[p] = d[p] /\ ReadCanonical(d, p) # Missing
  BY DEF Searchable
<1>2. W \subseteq DOMAIN files
  BY DEF Walked
<1>3. found = IF max = Missing THEN all ELSE SubSeq(all, 1, Lower(max, Len(all)))
  BY DEF TextFound
<1> HIDE DEF files, W, found, max
<1>4. IsFiniteSet(W) /\ W \subseteq DOMAIN PathRank /\ W \subseteq DOMAIN Plain
  <2>1. IsFiniteSet(DOMAIN d) /\ DOMAIN d \subseteq DOMAIN Plain \cap DOMAIN PathRank
    BY DisksAreTyped
  <2>2. W \in SUBSET DOMAIN d
    BY <1>1, <1>2
  <2>3. IsFiniteSet(W)
    BY <2>1, <2>2, FS_Subset
  <2> QED
    BY <2>1, <2>2, <2>3
<1>5. n \in Nat /\ paths \in [1 .. n -> W]
  BY <1>4, PathsInOrder
<1>6. \A p \in W : IsList(files[p].lines)
  BY <1>1, <1>2, DisksAreTyped DEF ReadCanonical
<1> HIDE DEF paths, n, pattern
<1>7. parts = [k \in 1 .. n |-> parts[k]] /\ \A k \in 1 .. n : AreFindings(parts[k])
  <2>1. \A k \in 1 .. n : parts[k] = LinesFound(paths[k], files[paths[k]].lines, pattern)
    BY <1>5
  <2>2. \A k \in 1 .. n : AreFindings(parts[k])
    BY <1>4, <1>5, <1>6, <2>1, LinesFoundAre
  <2> QED
    BY <1>5, <2>2
<1> HIDE DEF parts
<1>8. AreFindings(all)
  BY <1>5, <1>7, FlattenedFindings
<1> HIDE DEF all
<1>9. AreFindings(found)
  BY <1>3, <1>8, FirstFindings DEF max
<1> DEFINE cut(f) == SliceLines(d[f.loc.path], f.loc.start, f.loc.end)
           s == [k \in DOMAIN found |-> [found[k] EXCEPT !.text = cut(found[k])]]
<1>10. PatternFound(c, d) = s
  BY DEF PatternFound, found, files, max, pattern
<1>11. Len(found) \in Nat /\ DOMAIN found = 1 .. Len(found) /\ \A k \in 1 .. Len(found) : IsFinding(found[k])
  BY <1>9, FindingsList
<1>12. \A k \in 1 .. Len(found) : IsFinding(s[k])
  <2> SUFFICES ASSUME NEW k \in 1 .. Len(found) PROVE IsFinding(s[k])
    OBVIOUS
  <2> DEFINE f == found[k]
             t == cut(f)
  <2>1. s[k] = [f EXCEPT !.text = t]
    BY <1>11
  <2>2. IsFinding(f)
    BY <1>11
  <2> HIDE DEF f, t, s
  <2>3. [f EXCEPT !.text = t] = [loc |-> f.loc, text |-> t, note |-> f.note]
    BY <2>2 DEF IsFinding
  <2> QED
    BY <2>1, <2>2, <2>3 DEF IsFinding
<1>13. s = [k \in 1 .. Len(found) |-> s[k]]
  BY <1>11
<1> HIDE DEF s
<1> QED
  BY <1>10, <1>11, <1>12, <1>13, TypedFindings

\* What a call shows: findings, and lines of a file.
AreShown(s) == IsList(s) /\ \A k \in 1 .. Len(s) : s[k].note # LinesRead => IsFinding(s[k])

LEMMA DispatchedAre ==
  ASSUME NEW reply \in Replies, reply # Missing, NEW c \in Range(reply.calls), NEW d \in Disks, NEW cap
  PROVE  AreShown(Dispatched(c, d, cap))
<1>1. AreShown(<<>>)
  BY DEF AreShown, IsList
<1>2. \A s : AreFindings(s) => AreShown(s)
  BY DEF AreFindings, AreShown
<1>3. CASE ~(c.name \in DOMAIN Advertised /\ Accepted(c) /\ ~EscapesRepoRoot(c.args))
  BY <1>1, <1>3 DEF Dispatched
<1>4. CASE c.name \in DOMAIN Advertised /\ Accepted(c) /\ ~EscapesRepoRoot(c.args)
  <2>1. CASE c.name \in {"grep", "find"}
    <3>1. Dispatched(c, d, cap) = CompressFindings(PatternFound(c, d), cap)
      BY <1>4, <2>1 DEF Dispatched
    <3>2. AreFindings(PatternFound(c, d))
      BY <1>4, <2>1, RepliesAreTyped, PatternFoundAre
    <3> QED
      BY <1>2, <3>1, <3>2, CompressedAre
  <2>2. CASE c.name = "read_file"
    <3>1. \A path, start, end : ReadLines(d, path, start, end) = <<>>
             \/ \E loc, text : ReadLines(d, path, start, end) = <<[loc |-> loc, text |-> text, note |-> LinesRead]>>
      BY DEF ReadLines
    <3>2. \A loc, text : AreShown(<<[loc |-> loc, text |-> text, note |-> LinesRead]>>)
      <4> SUFFICES ASSUME NEW loc, NEW text PROVE AreShown(<<[loc |-> loc, text |-> text, note |-> LinesRead]>>)
        OBVIOUS
      <4> DEFINE x == [loc |-> loc, text |-> text, note |-> LinesRead]
      <4>1. x.note = LinesRead
        OBVIOUS
      <4> HIDE DEF x
      <4>2. <<x>> \in Seq({x}) /\ Len(<<x>>) = 1 /\ <<x>>[1] = x
        OBVIOUS
      <4>3. IsList(<<x>>)
        BY <4>2, SeqIsList
      <4>4. \A k \in 1 .. 1 : k = 1
        OBVIOUS
      <4>5. AreShown(<<x>>)
        BY <4>1, <4>2, <4>3, <4>4 DEF AreShown
      <4> QED
        BY <4>5 DEF x
    <3>3. \E path, start, end : Dispatched(c, d, cap) = ReadLines(d, path, start, end)
      BY <1>4, <2>2 DEF Dispatched, ReadFile
    <3> QED
      BY <1>1, <3>1, <3>2, <3>3
  <2>3. CASE c.name \notin {"grep", "find", "read_file"}
    <3>1. Dispatched(c, d, cap) =
            IF Graph[c.name] = Missing THEN <<>> ELSE CompressFindings(Graph[c.name], cap)
      BY <1>4, <2>3 DEF Dispatched
    <3>2. Graph[c.name] = Missing \/ AreFindings(Graph[c.name])
      BY <1>4, GraphIsTyped
    <3> QED
      BY <1>1, <1>2, <3>1, <3>2, CompressedAre
  <2> QED
    BY <2>1, <2>2, <2>3
<1> QED
  BY <1>3, <1>4

\* The findings among what is shown.
LEMMA FindingsShownAre ==
  ASSUME NEW s, AreShown(s)
  PROVE  /\ AreFindings(FindingsShown(s))
         /\ Range(FindingsShown(s)) = {x \in Range(s) : x.note # LinesRead}
<1> DEFINE S == {k \in DOMAIN s : s[k].note # LinesRead}
           t == FindingsShown(s)
           m == Cardinality(S)
           at == InOrder(S)
<1>1. Len(s) \in Nat /\ DOMAIN s = 1 .. Len(s)
  BY ListIs DEF AreShown
<1>2. S \in SUBSET (1 .. Len(s)) /\ t = Picked(s, S)
  BY <1>1 DEF FindingsShown
<1>3. \A k \in S : IsFinding(s[k])
  BY <1>1 DEF AreShown
<1>4. /\ \A i \in S : s[i] \in Range(s) /\ s[i].note # LinesRead
      /\ \A x \in Range(s) : x.note # LinesRead => \E i \in S : x = s[i]
  BY DEF Range
<1> HIDE DEF S, t
<1>5. /\ m \in Nat /\ t = [k \in 1 .. m |-> s[at[k]]]
      /\ \A k \in 1 .. m : at[k] \in S
      /\ \A i \in S : \E k \in 1 .. m : at[k] = i
  <2>1. /\ Cardinality(S) \in 0 .. Len(s)
        /\ Picked(s, S) = [k \in 1 .. Cardinality(S) |-> s[InOrder(S)[k]]]
        /\ \A k \in 1 .. Cardinality(S) : InOrder(S)[k] \in S
        /\ \A i \in S : \E k \in 1 .. Cardinality(S) : InOrder(S)[k] = i
    BY <1>1, <1>2, PickedLists
  <2> QED
    BY <1>1, <1>2, <2>1
<1> HIDE DEF m, at
<1>6. t = [k \in 1 .. m |-> t[k]] /\ \A k \in 1 .. m : IsFinding(t[k])
  BY <1>3, <1>5
<1>7. AreFindings(t) /\ DOMAIN t = 1 .. m
  BY <1>5, <1>6, TypedFindings
<1>8. \A x : x \in Range(t) <=> \E i \in S : x = s[i]
  BY <1>5, <1>7 DEF Range
<1>9. Range(t) = {x \in Range(s) : x.note # LinesRead}
  BY <1>4, <1>8
<1> QED
  BY <1>7, <1>9 DEF t

\* What the other calls of a turn show is a list of lists.
LEMMA ShownAre ==
  ASSUME NEW reply \in Replies, NEW disks \in [DOMAIN OtherCalls(CallsOf(reply)) -> Disks]
  PROVE  LET shown == ShownOf(reply, disks)
         IN  /\ IsList(shown) /\ \A k \in 1 .. Len(shown) : AreShown(shown[k])
             /\ DOMAIN shown = DOMAIN OtherCalls(CallsOf(reply))
             /\ AreShown(FlattenSeq(shown))
             /\ Range(FlattenSeq(shown)) = UNION {Range(shown[k]) : k \in 1 .. Len(shown)}
<1> DEFINE calls == CallsOf(reply)
           S == {k \in DOMAIN calls : calls[k].name # "finish"}
           m == Cardinality(S)
           others == OtherCalls(calls)
           shown == ShownOf(reply, disks)
<1>1. /\ Len(calls) \in Nat /\ DOMAIN calls = 1 .. Len(calls)
      /\ calls # <<>> => reply # Missing /\ calls = reply.calls
  BY CallsAre
<1>2. S \in SUBSET (1 .. Len(calls)) /\ others = Picked(calls, S)
  BY <1>1 DEF OtherCalls
<1>3. shown = [k \in DOMAIN others |->
                 IF Rejected(reply) THEN <<>> ELSE Dispatched(others[k], disks[k], Settings.cap)]
  BY DEF ShownOf
<1> HIDE DEF calls, S, others, shown
<1>4. /\ m \in Nat /\ others = [k \in 1 .. m |-> calls[InOrder(S)[k]]]
      /\ \A k \in 1 .. m : InOrder(S)[k] \in S
  <2>1. /\ Cardinality(S) \in 0 .. Len(calls)
        /\ Picked(calls, S) = [k \in 1 .. Cardinality(S) |-> calls[InOrder(S)[k]]]
        /\ \A k \in 1 .. Cardinality(S) : InOrder(S)[k] \in S
    BY <1>1, <1>2, PickedLists
  <2> QED
    BY <1>1, <1>2, <2>1
<1> HIDE DEF m
<1>5. \A k \in 1 .. m : others[k] \in Range(calls) /\ calls # <<>>
  <2> SUFFICES ASSUME NEW k \in 1 .. m PROVE others[k] \in Range(calls) /\ calls # <<>>
    OBVIOUS
  <2>1. InOrder(S)[k] \in DOMAIN calls
    BY <1>1, <1>2, <1>4
  <2>2. calls # <<>>
    BY <2>1
  <2> QED
    BY <1>4, <2>1, <2>2 DEF Range
<1>6. ASSUME NEW k \in 1 .. m PROVE AreShown(shown[k])
  <2>1. shown[k] = <<>> \/ shown[k] = Dispatched(others[k], disks[k], Settings.cap)
    BY <1>3, <1>4
  <2>2. disks[k] \in Disks
    <3>1. k \in DOMAIN others
      BY <1>4
    <3> QED
      BY <3>1 DEF others, calls
  <2>3. AreShown(Dispatched(others[k], disks[k], Settings.cap))
    BY <1>1, <1>5, <2>2, DispatchedAre
  <2>4. AreShown(<<>>)
    BY DEF AreShown, IsList
  <2> QED
    BY <2>1, <2>3, <2>4
<1>7. shown = [k \in 1 .. m |-> shown[k]] /\ DOMAIN others = 1 .. m
  BY <1>3, <1>4
<1>8. IsList(shown) /\ Len(shown) = m /\ DOMAIN shown = 1 .. m
  BY <1>4, <1>7, ListOf
<1> DEFINE all == FlattenSeq(shown)
<1>9. IsList(all) /\ Range(all) = UNION {Range(shown[k]) : k \in 1 .. m}
  BY <1>4, <1>6, <1>7, Flattened DEF AreShown
<1> HIDE DEF all
<1>10. \A k \in 1 .. m : \A x \in Range(shown[k]) : x.note # LinesRead => IsFinding(x)
  BY <1>6, ListIs DEF AreShown, Range
<1>11. \A x \in Range(all) : x.note # LinesRead => IsFinding(x)
  BY <1>9, <1>10
<1>12. AreShown(all)
  <2>1. \A k \in 1 .. Len(all) : all[k] \in Range(all)
    BY <1>9, ListIs DEF Range
  <2> QED
    BY <1>9, <1>11, <2>1 DEF AreShown
<1> QED
  BY <1>6, <1>7, <1>8, <1>9, <1>12 DEF shown, all, others, calls

\* The candidates as findings.
LEMMA CandidatesAsFindings ==
  ASSUME Shape
  PROVE  AreFindings([i \in DOMAIN Candidates |-> FindingOf(Candidates[i])])
<1> DEFINE s == [i \in DOMAIN Candidates |-> FindingOf(Candidates[i])]
           n == Len(Candidates)
<1>1. n \in Nat /\ DOMAIN Candidates = 1 .. n /\ \A k \in 1 .. n : IsCandidate(Candidates[k])
  BY CandidatesAre
<1>2. \A k \in 1 .. n : IsFinding(FindingOf(Candidates[k]))
  BY <1>1 DEF FindingOf, IsFinding, IsCandidate
<1>3. s = [k \in 1 .. n |-> s[k]] /\ \A k \in 1 .. n : IsFinding(s[k])
  BY <1>1, <1>2
<1> HIDE DEF s, n
<1>4. AreFindings(s)
  BY <1>1, <1>3, TypedFindings
<1> QED
  BY <1>4 DEF s

LEMMA MoreFiles ==
  /\ \A s, D, E : PlacedIn(s, D) /\ D \subseteq E => PlacedIn(s, E)
  /\ \A s, D, E : CutIn(s, D) /\ D \subseteq E => CutIn(s, E)
BY DEF PlacedIn, CutIn

-----------------------------------------------------------------------------
(***************************************************************************)
(* Everything found so far is a list of findings; what was verified lies   *)
(* within files as they were at some time of the run.                      *)
(***************************************************************************)
Ended ==
  \/ answer = [by |-> "error", raw |-> <<>>, findings |-> <<>>]
  \/ /\ answer = Answered(answer.by, answer.raw) /\ AreFindings(answer.raw)
     /\ answer.by # "stopped" => PlacedIn(answer.raw, seen)
     /\ answer.by \in {"verify", "loop"} => CutIn(answer.raw, seen)

ScoresFit == \A s \in {judge.scores, scores} : s = Missing \/ AreScores(s, Len(Candidates))

Located ==
  /\ query \in QueriesOf(Requested)
  /\ disk \in seen /\ seen \subseteq Disks
  /\ llm.at = "finished" => CutIn(llm.findings, seen)
  /\ judge.at = "asked" => call.opinion \in Opinions
  /\ judge.at = "finished" => PlacedIn(judge.findings, seen)
  /\ ScoresFit
  /\ AreFindings(loop.findings)
  /\ pc = "over" => Ended

LEMMA CompletedEnds ==
  ASSUME NEW by, NEW raw, AreFindings(raw), UNCHANGED <<config, query, seen>>, Complete(by, raw),
         by # "stopped" => PlacedIn(raw, seen),
         by \in {"verify", "loop"} => CutIn(raw, seen)
  PROVE  Ended'
BY DEF Complete, Answered, Ended, Cap, Settings

LEMMA LocatedAtFirst == Init => Located
BY NoFindings DEF Init, Located, ScoresFit, Unjudged

\* What the facts are about.
locating == <<config, query, outcome, disk, pc, llm, judge, scores, loop, answer, seen>>

LEMMA LocatedFramed ==
  ASSUME Located, UNCHANGED locating, judge.at = "asked" => call'.opinion = call.opinion
  PROVE  Located'
BY DEF Located, locating, ScoresFit, Ended, Answered, Cap, Settings, Candidates

LEMMA GateLocates == Shape /\ Located /\ Gate => Located'
<1> SUFFICES ASSUME Shape, Located, Gate PROVE Located'
  OBVIOUS
<1>1. /\ UNCHANGED <<config, query, outcome, disk, call, scores, loop, seen>> /\ pc = "gate"
      /\ pc' = "over" => Complete("early", Early.raw)
      /\ llm' = llm \/ llm' = [llm EXCEPT !.at = IF Mode = "laya" THEN "none" ELSE "asking"]
      /\ judge' = judge \/ judge' = [judge EXCEPT !.at = IF Mode = "off" THEN "none" ELSE "rendering"]
  BY DEF Gate, Verifying, chosen, judging, Escalate
<1>2. judge'.scores = judge.scores /\ judge'.findings = judge.findings
      /\ (judge'.at = "asked" => judge.at = "asked") /\ (judge'.at = "finished" => judge.at = "finished")
  BY <1>1 DEF Shape
<1>3. llm'.findings = llm.findings /\ (llm'.at = "finished" => llm.at = "finished")
  BY <1>1 DEF Shape
<1>4. ASSUME pc' = "over" PROVE Ended'
  <2> DEFINE v == VerifiedFindings(Candidates, disk)
  <2>1. Early.raw = FindingsIn(v)
    BY DEF Early, Answered
  <2>2. disk \in seen /\ disk \in Disks
    BY DEF Located
  <2>3. IsList(v) /\ \A k \in 1 .. Len(v) : Placed(v[k].finding, disk)
    BY <2>2, CandidatesAre, VerifiedAre
  <2> HIDE DEF v
  <2>4. PlacedIn(Early.raw, seen)
    BY <2>1, <2>2, <2>3, FindingsInAre
  <2> QED
    BY <1>1, <1>4, <2>4, CompletedEnds DEF PlacedIn
<1>5. ScoresFit'
  BY <1>1, <1>2 DEF Located, ScoresFit, Candidates
<1> QED
  BY <1>1, <1>2, <1>3, <1>4, <1>5 DEF Located

LEMMA VerifyTurnLocates ==
  ASSUME Shape, Asking, Located, NEW reply \in Replies, VerifyTurn(reply)
  PROVE  Located'
<1>1. UNCHANGED <<config, query, outcome, disk, pc, judge, call, scores, loop, answer, seen>> /\ pc = "verify"
  BY DEF VerifyTurn, chosen, judging, Asking
<1> DEFINE result == ResolveFinish(Finishes(reply), disk, Candidates)
<1>2. \/ result # Missing /\ llm'.findings = result
      \/ llm'.at # "finished"
  <2>1. CASE result # Missing
    BY <2>1 DEF VerifyTurn
  <2>2. CASE result = Missing
    <3>1. \E at \in {"escalated", "asking"} : llm' = [llm EXCEPT !.at = at, !.turn = @ + 1]
      BY <2>2 DEF VerifyTurn
    <3> QED
      BY <3>1 DEF Shape
  <2> QED
    BY <2>1, <2>2
<1>3. ASSUME result # Missing PROVE CutIn(result, seen)
  <2>1. disk \in seen /\ disk \in Disks
    BY DEF Located
  <2>2. CutIn(result, {disk})
    BY <1>3, <2>1, CandidatesAre, ResolvedIs
  <2> QED
    BY <2>1, <2>2, MoreFiles
<1>4. llm'.at = "finished" => CutIn(llm'.findings, seen')
  BY <1>1, <1>2, <1>3
<1> QED
  BY <1>1, <1>4 DEF Located, ScoresFit, Candidates

LEMMA JudgeLocates ==
  ASSUME Costs, Judged, Located, (\E opinion \in Opinions : JudgeAsked(opinion)) \/ JudgeAnswers
  PROVE  Located'
<1>1. UNCHANGED <<config, query, outcome, disk, pc, llm, scores, loop, answer, seen>> /\ Shape
  BY DEF JudgeAsked, JudgeAnswers, chosen, Costs
<1>2. CASE \E opinion \in Opinions : JudgeAsked(opinion)
  <2>1. PICK opinion \in Opinions : JudgeAsked(opinion)
    BY <1>2
  <2>2. \/ judge' = [judge EXCEPT !.at = "escalated"]
        \/ judge' = [judge EXCEPT !.at = "asked"] /\ AskJudge(States, opinion)
    BY <2>1 DEF JudgeAsked
  <2>3. /\ judge'.scores = judge.scores /\ judge'.findings = judge.findings
        /\ judge'.at \in {"escalated", "asked"}
        /\ judge'.at = "asked" => AskJudge(States, opinion)
    BY <1>1, <2>2 DEF Shape
  <2>4. judge'.at = "asked" => call'.opinion = opinion
    BY <2>3 DEF AskJudge
  <2>5. ScoresFit'
    BY <1>1, <2>3 DEF Located, ScoresFit, Candidates
  <2> QED
    BY <1>1, <2>3, <2>4, <2>5 DEF Located, Ended, Answered, Cap, Settings
<1>3. CASE JudgeAnswers /\ call.at = "failed"
  <2>1. judge' = [judge EXCEPT !.at = "failed"]
    BY <1>3 DEF JudgeAnswers
  <2>2. judge'.at = "failed" /\ judge'.scores = judge.scores
    BY <1>1, <2>1 DEF Shape
  <2>3. ScoresFit'
    BY <1>1, <2>2 DEF Located, ScoresFit, Candidates
  <2> QED
    BY <1>1, <2>2, <2>3 DEF Located, Ended, Answered, Cap, Settings
<1>4. CASE JudgeAnswers /\ call.at # "failed"
  <2> DEFINE given == [i \in DOMAIN Candidates |-> ScoreOf(i)]
             selected == SelectIndices(given, config.judge.threshold)
             v == VerifiedFindings([k \in DOMAIN selected |-> Candidates[selected[k]]], disk)
             n == Len(Candidates)
  <2>1. /\ judge'.at # "asked" /\ judge'.scores = given /\ judge'.findings = FindingsIn(v)
        /\ judge.at = "asked" /\ UNCHANGED call
    BY <1>4 DEF JudgeAnswers, judging
  <2>2. n \in Nat /\ DOMAIN Candidates = 1 .. n /\ \A k \in 1 .. n : IsCandidate(Candidates[k])
    BY <1>1, CandidatesAre
  <2>3. call.opinion \in Opinions
    BY <2>1 DEF Located
  <2>4. \A i \in 1 .. n : ScoreOf(i) \in Nat \cup {Missing}
    <3>1. CallIsTheirs /\ call.at = "answered"
      BY <1>4, <2>1 DEF Judged, JudgeAnswers
    <3>2. \A i \in 1 .. n : call.opinion[i] \in Nat
      BY <1>1, <2>2, <2>3, OpinionsAreTyped DEF Candidates, Shape
    <3> QED
      BY <2>2, <3>1, <3>2, ScoreIsTheirs
  <2>5. AreScores(given, n)
    BY <2>2, <2>4 DEF AreScores
  <2>6. Len(Candidates') = n
    BY <1>1 DEF Candidates
  <2>7. disk \in seen /\ disk \in Disks
    BY DEF Located
  <2> HIDE DEF given, n
  <2>8. PICK m \in Nat : selected \in [1 .. m -> 1 .. n]
    BY <2>2, <2>5, SelectedAre
  <2> HIDE DEF selected
  <2>9. IsList(v) /\ \A k \in 1 .. Len(v) : Placed(v[k].finding, disk)
    BY <2>2, <2>7, <2>8, ChosenAre
  <2> HIDE DEF v
  <2>10. PlacedIn(FindingsIn(v), seen)
    BY <2>7, <2>9, FindingsInAre
  <2>11. ScoresFit'
    BY <1>1, <2>1, <2>5, <2>6 DEF Located, ScoresFit, Candidates, n
  <2> QED
    BY <1>1, <2>1, <2>10, <2>11 DEF Located, Ended, Answered, Cap, Settings
<1> QED
  BY <1>2, <1>3, <1>4

LEMMA WorksOpinion ==
  ASSUME Judged, JudgeWorks
  PROVE  call'.opinion = call.opinion
<1>1. call = [at |-> call.at, states |-> call.states, opinion |-> call.opinion, got |-> call.got]
  BY DEF Judged, JudgeWorks, CallIsTheirs
<1>2. CASE PostingFails \/ JobTimesOut \/ WorkerDies \/ LoadWorker \/ SubmitJob
  <2>1. call' = call \/ \E at : call' = [call EXCEPT !.at = at]
    BY <1>2 DEF PostingFails, JobTimesOut, WorkerDies, LoadWorker, SubmitJob
  <2> QED
    BY <1>1, <2>1
<1>3. CASE JudgeStates
  BY <1>1, <1>3 DEF JudgeStates
<1>4. ASSUME NEW k \in DOMAIN call.states, JudgeOne(k) PROVE call'.opinion = call.opinion
  BY <1>1, <1>4 DEF JudgeOne
<1> QED
  BY <1>2, <1>3, <1>4 DEF JudgeWorks, JudgeSteps

LEMMA SettleLocates == Shape /\ Located /\ Settle => Located'
<1> SUFFICES ASSUME Shape, Located, Settle PROVE Located'
  OBVIOUS
<1>1. UNCHANGED <<config, query, outcome, disk, loop, seen>> /\ pc = "verify"
  BY DEF Settle, chosen
<1>2. /\ (judge' = judge /\ call' = call) \/ judge' = Unjudged
      /\ scores' \in {scores, judge.scores}
      /\ llm' = llm \/ llm' = [llm EXCEPT !.at = "asking"]
  BY DEF Settle, SettleOff, SettleLaya, SettleShadow
<1>3. llm'.findings = llm.findings /\ (llm'.at = "finished" => llm.at = "finished")
  BY <1>2 DEF Shape
<1>4. ScoresFit'
  <2>1. judge'.scores \in {judge.scores, Missing}
    BY <1>2 DEF Unjudged
  <2>2. Candidates' = Candidates
    BY <1>1 DEF Candidates
  <2> QED
    BY <1>2, <2>1, <2>2 DEF Located, ScoresFit
<1>5. ASSUME pc' = "over" PROVE Ended'
  <2>1. \/ judge.at = "finished" /\ Complete("judge", judge.findings)
        \/ llm.at = "finished" /\ Complete("verify", llm.findings)
    BY <1>1, <1>5 DEF Settle, SettleOff, SettleLaya, SettleShadow, SettleLlm, Escalate
  <2>2. judge.at = "finished" => PlacedIn(judge.findings, seen)
    BY DEF Located
  <2>3. llm.at = "finished" => CutIn(llm.findings, seen)
    BY DEF Located
  <2>4. CASE judge.at = "finished" /\ Complete("judge", judge.findings)
    BY <1>1, <2>2, <2>4, CompletedEnds DEF PlacedIn
  <2>5. CASE llm.at = "finished" /\ Complete("verify", llm.findings)
    BY <1>1, <2>3, <2>5, CutIsPlaced, CompletedEnds DEF PlacedIn
  <2> QED
    BY <2>1, <2>4, <2>5
<1>6. /\ judge'.at = "asked" => judge.at = "asked" /\ call' = call
      /\ judge'.at = "finished" => judge.at = "finished" /\ judge'.findings = judge.findings
  BY <1>2 DEF Unjudged
<1> QED
  BY <1>1, <1>3, <1>4, <1>5, <1>6 DEF Located

LEMMA OfflineLocates == Shape /\ Located /\ OfflineFallback => Located'
<1> SUFFICES ASSUME Shape, Located, OfflineFallback PROVE Located'
  OBVIOUS
<1> DEFINE found == OfflineFindings(Candidates, scores, disk, OfflineMax)
<1>1. /\ UNCHANGED <<config, query, outcome, disk, llm, judge, call, scores, loop, seen>>
      /\ Complete("offline", found)
  BY DEF OfflineFallback, chosen, judging
<1>2. PlacedIn(found, seen)
  <2>1. disk \in seen /\ disk \in Disks
    BY DEF Located
  <2>2. scores = Missing \/ AreScores(scores, Len(Candidates))
    BY DEF Located, ScoresFit
  <2> QED
    BY <2>1, <2>2, CandidatesAre, OfflineAre
<1> HIDE DEF found
<1>3. Ended'
  BY <1>1, <1>2, CompletedEnds DEF PlacedIn
<1> QED
  BY <1>1, <1>3 DEF Located, ScoresFit, Candidates

LEMMA SynthesisAre ==
  ASSUME Shape, Located
  PROVE  /\ AreFindings(Synthesis)
         /\ \A f \in Range(loop.findings) \cup {FindingOf(c) : c \in Range(Candidates)} :
              DedupeKey(f) \in {DedupeKey(g) : g \in Range(Synthesis)}
<1> DEFINE more == [i \in DOMAIN Candidates |-> FindingOf(Candidates[i])]
<1>1. AreFindings(loop.findings) /\ AreFindings(more)
  BY CandidatesAsFindings DEF Located
<1>2. {FindingOf(c) : c \in Range(Candidates)} = Range(more)
  BY DEF Range
<1>3. Synthesis = Accumulate(loop.findings, more)
  BY DEF Synthesis
<1> HIDE DEF more
<1>4. /\ AreFindings(Synthesis)
      /\ \A f \in Range(loop.findings) \cup Range(more) :
           \E k \in DOMAIN Synthesis : DedupeKey(Synthesis[k]) = DedupeKey(f)
  BY <1>1, <1>3, KeptOnce
<1> QED
  BY <1>2, <1>4 DEF Range

LEMMA LoopTurnLocates ==
  ASSUME Shape, Located, NEW reply \in Replies, LoopTurn(reply)
  PROVE  Located'
<1> DEFINE result == ResolveFinish(Finishes(reply), disk, Seeds)
<1>1. /\ UNCHANGED <<config, query, outcome, disk, llm, judge, call, scores, seen>> /\ pc = "loop"
      /\ \/ Fail /\ loop' = loop
         \/ result # Missing /\ Complete("loop", result) /\ loop' = loop
         \/ /\ \E disks \in [DOMAIN OtherCalls(CallsOf(reply)) -> seen] :
                  loop' = NextLoop(reply, ShownOf(reply, disks))
            /\ UNCHANGED <<pc, answer>>
  BY DEF LoopTurn, Looping, chosen, judging
<1>2. disk \in seen /\ disk \in Disks /\ seen \subseteq Disks
  BY DEF Located
<1>3. ASSUME Fail, loop' = loop PROVE Located'
  <2>1. Ended'
    BY <1>3 DEF Fail, Ended
  <2> QED
    BY <1>1, <1>3, <2>1 DEF Located, ScoresFit, Candidates
<1>4. ASSUME result # Missing, Complete("loop", result), loop' = loop PROVE Located'
  <2>1. CutIn(result, {disk})
    BY <1>2, <1>4, CandidatesAre, ResolvedIs
  <2>2. CutIn(result, seen)
    BY <1>2, <2>1, MoreFiles
  <2> HIDE DEF result
  <2>3. Ended'
    BY <1>1, <1>4, <2>2, CutIsPlaced, CompletedEnds DEF PlacedIn
  <2> QED
    BY <1>1, <1>4, <2>3 DEF Located, ScoresFit, Candidates
<1>5. ASSUME NEW disks \in [DOMAIN OtherCalls(CallsOf(reply)) -> seen],
             loop' = NextLoop(reply, ShownOf(reply, disks)), UNCHANGED <<pc, answer>>
      PROVE  Located'
  <2> DEFINE shown == FindingsShown(FlattenSeq(ShownOf(reply, disks)))
  <2>1. AreFindings(shown)
    <3>1. disks \in [DOMAIN OtherCalls(CallsOf(reply)) -> Disks]
      BY <1>2
    <3> QED
      BY <3>1, ShownAre, FindingsShownAre
  <2>2. loop'.findings = Accumulate(loop.findings, shown)
    BY <1>5 DEF NextLoop
  <2> HIDE DEF shown
  <2>3. AreFindings(loop'.findings)
    BY <2>1, <2>2, KeptOnce DEF Located
  <2> QED
    BY <1>1, <1>5, <2>3 DEF Located, ScoresFit, Candidates
<1> QED
  BY <1>1, <1>3, <1>4, <1>5

LEMMA ForcedLocates ==
  ASSUME Shape, Located, NEW reply \in Replies, ForcedFinish(reply)
  PROVE  Located'
<1> DEFINE result == Lenient(reply, Seeds)
<1>1. /\ UNCHANGED <<config, query, outcome, disk, llm, judge, call, scores, loop, seen>>
      /\ IF result # Missing THEN Complete("loop", result) ELSE Complete("stopped", Synthesis)
  BY DEF ForcedFinish, chosen, judging
<1>2. disk \in seen /\ disk \in Disks
  BY DEF Located
<1>3. Ended'
  <2>1. CASE result # Missing
    <3>1. CutIn(result, {disk})
      BY <1>2, <2>1, CandidatesAre, LenientIs
    <3>2. CutIn(result, seen)
      BY <1>2, <3>1, MoreFiles
    <3> HIDE DEF result
    <3> QED
      BY <1>1, <2>1, <3>2, CutIsPlaced, CompletedEnds DEF PlacedIn
  <2>2. CASE result = Missing
    BY <1>1, <2>2, SynthesisAre, CompletedEnds
  <2> QED
    BY <2>1, <2>2
<1> HIDE DEF result
<1> QED
  BY <1>1, <1>3 DEF Located, ScoresFit, Candidates

LEMMA EditLocates ==
  ASSUME Located, NEW d \in Disks, Edit(d)
  PROVE  Located'
<1>1. /\ UNCHANGED <<config, query, outcome, pc, llm, judge, call, scores, loop, answer>> /\ pc # "over"
      /\ disk' = d /\ seen' = seen \cup {d}
  BY DEF Edit, chosen, judging
<1>2. seen \subseteq seen' /\ disk' \in seen' /\ (seen \subseteq Disks => seen' \subseteq Disks)
  BY <1>1
<1> QED
  BY <1>1, <1>2, MoreFiles DEF Located, ScoresFit, Candidates

LEMMA LocatedKept == Costs /\ Judged /\ Located /\ [Next]_vars => Located'
<1> SUFFICES ASSUME Costs, Judged, Located, [Next]_vars PROVE Located'
  OBVIOUS
<1>1. Shape /\ Asking
  BY DEF Costs
<1>2. CASE Gate
  BY <1>1, <1>2, GateLocates
<1>3. CASE (\E opinion \in Opinions : JudgeAsked(opinion)) \/ JudgeAnswers
  BY <1>3, JudgeLocates
<1>4. CASE JudgeWorks
  BY <1>4, WorksOpinion, LocatedFramed DEF JudgeWorks, locating, chosen
<1>5. ASSUME NEW reply \in Replies, VerifyTurn(reply) \/ LoopTurn(reply) \/ ForcedFinish(reply)
      PROVE  Located'
  BY <1>1, <1>5, VerifyTurnLocates, LoopTurnLocates, ForcedLocates
<1>6. CASE Settle
  BY <1>1, <1>6, SettleLocates
<1>7. CASE OfflineFallback
  BY <1>1, <1>7, OfflineLocates
<1>8. CASE OpenLoop \/ Over \/ UNCHANGED vars
  BY <1>8, LocatedFramed DEF OpenLoop, Over, vars, chosen, judging, locating
<1>9. ASSUME NEW d \in Disks, Edit(d) PROVE Located'
  BY <1>9, EditLocates
<1> QED
  BY <1>2, <1>3, <1>4, <1>5, <1>6, <1>7, <1>8, <1>9 DEF Next, Step

LEMMA MaxIs ==
  ASSUME Located
  PROVE  query.max \in Nat \cup {Missing}
BY RequestsAreTyped DEF Located, QueriesOf, QueryOf

(***************************************************************************)
(* For any candidates, files and answers of the model, duplicates cost an  *)
(* answer nothing: it has each finding once, and as many as were found, up *)
(* to the limit of the request (agent.rs tidy_and_truncate).               *)
(***************************************************************************)
THEOREM DuplicatesAlwaysFree == Spec => []DuplicatesCostNothing
<1>1. Located => DuplicatesCostNothing
  <2> SUFFICES ASSUME Located, pc = "over" PROVE DuplicatesCostNothing
    BY DEF DuplicatesCostNothing
  <2> DEFINE keys(s) == {DedupeKey(Plainly(f)) : f \in Range(s)}
             raw == answer.raw
             found == Cardinality(keys(raw))
             t == answer.findings
  <2>1. query.max \in Nat \cup {Missing}
    BY MaxIs
  <2>2. /\ Len(t) = IF query.max = Missing THEN found ELSE Lower(query.max, found)
        /\ Cardinality(keys(t)) = Len(t)
    <3>1. CASE answer = [by |-> "error", raw |-> <<>>, findings |-> <<>>]
      <4>1. raw = <<>> /\ t = <<>>
        BY <3>1
      <4>2. keys(<<>>) = {}
        BY DEF Range
      <4>3. Cardinality({}) = 0
        BY FS_EmptySet
      <4>4. found = 0 /\ Cardinality(keys(t)) = 0 /\ Len(t) = 0
        BY <4>1, <4>2, <4>3
      <4>5. query.max # Missing => Lower(query.max, 0) = 0
        BY <2>1 DEF Lower
      <4> HIDE DEF keys, raw, found, t
      <4> QED
        BY <4>4, <4>5
    <3>2. CASE answer = Answered(answer.by, raw) /\ AreFindings(raw)
      <4>1. t = TidyAndTruncate(raw, Cap, query.max)
        BY <3>2 DEF Answered
      <4> HIDE DEF raw, t
      <4> QED
        BY <2>1, <3>2, <4>1, DuplicatesAreFree
    <3> QED
      BY <3>1, <3>2 DEF Located, Ended
  <2> QED
    BY <2>2 DEF DuplicatesCostNothing, Plainly
<1> QED
  BY <1>1, CostsAtFirst, CostsKept, JudgedAtFirst, JudgedKept, LocatedAtFirst, LocatedKept, PTL DEF Spec

\* Each finding of an answer is one that was found, at a place that files had.
LEMMA FindingsAreFound ==
  ASSUME Located, pc = "over", answer.by \notin {"stopped", "error"}, NEW k \in DOMAIN answer.findings
  PROVE  \E i \in DOMAIN answer.raw, d \in seen :
           /\ Placed(answer.raw[i], d)
           /\ answer.by \in {"verify", "loop"} => Cut(answer.raw[i], d)
           /\ answer.findings[k].loc = answer.raw[i].loc
           /\ answer.findings[k].text = CapSnippet(answer.raw[i].text, Cap)
<1> DEFINE f == answer.findings[k]
           raw == answer.raw
<1>1. /\ answer = Answered(answer.by, raw) /\ AreFindings(raw) /\ PlacedIn(raw, seen)
      /\ answer.by \in {"verify", "loop"} => CutIn(raw, seen)
  <2>1. answer # [by |-> "error", raw |-> <<>>, findings |-> <<>>]
    OBVIOUS
  <2> QED
    BY <2>1 DEF Located, Ended
<1>2. answer.findings = TidyAndTruncate(raw, Cap, query.max)
  BY <1>1 DEF Answered
<1>3. PICK i \in DOMAIN raw :
        f = [loc |-> Plainly(raw[i]).loc, text |-> CapSnippet(raw[i].text, Cap), note |-> raw[i].note]
  <2> DEFINE t == TidyAndTruncate(raw, Cap, query.max)
  <2>0. query.max \in Nat \cup {Missing} /\ AreFindings(raw) /\ t = TidyAndTruncate(raw, Cap, query.max)
    BY <1>1, MaxIs
  <2> HIDE DEF raw, t
  <2>1. k \in DOMAIN t /\ f = t[k]
    BY <1>2, <2>0 DEF raw
  <2>2. ComesFrom(t[k], raw, Cap)
    BY <2>0, <2>1, DuplicatesAreFree
  <2> HIDE DEF f
  <2> QED
    BY <2>1, <2>2 DEF ComesFrom
<1>4. i \in 1 .. Len(raw)
  BY <1>1, FindingsList
<1>5. PICK d \in seen : Placed(raw[i], d) /\ (answer.by \in {"verify", "loop"} => Cut(raw[i], d))
  BY <1>1, <1>4 DEF PlacedIn, CutIn, Cut
<1>6. f.loc = raw[i].loc /\ f.text = CapSnippet(raw[i].text, Cap)
  <2>1. Plainly(raw[i]).loc = [path |-> Plain[raw[i].loc.path], start |-> raw[i].loc.start,
                               end |-> raw[i].loc.end]
    BY <1>5, PlainlyIs DEF Placed
  <2>2. Plain[raw[i].loc.path] = raw[i].loc.path
    BY <1>5 DEF Placed, InFile
  <2>3. raw[i].loc = [path |-> raw[i].loc.path, start |-> raw[i].loc.start, end |-> raw[i].loc.end]
    BY <1>5 DEF Placed, InFile, IsLocation
  <2>4. f.loc = Plainly(raw[i]).loc /\ f.text = CapSnippet(raw[i].text, Cap)
    BY <1>3
  <2> HIDE DEF f, raw
  <2> QED
    BY <2>1, <2>2, <2>3, <2>4
<1> QED
  BY <1>5, <1>6

(***************************************************************************)
(* For any candidates, files and answers of the model, an answer cites     *)
(* what existed: each location lies within a file of the repository as it  *)
(* was at some time of the run, and what the model reported was cut there  *)
(* (dispatch.rs verify_location, tools.rs validate_finding).               *)
(***************************************************************************)
THEOREM CitationsExist == Spec => []AnswersCiteDisk
<1>1. Located => AnswersCiteDisk
  <2> SUFFICES ASSUME Located, pc = "over", answer.by \notin {"stopped", "error"},
                      NEW k \in DOMAIN answer.findings
               PROVE  \E d \in seen :
                        LET f == answer.findings[k]
                            file == d[f.loc.path]
                            lines == ResponseOf(answer.findings, answer.by, Candidates).findings[k].lines
                        IN  /\ file # Missing /\ ~file.escapes
                            /\ lines # Missing =>
                                 /\ lines[1] \in 1 .. Len(file.lines)
                                 /\ lines[2] <= Len(file.lines) \/ lines[2] = lines[1]
                            /\ answer.by \in {"verify", "loop"} =>
                                 \/ lines = Missing /\ f.text = Authored
                                 \/ f.text = CapSnippet(SliceLines(file, f.loc.start, f.loc.end), Cap)
    BY DEF AnswersCiteDisk
  <2> DEFINE f == answer.findings[k]
             raw == answer.raw
             lines == ResponseOf(answer.findings, answer.by, Candidates).findings[k].lines
  <2>1. PICK i \in DOMAIN raw, d \in seen :
          /\ Placed(raw[i], d)
          /\ answer.by \in {"verify", "loop"} => Cut(raw[i], d)
          /\ f.loc = raw[i].loc
          /\ f.text = CapSnippet(raw[i].text, Cap)
    BY FindingsAreFound
  <2>2. lines = IF f.loc.start = 0 THEN Missing ELSE <<f.loc.start, f.loc.end>>
    BY DEF ResponseOf, FindingDto, IsUnknown
  <2> HIDE DEF f, raw, lines
  <2> DEFINE file == d[f.loc.path]
  <2>3. /\ file # Missing /\ ~file.escapes
        /\ Len(file.lines) \in Nat /\ f.loc.start \in Nat /\ f.loc.end \in Nat
        /\ f.loc.start <= Len(file.lines) /\ f.loc.end <= Len(file.lines)
    BY <2>1 DEF Placed, InFile, IsLocation
  <2>4. lines # Missing => /\ lines[1] \in 1 .. Len(file.lines)
                           /\ lines[2] <= Len(file.lines) \/ lines[2] = lines[1]
    BY <2>2, <2>3
  <2>5. answer.by \in {"verify", "loop"} =>
           \/ lines = Missing /\ f.text = Authored
           \/ f.text = CapSnippet(SliceLines(file, f.loc.start, f.loc.end), Cap)
    BY <2>1, <2>2 DEF Cut, CapSnippet
  <2> QED
    BY <2>3, <2>4, <2>5, Zenon DEF f, lines
<1> QED
  BY <1>1, CostsAtFirst, CostsKept, JudgedAtFirst, JudgedKept, LocatedAtFirst, LocatedKept, PTL DEF Spec

(***************************************************************************)
(* For any candidates, files and edits, a run that ends early because one  *)
(* symbol alone is trusted answers with that symbol, where some state of   *)
(* the files had it (agent.rs:801-816). The test is made on the answer     *)
(* itself, after the check on disk and the cuts; and it is only there that *)
(* a run ends early.                                                       *)
(***************************************************************************)
Sole ==
  pc = "over" /\ answer.by = "early" /\ Route = "unique-symbol" =>
    CandidateSurvived(answer.findings, Candidates[outcome.unique])

LEMMA SoleAtFirst == Init => Sole
BY DEF Init, Sole

LEMMA SoleKept == Sole /\ [Next]_vars => Sole'
<1> SUFFICES ASSUME Sole, [Next]_vars PROVE Sole'
  OBVIOUS
<1>1. CASE Gate
  <2>1. config' = config /\ outcome' = outcome /\ query' = query
    BY <1>1 DEF Gate, chosen
  <2>2. Route' = Route /\ Candidates' = Candidates
    BY <2>1 DEF Route, Candidates, Settings
  <2>3. \/ Authorized /\ Complete("early", Early.raw)
        \/ pc' \in {"verify", "loop", "offline"}
    BY <1>1, EndingsTell DEF Gate, Verifying
  <2>4. Authorized /\ Complete("early", Early.raw) => answer'.findings = Early.findings
    BY DEF Complete, Answered, Early
  <2>5. Authorized /\ Route = "unique-symbol" =>
          CandidateSurvived(Early.findings, Candidates[outcome.unique])
    BY DEF Authorized
  <2> QED
    BY <2>1, <2>2, <2>3, <2>4, <2>5 DEF Sole, CandidateSurvived
<1>2. CASE \/ \E opinion \in Opinions : JudgeAsked(opinion)
           \/ JudgeWorks \/ JudgeAnswers
           \/ \E reply \in Replies : VerifyTurn(reply)
           \/ OpenLoop \/ (\E d \in Disks : Edit(d)) \/ Over \/ UNCHANGED vars
  <2>1. UNCHANGED <<config, outcome, pc, answer>>
    BY <1>2 DEF JudgeAsked, JudgeWorks, JudgeAnswers, VerifyTurn, OpenLoop, Edit, Over, vars, chosen
  <2>2. Route' = Route /\ Candidates' = Candidates
    BY <2>1 DEF Route, Candidates, Settings
  <2> QED
    BY <2>1, <2>2 DEF Sole, CandidateSurvived
<1>3. ASSUME NEW reply \in Replies, LoopTurn(reply) PROVE Sole'
  <2>1. /\ pc = "loop"
        /\ \/ Fail
           \/ \E found : Complete("loop", found)
           \/ UNCHANGED <<pc, answer>>
    BY <1>3 DEF LoopTurn, Looping
  <2> QED
    BY <2>1, EndingsTell DEF Sole
<1>4. ASSUME NEW reply \in Replies, ForcedFinish(reply) PROVE Sole'
  <2>1. \E by \in {"loop", "stopped"} : \E found : Complete(by, found)
    BY <1>4 DEF ForcedFinish
  <2> QED
    BY <2>1, EndingsTell DEF Sole
<1>5. CASE Settle
  <2>1. \/ pc' = "over" /\ answer'.by \in {"judge", "verify"}
        \/ pc' \in {"loop", "offline", "verify"}
    BY <1>5, EndingsTell DEF Settle, SettleOff, SettleLaya, SettleShadow
  <2> QED
    BY <2>1 DEF Sole
<1>6. CASE OfflineFallback
  BY <1>6, EndingsTell DEF OfflineFallback, Sole
<1> QED
  BY <1>1, <1>2, <1>3, <1>4, <1>5, <1>6 DEF Next, Step

THEOREM SoleSymbolIsTheAnswer == Spec => []SoleSymbolIsAnswered
<1>1. Located /\ Sole => SoleSymbolIsAnswered
  <2> SUFFICES ASSUME Located, Sole, pc = "over", answer.by = "early", Route = "unique-symbol"
               PROVE  LET sole == NormalizeLocation(Candidates[outcome.unique].loc)
                      IN  \E k \in DOMAIN answer.findings, d \in seen :
                            /\ answer.findings[k].loc.path = sole.path
                            /\ answer.findings[k].loc.start = sole.start
                            /\ d[sole.path] # Missing /\ ~d[sole.path].escapes
                            /\ sole.start <= Len(d[sole.path].lines)
    BY DEF SoleSymbolIsAnswered
  <2> DEFINE sole == NormalizeLocation(Candidates[outcome.unique].loc)
             found == answer.findings
  <2>1. PICK k \in DOMAIN found : found[k].loc.path = sole.path /\ found[k].loc.start = sole.start
    BY DEF Sole, CandidateSurvived
  <2>2. PICK i \in DOMAIN answer.raw, d \in seen :
          Placed(answer.raw[i], d) /\ found[k].loc = answer.raw[i].loc
    BY FindingsAreFound
  <2> HIDE DEF sole, found
  <2>3. /\ d[sole.path] # Missing /\ ~d[sole.path].escapes
        /\ sole.start <= Len(d[sole.path].lines)
    BY <2>1, <2>2 DEF Placed, InFile
  <2>4. \E j \in DOMAIN found, e \in seen :
          /\ found[j].loc.path = sole.path /\ found[j].loc.start = sole.start
          /\ e[sole.path] # Missing /\ ~e[sole.path].escapes
          /\ sole.start <= Len(e[sole.path].lines)
    BY <2>1, <2>2, <2>3
  <2> QED
    BY <2>4, Zenon DEF sole, found
<1> QED
  BY <1>1, CostsAtFirst, CostsKept, JudgedAtFirst, JudgedKept, LocatedAtFirst, LocatedKept,
     SoleAtFirst, SoleKept, PTL DEF Spec

-----------------------------------------------------------------------------
(***************************************************************************)
(* While the loop goes on, whatever a message shows is among the findings  *)
(* gathered so far, or something of the same key is. It has messages of    *)
(* its own: those of a verification are gone when it ends.                 *)
(***************************************************************************)
KeptOf(content, findings) ==
  /\ AreShown(content)
  /\ \A x \in Range(content) :
       x.note # LinesRead => \E f \in Range(findings) : DedupeKey(f) = DedupeKey(x)

Remembered ==
  /\ IsList(messages)
  /\ \A k \in 1 .. Len(messages) : KeptOf(messages[k].content, loop.findings)

Told ==
  /\ pc = "gate" \/ (pc = "verify" /\ llm.at # "asking") => messages = <<>>
  /\ pc = "loop" => Remembered
  /\ SynthesisKeepsWhatWasShown

\* What the messages of a turn show.
LEMMA TurnShows ==
  ASSUME NEW reply \in Replies, NEW shown, DOMAIN shown = DOMAIN OtherCalls(CallsOf(reply))
  PROVE  LET turn == TurnMessages(reply, shown)
         IN  /\ IsList(turn)
             /\ \A k \in 1 .. Len(turn) :
                  turn[k].content = <<>> \/ \E j \in DOMAIN shown : turn[k].content = shown[j]
<1> DEFINE calls == CallsOf(reply)
           finishes == FinishCalls(calls)
           others == OtherCalls(calls)
           head == <<AssistantToolCalls(calls)>>
           fs == [k \in DOMAIN finishes |-> ToolMessage(finishes[k].id, <<>>)]
           os == [k \in DOMAIN others |-> ToolMessage(others[k].id, shown[k])]
           turn == TurnMessages(reply, shown)
           ok(m) == m.content = <<>> \/ \E j \in DOMAIN shown : m.content = shown[j]
<1>1. IsList(calls)
  BY CallsAre, ListOf, RepliesAreTyped, ShortLists DEF CallsOf, Response, FromGenaiResponse
<1>2. /\ IsList(finishes) /\ DOMAIN finishes = 1 .. Len(finishes) /\ Len(finishes) \in Nat
      /\ IsList(others) /\ DOMAIN others = 1 .. Len(others) /\ Len(others) \in Nat
  BY <1>1, PickedIs, ListIs DEF FinishCalls, OtherCalls
<1>3. turn = IF calls = <<>> THEN Nudge ELSE head \o fs \o os
  BY DEF TurnMessages, CallsAnswered
<1>4. DOMAIN others = DOMAIN shown
  OBVIOUS
<1> HIDE DEF calls, finishes, others, turn
<1>5. IsList(head) /\ Len(head) = 1 /\ ok(head[1])
  BY ShortLists DEF AssistantToolCalls, Message
<1> HIDE DEF head
<1>6. IsList(fs) /\ Len(fs) = Len(finishes) /\ \A k \in 1 .. Len(fs) : ok(fs[k])
  <2>1. fs = [k \in 1 .. Len(finishes) |-> fs[k]]
    BY <1>2
  <2>2. \A k \in 1 .. Len(finishes) : ok(fs[k])
    BY <1>2 DEF ToolMessage, Message
  <2> HIDE DEF fs
  <2> QED
    BY <1>2, <2>1, <2>2, ListOf
<1>7. IsList(os) /\ Len(os) = Len(others) /\ \A k \in 1 .. Len(os) : ok(os[k])
  <2>1. os = [k \in 1 .. Len(others) |-> os[k]]
    BY <1>2
  <2>2. \A k \in 1 .. Len(others) : ok(os[k])
    BY <1>2, <1>4 DEF ToolMessage, Message
  <2> HIDE DEF os
  <2> QED
    BY <1>2, <2>1, <2>2, ListOf
<1> HIDE DEF fs, os
<1>8. CASE calls = <<>>
  <2>1. turn = <<AssistantText, UserMessage>>
    BY <1>3, <1>8 DEF Nudge
  <2>2. IsList(turn) /\ Len(turn) = 2 /\ turn[1] = AssistantText /\ turn[2] = UserMessage
    BY <2>1, ShortLists
  <2>3. ok(AssistantText) /\ ok(UserMessage)
    BY DEF AssistantText, UserMessage, Message
  <2>4. \A k \in 1 .. 2 : k = 1 \/ k = 2
    OBVIOUS
  <2>5. IsList(turn) /\ \A k \in 1 .. Len(turn) : ok(turn[k])
    BY <2>2, <2>3, <2>4
  <2> QED
    BY <2>5 DEF turn
<1>9. CASE calls # <<>>
  <2> DEFINE two == head \o fs
  <2>1. /\ IsList(two) /\ Len(two) = Len(head) + Len(fs)
        /\ \A i \in 1 .. Len(head) : two[i] = head[i]
        /\ \A i \in 1 .. Len(fs) : two[Len(head) + i] = fs[i]
        /\ \A i \in 1 .. Len(head) + Len(fs) : i \in 1 .. Len(head) \/ i - Len(head) \in 1 .. Len(fs)
    BY <1>5, <1>6, ListAfter
  <2>2. \A i \in 1 .. Len(two) : ok(two[i])
    <3> SUFFICES ASSUME NEW i \in 1 .. Len(two) PROVE ok(two[i])
      OBVIOUS
    <3>1. CASE i \in 1 .. Len(head)
      <4>1. i = 1
        BY <1>5, <3>1
      <4> QED
        BY <1>5, <2>1, <3>1, <4>1
    <3>2. CASE i - Len(head) \in 1 .. Len(fs)
      <4>1. Len(head) + (i - Len(head)) = i
        BY <1>5
      <4>2. two[i] = fs[i - Len(head)]
        BY <2>1, <3>2, <4>1
      <4> QED
        BY <1>6, <3>2, <4>2
    <3> QED
      BY <2>1, <3>1, <3>2
  <2> HIDE DEF two
  <2> DEFINE all == two \o os
  <2>3. /\ IsList(all) /\ Len(all) = Len(two) + Len(os)
        /\ \A i \in 1 .. Len(two) : all[i] = two[i]
        /\ \A i \in 1 .. Len(os) : all[Len(two) + i] = os[i]
        /\ \A i \in 1 .. Len(two) + Len(os) : i \in 1 .. Len(two) \/ i - Len(two) \in 1 .. Len(os)
    BY <1>7, <2>1, ListAfter
  <2>4. Len(two) \in Nat
    BY <2>1, ListIs
  <2>5. \A i \in 1 .. Len(all) : ok(all[i])
    <3> SUFFICES ASSUME NEW i \in 1 .. Len(all) PROVE ok(all[i])
      OBVIOUS
    <3>1. CASE i \in 1 .. Len(two)
      BY <2>2, <2>3, <3>1
    <3>2. CASE i - Len(two) \in 1 .. Len(os)
      <4>1. Len(two) + (i - Len(two)) = i
        BY <2>4
      <4>2. all[i] = os[i - Len(two)]
        BY <2>3, <3>2, <4>1
      <4> QED
        BY <1>7, <3>2, <4>2
    <3> QED
      BY <2>3, <3>1, <3>2
  <2>6. turn = all
    BY <1>3, <1>9 DEF two
  <2> HIDE DEF all
  <2>7. IsList(turn) /\ \A k \in 1 .. Len(turn) : ok(turn[k])
    BY <2>3, <2>5, <2>6
  <2> QED
    BY <2>7 DEF turn
<1> QED
  BY <1>8, <1>9

LEMMA NothingShown == AreShown(<<>>) /\ \A fs : KeptOf(<<>>, fs)
BY DEF AreShown, IsList, KeptOf, Range

\* What was kept of earlier turns is kept with the findings of a new one.
LEMMA KeptOfMore ==
  ASSUME NEW fs, NEW more, AreFindings(fs), AreFindings(more)
  PROVE  /\ \A content : KeptOf(content, fs) => KeptOf(content, Accumulate(fs, more))
         /\ \A content : AreShown(content) /\ {x \in Range(content) : x.note # LinesRead} \subseteq Range(more)
                          => KeptOf(content, Accumulate(fs, more))
<1> DEFINE c == Accumulate(fs, more)
<1>1. \A f \in Range(fs) \cup Range(more) : \E k \in DOMAIN c : DedupeKey(c[k]) = DedupeKey(f)
  BY KeptOnce
<1> HIDE DEF c
<1>2. \A f \in Range(fs) \cup Range(more) : \E g \in Range(c) : DedupeKey(g) = DedupeKey(f)
  BY <1>1 DEF Range
<1>3. ASSUME NEW content, KeptOf(content, fs) PROVE KeptOf(content, c)
  <2> SUFFICES ASSUME NEW x \in Range(content), x.note # LinesRead
               PROVE  \E g \in Range(c) : DedupeKey(g) = DedupeKey(x)
    BY <1>3 DEF KeptOf
  <2>1. PICK f \in Range(fs) : DedupeKey(f) = DedupeKey(x)
    BY <1>3 DEF KeptOf
  <2>2. PICK g \in Range(c) : DedupeKey(g) = DedupeKey(f)
    BY <1>2
  <2> QED
    BY <2>1, <2>2
<1>4. ASSUME NEW content, AreShown(content), {x \in Range(content) : x.note # LinesRead} \subseteq Range(more)
      PROVE  KeptOf(content, c)
  BY <1>2, <1>4 DEF KeptOf
<1> QED
  BY <1>3, <1>4 DEF c

LEMMA PromptsShow ==
  /\ IsList(Prompts) /\ Len(Prompts) = 2
  /\ IsList(<<SystemMessage>> \o Prompts)
  /\ \A k \in 1 .. 2 : Prompts[k].content = <<>>
  /\ \A k \in 1 .. Len(<<SystemMessage>> \o Prompts) : (<<SystemMessage>> \o Prompts)[k].content = <<>>
<1>1. /\ IsList(Prompts) /\ Len(Prompts) = 2 /\ Prompts[1] = SystemMessage /\ Prompts[2] = UserMessage
      /\ IsList(<<SystemMessage>>) /\ Len(<<SystemMessage>>) = 1 /\ <<SystemMessage>>[1] = SystemMessage
  BY ShortLists DEF Prompts
<1>2. SystemMessage.content = <<>> /\ UserMessage.content = <<>>
  BY DEF SystemMessage, UserMessage, Message
<1>3. \A k \in 1 .. 2 : Prompts[k].content = <<>>
  <2>1. \A k \in 1 .. 2 : k = 1 \/ k = 2
    OBVIOUS
  <2> QED
    BY <1>1, <1>2, <2>1
<1> DEFINE s == <<SystemMessage>>
           p == Prompts
           all == s \o p
<1>4. /\ s[1].content = <<>> /\ Len(s) = 1 /\ IsList(s)
      /\ IsList(p) /\ Len(p) = 2 /\ \A k \in 1 .. 2 : p[k].content = <<>>
  BY <1>1, <1>2, <1>3
<1> HIDE DEF s, p
<1>5. /\ IsList(all) /\ Len(all) = 1 + 2
      /\ \A i \in 1 .. 1 : all[i] = s[i]
      /\ \A i \in 1 .. 2 : all[1 + i] = p[i]
  <2>1. IsList(s) /\ IsList(p)
    BY <1>4
  <2>2. /\ IsList(s \o p) /\ Len(s \o p) = Len(s) + Len(p)
        /\ \A i \in 1 .. Len(s) : (s \o p)[i] = s[i]
        /\ \A i \in 1 .. Len(p) : (s \o p)[Len(s) + i] = p[i]
        /\ \A i \in 1 .. Len(s) + Len(p) : i \in 1 .. Len(s) \/ i - Len(s) \in 1 .. Len(p)
    BY <2>1, ListAfter
  <2> HIDE DEF all
  <2>3. all = s \o p
    BY DEF all
  <2> QED
    BY <1>4, <2>2, <2>3
<1>6. \A k \in 1 .. Len(all) : all[k].content = <<>>
  <2> SUFFICES ASSUME NEW k \in 1 .. 3 PROVE all[k].content = <<>>
    BY <1>5
  <2>1. CASE k = 1
    BY <1>4, <1>5, <2>1
  <2>2. CASE k # 1
    <3>1. k - 1 \in 1 .. 2 /\ 1 + (k - 1) = k
      BY <2>2
    <3>2. all[k] = p[k - 1]
      BY <1>5, <3>1
    <3> QED
      BY <1>4, <3>1, <3>2
  <2> QED
    BY <2>1, <2>2
<1> QED
  BY <1>1, <1>3, <1>5, <1>6 DEF s, p

LEMMA ToldAtFirst == Init => Told
BY DEF Init, Told, SynthesisKeepsWhatWasShown

\* What the facts are about.
telling == <<outcome, pc, llm, messages, loop, answer>>

LEMMA ToldFramed == Told /\ UNCHANGED telling => Told'
BY DEF Told, telling, Remembered, KeptOf, SynthesisKeepsWhatWasShown, Candidates

LEMMA GateTells == Shape /\ Told /\ Gate => Told'
<1> SUFFICES ASSUME Shape, Told, Gate PROVE Told'
  OBVIOUS
<1>1. pc = "gate" /\ messages = <<>> /\ UNCHANGED loop
  BY DEF Gate, Told
<1>2. \/ Complete("early", Early.raw) /\ messages' = messages
      \/ Verifying
      \/ Escalate /\ messages' = messages
  BY DEF Gate
<1>3. CASE Complete("early", Early.raw) /\ messages' = messages
  <2>1. pc' = "over" /\ answer'.by = "early"
    BY <1>3 DEF Complete, Answered
  <2> QED
    BY <2>1 DEF Told, SynthesisKeepsWhatWasShown
<1>4. CASE Verifying
  <2>1. /\ pc' = "verify" /\ (Mode = "laya" => messages' = <<>>)
        /\ llm' = [llm EXCEPT !.at = IF Mode = "laya" THEN "none" ELSE "asking"]
    BY <1>4 DEF Verifying
  <2>2. Mode # "laya" => llm'.at = "asking"
    BY <2>1 DEF Shape
  <2> QED
    BY <2>1, <2>2 DEF Told, SynthesisKeepsWhatWasShown
<1>5. CASE Escalate /\ messages' = messages
  <2>1. pc' \in {"loop", "offline"} /\ messages' = <<>>
    BY <1>1, <1>5 DEF Escalate
  <2>2. Remembered'
    BY <2>1, ShortLists DEF Remembered
  <2> QED
    BY <2>1, <2>2 DEF Told, SynthesisKeepsWhatWasShown
<1> QED
  BY <1>2, <1>3, <1>4, <1>5

LEMMA VerifyTurnTells ==
  ASSUME Shape, Asking, Told, NEW reply \in Replies, VerifyTurn(reply)
  PROVE  Told'
<1>1. UNCHANGED pc /\ pc = "verify"
  BY DEF VerifyTurn, Asking
<1>2. llm'.at # "asking" => messages' = <<>>
  <2> DEFINE result == ResolveFinish(Finishes(reply), disk, Candidates)
             ends == Response(reply) = Missing \/ llm.turn + 1 = VerifyTurns
  <2>1. CASE result # Missing
    BY <2>1 DEF VerifyTurn
  <2>2. CASE result = Missing
    <3>1. /\ llm' = [llm EXCEPT !.at = IF ends THEN "escalated" ELSE "asking", !.turn = @ + 1]
          /\ ends => messages' = <<>>
      BY <2>2 DEF VerifyTurn
    <3> HIDE DEF ends
    <3>2. ~ends => llm'.at = "asking"
      BY <3>1 DEF Shape
    <3> QED
      BY <3>1, <3>2
  <2> QED
    BY <2>1, <2>2
<1> QED
  BY <1>1, <1>2 DEF Told, SynthesisKeepsWhatWasShown

LEMMA SettleTells == Shape /\ Asking /\ Told /\ Settle => Told'
<1> SUFFICES ASSUME Shape, Asking, Told, Settle PROVE Told'
  OBVIOUS
<1>1. pc = "verify" /\ UNCHANGED loop
  BY DEF Settle
<1>2. CASE llm' = [llm EXCEPT !.at = "asking"] /\ UNCHANGED pc
  <2>1. llm'.at = "asking"
    BY <1>2 DEF Shape
  <2> QED
    BY <1>1, <1>2, <2>1 DEF Told, SynthesisKeepsWhatWasShown
<1>3. CASE /\ llm.at # "asking" /\ UNCHANGED <<llm, messages>>
           /\ Escalate \/ (\E by \in {"judge", "verify"} : \E raw : Complete(by, raw))
  <2>1. messages' = <<>>
    BY <1>1, <1>3 DEF Told
  <2>2. pc' \in {"loop", "offline"} \/ (pc' = "over" /\ answer'.by # "stopped")
    BY <1>3 DEF Escalate, Complete, Answered
  <2>3. Remembered'
    BY <2>1, ShortLists DEF Remembered
  <2> QED
    BY <2>1, <2>2, <2>3 DEF Told, SynthesisKeepsWhatWasShown
<1>4. \/ llm' = [llm EXCEPT !.at = "asking"] /\ UNCHANGED pc
      \/ /\ UNCHANGED <<llm, messages>>
         /\ Escalate \/ (\E by \in {"judge", "verify"} : \E raw : Complete(by, raw))
         /\ llm.at # "asking"
  <2>1. CASE SettleOff \/ SettleShadow
    BY <2>1 DEF SettleOff, SettleShadow, SettleLlm, LlmDone
  <2>2. CASE SettleLaya
    BY <1>1, <2>2 DEF SettleLaya, SettleLlm, LlmDone, Asking
  <2> QED
    BY <2>1, <2>2 DEF Settle
<1> QED
  BY <1>2, <1>3, <1>4

LEMMA OpenTells == Told /\ OpenLoop => Told'
<1> SUFFICES ASSUME Told, OpenLoop PROVE Told'
  OBVIOUS
<1>1. pc = "loop" /\ UNCHANGED <<pc, llm, loop, answer>>
      /\ messages' \in {Prompts, <<SystemMessage>> \o Prompts}
  BY DEF OpenLoop
<1>2. IsList(messages') /\ \A k \in 1 .. Len(messages') : messages'[k].content = <<>>
  BY <1>1, PromptsShow
<1>3. Remembered'
  BY <1>2, NothingShown DEF Remembered
<1> QED
  BY <1>1, <1>3 DEF Told, SynthesisKeepsWhatWasShown

LEMMA LoopTurnTells ==
  ASSUME Shape, Located, Told, NEW reply \in Replies, LoopTurn(reply)
  PROVE  Told'
<1> DEFINE result == ResolveFinish(Finishes(reply), disk, Seeds)
<1>1. /\ UNCHANGED llm /\ pc = "loop"
      /\ \/ Fail
         \/ Complete("loop", result)
         \/ /\ \E disks \in [DOMAIN OtherCalls(CallsOf(reply)) -> seen] :
                 /\ loop' = NextLoop(reply, ShownOf(reply, disks))
                 /\ messages' = messages \o TurnMessages(reply, ShownOf(reply, disks))
            /\ UNCHANGED <<pc, answer>>
  BY DEF LoopTurn, Looping
<1> HIDE DEF result
<1>2. CASE Fail \/ Complete("loop", result)
  <2>1. pc' = "over" /\ answer'.by # "stopped"
    BY <1>2 DEF Fail, Complete, Answered
  <2> QED
    BY <2>1 DEF Told, SynthesisKeepsWhatWasShown
<1>3. ASSUME NEW disks \in [DOMAIN OtherCalls(CallsOf(reply)) -> seen],
             loop' = NextLoop(reply, ShownOf(reply, disks)),
             messages' = messages \o TurnMessages(reply, ShownOf(reply, disks)),
             UNCHANGED <<pc, answer>>
      PROVE  Told'
  <2> DEFINE shown == ShownOf(reply, disks)
             turn == TurnMessages(reply, shown)
             more == FindingsShown(FlattenSeq(shown))
             all == messages \o turn
             n == Len(messages)
  <2>1. /\ IsList(shown) /\ (\A k \in 1 .. Len(shown) : AreShown(shown[k]))
        /\ DOMAIN shown = DOMAIN OtherCalls(CallsOf(reply))
        /\ AreShown(FlattenSeq(shown))
        /\ Range(FlattenSeq(shown)) = UNION {Range(shown[k]) : k \in 1 .. Len(shown)}
    <3>1. disks \in [DOMAIN OtherCalls(CallsOf(reply)) -> Disks]
      BY DEF Located
    <3> QED
      BY <3>1, ShownAre
  <2>2. IsList(turn)
        /\ \A k \in 1 .. Len(turn) :
             turn[k].content = <<>> \/ \E j \in DOMAIN shown : turn[k].content = shown[j]
    BY <2>1, TurnShows
  <2>3. AreFindings(more) /\ Range(more) = {x \in Range(FlattenSeq(shown)) : x.note # LinesRead}
    BY <2>1, FindingsShownAre
  <2>4. loop'.findings = Accumulate(loop.findings, more) /\ messages' = all
    BY <1>3 DEF NextLoop
  <2>5. DOMAIN shown = 1 .. Len(shown)
    BY <2>1, ListIs
  <2> HIDE DEF shown, turn, more
  <2>6. /\ \A content : KeptOf(content, loop.findings) => KeptOf(content, loop'.findings)
        /\ \A content : AreShown(content) /\ {x \in Range(content) : x.note # LinesRead} \subseteq Range(more)
                         => KeptOf(content, loop'.findings)
    BY <2>3, <2>4, KeptOfMore DEF Located
  <2>7. \A j \in DOMAIN shown : KeptOf(shown[j], loop'.findings)
    <3> SUFFICES ASSUME NEW j \in 1 .. Len(shown) PROVE KeptOf(shown[j], loop'.findings)
      BY <2>5
    <3>1. Range(shown[j]) \subseteq Range(FlattenSeq(shown))
      BY <2>1
    <3> QED
      BY <2>1, <2>3, <2>6, <3>1
  <2>8. \A k \in 1 .. Len(turn) : KeptOf(turn[k].content, loop'.findings)
    BY <2>2, <2>7, NothingShown
  <2>9. IsList(messages) /\ \A k \in 1 .. n : KeptOf(messages[k].content, loop'.findings)
    BY <1>1, <2>6 DEF Told, Remembered
  <2>10. /\ IsList(all) /\ Len(all) = n + Len(turn)
         /\ \A i \in 1 .. n : all[i] = messages[i]
         /\ \A i \in 1 .. Len(turn) : all[n + i] = turn[i]
         /\ \A i \in 1 .. n + Len(turn) : i \in 1 .. n \/ i - n \in 1 .. Len(turn)
    BY <2>2, <2>9, ListAfter
  <2>11. n \in Nat
    BY <2>9, ListIs
  <2> HIDE DEF n, all
  <2>12. \A i \in 1 .. Len(all) : KeptOf(all[i].content, loop'.findings)
    <3> SUFFICES ASSUME NEW i \in 1 .. n + Len(turn) PROVE KeptOf(all[i].content, loop'.findings)
      BY <2>10
    <3>1. CASE i \in 1 .. n
      BY <2>9, <2>10, <3>1
    <3>2. CASE i - n \in 1 .. Len(turn)
      <4>1. n + (i - n) = i
        BY <2>11
      <4>2. all[i] = turn[i - n]
        BY <2>10, <3>2, <4>1
      <4> QED
        BY <2>8, <3>2, <4>2
    <3> QED
      BY <2>10, <3>1, <3>2
  <2>13. Remembered'
    BY <2>4, <2>10, <2>12 DEF Remembered
  <2> QED
    BY <1>1, <1>3, <2>13 DEF Told, SynthesisKeepsWhatWasShown
<1> QED
  BY <1>1, <1>2, <1>3

\* Everything the messages show is in what is made of the findings gathered.
LEMMA ForcedTells ==
  ASSUME Shape, Located, Told, NEW reply \in Replies, ForcedFinish(reply)
  PROVE  Told'
<1> DEFINE result == Lenient(reply, Seeds)
           all == Append(messages, UserMessage)
           n == Len(messages)
<1>1. /\ pc = "loop" /\ UNCHANGED <<outcome, loop>> /\ messages' = all
      /\ IF result # Missing THEN Complete("loop", result) ELSE Complete("stopped", Synthesis)
  BY DEF ForcedFinish, chosen
<1>2. Remembered
  BY <1>1 DEF Told
<1> HIDE DEF result
<1>3. CASE result # Missing
  <2>1. pc' = "over" /\ answer'.by # "stopped"
    BY <1>1, <1>3 DEF Complete, Answered
  <2> QED
    BY <2>1 DEF Told, SynthesisKeepsWhatWasShown
<1>4. CASE result = Missing
  <2>1. pc' = "over" /\ answer'.raw = Synthesis
    BY <1>1, <1>4 DEF Complete, Answered
  <2>2. /\ IsList(all) /\ Len(all) = n + 1 /\ n \in Nat
        /\ \A k \in 1 .. n + 1 : KeptOf(all[k].content, loop.findings)
    <3>1. n \in Nat /\ messages \in Seq(Range(messages) \cup {UserMessage})
      BY <1>2, ListIs, SeqMonotonic DEF Remembered
    <3>2. /\ all \in Seq(Range(messages) \cup {UserMessage}) /\ Len(all) = n + 1
          /\ \A i \in 1 .. n : all[i] = messages[i]
          /\ all[n + 1] = UserMessage
      BY <3>1, AppendProperties
    <3> HIDE DEF all, n
    <3>3. IsList(all)
      BY <3>2, SeqIsList
    <3>4. UserMessage.content = <<>>
      BY DEF UserMessage, Message
    <3>5. \A k \in 1 .. n + 1 : k \in 1 .. n \/ k = n + 1
      BY <3>1
    <3>6. \A k \in 1 .. n : KeptOf(messages[k].content, loop.findings)
      BY <1>2 DEF Remembered, n
    <3> QED
      BY <3>1, <3>2, <3>3, <3>4, <3>5, <3>6, NothingShown
  <2> DEFINE contents == [k \in DOMAIN all |-> all[k].content]
             shown == FindingsShown(FlattenSeq(contents))
  <2>3. DOMAIN all = 1 .. n + 1
    BY <2>2, ListIs
  <2> HIDE DEF all
  <2>4. /\ AreShown(FlattenSeq(contents))
        /\ Range(FlattenSeq(contents)) = UNION {Range(contents[k]) : k \in 1 .. n + 1}
    <3>1. n + 1 \in Nat /\ contents = [k \in 1 .. n + 1 |-> contents[k]]
      BY <2>2, <2>3
    <3>2. \A k \in 1 .. n + 1 : KeptOf(contents[k], loop.findings)
      BY <2>2, <2>3
    <3> HIDE DEF contents
    <3>3. \A k \in 1 .. n + 1 : IsList(contents[k]) /\ AreShown(contents[k])
      BY <3>2 DEF KeptOf, AreShown
    <3>4. /\ IsList(FlattenSeq(contents))
          /\ Range(FlattenSeq(contents)) = UNION {Range(contents[k]) : k \in 1 .. n + 1}
      BY <3>1, <3>3, Flattened
    <3>5. \A k \in 1 .. n + 1 : \A x \in Range(contents[k]) : x.note # LinesRead => IsFinding(x)
      BY <3>3, ListIs DEF AreShown, Range
    <3>6. \A k \in 1 .. Len(FlattenSeq(contents)) : FlattenSeq(contents)[k] \in Range(FlattenSeq(contents))
      BY <3>4, ListIs DEF Range
    <3> QED
      BY <3>4, <3>5, <3>6 DEF AreShown
  <2>5. Range(shown) = {x \in Range(FlattenSeq(contents)) : x.note # LinesRead}
    BY <2>4, FindingsShownAre
  <2>6. \A f \in Range(shown) : \E g \in Range(loop.findings) : DedupeKey(g) = DedupeKey(f)
    <3> SUFFICES ASSUME NEW f \in Range(shown)
                 PROVE  \E g \in Range(loop.findings) : DedupeKey(g) = DedupeKey(f)
      OBVIOUS
    <3> HIDE DEF shown
    <3>1. PICK k \in 1 .. n + 1 : f \in Range(contents[k])
      BY <2>4, <2>5
    <3>2. f.note # LinesRead
      BY <2>5
    <3>3. contents[k] = all[k].content
      BY <2>3
    <3> QED
      BY <2>2, <3>1, <3>2, <3>3 DEF KeptOf
  <2>7. \A f \in Range(loop.findings) \cup {FindingOf(c) : c \in Range(Candidates)} :
          DedupeKey(f) \in {DedupeKey(g) : g \in Range(Synthesis)}
    BY SynthesisAre
  <2>8. /\ \A f \in Range(shown) : DedupeKey(f) \in {DedupeKey(g) : g \in Range(Synthesis)}
        /\ \A c \in Range(Candidates) : DedupeKey(FindingOf(c)) \in {DedupeKey(g) : g \in Range(Synthesis)}
    BY <2>6, <2>7
  <2>9. Candidates' = Candidates
    BY <1>1 DEF Candidates
  <2> HIDE DEF contents
  <2>10. SynthesisKeepsWhatWasShown'
    BY <1>1, <2>1, <2>8, <2>9 DEF SynthesisKeepsWhatWasShown, contents
  <2> QED
    BY <2>1, <2>10 DEF Told
<1> QED
  BY <1>3, <1>4

LEMMA OfflineTells == Told /\ OfflineFallback => Told'
BY DEF OfflineFallback, Complete, Answered, Told, SynthesisKeepsWhatWasShown

LEMMA ToldKept == Costs /\ Located /\ Told /\ [Next]_vars => Told'
<1> SUFFICES ASSUME Costs, Located, Told, [Next]_vars PROVE Told'
  OBVIOUS
<1>1. Shape /\ Asking
  BY DEF Costs
<1>2. CASE Gate
  BY <1>1, <1>2, GateTells
<1>3. ASSUME NEW reply \in Replies, VerifyTurn(reply) \/ LoopTurn(reply) \/ ForcedFinish(reply)
      PROVE  Told'
  BY <1>1, <1>3, VerifyTurnTells, LoopTurnTells, ForcedTells
<1>4. CASE Settle
  BY <1>1, <1>4, SettleTells
<1>5. CASE OfflineFallback
  BY <1>5, OfflineTells
<1>6. CASE OpenLoop
  BY <1>6, OpenTells
<1>7. CASE \/ (\E opinion \in Opinions : JudgeAsked(opinion)) \/ JudgeWorks \/ JudgeAnswers
           \/ (\E d \in Disks : Edit(d)) \/ Over \/ UNCHANGED vars
  BY <1>7, ToldFramed DEF JudgeAsked, JudgeWorks, JudgeAnswers, Edit, Over, vars, chosen, talk, telling
<1> QED
  BY <1>2, <1>3, <1>4, <1>5, <1>6, <1>7 DEF Next, Step

(***************************************************************************)
(* For any candidates, files and answers of the model, a loop that is      *)
(* stopped loses nothing: each finding that any turn showed the model, and *)
(* each candidate, is in the answer, or one of its key is                  *)
(* (agent.rs:1788-1795 and 1809-1815).                                     *)
(***************************************************************************)
THEOREM NothingShownIsLost == Spec => []SynthesisKeepsWhatWasShown
<1>1. Told => SynthesisKeepsWhatWasShown
  BY DEF Told
<1> QED
  BY <1>1, CostsAtFirst, CostsKept, JudgedAtFirst, JudgedKept, LocatedAtFirst, LocatedKept,
     ToldAtFirst, ToldKept, PTL DEF Spec

-----------------------------------------------------------------------------
(* Calls and their results.                                                *)

\* The calls that a reply may hold, as a message has them.
Named(c) ==
  \E reply \in Replies \ {Missing} : \E d \in Range(reply.calls) : c = [id |-> d.id, name |-> d.name]

\* The permutations of the first n numbers.
Orders(n) ==
  {b \in [1 .. n -> 1 .. n] :
     /\ \A p, q \in 1 .. n : b[p] = b[q] => p = q
     /\ \A k \in 1 .. n : \E p \in 1 .. n : b[p] = k}

\* The calls of a message are answered by the very next messages, in some order.
AnsweredIn(s, i) ==
  LET calls == s[i].calls
      n == Len(calls)
  IN  /\ i + n <= Len(s)
      /\ \A k \in 1 .. n : Named(calls[k]) /\ s[i + k].role = "tool"
      /\ i + n < Len(s) => s[i + n + 1].role # "tool"
      /\ \E b \in Orders(n) : \A k \in 1 .. n : s[i + k].id = calls[b[k]].id

\* Each message with calls is answered, and nothing else is.
Paired(s) ==
  /\ IsList(s)
  /\ \A i \in 1 .. Len(s) : IsList(s[i].calls) /\ (s[i].calls # <<>> => AnsweredIn(s, i))
  /\ \A j \in 1 .. Len(s) : s[j].role = "tool" =>
       /\ s[j].calls = <<>>
       /\ \E i \in 1 .. j - 1 : s[i].calls # <<>> /\ j <= i + Len(s[i].calls)

\* One conversation after another.
LEMMA PairedThen ==
  ASSUME NEW s, NEW t, Paired(s), Paired(t), Len(t) >= 1 => t[1].role # "tool"
  PROVE  Paired(s \o t)
<1> DEFINE u == s \o t
           m == Len(s)
           n == Len(t)
<1>1. /\ m \in Nat /\ n \in Nat
      /\ IsList(u) /\ Len(u) = m + n
      /\ \A i \in 1 .. m : u[i] = s[i]
      /\ \A i \in 1 .. n : u[m + i] = t[i]
      /\ \A i \in 1 .. m + n : i \in 1 .. m \/ i - m \in 1 .. n
  <2>1. IsList(s) /\ IsList(t)
    BY DEF Paired
  <2> QED
    BY <2>1, ListAfter, ListIs
<1> HIDE DEF u, m, n
<1>2. /\ \A i \in 1 .. m : IsList(s[i].calls) /\ (s[i].calls # <<>> => AnsweredIn(s, i))
      /\ \A i \in 1 .. n : IsList(t[i].calls) /\ (t[i].calls # <<>> => AnsweredIn(t, i))
      /\ \A j \in 1 .. m : s[j].role = "tool" =>
           s[j].calls = <<>> /\ \E i \in 1 .. j - 1 : s[i].calls # <<>> /\ j <= i + Len(s[i].calls)
      /\ \A j \in 1 .. n : t[j].role = "tool" =>
           t[j].calls = <<>> /\ \E i \in 1 .. j - 1 : t[i].calls # <<>> /\ j <= i + Len(t[i].calls)
  BY DEF Paired, m, n
<1>3. ASSUME NEW i \in 1 .. m, s[i].calls # <<>> PROVE AnsweredIn(u, i)
  <2> DEFINE calls == s[i].calls
             c == Len(calls)
  <2>1. /\ c \in Nat
        /\ i + c <= m
        /\ \A k \in 1 .. c : Named(calls[k]) /\ s[i + k].role = "tool"
        /\ i + c < m => s[i + c + 1].role # "tool"
        /\ \E b \in Orders(c) : \A k \in 1 .. c : s[i + k].id = calls[b[k]].id
    BY <1>2, <1>3, ListIs DEF AnsweredIn, m
  <2> HIDE DEF calls, c
  <2>2. u[i].calls = calls
    BY <1>1 DEF calls
  <2>3. \A k \in 1 .. c : u[i + k] = s[i + k]
    BY <1>1, <2>1
  <2>4. i + c < m + n => u[i + c + 1].role # "tool"
    <3>1. CASE i + c < m
      <4>1. i + c + 1 \in 1 .. m
        BY <1>1, <2>1, <3>1
      <4> QED
        BY <1>1, <2>1, <3>1, <4>1
    <3>2. CASE i + c = m /\ n >= 1
      <4>1. u[m + 1] = t[1]
        BY <1>1, <3>2
      <4> QED
        BY <3>2, <4>1 DEF n
    <3> QED
      BY <1>1, <2>1, <3>1, <3>2
  <2>5. i + c <= m + n
    BY <1>1, <2>1
  <2>6. \A k \in 1 .. c : Named(calls[k]) /\ u[i + k].role = "tool"
    BY <2>1, <2>3
  <2>7. \E b \in Orders(c) : \A k \in 1 .. c : u[i + k].id = calls[b[k]].id
    BY <2>1, <2>3
  <2>8. c = Len(u[i].calls)
    BY <2>2 DEF c
  <2> QED
    BY <1>1, <2>2, <2>4, <2>5, <2>6, <2>7, <2>8 DEF AnsweredIn
<1>4. ASSUME NEW i \in 1 .. n, t[i].calls # <<>> PROVE AnsweredIn(u, m + i)
  <2> DEFINE calls == t[i].calls
             c == Len(calls)
  <2>1. /\ c \in Nat
        /\ i + c <= n
        /\ \A k \in 1 .. c : Named(calls[k]) /\ t[i + k].role = "tool"
        /\ i + c < n => t[i + c + 1].role # "tool"
        /\ \E b \in Orders(c) : \A k \in 1 .. c : t[i + k].id = calls[b[k]].id
    BY <1>2, <1>4, ListIs DEF AnsweredIn, n
  <2> HIDE DEF calls, c
  <2>2. u[m + i].calls = calls
    BY <1>1 DEF calls
  <2>3. \A k \in 1 .. c : u[(m + i) + k] = t[i + k]
    <3> SUFFICES ASSUME NEW k \in 1 .. c PROVE u[(m + i) + k] = t[i + k]
      OBVIOUS
    <3>1. i + k \in 1 .. n /\ (m + i) + k = m + (i + k)
      BY <1>1, <2>1
    <3> QED
      BY <1>1, <3>1
  <2>4. (m + i) + c < m + n => u[(m + i) + c + 1].role # "tool"
    <3> SUFFICES ASSUME (m + i) + c < m + n PROVE u[(m + i) + c + 1].role # "tool"
      OBVIOUS
    <3>1. i + c + 1 \in 1 .. n /\ (m + i) + c + 1 = m + (i + c + 1) /\ i + c < n
      BY <1>1, <2>1
    <3> QED
      BY <1>1, <2>1, <3>1
  <2>5. (m + i) + c <= m + n
    BY <1>1, <2>1
  <2>6. \A k \in 1 .. c : Named(calls[k]) /\ u[(m + i) + k].role = "tool"
    BY <2>1, <2>3
  <2>7. \E b \in Orders(c) : \A k \in 1 .. c : u[(m + i) + k].id = calls[b[k]].id
    BY <2>1, <2>3
  <2>8. c = Len(u[m + i].calls)
    BY <2>2 DEF c
  <2> QED
    BY <1>1, <2>2, <2>4, <2>5, <2>6, <2>7, <2>8 DEF AnsweredIn
<1>5. ASSUME NEW i \in 1 .. m + n
      PROVE  IsList(u[i].calls) /\ (u[i].calls # <<>> => AnsweredIn(u, i))
  <2>1. CASE i \in 1 .. m
    BY <1>1, <1>2, <1>3, <2>1
  <2>2. CASE i - m \in 1 .. n
    <3>1. u[i] = t[i - m] /\ m + (i - m) = i
      BY <1>1, <2>2
    <3> QED
      BY <1>2, <1>4, <2>2, <3>1
  <2> QED
    BY <1>1, <2>1, <2>2
<1>6. ASSUME NEW j \in 1 .. m + n, u[j].role = "tool"
      PROVE  u[j].calls = <<>> /\ \E i \in 1 .. j - 1 : u[i].calls # <<>> /\ j <= i + Len(u[i].calls)
  <2>1. CASE j \in 1 .. m
    <3>1. PICK i \in 1 .. j - 1 : s[i].calls # <<>> /\ j <= i + Len(s[i].calls)
      BY <1>1, <1>2, <1>6, <2>1
    <3>2. i \in 1 .. m
      BY <1>1, <2>1
    <3> QED
      BY <1>1, <1>2, <1>6, <2>1, <3>1, <3>2
  <2>2. CASE j - m \in 1 .. n
    <3>1. u[j] = t[j - m] /\ m + (j - m) = j
      BY <1>1, <2>2
    <3>2. PICK i \in 1 .. (j - m) - 1 : t[i].calls # <<>> /\ j - m <= i + Len(t[i].calls)
      BY <1>2, <1>6, <2>2, <3>1
    <3>3. i \in 1 .. n /\ m + i \in 1 .. j - 1
      BY <1>1, <2>2
    <3>4. u[m + i] = t[i]
      BY <1>1, <3>3
    <3>5. Len(t[i].calls) \in Nat
      BY <1>2, <3>3, ListIs
    <3>6. j <= (m + i) + Len(t[i].calls)
      <4> DEFINE c == Len(t[i].calls)
      <4>1. c \in Nat /\ i \in Nat /\ j \in Nat /\ j - m <= i + c
        BY <1>1, <3>2, <3>3, <3>5
      <4> HIDE DEF c
      <4>2. j <= (m + i) + c
        BY <1>1, <4>1
      <4> QED
        BY <4>2 DEF c
    <3> QED
      BY <1>2, <1>6, <2>2, <3>1, <3>2, <3>3, <3>4, <3>6
  <2> QED
    BY <1>1, <2>1, <2>2
<1> QED
  BY <1>1, <1>5, <1>6 DEF Paired, u

\* The tool behind an id is the one that was called.
LEMMA NamesAre ==
  ASSUME NEW s, Paired(s), NEW i \in 1 .. Len(s), NEW k \in 1 .. Len(s[i].calls)
  PROVE  /\ s[i].calls[k].id \in DOMAIN FnNames(s)
         /\ FnNames(s)[s[i].calls[k].id] = s[i].calls[k].name
         /\ s[i].calls[k] = [id |-> s[i].calls[k].id, name |-> s[i].calls[k].name]
<1> DEFINE n == Len(s)
           parts == [j \in DOMAIN s |-> s[j].calls]
           calls == FlattenSeq(parts)
           id == s[i].calls[k].id
           T == {j \in DOMAIN calls : calls[j].id = id}
           lastOf(x) == CHOOSE j \in DOMAIN calls :
                          calls[j].id = x /\ \A l \in DOMAIN calls : calls[l].id = x => l <= j
           names == [x \in {calls[j].id : j \in DOMAIN calls} |-> calls[lastOf(x)].name]
<1>1. n \in Nat /\ DOMAIN s = 1 .. n /\ \A j \in 1 .. n : IsList(s[j].calls)
  BY ListIs DEF Paired
<1>2. \A j \in 1 .. n : \A l \in 1 .. Len(s[j].calls) : Named(s[j].calls[l])
  <2> SUFFICES ASSUME NEW j \in 1 .. n, NEW l \in 1 .. Len(s[j].calls) PROVE Named(s[j].calls[l])
    OBVIOUS
  <2>1. s[j].calls # <<>>
    BY ShortLists
  <2> QED
    BY <2>1 DEF Paired, AnsweredIn
<1>3. IsList(calls) /\ Range(calls) = UNION {Range(parts[j]) : j \in 1 .. n}
  <2>1. parts = [j \in 1 .. n |-> parts[j]] /\ \A j \in 1 .. n : IsList(parts[j])
    BY <1>1
  <2> HIDE DEF parts
  <2> QED
    BY <1>1, <2>1, Flattened
<1>4. Len(calls) \in Nat /\ DOMAIN calls = 1 .. Len(calls)
  BY <1>3, ListIs
<1>5. \A x \in Range(calls) : Named(x)
  <2> SUFFICES ASSUME NEW x \in Range(calls) PROVE Named(x)
    OBVIOUS
  <2>1. PICK j \in 1 .. n : x \in Range(s[j].calls)
    BY <1>1, <1>3
  <2>2. PICK l \in 1 .. Len(s[j].calls) : x = s[j].calls[l]
    BY <1>1, <2>1, ListIs DEF Range
  <2> QED
    BY <1>2, <2>2
<1>6. s[i].calls[k] \in Range(calls)
  <2>1. s[i].calls[k] \in Range(s[i].calls)
    BY <1>1, ListIs DEF Range
  <2>2. parts[i] = s[i].calls /\ i \in 1 .. n
    BY <1>1
  <2> HIDE DEF parts, calls
  <2> QED
    BY <1>3, <2>1, <2>2
<1>7. \A x, y \in Range(calls) : x.id = y.id => x = y
  <2> SUFFICES ASSUME NEW x \in Range(calls), NEW y \in Range(calls), x.id = y.id PROVE x = y
    OBVIOUS
  <2>1. Named(x) /\ Named(y)
    BY <1>5
  <2>2. PICK r \in Replies \ {Missing} : \E d \in Range(r.calls) : x = [id |-> d.id, name |-> d.name]
    BY <2>1 DEF Named
  <2>3. PICK d \in Range(r.calls) : x = [id |-> d.id, name |-> d.name]
    BY <2>2
  <2>4. PICK r2 \in Replies \ {Missing} : \E e \in Range(r2.calls) : y = [id |-> e.id, name |-> e.name]
    BY <2>1 DEF Named
  <2>5. PICK e \in Range(r2.calls) : y = [id |-> e.id, name |-> e.name]
    BY <2>4
  <2>6. d.id = e.id
    BY <2>3, <2>5
  <2>7. d.name = e.name
    BY <2>2, <2>4, <2>6, IdsNameTools
  <2> QED
    BY <2>3, <2>5, <2>6, <2>7
<1>8. T \in SUBSET (1 .. Len(calls)) /\ T # {}
  <2> HIDE DEF calls
  <2>1. PICK j \in DOMAIN calls : calls[j] = s[i].calls[k]
    BY <1>6 DEF Range
  <2> QED
    BY <1>4, <2>1
<1>9. PICK j \in T : \A l \in T : l <= j
  <2> HIDE DEF T, calls
  <2> QED
    BY <1>4, <1>8, GreatestNumber
<1> HIDE DEF calls
<1>10. lastOf(id) \in DOMAIN calls /\ calls[lastOf(id)].id = id
  <2>1. /\ j \in DOMAIN calls /\ calls[j].id = id
        /\ \A l \in DOMAIN calls : calls[l].id = id => l <= j
    BY <1>9
  <2> HIDE DEF id, T
  <2> QED
    BY <2>1
<1> HIDE DEF lastOf
<1>11. calls[lastOf(id)] = s[i].calls[k]
  BY <1>6, <1>7, <1>10 DEF Range
<1>12. id \in {calls[l].id : l \in DOMAIN calls}
  BY <1>10
<1>13. FnNames(s) = names
  BY DEF FnNames, calls, lastOf
<1>14. s[i].calls[k] = [id |-> s[i].calls[k].id, name |-> s[i].calls[k].name]
  BY <1>5, <1>6 DEF Named
<1> HIDE DEF id
<1>15. id \in DOMAIN names /\ names[id] = calls[lastOf(id)].name
  BY <1>12
<1> HIDE DEF names
<1> QED
  BY <1>11, <1>13, <1>14, <1>15 DEF id

\* The messages that open one of the request, and those merged into it.
Opening(s) == {i \in 1 .. Len(s) : ~(s[i].role = "tool" /\ i > 1 /\ s[i - 1].role = "tool")}

MergedAt(s, i) == {j \in 1 .. Len(s) : i <= j /\ \A l \in i .. j : s[l].role = "tool"}

\* What answers a call, as the request has it.
ResultAt(s, i) ==
  [id |-> s[i].id, name |-> IF s[i].id \in DOMAIN FnNames(s) THEN FnNames(s)[s[i].id] ELSE Missing]

LEMMA RequestIs ==
  ASSUME NEW s, IsList(s)
  PROVE  LET r == ToGenaiMessages(s)
         IN  /\ DOMAIN r = 1 .. Cardinality(Opening(s)) /\ Len(r) = Cardinality(Opening(s))
             /\ \A p \in DOMAIN r :
                  /\ InOrder(Opening(s))[p] \in Opening(s)
                  /\ r[p].calls = s[InOrder(Opening(s))[p]].calls
                  /\ IsList(r[p].results)
                  /\ Len(r[p].results) = Cardinality(MergedAt(s, InOrder(Opening(s))[p]))
                  /\ \A k \in 1 .. Len(r[p].results) :
                       InOrder(Opening(s))[p] + k - 1 \in 1 .. Len(s) =>
                         r[p].results[k] = ResultAt(s, InOrder(Opening(s))[p] + k - 1)
<1> DEFINE n == Len(s)
           mapped == [i \in DOMAIN s |-> ToGenaiMessage(s[i], FnNames(s))]
           r == ToGenaiMessages(s)
           at == InOrder(Opening(s))
           c == Cardinality(Opening(s))
           results(i) == [k \in 1 .. Cardinality(MergedAt(s, i)) |-> mapped[i + k - 1].result]
<1>1. n \in Nat /\ DOMAIN s = 1 .. n /\ DOMAIN mapped = 1 .. n
  BY ListIs
<1>2. \A i \in 1 .. n : /\ mapped[i].role = s[i].role /\ mapped[i].calls = s[i].calls
                        /\ mapped[i].result = ResultAt(s, i)
  BY <1>1 DEF ToGenaiMessage, ResultAt
<1> HIDE DEF mapped
<1>3. Opening(s) = {i \in DOMAIN mapped : ~(mapped[i].role = "tool" /\ i > 1 /\ mapped[i - 1].role = "tool")}
  <2>1. ASSUME NEW i \in 1 .. n
        PROVE  (s[i].role = "tool" /\ i > 1 /\ s[i - 1].role = "tool")
                 <=> (mapped[i].role = "tool" /\ i > 1 /\ mapped[i - 1].role = "tool")
    <3>1. CASE i > 1
      <4>1. i - 1 \in 1 .. n
        BY <1>1, <3>1
      <4> QED
        BY <1>2, <4>1
    <3>2. CASE ~(i > 1)
      BY <3>2
    <3> QED
      BY <3>1, <3>2
  <2> QED
    BY <1>1, <2>1 DEF Opening
<1>4. \A i \in 1 .. n :
        MergedAt(s, i) = {j \in DOMAIN mapped : i <= j /\ \A l \in i .. j : mapped[l].role = "tool"}
  <2> SUFFICES ASSUME NEW i \in 1 .. n, NEW j \in 1 .. n
               PROVE  (\A l \in i .. j : s[l].role = "tool") <=> (\A l \in i .. j : mapped[l].role = "tool")
    BY <1>1 DEF MergedAt
  <2>1. \A l \in i .. j : l \in 1 .. n
    BY <1>1
  <2> QED
    BY <1>2, <2>1
<1>5. Opening(s) \in SUBSET (1 .. n)
  BY DEF Opening
<1>6. /\ c \in Nat /\ at \in [1 .. c -> Opening(s)]
  BY <1>1, <1>5, InOrderLists
<1>7. r = [p \in DOMAIN at |-> [calls |-> mapped[at[p]].calls, results |-> results(at[p])]]
  <2>1. r = MergeConsecutiveToolMessages(mapped)
    BY DEF ToGenaiMessages, mapped
  <2>2. MergeConsecutiveToolMessages(mapped) =
          [p \in DOMAIN at |->
             [calls |-> mapped[at[p]].calls,
              results |-> [k \in 1 .. Cardinality({j \in DOMAIN mapped :
                                                     at[p] <= j /\ \A l \in at[p] .. j : mapped[l].role = "tool"})
                             |-> mapped[at[p] + k - 1].result]]]
    BY <1>3 DEF MergeConsecutiveToolMessages
  <2>3. \A p \in DOMAIN at : at[p] \in 1 .. n
    BY <1>5, <1>6
  <2> HIDE DEF r, at
  <2> QED
    BY <1>4, <2>1, <2>2, <2>3
<1> HIDE DEF r, at, c
<1>8. DOMAIN at = 1 .. c
  BY <1>6
<1>9. r = [p \in 1 .. c |-> r[p]] /\ DOMAIN r = 1 .. c
  BY <1>7, <1>8
<1>10. Len(r) = c
  BY <1>6, <1>9, ListOf
<1>11. ASSUME NEW p \in 1 .. c
       PROVE  /\ at[p] \in Opening(s)
              /\ r[p].calls = s[at[p]].calls
              /\ IsList(r[p].results)
              /\ Len(r[p].results) = Cardinality(MergedAt(s, at[p]))
              /\ \A k \in 1 .. Len(r[p].results) :
                   at[p] + k - 1 \in 1 .. n => r[p].results[k] = ResultAt(s, at[p] + k - 1)
  <2> DEFINE i == at[p]
             d == Cardinality(MergedAt(s, i))
  <2>1. i \in Opening(s) /\ i \in 1 .. n
    BY <1>5, <1>6
  <2>2. r[p] = [calls |-> mapped[i].calls, results |-> results(i)]
    BY <1>7, <1>8
  <2>3. d \in Nat
    <3>1. MergedAt(s, i) \in SUBSET (1 .. n)
      BY DEF MergedAt
    <3> HIDE DEF i
    <3>2. Cardinality(MergedAt(s, i)) \in 0 .. n
      BY <1>1, <3>1, InOrderLists
    <3> QED
      BY <3>2
  <2> HIDE DEF i
  <2> DEFINE res == results(i)
  <2>4. res = [k \in 1 .. d |-> res[k]] /\ \A k \in 1 .. d : res[k] = mapped[i + k - 1].result
    OBVIOUS
  <2> HIDE DEF res, d
  <2>5. IsList(res) /\ Len(res) = d
    BY <2>3, <2>4, ListOf
  <2>6. r[p].results = res /\ r[p].calls = mapped[i].calls
    BY <2>2 DEF res
  <2>7. r[p].calls = s[i].calls
    BY <1>2, <2>1, <2>6
  <2>8. \A k \in 1 .. d : i + k - 1 \in 1 .. n => res[k] = ResultAt(s, i + k - 1)
    BY <1>2, <2>4
  <2> QED
    BY <2>1, <2>5, <2>6, <2>7, <2>8 DEF i, d
<1> QED
  BY <1>9, <1>10, <1>11 DEF r, at, c

\* A message with calls opens one, and so does the next, which has all the answers.
LEMMA RunIs ==
  ASSUME NEW s, Paired(s), NEW i \in 1 .. Len(s), s[i].calls # <<>>
  PROVE  LET n == Len(s[i].calls)
         IN  /\ n \in Nat /\ n >= 1 /\ i + n <= Len(s) /\ Len(s) \in Nat
             /\ i \in Opening(s) /\ i + 1 \in Opening(s)
             /\ MergedAt(s, i + 1) = i + 1 .. i + n
             /\ Cardinality(MergedAt(s, i + 1)) = n
<1> DEFINE n == Len(s[i].calls)
           m == Len(s)
<1>1. /\ m \in Nat /\ n \in Nat /\ n >= 1 /\ i + n <= m
      /\ \A k \in 1 .. n : s[i + k].role = "tool"
      /\ i + n < m => s[i + n + 1].role # "tool"
      /\ s[i].role # "tool"
  <2>1. IsList(s) /\ IsList(s[i].calls) /\ AnsweredIn(s, i) /\ s[i].role # "tool"
    BY DEF Paired
  <2>2. m \in Nat /\ n \in Nat /\ n >= 1
    BY <2>1, ListIs, SomeLength
  <2> QED
    BY <2>1, <2>2 DEF AnsweredIn
<1> HIDE DEF n, m
<1>2. i \in Opening(s)
  BY <1>1 DEF Opening
<1>3. i + 1 \in 1 .. m
  BY <1>1 DEF m
<1>4. i + 1 \in Opening(s)
  <2>1. (i + 1) - 1 = i
    OBVIOUS
  <2> QED
    BY <1>1, <1>3, <2>1 DEF Opening, m
<1>5. ASSUME NEW j \in i + 1 .. i + n PROVE j \in MergedAt(s, i + 1)
  <2>1. \A l \in i + 1 .. j : l - i \in 1 .. n /\ i + (l - i) = l
    BY <1>1
  <2>2. j \in 1 .. m
    BY <1>1
  <2>3. \A l \in i + 1 .. j : s[l].role = "tool"
    BY <1>1, <2>1
  <2> QED
    BY <2>2, <2>3 DEF MergedAt, m
<1>6. ASSUME NEW j \in MergedAt(s, i + 1) PROVE j \in i + 1 .. i + n
  <2>1. j \in 1 .. m /\ i + 1 <= j /\ \A l \in i + 1 .. j : s[l].role = "tool"
    BY DEF MergedAt, m
  <2>2. ASSUME j > i + n PROVE FALSE
    <3>1. i + n + 1 \in i + 1 .. j /\ i + n < m
      BY <1>1, <2>1, <2>2
    <3> QED
      BY <1>1, <2>1, <3>1
  <2> QED
    BY <1>1, <2>1, <2>2
<1>7. MergedAt(s, i + 1) = i + 1 .. i + n
  BY <1>5, <1>6
<1>8. Cardinality(i + 1 .. i + n) = n
  BY <1>1, FS_Interval
<1> QED
  BY <1>1, <1>2, <1>4, <1>7, <1>8 DEF n, m

\* Where results begin, a message with calls ended just before.
LEMMA ResultsFollow ==
  ASSUME NEW s, Paired(s), NEW i \in Opening(s), MergedAt(s, i) # {}
  PROVE  i - 1 \in 1 .. Len(s) /\ s[i - 1].calls # <<>> /\ i - 1 \in Opening(s)
<1>1. Len(s) \in Nat /\ i \in 1 .. Len(s)
  BY ListIs DEF Paired, Opening
<1>2. s[i].role = "tool"
  <2>1. PICK j \in MergedAt(s, i) : TRUE
    OBVIOUS
  <2>2. j \in 1 .. Len(s) /\ i <= j /\ \A l \in i .. j : s[l].role = "tool"
    BY DEF MergedAt
  <2>3. i \in i .. j
    BY <1>1, <2>2
  <2> QED
    BY <2>2, <2>3
<1>3. PICK h \in 1 .. i - 1 : s[h].calls # <<>> /\ i <= h + Len(s[h].calls)
  BY <1>1, <1>2 DEF Paired
<1>4. h \in 1 .. Len(s)
  BY <1>1
<1>5. /\ Len(s[h].calls) \in Nat /\ AnsweredIn(s, h) /\ h \in Opening(s)
  BY <1>3, <1>4, RunIs DEF Paired
<1>6. ASSUME h # i - 1 PROVE FALSE
  <2>1. i - 1 - h \in 1 .. Len(s[h].calls) /\ h + (i - 1 - h) = i - 1
    <3> DEFINE n == Len(s[h].calls)
    <3>1. n \in Nat /\ i <= h + n
      BY <1>3, <1>5
    <3> HIDE DEF n
    <3>2. i - 1 - h \in 1 .. n /\ h + (i - 1 - h) = i - 1
      BY <1>1, <1>6, <3>1
    <3> QED
      BY <3>2 DEF n
  <2>2. s[i - 1].role = "tool"
    BY <1>5, <2>1 DEF AnsweredIn
  <2>3. i > 1
    BY <1>1, <1>6
  <2> QED
    BY <1>2, <2>2, <2>3 DEF Opening
<1>7. h = i - 1
  BY <1>6
<1> QED
  BY <1>3, <1>4, <1>5, <1>7

\* Where a list has an element.
PlacesOf(x, s) == {k \in DOMAIN s : s[k] = x}

\* Two lists that are the same but for their order have as many of each.
LEMMA ReorderedCounts ==
  ASSUME NEW n \in Nat, NEW s, NEW t, DOMAIN s = 1 .. n, DOMAIN t = 1 .. n,
         NEW b \in Orders(n), \A k \in 1 .. n : t[k] = s[b[k]], NEW x
  PROVE  Cardinality(PlacesOf(x, s)) = Cardinality(PlacesOf(x, t))
<1> DEFINE S == PlacesOf(x, s)
           T == PlacesOf(x, t)
           f == [k \in T |-> b[k]]
<1>1. /\ b \in [1 .. n -> 1 .. n]
      /\ \A p, q \in 1 .. n : b[p] = b[q] => p = q
      /\ \A k \in 1 .. n : \E p \in 1 .. n : b[p] = k
  BY DEF Orders
<1>2. T \subseteq 1 .. n /\ S \subseteq 1 .. n
  BY DEF PlacesOf
<1>3. \A k \in T : b[k] \in S
  BY <1>1 DEF PlacesOf
<1>4. \A j \in S : \E k \in T : b[k] = j
  BY <1>1 DEF PlacesOf
<1>5. IsFiniteSet(T)
  BY <1>2, FS_Interval, FS_Subset
<1> HIDE DEF S, T
<1>6. f \in Injection(T, S)
  BY <1>1, <1>2, <1>3 DEF Injection, IsInjective
<1>7. f \in Surjection(T, S)
  BY <1>3, <1>4 DEF Surjection
<1>8. f \in Bijection(T, S)
  BY <1>6, <1>7 DEF Bijection
<1> HIDE DEF f
<1>9. ExistsBijection(T, S)
  BY <1>8 DEF ExistsBijection
<1>10. Cardinality(S) = Cardinality(T)
  BY <1>5, <1>9, FS_Bijection
<1> QED
  BY <1>10 DEF S, T

\* Whatever is paired makes a request that is accepted.
LEMMA PairedIsWellFormed ==
  ASSUME NEW s, Paired(s)
  PROVE  WellFormed(ToGenaiMessages(s))
<1> DEFINE r == ToGenaiMessages(s)
           at == InOrder(Opening(s))
           c == Cardinality(Opening(s))
           n == Len(s)
<1>1. n \in Nat /\ Opening(s) \in SUBSET (1 .. n) /\ IsList(s)
  BY ListIs DEF Paired, Opening
<1>2. /\ DOMAIN r = 1 .. c /\ Len(r) = c
      /\ \A p \in 1 .. c :
           /\ at[p] \in Opening(s)
           /\ r[p].calls = s[at[p]].calls
           /\ IsList(r[p].results)
           /\ Len(r[p].results) = Cardinality(MergedAt(s, at[p]))
           /\ \A k \in 1 .. Len(r[p].results) :
                at[p] + k - 1 \in 1 .. n => r[p].results[k] = ResultAt(s, at[p] + k - 1)
  BY <1>1, RequestIs
<1>3. /\ c \in Nat
      /\ \A x \in Opening(s) : \E k \in 1 .. c : at[k] = x
      /\ \A k, l \in 1 .. c : k < l => at[k] < at[l]
  BY <1>1, InOrderLists
<1>4. \A p \in 1 .. c : at[p] + 1 \in Opening(s) => p + 1 \in 1 .. c /\ at[p + 1] = at[p] + 1
  BY <1>1, NextInOrder
<1> HIDE DEF r, at, c
<1>5. ASSUME NEW p \in 1 .. c, r[p].calls # <<>>
      PROVE  /\ p < c
             /\ \A x : Cardinality(PlacesOf(x, r[p].calls)) = Cardinality(PlacesOf(x, r[p + 1].results))
  <2> DEFINE i == at[p]
             calls == r[p].calls
             results == r[p + 1].results
             m == Len(calls)
  <2>1. i \in Opening(s) /\ i \in 1 .. n /\ calls = s[i].calls
    BY <1>1, <1>2
  <2> HIDE DEF i, calls, results
  <2>2. s[i].calls # <<>>
    BY <1>5, <2>1 DEF calls
  <2>3. /\ m \in Nat /\ i + m <= n /\ i + 1 \in Opening(s)
        /\ Cardinality(MergedAt(s, i + 1)) = m
    BY <2>1, <2>2, RunIs
  <2>4. p + 1 \in 1 .. c /\ at[p + 1] = i + 1
    BY <1>4, <2>3 DEF i
  <2>5. IsList(results) /\ Len(results) = m
    BY <1>2, <2>3, <2>4 DEF results
  <2>6. DOMAIN results = 1 .. m
    BY <2>5, ListIs
  <2>7. DOMAIN calls = 1 .. m
    <3>1. IsList(calls)
      BY <2>1 DEF Paired
    <3> QED
      BY <3>1, ListIs
  <2>8. PICK b \in Orders(m) : \A k \in 1 .. m : s[i + k].id = calls[b[k]].id
    BY <2>1, <2>2 DEF Paired, AnsweredIn
  <2>9. ASSUME NEW k \in 1 .. m PROVE results[k] = calls[b[k]]
    <3>1. (i + 1) + k - 1 = i + k /\ i + k \in 1 .. n
      BY <2>1, <2>3
    <3>2. results[k] = ResultAt(s, i + k)
      <4>1. k \in 1 .. Len(r[p + 1].results)
        BY <2>5 DEF results
      <4>2. at[p + 1] + k - 1 \in 1 .. n => r[p + 1].results[k] = ResultAt(s, at[p + 1] + k - 1)
        BY <1>2, <2>4, <4>1
      <4> QED
        BY <2>4, <3>1, <4>2 DEF results
    <3>3. b[k] \in 1 .. m
      BY <2>8 DEF Orders
    <3>4. /\ calls[b[k]].id \in DOMAIN FnNames(s)
          /\ FnNames(s)[calls[b[k]].id] = calls[b[k]].name
          /\ calls[b[k]] = [id |-> calls[b[k]].id, name |-> calls[b[k]].name]
      <4>1. b[k] \in 1 .. Len(s[i].calls)
        BY <2>1, <3>3
      <4>2. /\ s[i].calls[b[k]].id \in DOMAIN FnNames(s)
            /\ FnNames(s)[s[i].calls[b[k]].id] = s[i].calls[b[k]].name
            /\ s[i].calls[b[k]] = [id |-> s[i].calls[b[k]].id, name |-> s[i].calls[b[k]].name]
        BY <2>1, <4>1, NamesAre
      <4> QED
        BY <2>1, <4>2
    <3> QED
      BY <2>8, <3>2, <3>4 DEF ResultAt
  <2>10. ASSUME NEW x PROVE Cardinality(PlacesOf(x, calls)) = Cardinality(PlacesOf(x, results))
    <3> HIDE DEF m
    <3>1. m \in Nat /\ DOMAIN calls = 1 .. m /\ DOMAIN results = 1 .. m
      BY <2>3, <2>6, <2>7
    <3>2. b \in Orders(m) /\ \A k \in 1 .. m : results[k] = calls[b[k]]
      BY <2>8, <2>9
    <3>3. Cardinality(PlacesOf(x, calls)) = Cardinality(PlacesOf(x, results))
      BY <3>1, <3>2, ReorderedCounts
    <3> QED
      BY <3>3
  <2>11. p < c
    BY <1>3, <2>4
  <2> QED
    BY <2>10, <2>11 DEF calls, results
<1>6. ASSUME NEW p \in 1 .. c, r[p].results # <<>>
      PROVE  p > 1 /\ r[p - 1].calls # <<>>
  <2> DEFINE i == at[p]
  <2>1. i \in Opening(s) /\ i \in 1 .. n
    BY <1>1, <1>2
  <2>2. MergedAt(s, i) # {}
    <3>1. Len(r[p].results) >= 1
      BY <1>2, <1>6, SomeLength
    <3>2. Cardinality({}) = 0
      BY FS_EmptySet
    <3>3. Len(r[p].results) = Cardinality(MergedAt(s, i))
      BY <1>2
    <3> HIDE DEF i
    <3>4. Cardinality(MergedAt(s, i)) # 0
      BY <3>1, <3>3
    <3> QED
      BY <3>2, <3>4
  <2> HIDE DEF i
  <2>3. i - 1 \in 1 .. n /\ s[i - 1].calls # <<>> /\ i - 1 \in Opening(s)
    BY <2>1, <2>2, ResultsFollow
  <2>4. PICK q \in 1 .. c : at[q] = i - 1
    BY <1>3, <2>3
  <2>5. (i - 1) + 1 = i
    BY <2>1
  <2>6. q + 1 \in 1 .. c /\ at[q + 1] = i
    BY <1>4, <2>1, <2>4, <2>5
  <2>7. q + 1 = p
    <3>1. \A k \in 1 .. c : at[k] \in 1 .. n
      BY <1>1, <1>2
    <3>2. at[p] = i
      BY DEF i
    <3>3. ~(q + 1 < p) /\ ~(p < q + 1)
      BY <1>3, <2>6, <3>1, <3>2
    <3> QED
      BY <1>3, <2>6, <3>3
  <2>8. q = p - 1 /\ p > 1
    BY <1>3, <2>7
  <2>9. r[q].calls = s[i - 1].calls
    BY <1>2, <2>4
  <2> QED
    BY <2>3, <2>8, <2>9
<1>7. WellFormed(r)
  <2>1. \A p \in DOMAIN r :
          /\ r[p].calls # <<>> =>
               /\ p < Len(r)
               /\ \A x : Cardinality(PlacesOf(x, r[p].calls)) = Cardinality(PlacesOf(x, r[p + 1].results))
          /\ r[p].results # <<>> => p > 1 /\ r[p - 1].calls # <<>>
    BY <1>2, <1>5, <1>6
  <2> QED
    BY <2>1 DEF WellFormed, PlacesOf
<1> QED
  BY <1>7 DEF r

\* Some of the first numbers in their order, then the others in theirs.
LEMMA PartsInOrder ==
  ASSUME NEW n \in Nat, NEW S \in SUBSET (1 .. n)
  PROVE  LET T == (1 .. n) \ S
             a == Cardinality(S)
         IN  /\ a \in Nat /\ Cardinality(T) \in Nat /\ a + Cardinality(T) = n
             /\ [q \in 1 .. n |-> IF q <= a THEN InOrder(S)[q] ELSE InOrder(T)[q - a]] \in Orders(n)
<1> DEFINE T == (1 .. n) \ S
           a == Cardinality(S)
           d == Cardinality(T)
           s == InOrder(S)
           t == InOrder(T)
           b == [q \in 1 .. n |-> IF q <= a THEN s[q] ELSE t[q - a]]
<1>1. T \in SUBSET (1 .. n) /\ S \cap T = {} /\ S \cup T = 1 .. n
  OBVIOUS
<1> HIDE DEF T
<1>2. /\ IsFiniteSet(S) /\ a \in Nat /\ s \in [1 .. a -> S]
      /\ \A x \in S : \E k \in 1 .. a : s[k] = x
      /\ \A k, l \in 1 .. a : k < l => s[k] < s[l]
  <2>1. /\ IsFiniteSet(S) /\ Cardinality(S) \in 0 .. n
        /\ InOrder(S) \in [1 .. Cardinality(S) -> S]
        /\ \A x \in S : \E k \in 1 .. Cardinality(S) : InOrder(S)[k] = x
        /\ \A k, l \in 1 .. Cardinality(S) : k < l => InOrder(S)[k] < InOrder(S)[l]
    BY InOrderLists
  <2> QED
    BY <2>1
<1>3. /\ IsFiniteSet(T) /\ d \in Nat /\ t \in [1 .. d -> T]
      /\ \A x \in T : \E k \in 1 .. d : t[k] = x
      /\ \A k, l \in 1 .. d : k < l => t[k] < t[l]
  <2>1. /\ IsFiniteSet(T) /\ Cardinality(T) \in 0 .. n
        /\ InOrder(T) \in [1 .. Cardinality(T) -> T]
        /\ \A x \in T : \E k \in 1 .. Cardinality(T) : InOrder(T)[k] = x
        /\ \A k, l \in 1 .. Cardinality(T) : k < l => InOrder(T)[k] < InOrder(T)[l]
    BY <1>1, InOrderLists
  <2> QED
    BY <2>1
<1>4. a + d = n
  <2>1. Cardinality(S \cup T) = a + d - Cardinality(S \cap T)
    <3>1. IsFiniteSet(S) /\ IsFiniteSet(T)
      BY <1>2, <1>3
    <3>2. Cardinality(S \cup T) = Cardinality(S) + Cardinality(T) - Cardinality(S \cap T)
      BY <3>1, FS_Union
    <3> QED
      BY <3>2
  <2>2. Cardinality(S \cup T) = n /\ Cardinality(S \cap T) = 0
    <3>1. Cardinality(1 .. n) = n /\ Cardinality({}) = 0
      BY FS_Interval, FS_EmptySet
    <3> QED
      BY <1>1, <3>1
  <2>3. a \in Nat /\ d \in Nat
    BY <1>2, <1>3
  <2> HIDE DEF a, d
  <2> QED
    BY <2>1, <2>2, <2>3
<1> HIDE DEF a, d, s, t
<1>5. \A q \in 1 .. n : (q <= a /\ q \in 1 .. a) \/ (~(q <= a) /\ q - a \in 1 .. d)
  BY <1>2, <1>3, <1>4
<1>6. /\ \A q \in 1 .. n : q <= a => b[q] \in S /\ b[q] = s[q]
      /\ \A q \in 1 .. n : ~(q <= a) => b[q] \in T /\ b[q] = t[q - a]
  BY <1>2, <1>3, <1>5
<1>7. b = [q \in 1 .. n |-> b[q]]
  OBVIOUS
<1> HIDE DEF b
<1>8. b \in [1 .. n -> 1 .. n]
  <2>1. \A q \in 1 .. n : b[q] \in 1 .. n
    BY <1>1, <1>6
  <2> QED
    BY <1>7, <2>1
<1>9. \A k, l \in 1 .. a : s[k] = s[l] => k = l
  <2>1. \A k \in 1 .. a : s[k] \in 1 .. n
    BY <1>2
  <2> QED
    BY <1>2, <2>1
<1>10. \A k, l \in 1 .. d : t[k] = t[l] => k = l
  <2>1. \A k \in 1 .. d : t[k] \in 1 .. n
    BY <1>1, <1>3
  <2> QED
    BY <1>3, <2>1
<1>11. ASSUME NEW p \in 1 .. n, NEW q \in 1 .. n, b[p] = b[q] PROVE p = q
  <2>1. CASE p <= a /\ q <= a
    BY <1>5, <1>6, <1>9, <1>11, <2>1
  <2>2. CASE ~(p <= a) /\ ~(q <= a)
    <3>1. p - a = q - a
      BY <1>5, <1>6, <1>10, <1>11, <2>2
    <3> QED
      BY <1>2, <3>1
  <2>3. CASE (p <= a) # (q <= a)
    BY <1>1, <1>6, <1>11, <2>3
  <2> QED
    BY <2>1, <2>2, <2>3
<1>12. ASSUME NEW x \in 1 .. n PROVE \E p \in 1 .. n : b[p] = x
  <2>1. CASE x \in S
    <3>1. PICK k \in 1 .. a : s[k] = x
      BY <1>2, <2>1
    <3>2. k \in 1 .. n /\ k <= a
      BY <1>2, <1>3, <1>4
    <3> QED
      BY <1>6, <3>1, <3>2
  <2>2. CASE x \in T
    <3>1. PICK k \in 1 .. d : t[k] = x
      BY <1>3, <2>2
    <3>2. a + k \in 1 .. n /\ ~(a + k <= a) /\ (a + k) - a = k
      BY <1>2, <1>3, <1>4
    <3>3. b[a + k] = x
      BY <1>6, <3>1, <3>2
    <3> QED
      BY <3>2, <3>3
  <2> QED
    BY <1>1, <2>1, <2>2
<1>13. b \in Orders(n)
  BY <1>8, <1>11, <1>12 DEF Orders
<1> QED
  BY <1>2, <1>3, <1>4, <1>13 DEF a, d, s, t, b, T

\* Messages without calls and results.
LEMMA PlainArePaired ==
  ASSUME NEW s, IsList(s), \A i \in 1 .. Len(s) : s[i].calls = <<>> /\ s[i].role # "tool"
  PROVE  Paired(s)
BY ShortLists DEF Paired

\* What a turn adds to the conversation.
LEMMA TurnIsPaired ==
  ASSUME NEW reply \in Replies, NEW shown
  PROVE  LET turn == TurnMessages(reply, shown)
         IN  Paired(turn) /\ (Len(turn) >= 1 => turn[1].role # "tool")
<1> DEFINE calls == CallsOf(reply)
           n == Len(calls)
           S == {k \in DOMAIN calls : calls[k].name = "finish"}
           T == (1 .. n) \ S
           a == Cardinality(S)
           c == Cardinality(T)
           finishes == FinishCalls(calls)
           others == OtherCalls(calls)
           made == [k \in DOMAIN calls |-> [id |-> calls[k].id, name |-> calls[k].name]]
           head == <<AssistantToolCalls(calls)>>
           fs == [k \in DOMAIN finishes |-> ToolMessage(finishes[k].id, <<>>)]
           os == [k \in DOMAIN others |-> ToolMessage(others[k].id, shown[k])]
           turn == TurnMessages(reply, shown)
           b == [q \in 1 .. n |-> IF q <= a THEN InOrder(S)[q] ELSE InOrder(T)[q - a]]
<1>1. /\ IsList(calls) /\ n \in Nat /\ DOMAIN calls = 1 .. n
      /\ calls # <<>> => reply # Missing /\ calls = reply.calls
  <2>1. IsList(calls)
    BY CallsAre, ListOf, RepliesAreTyped, ShortLists DEF CallsOf, Response, FromGenaiResponse
  <2> QED
    BY <2>1, CallsAre
<1>2. S \in SUBSET (1 .. n) /\ T = {k \in DOMAIN calls : calls[k].name # "finish"}
  BY <1>1
<1>3. turn = IF calls = <<>> THEN Nudge ELSE head \o fs \o os
  BY DEF TurnMessages, CallsAnswered
<1>4. finishes = Picked(calls, S)
  BY DEF FinishCalls
<1>5. others = Picked(calls, T)
  BY <1>2 DEF OtherCalls
<1>6. /\ a \in Nat /\ c \in Nat /\ a + c = n /\ b \in Orders(n)
  <2> HIDE DEF S, n
  <2> QED
    BY <1>1, <1>2, PartsInOrder
<1>7. /\ finishes = [k \in 1 .. a |-> calls[InOrder(S)[k]]]
      /\ others = [k \in 1 .. c |-> calls[InOrder(T)[k]]]
  <2>1. n \in Nat /\ S \in SUBSET (1 .. n) /\ T \in SUBSET (1 .. n)
    BY <1>1, <1>2
  <2> HIDE DEF S, T, n, finishes, others, calls
  <2>2. Picked(calls, S) = [k \in 1 .. Cardinality(S) |-> calls[InOrder(S)[k]]]
    BY <2>1, PickedLists
  <2>3. Picked(calls, T) = [k \in 1 .. Cardinality(T) |-> calls[InOrder(T)[k]]]
    BY <2>1, PickedLists
  <2> QED
    BY <1>4, <1>5, <2>2, <2>3
<1>8. /\ \A k \in 1 .. a : finishes[k] = calls[b[k]]
      /\ \A k \in 1 .. c : others[k] = calls[b[a + k]]
  <2> HIDE DEF S, T, n, finishes, others
  <2> DEFINE u == a
             v == c
  <2>1. u \in Nat /\ v \in Nat /\ u + v = n
    BY <1>6
  <2>2. \A q \in 1 .. n : b[q] = IF q <= u THEN InOrder(S)[q] ELSE InOrder(T)[q - u]
    OBVIOUS
  <2>3. /\ \A k \in 1 .. u : finishes[k] = calls[InOrder(S)[k]]
        /\ \A k \in 1 .. v : others[k] = calls[InOrder(T)[k]]
    BY <1>7
  <2> HIDE DEF u, v, b
  <2>4. ASSUME NEW k \in 1 .. u PROVE finishes[k] = calls[b[k]]
    <3>1. k \in 1 .. n /\ k <= u
      BY <2>1
    <3> QED
      BY <2>2, <2>3, <3>1
  <2>5. ASSUME NEW k \in 1 .. v PROVE others[k] = calls[b[u + k]]
    <3>1. u + k \in 1 .. n /\ ~(u + k <= u) /\ (u + k) - u = k
      BY <2>1
    <3> QED
      BY <2>2, <2>3, <3>1
  <2> QED
    BY <2>4, <2>5 DEF u, v
<1>9. DOMAIN finishes = 1 .. a /\ DOMAIN others = 1 .. c
  BY <1>7
<1> HIDE DEF calls, n, S, T, a, c, finishes, others, turn, b
<1>10. /\ IsList(head) /\ Len(head) = 1
       /\ head[1].role = "assistant" /\ head[1].calls = made
  BY ShortLists DEF AssistantToolCalls, Message
<1>11. IsList(made) /\ Len(made) = n
  <2>1. made = [k \in 1 .. n |-> made[k]]
    BY <1>1
  <2> HIDE DEF made
  <2> QED
    BY <1>1, <2>1, ListOf
<1>12. \A k \in 1 .. n : made[k].id = calls[k].id
  BY <1>1
<1>13. ASSUME calls # <<>>, NEW k \in 1 .. n PROVE Named(made[k])
  <2>1. reply \in Replies \ {Missing} /\ calls[k] \in Range(reply.calls)
    BY <1>1, <1>13 DEF Range
  <2>2. made[k] = [id |-> calls[k].id, name |-> calls[k].name]
    BY <1>1
  <2> HIDE DEF made
  <2> QED
    BY <2>1, <2>2 DEF Named
<1> HIDE DEF head, made
<1>14. /\ IsList(fs) /\ Len(fs) = a
       /\ \A k \in 1 .. a : fs[k].role = "tool" /\ fs[k].calls = <<>> /\ fs[k].id = calls[b[k]].id
  <2>1. fs = [k \in 1 .. a |-> fs[k]]
    BY <1>9
  <2>2. \A k \in 1 .. a : fs[k].role = "tool" /\ fs[k].calls = <<>> /\ fs[k].id = calls[b[k]].id
    BY <1>8, <1>9 DEF ToolMessage, Message
  <2> HIDE DEF fs
  <2> QED
    BY <1>6, <2>1, <2>2, ListOf
<1>15. /\ IsList(os) /\ Len(os) = c
       /\ \A k \in 1 .. c : os[k].role = "tool" /\ os[k].calls = <<>> /\ os[k].id = calls[b[a + k]].id
  <2>1. os = [k \in 1 .. c |-> os[k]]
    BY <1>9
  <2>2. \A k \in 1 .. c : os[k].role = "tool" /\ os[k].calls = <<>> /\ os[k].id = calls[b[a + k]].id
    BY <1>8, <1>9 DEF ToolMessage, Message
  <2> HIDE DEF os
  <2> QED
    BY <1>6, <2>1, <2>2, ListOf
<1> HIDE DEF fs, os
<1>16. CASE calls = <<>>
  <2>1. turn = <<AssistantText, UserMessage>>
    BY <1>3, <1>16 DEF Nudge
  <2>2. IsList(turn) /\ Len(turn) = 2 /\ turn[1] = AssistantText /\ turn[2] = UserMessage
    BY <2>1, ShortLists
  <2>3. \A i \in 1 .. Len(turn) : turn[i].calls = <<>> /\ turn[i].role # "tool"
    <3>1. \A i \in 1 .. 2 : i = 1 \/ i = 2
      OBVIOUS
    <3> QED
      BY <2>2, <3>1 DEF AssistantText, UserMessage, Message
  <2>4. Paired(turn)
    BY <2>2, <2>3, PlainArePaired
  <2>5. Len(turn) >= 1 => turn[1].role # "tool"
    BY <2>2, <2>3
  <2> QED
    BY <2>4, <2>5 DEF turn
<1>17. CASE calls # <<>>
  <2> DEFINE h == head \o fs
  <2>1. /\ IsList(h) /\ Len(h) = 1 + a
        /\ h[1] = head[1]
        /\ \A k \in 1 .. a : h[1 + k] = fs[k]
    <3>1. IsList(head) /\ IsList(fs)
      BY <1>10, <1>14
    <3>2. /\ IsList(head \o fs) /\ Len(head \o fs) = Len(head) + Len(fs)
          /\ \A i \in 1 .. Len(head) : (head \o fs)[i] = head[i]
          /\ \A i \in 1 .. Len(fs) : (head \o fs)[Len(head) + i] = fs[i]
          /\ \A i \in 1 .. Len(head) + Len(fs) : i \in 1 .. Len(head) \/ i - Len(head) \in 1 .. Len(fs)
      BY <3>1, ListAfter
    <3>3. IsList(h) /\ Len(h) = 1 + a
      BY <1>10, <1>14, <3>2
    <3>4. \A k \in 1 .. 1 : h[k] = head[k]
      BY <1>10, <3>2
    <3>5. \A k \in 1 .. a : h[1 + k] = fs[k]
      BY <1>10, <1>14, <3>2
    <3> HIDE DEF h
    <3> QED
      BY <3>4, <3>5, <3>3
  <2>2. turn = h \o os
    BY <1>3, <1>17
  <2> HIDE DEF h
  <2>3. /\ IsList(turn) /\ Len(turn) = 1 + a + c
        /\ \A k \in 1 .. 1 + a : turn[k] = h[k]
        /\ \A k \in 1 .. c : turn[1 + a + k] = os[k]
    <3>1. IsList(h) /\ IsList(os)
      BY <1>15, <2>1
    <3>2. /\ IsList(h \o os) /\ Len(h \o os) = Len(h) + Len(os)
          /\ \A i \in 1 .. Len(h) : (h \o os)[i] = h[i]
          /\ \A i \in 1 .. Len(os) : (h \o os)[Len(h) + i] = os[i]
          /\ \A i \in 1 .. Len(h) + Len(os) : i \in 1 .. Len(h) \/ i - Len(h) \in 1 .. Len(os)
      BY <3>1, ListAfter
    <3> QED
      BY <1>15, <2>1, <2>2, <3>2
  <2>4. Len(turn) = 1 + n /\ n \in Nat /\ n >= 1
    BY <1>1, <1>6, <1>17, <2>3, SomeLength DEF n
  <2>5. turn[1].role = "assistant" /\ turn[1].calls = made
    BY <1>6, <1>10, <2>1, <2>3
  <2>6. ASSUME NEW q \in 1 .. n
        PROVE  turn[1 + q].role = "tool" /\ turn[1 + q].calls = <<>> /\ turn[1 + q].id = calls[b[q]].id
    <3>1. CASE q <= a
      <4>1. q \in 1 .. a /\ 1 + q \in 1 .. 1 + a
        BY <1>6, <3>1
      <4> QED
        BY <1>14, <2>1, <2>3, <4>1
    <3>2. CASE ~(q <= a)
      <4>1. q - a \in 1 .. c /\ 1 + a + (q - a) = 1 + q /\ a + (q - a) = q
        BY <1>6, <3>2
      <4> QED
        BY <1>15, <2>3, <4>1
    <3> QED
      BY <3>1, <3>2
  <2>7. AnsweredIn(turn, 1)
    <3>1. \E o \in Orders(n) : \A k \in 1 .. n : turn[1 + k].id = made[o[k]].id
      <4>1. \A k \in 1 .. n : b[k] \in 1 .. n
        BY <1>6 DEF Orders
      <4> QED
        BY <1>6, <1>12, <2>6, <4>1
    <3>2. Len(turn[1].calls) = n /\ turn[1].calls = made
      BY <1>11, <2>5
    <3>3. \A k \in 1 .. n : Named(made[k]) /\ turn[1 + k].role = "tool"
      BY <1>13, <1>17, <2>6
    <3>4. 1 + n <= Len(turn) /\ ~(1 + n < Len(turn))
      BY <2>4
    <3> QED
      BY <3>1, <3>2, <3>3, <3>4 DEF AnsweredIn
  <2>8. ASSUME NEW i \in 1 .. 1 + n, i # 1
        PROVE  turn[i].role = "tool" /\ turn[i].calls = <<>>
    <3>1. i - 1 \in 1 .. n /\ 1 + (i - 1) = i
      BY <2>4, <2>8
    <3> QED
      BY <2>6, <3>1
  <2>9. ASSUME NEW i \in 1 .. 1 + n
        PROVE  IsList(turn[i].calls) /\ (turn[i].calls # <<>> => AnsweredIn(turn, i))
    <3>1. CASE i = 1
      BY <1>11, <2>5, <2>7, <3>1
    <3>2. CASE i # 1
      BY <2>8, <3>2, ShortLists
    <3> QED
      BY <3>1, <3>2
  <2>10. ASSUME NEW j \in 1 .. 1 + n, turn[j].role = "tool"
         PROVE  /\ turn[j].calls = <<>>
                /\ \E i \in 1 .. j - 1 : turn[i].calls # <<>> /\ j <= i + Len(turn[i].calls)
    <3>1. j # 1
      BY <2>5, <2>10
    <3>2. made # <<>>
      BY <1>11, <2>4, ShortLists
    <3>3. 1 \in 1 .. j - 1 /\ turn[1].calls # <<>> /\ j <= 1 + Len(turn[1].calls)
      BY <1>11, <2>4, <2>5, <3>1, <3>2
    <3> QED
      BY <2>8, <3>1, <3>3
  <2>11. Paired(turn)
    BY <2>3, <2>4, <2>9, <2>10 DEF Paired
  <2>12. turn[1].role # "tool"
    BY <2>5
  <2> QED
    BY <2>11, <2>12 DEF turn
<1> QED
  BY <1>16, <1>17

\* A conversation is paired as long as it goes on.
Talking == pc # "over" => Paired(messages)

LEMMA PromptsArePaired ==
  /\ Paired(<<>>)
  /\ Paired(Prompts) /\ Len(Prompts) = 2 /\ Prompts[1].role # "tool"
  /\ Paired(<<SystemMessage>> \o Prompts)
<1>1. /\ IsList(<<>>) /\ Len(<<>>) = 0
      /\ IsList(Prompts) /\ Len(Prompts) = 2 /\ Prompts[1] = SystemMessage /\ Prompts[2] = UserMessage
      /\ IsList(<<SystemMessage>>) /\ Len(<<SystemMessage>>) = 1 /\ <<SystemMessage>>[1] = SystemMessage
  BY ShortLists DEF Prompts
<1>2. \A m \in {SystemMessage, UserMessage} : m.calls = <<>> /\ m.role # "tool"
  BY DEF SystemMessage, UserMessage, Message
<1>3. Paired(<<>>)
  BY <1>1, PlainArePaired
<1>4. Paired(Prompts)
  <2>1. \A i \in 1 .. 2 : i = 1 \/ i = 2
    OBVIOUS
  <2>2. \A i \in 1 .. Len(Prompts) : Prompts[i].calls = <<>> /\ Prompts[i].role # "tool"
    BY <1>1, <1>2, <2>1
  <2> QED
    BY <1>1, <2>2, PlainArePaired
<1>5. Paired(<<SystemMessage>>)
  <2> DEFINE s == <<SystemMessage>>
  <2>1. IsList(s) /\ Len(s) = 1 /\ s[1] = SystemMessage
    BY <1>1
  <2> HIDE DEF s
  <2>2. \A i \in 1 .. Len(s) : s[i].calls = <<>> /\ s[i].role # "tool"
    BY <1>2, <2>1
  <2>3. Paired(s)
    BY <2>1, <2>2, PlainArePaired
  <2> QED
    BY <2>3 DEF s
<1>6. Paired(<<SystemMessage>> \o Prompts)
  <2>1. Prompts[1].role # "tool"
    BY <1>1, <1>2
  <2> QED
    BY <1>4, <1>5, <2>1, PairedThen
<1> QED
  BY <1>1, <1>2, <1>3, <1>4, <1>6

\* A turn goes on with a paired conversation.
LEMMA TurnGoesOn ==
  ASSUME NEW reply \in Replies, NEW shown, Paired(messages)
  PROVE  Paired(messages \o TurnMessages(reply, shown))
<1>1. /\ Paired(TurnMessages(reply, shown))
      /\ Len(TurnMessages(reply, shown)) >= 1 => TurnMessages(reply, shown)[1].role # "tool"
  BY TurnIsPaired
<1> QED
  BY <1>1, PairedThen

LEMMA VerifyTurnTalks ==
  ASSUME Shape, Asking, Talking, NEW reply \in Replies, VerifyTurn(reply)
  PROVE  Talking'
<1>1. pc' = pc /\ pc # "over"
  BY DEF VerifyTurn, Asking
<1> DEFINE others == OtherCalls(CallsOf(reply))
           shown == [k \in DOMAIN others |-> Expanded(others[k], Candidates, disk)]
<1>2. messages' = <<>> \/ messages' = messages \o TurnMessages(reply, shown)
  BY DEF VerifyTurn
<1> HIDE DEF shown
<1> QED
  BY <1>1, <1>2, PromptsArePaired, TurnGoesOn DEF Talking

LEMMA LoopTurnTalks ==
  ASSUME Talking, NEW reply \in Replies, LoopTurn(reply)
  PROVE  Talking'
<1>1. CASE UNCHANGED messages
  BY <1>1 DEF Talking, LoopTurn, Looping
<1>2. CASE \E disks : messages' = messages \o TurnMessages(reply, ShownOf(reply, disks))
  <2>1. Paired(messages)
    BY DEF Talking, LoopTurn, Looping
  <2> QED
    BY <1>2, <2>1, TurnGoesOn DEF Talking
<1> QED
  BY <1>1, <1>2 DEF LoopTurn

LEMMA TalkingAtFirst == Init => Talking
BY PromptsArePaired DEF Init, Talking

LEMMA TalkingFramed == Talking /\ UNCHANGED <<pc, messages>> => Talking'
BY DEF Talking

LEMMA TalkingKept == Costs /\ Talking /\ [Next]_vars => Talking'
<1> SUFFICES ASSUME Costs, Talking, [Next]_vars PROVE Talking'
  OBVIOUS
<1>1. Shape /\ Asking
  BY DEF Costs
<1>2. CASE Gate
  <2>1. pc = "gate" /\ (messages' = messages \/ messages' = <<>> \/ messages' = Prompts)
    BY <1>2 DEF Gate, Verifying
  <2> QED
    BY <2>1, PromptsArePaired DEF Talking
<1>3. ASSUME NEW reply \in Replies, VerifyTurn(reply) \/ LoopTurn(reply) PROVE Talking'
  BY <1>1, <1>3, VerifyTurnTalks, LoopTurnTalks
<1>4. ASSUME NEW reply \in Replies, ForcedFinish(reply) PROVE Talking'
  <2>1. pc' = "over"
    BY <1>4 DEF ForcedFinish, Complete
  <2> QED
    BY <2>1 DEF Talking
<1>5. CASE Settle
  <2>1. pc = "verify" /\ (messages' = messages \/ messages' = Prompts)
    BY <1>5 DEF Settle, SettleOff, SettleLaya, SettleShadow
  <2> QED
    BY <2>1, PromptsArePaired DEF Talking
<1>6. CASE OfflineFallback
  BY <1>6 DEF OfflineFallback, Complete, Talking
<1>7. CASE OpenLoop
  <2>1. messages' = Prompts \/ messages' = <<SystemMessage>> \o Prompts
    BY <1>7 DEF OpenLoop
  <2> QED
    BY <2>1, PromptsArePaired DEF Talking
<1>8. CASE \/ (\E opinion \in Opinions : JudgeAsked(opinion)) \/ JudgeWorks \/ JudgeAnswers
           \/ (\E d \in Disks : Edit(d)) \/ Over \/ UNCHANGED vars
  BY <1>8, TalkingFramed DEF JudgeAsked, JudgeWorks, JudgeAnswers, Edit, Over, vars, chosen, talk
<1> QED
  BY <1>2, <1>3, <1>4, <1>5, <1>6, <1>7, <1>8 DEF Next, Step

(***************************************************************************)
(* Whatever the model answers, each request of a conversation is one that  *)
(* a provider accepts: every call has its one result in the very next      *)
(* message, and nothing else has (agent.rs:1738-1795, verify.rs:96-129,    *)
(* llm lib.rs:286-348).                                                    *)
(***************************************************************************)
THEOREM CallsAreAnswered == Spec => []EveryCallIsAnswered
<1>1. Costs /\ Talking => EveryCallIsAnswered
  <2> SUFFICES ASSUME Costs, Talking, llm.at = "asking" \/ pc = "loop"
               PROVE  WellFormed(ToGenaiMessages(messages))
    BY DEF EveryCallIsAnswered
  <2>1. pc # "over"
    BY DEF Costs, Asking
  <2> QED
    BY <2>1, PairedIsWellFormed DEF Talking
<1> QED
  BY <1>1, CostsAtFirst, CostsKept, TalkingAtFirst, TalkingKept, PTL DEF Spec

-----------------------------------------------------------------------------
(* The brief.                                                              *)

\* The recursion of Together has a solution.
LEMMA TogetherExists ==
  ASSUME NEW n \in Nat, NEW sizes
  PROVE  \E f : f = [m \in 0 .. n |-> IF m = 0 THEN 0 ELSE f[m - 1] + sizes[m]]
<1> DEFINE Solves(f, l) == f = [m \in 0 .. l |-> IF m = 0 THEN 0 ELSE f[m - 1] + sizes[m]]
           T == {l \in Nat : ~ \E f : Solves(f, l)}
<1>1. ASSUME T # {} PROVE FALSE
  <2>1. T \in SUBSET Nat
    OBVIOUS
  <2>2. PICK l \in T : \A j \in T : l <= j
    BY <1>1, <2>1, LeastNumber
  <2>3. l \in Nat /\ ~ \E f : Solves(f, l)
    BY <2>2
  <2>4. CASE l = 0
    <3> DEFINE f == [m \in 0 .. 0 |-> 0]
    <3>1. \A m \in 0 .. 0 : m = 0
      OBVIOUS
    <3>2. f = [m \in 0 .. 0 |-> IF m = 0 THEN 0 ELSE f[m - 1] + sizes[m]]
      BY <3>1
    <3>3. Solves(f, l)
      BY <2>4, <3>2
    <3> QED
      BY <2>3, <3>3
  <2>5. CASE l # 0
    <3>1. l - 1 \in Nat /\ l - 1 \notin T
      <4> HIDE DEF T
      <4> QED
        BY <2>2, <2>3, <2>5
    <3>2. PICK f : Solves(f, l - 1)
      BY <3>1
    <3> DEFINE g == [m \in 0 .. l |-> IF m = 0 THEN 0 ELSE f[m - 1] + sizes[m]]
    <3>3. \A m \in 0 .. l - 1 : g[m] = f[m]
      <4> SUFFICES ASSUME NEW m \in 0 .. l - 1 PROVE g[m] = f[m]
        OBVIOUS
      <4>1. m \in 0 .. l
        BY <2>3
      <4>2. g[m] = IF m = 0 THEN 0 ELSE f[m - 1] + sizes[m]
        BY <4>1
      <4>3. f[m] = IF m = 0 THEN 0 ELSE f[m - 1] + sizes[m]
        BY <3>2
      <4> QED
        BY <4>2, <4>3
    <3>4. \A m \in 0 .. l : m # 0 => g[m - 1] = f[m - 1]
      <4> SUFFICES ASSUME NEW m \in 0 .. l, m # 0 PROVE g[m - 1] = f[m - 1]
        OBVIOUS
      <4>1. m - 1 \in 0 .. l - 1
        BY <2>3
      <4> HIDE DEF g
      <4> QED
        BY <3>3, <4>1
    <3>5. g = [m \in 0 .. l |-> IF m = 0 THEN 0 ELSE g[m - 1] + sizes[m]]
      <4> DEFINE h == g
      <4>1. \A m \in 0 .. l : (IF m = 0 THEN 0 ELSE f[m - 1] + sizes[m])
                                = (IF m = 0 THEN 0 ELSE h[m - 1] + sizes[m])
        BY <3>4
      <4> HIDE DEF h
      <4>2. g = [m \in 0 .. l |-> IF m = 0 THEN 0 ELSE h[m - 1] + sizes[m]]
        BY <4>1
      <4> QED
        BY <4>2 DEF h
    <3>6. Solves(g, l)
      BY <3>5
    <3> QED
      BY <2>3, <3>6
  <2> QED
    BY <2>4, <2>5
<1> QED
  BY <1>1

\* Lengths of texts.
AreSizes(s) == IsList(s) /\ \A k \in 1 .. Len(s) : s[k] \in Nat

\* Texts together are as long as all but the last, and the last.
LEMMA TogetherAdds ==
  ASSUME NEW sizes, AreSizes(sizes)
  PROVE  /\ Len(sizes) \in Nat /\ DOMAIN sizes = 1 .. Len(sizes)
         /\ \A m \in 0 .. Len(sizes) : Together(sizes)[m] \in Nat
         /\ \A m \in 1 .. Len(sizes) : Together(sizes)[m] = Together(sizes)[m - 1] + sizes[m]
<1> DEFINE n == Len(sizes)
           f == Together(sizes)
<1>1. n \in Nat /\ DOMAIN sizes = 1 .. n /\ \A k \in 1 .. n : sizes[k] \in Nat
  BY ListIs DEF AreSizes
<1>2. f = [m \in 0 .. n |-> IF m = 0 THEN 0 ELSE f[m - 1] + sizes[m]]
  <2> DEFINE g == CHOOSE h : h = [m \in 0 .. n |-> IF m = 0 THEN 0 ELSE h[m - 1] + sizes[m]]
  <2>1. f = g
    BY DEF Together
  <2>2. \E h : h = [m \in 0 .. n |-> IF m = 0 THEN 0 ELSE h[m - 1] + sizes[m]]
    BY <1>1, TogetherExists
  <2>3. g = [m \in 0 .. n |-> IF m = 0 THEN 0 ELSE g[m - 1] + sizes[m]]
    BY <2>2
  <2> HIDE DEF f, g
  <2> QED
    BY <2>1, <2>3
<1> HIDE DEF f, n
<1>3. \A m \in 0 .. n : f[m] = IF m = 0 THEN 0 ELSE f[m - 1] + sizes[m]
  BY <1>2
<1>4. \A m \in 1 .. n : m \in 0 .. n /\ m # 0
  BY <1>1
<1>5. \A m \in 1 .. n : f[m] = f[m - 1] + sizes[m]
  BY <1>3, <1>4
<1> DEFINE Bad == {m \in 0 .. n : f[m] \notin Nat}
<1>6. Bad = {}
  <2> SUFFICES ASSUME Bad # {} PROVE FALSE
    OBVIOUS
  <2>1. Bad \in SUBSET Nat
    OBVIOUS
  <2>2. PICK m \in Bad : \A j \in Bad : m <= j
    BY <2>1, LeastNumber
  <2>3. m \in 0 .. n /\ f[m] \notin Nat
    BY <2>2
  <2>4. m # 0
    BY <1>3, <2>3
  <2>5. m - 1 \in 0 .. n /\ m - 1 \notin Bad
    <3> HIDE DEF Bad
    <3> QED
      BY <1>1, <2>2, <2>3, <2>4
  <2>6. f[m - 1] \in Nat /\ m \in 1 .. n
    BY <2>3, <2>4, <2>5
  <2> QED
    BY <1>1, <1>5, <2>3, <2>6
<1>7. \A m \in 0 .. n : f[m] \in Nat
  BY <1>6
<1> QED
  BY <1>1, <1>5, <1>7 DEF f, n

\* A text that fits makes what has room for it no longer than it may be.
LEMMA FittingFits ==
  ASSUME NEW out \in Nat, NEW line \in Nat, NEW max, max \in Nat, Fits(out, line, max)
  PROVE  Pushed(out, line) \in Nat /\ EstimateTokens(Pushed(out, line)) <= max
BY DEF Fits, Pushed, EstimateTokens

\* What is rendered so far has room, or holds nothing yet.
HasRoom(out, max) == out \in Nat /\ (out = Hardening \/ EstimateTokens(out) <= max)

LEMMA VocabularyFits ==
  ASSUME NEW out, NEW sizes, NEW max \in Nat, HasRoom(out, max), AreSizes(sizes)
  PROVE  HasRoom(Vocabulary(out, sizes, max), max)
<1> DEFINE n == Len(sizes)
           line == VocabularyLabel + Together(sizes)[n] + 2 * (n - 1)
<1>1. CASE sizes # <<>> /\ Fits(out, line, max)
  <2>1. n \in Nat /\ n >= 1
    BY <1>1, SomeLength DEF AreSizes
  <2>2. Together(sizes)[n] \in Nat
    BY <2>1, TogetherAdds
  <2>3. line \in Nat
    <3> HIDE DEF n
    <3> QED
      BY <2>1, <2>2 DEF VocabularyLabel
  <2>4. Vocabulary(out, sizes, max) = Pushed(out, line)
    BY <1>1 DEF Vocabulary
  <2>5. out \in Nat
    BY DEF HasRoom
  <2> HIDE DEF line
  <2> QED
    BY <1>1, <2>3, <2>4, <2>5, FittingFits DEF HasRoom
<1>2. CASE ~(sizes # <<>> /\ Fits(out, line, max))
  BY <1>2 DEF Vocabulary
<1> QED
  BY <1>1, <1>2

LEMMA TableFits ==
  ASSUME NEW out, NEW heading \in Nat, NEW lines, NEW max \in Nat, HasRoom(out, max), AreSizes(lines)
  PROVE  HasRoom(Table(out, heading, lines, max), max)
<1> DEFINE upTo(n) == Pushed(out, heading) + Together(lines)[n] + n
           fits(n) == (n = 1 => Fits(out, heading, max)) /\ Fits(upTo(n - 1), lines[n], max)
           shown == {n \in DOMAIN lines : \A k \in 1 .. n : fits(k)}
<1>1. Table(out, heading, lines, max) = IF shown = {} THEN out ELSE upTo(Max(shown))
  BY DEF Table
<1>2. CASE shown = {}
  BY <1>1, <1>2
<1>3. CASE shown # {}
  <2> DEFINE m == Len(lines)
  <2>1. /\ m \in Nat /\ DOMAIN lines = 1 .. m
        /\ \A k \in 0 .. m : Together(lines)[k] \in Nat
        /\ \A k \in 1 .. m : Together(lines)[k] = Together(lines)[k - 1] + lines[k]
        /\ \A k \in 1 .. m : lines[k] \in Nat
    BY TogetherAdds DEF AreSizes
  <2>2. shown \in SUBSET (1 .. m)
    BY <2>1
  <2> DEFINE n == Max(shown)
  <2>3. n \in shown
    <3>1. \E i \in shown : \A j \in shown : j <= i
      <4> HIDE DEF shown, m
      <4> QED
        BY <1>3, <2>1, <2>2, GreatestNumber
    <3>2. \E i \in shown : \A j \in shown : i >= j
      <4> HIDE DEF shown
      <4> QED
        BY <2>1, <2>2, <3>1
    <3> HIDE DEF shown
    <3> QED
      BY <3>2 DEF Max
  <2>4. Table(out, heading, lines, max) = upTo(n)
    BY <1>1, <1>3
  <2> HIDE DEF n
  <2>5. n \in 1 .. m /\ Fits(upTo(n - 1), lines[n], max)
    <3>1. n \in 1 .. m /\ \A k \in 1 .. n : fits(k)
      BY <2>1, <2>3
    <3>2. n \in 1 .. n
      BY <3>1
    <3> QED
      BY <3>1, <3>2
  <2>6. upTo(n - 1) \in Nat /\ lines[n] \in Nat /\ upTo(n) = Pushed(upTo(n - 1), lines[n])
    <3> DEFINE a == Together(lines)[n - 1]
               b == lines[n]
    <3>1. n \in Nat /\ n >= 1 /\ a \in Nat /\ b \in Nat /\ Together(lines)[n] = a + b
      BY <2>1, <2>5
    <3>2. out \in Nat
      BY DEF HasRoom
    <3> HIDE DEF a, b, m
    <3>3. upTo(n) = Pushed(out, heading) + (a + b) + n
      BY <3>1
    <3>4. upTo(n - 1) = Pushed(out, heading) + a + (n - 1)
      BY DEF a
    <3> HIDE DEF upTo
    <3>5. upTo(n - 1) \in Nat /\ upTo(n) = Pushed(upTo(n - 1), b)
      BY <3>1, <3>2, <3>3, <3>4 DEF Pushed
    <3> QED
      BY <3>1, <3>5 DEF b
  <2> HIDE DEF upTo, m
  <2> QED
    BY <2>4, <2>5, <2>6, FittingFits DEF HasRoom
<1> QED
  BY <1>2, <1>3

\* The cells of a row.
AreCells(row) == IsList(row) /\ \A i \in 1 .. Len(row) : row[i].size \in Nat /\ row[i].num \in Nat

\* A section, as it was parsed: its rows have as many cells as it has columns.
IsSection(s) ==
  /\ IsList(s.cols) /\ IsList(s.rows)
  /\ \A k \in 1 .. Len(s.rows) : AreCells(s.rows[k]) /\ Len(s.rows[k]) = Len(s.cols)

\* Rows by their columns.
AreRows(rows) ==
  /\ IsList(rows)
  /\ \A k \in 1 .. Len(rows) : \A col \in DOMAIN rows[k] : rows[k][col].size \in Nat /\ rows[k][col].num \in Nat

LEMMA SectionsAre ==
  ASSUME NEW lines \in Architectures, lines # Missing
  PROVE  LET sections == ParseSections(lines)
         IN  \E c \in Nat : DOMAIN sections = 1 .. c /\ \A k \in 1 .. c : IsSection(sections[k])
<1> DEFINE n == Len(lines)
           headers == InOrder({i \in DOMAIN lines : lines[i].kind = "header"})
           cells == [i \in DOMAIN lines |-> lines[i].cells]
           under(h) == {i \in DOMAIN lines :
                          /\ i > h /\ \A j \in h + 1 .. i : lines[j].kind = "row"
                          /\ Len(cells[i]) = Len(lines[h].cols)}
           section(h) == [name |-> lines[h].name, cols |-> lines[h].cols, rows |-> Picked(cells, under(h))]
           sections == ParseSections(lines)
           H == {i \in DOMAIN lines : lines[i].kind = "header"}
           c == Cardinality(H)
<1>1. n \in Nat /\ DOMAIN lines = 1 .. n
  BY ArchitecturesAreTyped, ListIs
<1>2. \A i \in 1 .. n : IsList(lines[i].cols) /\ AreCells(lines[i].cells)
  <2> SUFFICES ASSUME NEW i \in 1 .. n PROVE IsList(lines[i].cols) /\ AreCells(lines[i].cells)
    OBVIOUS
  <2>1. lines[i] \in Range(lines)
    BY <1>1 DEF Range
  <2>2. /\ IsList(lines[i].cols) /\ IsList(lines[i].cells)
        /\ \A cell \in Range(lines[i].cells) : cell.size \in Nat /\ cell.num \in Nat
    BY <2>1, ArchitecturesAreTyped
  <2>3. \A k \in 1 .. Len(lines[i].cells) : lines[i].cells[k] \in Range(lines[i].cells)
    BY <2>2, ListIs DEF Range
  <2> QED
    BY <2>2, <2>3 DEF AreCells
<1>3. sections = [k \in DOMAIN headers |-> section(headers[k])]
  BY DEF ParseSections
<1>4. H \in SUBSET (1 .. n)
  BY <1>1
<1>5. c \in Nat /\ headers \in [1 .. c -> H]
  <2> HIDE DEF H, n
  <2>1. Cardinality(H) \in 0 .. n /\ InOrder(H) \in [1 .. Cardinality(H) -> H]
    BY <1>1, <1>4, InOrderLists
  <2>2. headers = InOrder(H)
    BY DEF H
  <2> HIDE DEF headers
  <2>3. c \in Nat
    BY <1>1, <2>1
  <2> QED
    BY <2>1, <2>2, <2>3
<1> HIDE DEF headers, H, c, n
<1>6. IsList(cells) /\ DOMAIN cells = 1 .. n /\ \A i \in 1 .. n : cells[i] = lines[i].cells
  <2>1. cells = [i \in 1 .. n |-> cells[i]] /\ \A i \in 1 .. n : cells[i] = lines[i].cells
    BY <1>1
  <2> HIDE DEF cells
  <2> QED
    BY <1>1, <2>1, ListOf
<1> HIDE DEF cells
<1>7. ASSUME NEW h \in 1 .. n PROVE IsSection(section(h))
  <2> DEFINE U == under(h)
             rows == Picked(cells, U)
  <2>1. U \subseteq DOMAIN cells /\ \A i \in U : i \in 1 .. n /\ Len(cells[i]) = Len(lines[h].cols)
    BY <1>1, <1>6
  <2> HIDE DEF U
  <2>2. /\ IsList(rows)
        /\ \A k \in 1 .. Len(rows) : \E i \in U : rows[k] = cells[i]
    <3>1. IsList(cells) /\ U \subseteq DOMAIN cells
      BY <1>6, <2>1
    <3>2. /\ IsList(Picked(cells, U)) /\ Len(Picked(cells, U)) \in Nat
          /\ DOMAIN Picked(cells, U) = 1 .. Len(Picked(cells, U))
          /\ \A k \in 1 .. Len(Picked(cells, U)) : \E i \in U : Picked(cells, U)[k] = cells[i]
      BY <3>1, PickedFrom
    <3> QED
      BY <3>2
  <2>3. \A k \in 1 .. Len(rows) : AreCells(rows[k]) /\ Len(rows[k]) = Len(lines[h].cols)
    BY <1>2, <1>6, <2>1, <2>2
  <2>4. section(h).rows = rows /\ section(h).cols = lines[h].cols
    BY DEF U
  <2> HIDE DEF rows, section
  <2> QED
    BY <1>2, <2>2, <2>3, <2>4 DEF IsSection
<1> HIDE DEF section
<1>8. DOMAIN sections = 1 .. c /\ \A k \in 1 .. c : IsSection(sections[k])
  <2>1. \A k \in 1 .. c : headers[k] \in 1 .. n
    BY <1>4, <1>5
  <2>2. DOMAIN sections = 1 .. c /\ \A k \in 1 .. c : sections[k] = section(headers[k])
    BY <1>3, <1>5
  <2> QED
    BY <1>7, <2>1, <2>2
<1> QED
  BY <1>5, <1>8

LEMMA RowsAre ==
  ASSUME NEW lines \in Architectures, lines # Missing, NEW name
  PROVE  AreRows(RowsOf(ParseSections(lines), name))
<1> DEFINE sections == ParseSections(lines)
           named == {k \in DOMAIN sections : sections[k].name = name}
           section == sections[Min(named)]
           rows == RowsOf(sections, name)
<1>1. rows = IF named = {} THEN <<>> ELSE [k \in DOMAIN section.rows |-> RowOf(section, section.rows[k])]
  BY DEF RowsOf
<1>2. CASE named = {}
  BY <1>1, <1>2, ShortLists DEF AreRows
<1>3. CASE named # {}
  <2>1. PICK c \in Nat : DOMAIN sections = 1 .. c /\ \A k \in 1 .. c : IsSection(sections[k])
    BY SectionsAre
  <2>2. named \in SUBSET Nat
    BY <2>1
  <2>3. Min(named) \in named
    <3> HIDE DEF named
    <3> QED
      BY <1>3, <2>2, LeastIs
  <2>4. IsSection(section)
    BY <2>1, <2>3
  <2> DEFINE m == Len(section.rows)
  <2>5. rows = [k \in DOMAIN section.rows |-> RowOf(section, section.rows[k])]
    BY <1>1, <1>3
  <2> HIDE DEF section, rows, named, sections
  <2>6. m \in Nat /\ DOMAIN section.rows = 1 .. m
    BY <2>4, ListIs DEF IsSection
  <2>7. \A k \in 1 .. m : AreCells(section.rows[k]) /\ Len(section.rows[k]) = Len(section.cols) /\ IsList(section.cols)
    BY <2>4 DEF IsSection
  <2>8. rows = [k \in 1 .. m |-> rows[k]] /\ \A k \in 1 .. m : rows[k] = RowOf(section, section.rows[k])
    BY <2>5, <2>6
  <2> HIDE DEF m
  <2>9. IsList(rows) /\ Len(rows) = m
    BY <2>6, <2>8, ListOf
  <2>10. ASSUME NEW k \in 1 .. m, NEW col \in DOMAIN rows[k]
         PROVE  rows[k][col].size \in Nat /\ rows[k][col].num \in Nat
    <3> DEFINE cells == section.rows[k]
               places == {i \in DOMAIN section.cols : section.cols[i] = col}
               place == IF col = "first" THEN 1 ELSE Min(places)
               cols == IF cells = <<>> THEN {} ELSE Range(section.cols) \cup {"first"}
    <3>1. AreCells(cells) /\ Len(cells) = Len(section.cols) /\ IsList(section.cols)
      BY <2>7
    <3>2. DOMAIN rows[k] = cols /\ rows[k][col] = cells[place]
      <4> DEFINE at(x) == IF x = "first" THEN 1 ELSE Min({i \in DOMAIN section.cols : section.cols[i] = x})
      <4>1. rows[k] = [x \in cols |-> cells[at(x)]]
        BY <2>8 DEF RowOf
      <4>2. at(col) = place
        OBVIOUS
      <4> HIDE DEF at, cols, cells, place
      <4> QED
        BY <4>1, <4>2
    <3>3. cells # <<>> /\ (col = "first" \/ col \in Range(section.cols))
      BY <3>2
    <3> HIDE DEF cells
    <3>4. Len(cells) \in Nat /\ Len(cells) >= 1
      BY <3>1, <3>3, SomeLength DEF AreCells
    <3>5. DOMAIN section.cols = 1 .. Len(cells)
      BY <3>1, ListIs
    <3>6. place \in 1 .. Len(cells)
      <4>1. CASE col = "first"
        BY <3>4, <4>1
      <4>2. CASE col # "first"
        <5>1. places # {}
          BY <3>3, <4>2 DEF Range
        <5>2. places \in SUBSET Nat /\ places \subseteq 1 .. Len(cells)
          BY <3>5
        <5> HIDE DEF places
        <5>3. Min(places) \in places
          BY <5>1, <5>2, LeastIs
        <5> QED
          BY <4>2, <5>2, <5>3
      <4> QED
        BY <4>1, <4>2
    <3> HIDE DEF place
    <3> QED
      BY <3>1, <3>2, <3>6 DEF AreCells
  <2>11. AreRows(rows)
    BY <2>9, <2>10 DEF AreRows
  <2> QED
    BY <2>11 DEF rows, sections
<1> QED
  BY <1>2, <1>3

LEMMA CellIs ==
  ASSUME NEW row, NEW cols, IsList(cols), HasAny(row, cols)
  PROVE  \E col \in DOMAIN row : CellOf(row, cols) = row[col]
<1> DEFINE there == {i \in DOMAIN cols : cols[i] \in DOMAIN row}
<1>1. DOMAIN cols = 1 .. Len(cols)
  BY ListIs
<1>2. there # {} /\ there \in SUBSET Nat
  BY <1>1 DEF HasAny, Range
<1>3. CellOf(row, cols) = row[cols[Min(there)]]
  BY DEF CellOf
<1>4. Min(there) \in there
  <2> HIDE DEF there
  <2> QED
    BY <1>2, LeastIs
<1> QED
  BY <1>3, <1>4

LEMMA HavingAre ==
  ASSUME NEW rows, AreRows(rows), NEW cols, IsList(cols)
  PROVE  LET kept == Having(rows, cols)
         IN  /\ AreRows(kept) /\ Len(kept) \in Nat /\ DOMAIN kept = 1 .. Len(kept)
             /\ \A k \in 1 .. Len(kept) :
                  HasAny(kept[k], cols) /\ CellOf(kept[k], cols).size \in Nat
<1> DEFINE S == {k \in DOMAIN rows : HasAny(rows[k], cols)}
           kept == Picked(rows, S)
<1>1. Having(rows, cols) = kept
  BY DEF Having
<1>2. DOMAIN rows = 1 .. Len(rows) /\ S \subseteq DOMAIN rows /\ IsList(rows)
  BY ListIs DEF AreRows
<1>3. \A i \in S : HasAny(rows[i], cols)
  OBVIOUS
<1> HIDE DEF S
<1>4. /\ IsList(kept) /\ Len(kept) \in Nat /\ DOMAIN kept = 1 .. Len(kept)
      /\ \A k \in 1 .. Len(kept) : \E i \in S : kept[k] = rows[i]
  <2>1. IsList(rows) /\ S \subseteq DOMAIN rows
    BY <1>2
  <2>2. /\ IsList(Picked(rows, S)) /\ Len(Picked(rows, S)) \in Nat
        /\ DOMAIN Picked(rows, S) = 1 .. Len(Picked(rows, S))
        /\ \A k \in 1 .. Len(Picked(rows, S)) : \E i \in S : Picked(rows, S)[k] = rows[i]
    BY <2>1, PickedFrom
  <2> QED
    BY <2>2
<1> HIDE DEF kept
<1>5. ASSUME NEW k \in 1 .. Len(kept)
      PROVE  /\ \A col \in DOMAIN kept[k] : kept[k][col].size \in Nat /\ kept[k][col].num \in Nat
             /\ HasAny(kept[k], cols)
  <2>1. PICK i \in S : kept[k] = rows[i]
    BY <1>4
  <2>2. i \in 1 .. Len(rows)
    BY <1>2
  <2> QED
    BY <1>3, <2>1, <2>2 DEF AreRows
<1>6. AreRows(kept)
  BY <1>4, <1>5 DEF AreRows
<1>7. ASSUME NEW k \in 1 .. Len(kept) PROVE CellOf(kept[k], cols).size \in Nat
  <2>1. PICK col \in DOMAIN kept[k] : CellOf(kept[k], cols) = kept[k][col]
    BY <1>5, CellIs
  <2> QED
    BY <1>5, <2>1
<1> QED
  BY <1>1, <1>4, <1>5, <1>6, <1>7

LEMMA NameSizesAre ==
  ASSUME NEW rows, AreRows(rows)
  PROVE  AreSizes(NameSizes(rows))
<1> DEFINE cols == <<"label", "type", "first">>
           named == Having(rows, cols)
           sizes == NameSizes(rows)
           n == Len(named)
<1>1. IsList(cols)
  <2>1. cols \in Seq({"label", "type", "first"})
    OBVIOUS
  <2> QED
    BY <2>1, SeqIsList
<1>2. sizes = [k \in DOMAIN named |-> CellOf(named[k], cols).size]
  BY DEF NameSizes
<1> HIDE DEF cols, sizes
<1>3. n \in Nat /\ DOMAIN named = 1 .. n /\ \A k \in 1 .. n : CellOf(named[k], cols).size \in Nat
  BY <1>1, HavingAre
<1> HIDE DEF n, named
<1>4. sizes = [k \in 1 .. n |-> sizes[k]] /\ \A k \in 1 .. n : sizes[k] \in Nat
  BY <1>2, <1>3
<1>5. IsList(sizes) /\ Len(sizes) = n
  BY <1>3, <1>4, ListOf
<1> QED
  BY <1>4, <1>5 DEF AreSizes, sizes

LEMMA EntrypointSizesAre ==
  ASSUME NEW rows, AreRows(rows)
  PROVE  AreSizes(EntrypointSizes(rows))
<1> DEFINE cols == <<"file", "path">>
           first == SubSeq(rows, 1, Lower(MaxEntrypoints, Len(rows)))
           listed == Having(first, cols)
           sizes == EntrypointSizes(rows)
           size(r) == 2 + CellOf(r, cols).size + (IF "qn" \in DOMAIN r THEN r["qn"].size + 3 ELSE 0)
           n == Len(listed)
<1>1. IsList(cols)
  <2>1. cols \in Seq({"file", "path"})
    OBVIOUS
  <2> QED
    BY <2>1, SeqIsList
<1>2. AreRows(first)
  <2> DEFINE m == Lower(MaxEntrypoints, Len(rows))
  <2>1. Len(rows) \in Nat /\ rows \in Seq(Range(rows))
    BY ListIs DEF AreRows
  <2>2. m \in Nat /\ m <= Len(rows)
    BY <2>1 DEF Lower, MaxEntrypoints
  <2> HIDE DEF m
  <2>3. Len(SubSeq(rows, 1, m)) = m /\ \A k \in 1 .. m : SubSeq(rows, 1, m)[k] = rows[k]
    BY <2>1, <2>2
  <2>4. IsList(SubSeq(rows, 1, m))
    <3>1. SubSeq(rows, 1, m) \in Seq(Range(rows))
      <4>1. \A k \in 1 .. m : rows[k] \in Range(rows)
        BY <2>1, <2>2
      <4> QED
        BY <2>1, <2>2, <4>1
    <3> QED
      BY <3>1, SeqIsList
  <2> QED
    BY <2>1, <2>2, <2>3, <2>4 DEF AreRows, m
<1>3. sizes = [k \in DOMAIN listed |-> size(listed[k])]
  BY DEF EntrypointSizes
<1> HIDE DEF cols, first, sizes
<1>4. /\ AreRows(listed) /\ n \in Nat /\ DOMAIN listed = 1 .. n
      /\ \A k \in 1 .. n : CellOf(listed[k], cols).size \in Nat
  BY <1>1, <1>2, HavingAre
<1> HIDE DEF listed
<1>5. \A k \in 1 .. n : size(listed[k]) \in Nat
  <2> SUFFICES ASSUME NEW k \in 1 .. n PROVE size(listed[k]) \in Nat
    OBVIOUS
  <2>1. "qn" \in DOMAIN listed[k] => listed[k]["qn"].size \in Nat
    BY <1>4 DEF AreRows
  <2> QED
    BY <1>4, <2>1
<1> HIDE DEF n, size
<1>6. sizes = [k \in 1 .. n |-> sizes[k]] /\ \A k \in 1 .. n : sizes[k] \in Nat
  BY <1>3, <1>4, <1>5
<1>7. IsList(sizes) /\ Len(sizes) = n
  BY <1>4, <1>6, ListOf
<1> QED
  BY <1>6, <1>7 DEF AreSizes, sizes

LEMMA DigitsAre ==
  ASSUME NEW n
  PROVE  Digits(n) \in Nat
<1> DEFINE S == {k \in 0 .. 8 : 10 ^ k <= n}
<1>1. IsFiniteSet(S)
  <2>1. S \in SUBSET Nat /\ \A s \in S : s <= 8
    OBVIOUS
  <2> HIDE DEF S
  <2>2. 8 \in Nat
    OBVIOUS
  <2> QED
    BY <2>1, <2>2, FS_BoundedSetOfNaturals
<1>2. Cardinality(S) \in Nat
  <2> HIDE DEF S
  <2> QED
    BY <1>1, FS_CardinalityType
<1>3. Digits(n) = Upper(1, Cardinality(S))
  BY DEF Digits
<1> HIDE DEF S
<1> QED
  BY <1>2, <1>3 DEF Upper

LEMMA PackageSizesAre ==
  ASSUME NEW rows, AreRows(rows)
  PROVE  AreSizes(PackageSizes(rows))
<1> DEFINE named == Having(rows, <<"name">>)
           nodes(i) == NumOf(named[i], "nodes")
           ahead(i, j) == nodes(i) > nodes(j) \/ (nodes(i) = nodes(j) /\ i < j)
           S == DOMAIN named
           rank == [i \in S |-> Cardinality({j \in S : ahead(j, i)}) + 1]
           R == {p \in S \X S : ahead(p[1], p[2])}
           ranked == [x \in S |-> Cardinality({y \in S : <<y, x>> \in R}) + 1]
           order == ByRank(rank)
           size(r) == 10 + r["name"].size + Digits(NumOf(r, "nodes")) + Digits(NumOf(r, "fan_in"))
           sizes == PackageSizes(rows)
           n == Len(named)
<1>1. sizes = [k \in DOMAIN order |-> size(named[order[k]])]
  BY DEF PackageSizes
<1> HIDE DEF sizes
<1>2. /\ AreRows(named) /\ n \in Nat /\ S = 1 .. n
      /\ \A k \in 1 .. n : HasAny(named[k], <<"name">>)
  <2>1. IsList(<<"name">>)
    BY ShortLists
  <2> QED
    BY <2>1, HavingAre
<1> HIDE DEF named
<1>3. \A i \in S : nodes(i) \in Nat /\ i \in Nat
  BY <1>2 DEF AreRows, NumOf
<1>4. \A i \in S : size(named[i]) \in Nat
  <2> SUFFICES ASSUME NEW i \in S PROVE size(named[i]) \in Nat
    OBVIOUS
  <2>1. Range(<<"name">>) = {"name"}
    BY DEF Range
  <2>2. "name" \in DOMAIN named[i]
    BY <1>2, <2>1 DEF HasAny
  <2>3. named[i]["name"].size \in Nat
    BY <1>2, <2>2 DEF AreRows
  <2> QED
    BY <2>3, DigitsAre
<1> HIDE DEF nodes, size
<1>5. IsFiniteSet(S) /\ Cardinality(S) \in Nat
  <2>1. IsFiniteSet(S)
    BY <1>2, FS_Interval
  <2> HIDE DEF S
  <2> QED
    BY <2>1, FS_CardinalityType
<1> HIDE DEF S, n
<1>6. /\ \A x \in S : <<x, x>> \notin R
      /\ \A x, y, z \in S : <<x, y>> \in R /\ <<y, z>> \in R => <<x, z>> \in R
      /\ \A x, y \in S : x = y \/ <<x, y>> \in R \/ <<y, x>> \in R
      /\ \A x, y \in S : <<x, y>> \in R <=> ahead(x, y)
  <2>1. \A x, y \in S : <<x, y>> \in R <=> ahead(x, y)
    OBVIOUS
  <2> HIDE DEF R
  <2>2. \A x \in S : <<x, x>> \notin R
    BY <1>3, <2>1
  <2>3. \A x, y \in S : x = y \/ <<x, y>> \in R \/ <<y, x>> \in R
    <3> SUFFICES ASSUME NEW x \in S, NEW y \in S, x # y PROVE ahead(x, y) \/ ahead(y, x)
      BY <2>1
    <3> QED
      BY <1>3
  <2>4. \A x, y, z \in S : <<x, y>> \in R /\ <<y, z>> \in R => <<x, z>> \in R
    <3> SUFFICES ASSUME NEW x \in S, NEW y \in S, NEW z \in S, ahead(x, y), ahead(y, z)
                 PROVE  ahead(x, z)
      BY <2>1
    <3> QED
      BY <1>3
  <2> QED
    BY <2>1, <2>2, <2>3, <2>4
<1>7. rank = ranked
  <2>1. \A x \in S : {j \in S : ahead(j, x)} = {y \in S : <<y, x>> \in R}
    BY <1>6
  <2> QED
    BY <2>1
<1>8. /\ ranked \in [S -> 1 .. Cardinality(S)]
      /\ \A x, y \in S : ranked[x] = ranked[y] => x = y
  <2> HIDE DEF R
  <2>1. /\ \A x \in S : <<x, x>> \notin R
        /\ \A x, y, z \in S : <<x, y>> \in R /\ <<y, z>> \in R => <<x, z>> \in R
        /\ \A x, y \in S : x = y \/ <<x, y>> \in R \/ <<y, x>> \in R
    BY <1>6
  <2> QED
    BY <1>5, <2>1, OrderRanks
<1> HIDE DEF rank, ranked
<1> DEFINE c == Cardinality(S)
<1>9. order \in [1 .. c -> S]
  <2>1. ByRank(ranked) \in [1 .. Cardinality(S) -> S]
    BY <1>5, <1>8, ByRankLists
  <2> QED
    BY <1>7, <2>1
<1> HIDE DEF order, c
<1>10. sizes = [k \in 1 .. c |-> sizes[k]] /\ \A k \in 1 .. c : sizes[k] \in Nat
  BY <1>1, <1>4, <1>9
<1>11. IsList(sizes) /\ Len(sizes) = c
  BY <1>5, <1>10, ListOf DEF c
<1> QED
  BY <1>10, <1>11 DEF AreSizes, sizes

LEMMA BriefHasRoom ==
  ASSUME NEW lines \in Architectures, lines # Missing, NEW max \in Nat, RenderBrief(lines, max) # Missing
  PROVE  EstimateTokens(RenderBrief(lines, max)) <= max
<1> DEFINE rows(name) == RowsOf(ParseSections(lines), name)
           nodes == Vocabulary(Hardening, NameSizes(rows("node_labels")), max)
           edges == Vocabulary(nodes, NameSizes(rows("edge_types")), max)
           entries == Table(edges, EntrypointsHeading, EntrypointSizes(rows("entry_points")), max)
           all == Table(entries, ModulesHeading, PackageSizes(rows("packages")), max)
<1>1. RenderBrief(lines, max) = all /\ all # Hardening
  BY DEF RenderBrief
<1>2. \A name : AreRows(rows(name))
  BY RowsAre
<1> HIDE DEF rows
<1>3. HasRoom(Hardening, max)
  BY DEF HasRoom, Hardening
<1>4. HasRoom(nodes, max)
  BY <1>2, <1>3, NameSizesAre, VocabularyFits
<1> HIDE DEF nodes
<1>5. HasRoom(edges, max)
  BY <1>2, <1>4, NameSizesAre, VocabularyFits
<1> HIDE DEF edges
<1>6. HasRoom(entries, max)
  <2>1. AreSizes(EntrypointSizes(rows("entry_points"))) /\ EntrypointsHeading \in Nat
    BY <1>2, EntrypointSizesAre DEF EntrypointsHeading
  <2> QED
    BY <1>5, <2>1, TableFits
<1> HIDE DEF entries
<1>7. HasRoom(all, max)
  <2>1. AreSizes(PackageSizes(rows("packages"))) /\ ModulesHeading \in Nat
    BY <1>2, PackageSizesAre DEF ModulesHeading
  <2> QED
    BY <1>6, <2>1, TableFits
<1> QED
  BY <1>1, <1>7 DEF HasRoom

(***************************************************************************)
(* Whatever get_architecture answers and whatever the budget, a brief has  *)
(* no more tokens than it may, counted as a whole (brief.rs push_if_fits). *)
(***************************************************************************)
THEOREM BriefAlwaysFits == Spec => []BriefFitsBudget
<1>1. Init => BriefFitsBudget
  BY DEF Init, BriefFitsBudget
<1>2. Costs /\ BriefFitsBudget /\ [Next]_vars => BriefFitsBudget'
  <2> SUFFICES ASSUME Costs, BriefFitsBudget, [Next]_vars PROVE BriefFitsBudget'
    OBVIOUS
  <2>1. CASE OpenLoop
    <3>1. config' = config /\ (brief' = Missing \/ \E a \in Architectures : brief' = BriefOf(a))
      BY <2>1 DEF OpenLoop, chosen
    <3>2. Settings.brief.maxTokens \in Nat
      <4>1. IsConfig(config)
        BY ConfigsAreValid DEF Costs, Shape
      <4> QED
        BY <4>1 DEF IsConfig, AgentSettings, RepoBriefSettings, Settings
    <3>3. ASSUME NEW a \in Architectures, brief' = BriefOf(a), brief' # Missing
          PROVE  EstimateTokens(brief') <= Settings.brief.maxTokens
      BY <3>2, <3>3, BriefHasRoom DEF BriefOf
    <3> QED
      BY <3>1, <3>3 DEF BriefFitsBudget, Settings
  <2>2. CASE UNCHANGED <<config, brief>>
    BY <2>2 DEF BriefFitsBudget, Settings
  <2>3. ASSUME NEW reply \in Replies, VerifyTurn(reply) \/ LoopTurn(reply) \/ ForcedFinish(reply)
        PROVE  UNCHANGED <<config, brief>>
    BY <2>3 DEF VerifyTurn, LoopTurn, ForcedFinish, chosen
  <2>4. CASE \/ Gate \/ (\E opinion \in Opinions : JudgeAsked(opinion)) \/ JudgeWorks \/ JudgeAnswers
             \/ Settle \/ OfflineFallback \/ (\E d \in Disks : Edit(d)) \/ Over \/ UNCHANGED vars
    <3>1. UNCHANGED <<config, brief>>
      BY <2>4 DEF Gate, JudgeAsked, JudgeWorks, JudgeAnswers, Settle, OfflineFallback, Edit, Over, vars,
                  chosen, talk
    <3> QED
      BY <2>2, <3>1
  <2> QED
    BY <2>1, <2>2, <2>3, <2>4 DEF Next, Step
<1> QED
  BY <1>1, <1>2, CostsAtFirst, CostsKept, PTL DEF Spec

=============================================================================
