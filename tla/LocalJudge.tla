------------------------------ MODULE LocalJudge ------------------------------
(***************************************************************************)
(* The local judge (repo-explorer-judge lib.rs and candle/mod.rs): it is   *)
(* given a state, a text, for each candidate and gives back a probability  *)
(* for each, all of them or none.                                          *)
(*                                                                         *)
(* Over HTTP every state is a request of its own; requests are started in  *)
(* order, as many at a time as there are permits, and answered in any      *)
(* order. In the process, one thread loads a checkpoint when it is first   *)
(* asked for and then takes whole calls from a queue.                      *)
(***************************************************************************)
EXTENDS Findings, Config

VARIABLES
  config,  \* the configuration the server runs with
  call,    \* the call of the judge: [at, states, opinion, got]
  worker   \* the thread in the process: "none", "ready", "failed" or "gone"

-----------------------------------------------------------------------------
(* States. One is of a candidate, by its number, and shows code.           *)

BodyContextBefore == 3
BodyContextAfter == 5
BodyMaxLines == 60

\* The lines around a candidate, as many as are shown.
BodyAround(c, disk) ==
  LET loc == NormalizeLocation(c.loc)
      file == ReadCanonical(disk, loc.path)
  IN  IF file = Missing
      THEN Missing
      ELSE CapSnippet(SliceLines(file, loc.start - BodyContextBefore, loc.end + BodyContextAfter),
                      BodyMaxLines)

\* render_judge_states: a candidate without a line is not judged, and one whose
\* body cannot be read is judged by the text it came with.
RenderJudgeStates(cands, disk) ==
  LET located == InOrder({i \in DOMAIN cands : ~IsUnknown(cands[i].loc)})
      state(i) == LET body == BodyAround(cands[i], disk)
                  IN  [of |-> i, code |-> IF body # Missing THEN body ELSE cands[i].text]
  IN  [k \in DOMAIN located |-> state(located[k])]

-----------------------------------------------------------------------------
(* A call. The opinion gives each candidate a probability in permille.     *)

NoCall == [at |-> "none", states |-> <<>>, opinion |-> <<>>, got |-> <<>>]

AskJudge(states, opinion) ==
  /\ call' = [at |-> IF config.judge.backend = "http" THEN "posting" ELSE "loading",
              states |-> states, opinion |-> opinion, got |-> [k \in DOMAIN states |-> Missing]]
  /\ UNCHANGED worker

\* CandidateJudge: what the judge gave to candidate i.
ScoreOf(i) ==
  LET ks == {k \in DOMAIN call.states : call.states[k].of = i}
  IN  IF ks = {} THEN Missing ELSE call.got[CHOOSE k \in ks : TRUE]

\* Over HTTP.

Permits == Upper(1, config.judge.concurrency)

\* The requests under way, if no other call holds a permit; while one does,
\* they are answered later.
InFlight ==
  {k \in DOMAIN call.states :
     /\ call.got[k] = Missing
     /\ Cardinality({j \in 1 .. k - 1 : call.got[j] = Missing}) < Permits}

Unanswered(got) == {j \in DOMAIN got : got[j] = Missing}

\* Mutant of JudgeOne: answers are collected in the order they arrive.
JudgeOneAsTheyCome(k) ==
  /\ call.at = "posting" /\ k \in InFlight
  /\ LET next == CHOOSE j \in Unanswered(call.got) : \A l \in Unanswered(call.got) : j <= l
         got == [call.got EXCEPT ![next] = call.opinion[call.states[k].of]]
     IN  call' = [call EXCEPT !.got = got, !.at = IF Unanswered(got) = {} THEN "answered" ELSE @]
  /\ UNCHANGED worker

\* judge_one: the answer to state k, which try_join_all keeps at its place.
JudgeOne(k) ==
  /\ call.at = "posting" /\ k \in InFlight
  /\ LET got == [call.got EXCEPT ![k] = call.opinion[call.states[k].of]]
     IN  call' = [call EXCEPT !.got = got, !.at = IF Unanswered(got) = {} THEN "answered" ELSE @]
  /\ UNCHANGED worker

\* Mutant of PostingFails: the call is made again, as often as it takes.
PostingStartsOver ==
  /\ call.at = "posting"
  /\ call' = [call EXCEPT !.got = [k \in DOMAIN call.states |-> Missing]]
  /\ UNCHANGED worker

\* A request fails, its answer has no probability, or the call has taken
\* timeout_ms, the time its requests waited for a permit included.
PostingFails ==
  /\ call.at = "posting"
  /\ call' = [call EXCEPT !.at = "failed"]
  /\ UNCHANGED worker

\* In the process.

\* LayaCandleJudge::worker: the first call loads the checkpoint and waits for
\* it, whatever timeout_ms says; what came of it is kept for good.
LoadWorker ==
  /\ call.at = "loading" /\ worker = "none"
  /\ worker' \in {"ready", "failed"}
  /\ UNCHANGED call

\* InferenceWorker::judge: to the end of the queue, if there is a thread.
SubmitJob ==
  /\ call.at = "loading" /\ worker # "none"
  /\ call' = [call EXCEPT !.at = IF worker = "ready" THEN "queued" ELSE "failed"]
  /\ UNCHANGED worker

\* The thread answers the whole call at once, or it has an error for it.
JudgeStates ==
  /\ call.at = "queued" /\ worker = "ready"
  /\ \/ call' = [call EXCEPT !.at = "answered",
                             !.got = [k \in DOMAIN call.states |-> call.opinion[call.states[k].of]]]
     \/ call' = [call EXCEPT !.at = "failed"]
  /\ UNCHANGED worker

\* Jobs before it, even those of callers that no longer wait, took too long.
JobTimesOut ==
  /\ call.at = "queued"
  /\ call' = [call EXCEPT !.at = "failed"]
  /\ UNCHANGED worker

\* A panic ends the thread, and with it whatever waits for an answer.
WorkerDies ==
  /\ call.at = "queued" /\ worker = "ready"
  /\ worker' = "gone"
  /\ call' = [call EXCEPT !.at = "failed"]

JudgeSteps ==
  \/ \E k \in DOMAIN call.states : JudgeOne(k)
  \/ PostingFails
  \/ LoadWorker
  \/ SubmitJob
  \/ JudgeStates
  \/ JobTimesOut
  \/ WorkerDies
=============================================================================
