---------------------------- MODULE ProviderRouter ----------------------------
(***************************************************************************)
(* The failover router over the configured language models (llm.rs in      *)
(* core), asked turn by turn by concurrent explorations. A request makes   *)
(* one tour of the models, entry by entry, passes over those that cool     *)
(* down, and goes on to the next when a model answers with a limit error.  *)
(* A request holds no lock while a model answers, so several may wait for  *)
(* the same model, and each writes that model's cooldown on its own.       *)
(*                                                                         *)
(* Deadlines are modelled by the time that is left to them, so that time   *)
(* needs no bound: an expired deadline and none at all are both zero.      *)
(***************************************************************************)
EXTENDS Naturals

CONSTANTS
  Runs,       \* explorations that may be in flight at the same time
  Entries,    \* the number of configured provider entries
  ModelsOf,   \* ModelsOf[e]: how many models entry e lists
  Rotating,   \* the entries whose start rotates (rotate_start)
  Seeds,      \* the width of the seed counter: 2^64
  Cooldown,   \* llm.cooldown_seconds
  Day,        \* the length of a UTC day
  NoModel     \* no model

ASSUME EntriesListModels == Entries \in Nat /\ ModelsOf \in [1..Entries -> Nat]
ASSUME SeedsArePositive == Seeds \in Nat \ {0}
ASSUME DurationsAreNats == Cooldown \in Nat /\ Day \in Nat \ {0}

Models == UNION {{e} \X (0..ModelsOf[e] - 1) : e \in 1..Entries}

ASSUME SomeModel == Models # {} /\ NoModel \notin Models

VARIABLES
  wall,       \* the time of the UTC day
  cooling,    \* cooling[m]: the time left of the cooldown of model m
  nextSeed,   \* the seed the next exploration gets (rotation_seed)
  pc,         \* where each run is: before its first turn, at a model, or past a turn
  seed,       \* the seed of the run
  pos,        \* how far the tour of the run's turn has come: entry and offset
  refused,    \* history: the models that were of no use to the run's turn
  by,         \* history: the model that last answered the run
  refusedBy,  \* history: the models that were of no use to that turn
  banned,     \* history: the time left of the day for which m is out of quota
  late,       \* history: the runs that waited for m when it ran out, and still do
  raced       \* history: one of those has been limited since

tours == <<pc, pos, refused>>
past == <<by, refusedBy>>
quotas == <<banned, late, raced>>
vars == <<wall, cooling, nextSeed, seed, tours, past, quotas>>

-----------------------------------------------------------------------------

\* The first entry from e on that lists a model, or none.
EntryFrom(e) ==
  CHOOSE i \in e..Entries + 1 :
    /\ i > Entries \/ ModelsOf[i] > 0
    /\ \A j \in e..i - 1 : ModelsOf[j] = 0

TourStart == <<EntryFrom(1), 0>>

\* Mutant of TourNext: the rest of the entry's models are passed over.
TourNextEntry(p) == <<EntryFrom(p[1] + 1), 0>>

\* The position after p: the entry's next model, or the next entry's first.
TourNext(p) ==
  IF p[2] + 1 < ModelsOf[p[1]] THEN <<p[1], p[2] + 1>> ELSE <<EntryFrom(p[1] + 1), 0>>

AtEnd(r) == pos[r][1] > Entries

Start(r) == IF pos[r][1] \in Rotating THEN seed[r] % ModelsOf[pos[r][1]] ELSE 0

\* The model at the position of the run's tour.
At(r) == <<pos[r][1], (Start(r) + pos[r][2]) % ModelsOf[pos[r][1]]>>

Looking(r) == pc[r] = "look" /\ ~AtEnd(r)

\* The model at hand is of no use: the tour goes on.
MoveOn(r) ==
  /\ refused' = [refused EXCEPT ![r] = @ \cup {At(r)}]
  /\ pos' = [pos EXCEPT ![r] = TourNext(@)]
  /\ pc' = [pc EXCEPT ![r] = "look"]

\* The turn is over, its tour with it.
TurnOver(r) ==
  /\ pc' = [pc EXCEPT ![r] = "over"]
  /\ pos' = [pos EXCEPT ![r] = TourStart]
  /\ refused' = [refused EXCEPT ![r] = {}]

NewTour(r) ==
  /\ pc' = [pc EXCEPT ![r] = "look"]
  /\ UNCHANGED <<pos, refused>>

-----------------------------------------------------------------------------
(* Errors of a provider.                                                   *)

\* What is left of an error at the boundary: the HTTP status, none for a failed
\* connection, and what its words are known to mean. The statuses stand for all
\* that are told apart, 500 for any other.
NoStatus == 0

ErrorFacts ==
  [status : {NoStatus, 400, 401, 403, 404, 422, 429, 500, 503, 529},
   says : {"per day", "quota", "other"}]

\* classify_error_facts. Words count only where the status may be about a limit.
Classify(facts) ==
  CASE facts.status \in {429, 503, 529, NoStatus} /\ facts.says = "per day" -> "DailyQuotaExceeded"
    [] facts.status \in {429, 503, 529, NoStatus} /\ facts.says = "quota" -> "QuotaExceeded"
    [] facts.status \in {429, 503, 529} /\ facts.says = "other" -> "RateLimited"
    [] facts.status \in {401, 403} -> "Authentication"
    [] facts.status = 404 -> "ModelUnavailable"
    [] facts.status \in {400, 422} -> "InvalidRequest"
    [] OTHER -> "Transport"

\* What a call may come back with, an answer nothing can be made of included.
ProviderErrors == {Classify(facts) : facts \in ErrorFacts} \cup {"InvalidResponse"}

IsFailoverTrigger(error) ==
  error \in {"RateLimited", "QuotaExceeded", "DailyQuotaExceeded", "ModelUnavailable"}

-----------------------------------------------------------------------------

\* An exploration draws its seed and makes its first request.
Begin(r) ==
  /\ pc[r] \in {"idle", "over"}
  /\ NewTour(r)
  /\ seed' = [seed EXCEPT ![r] = nextSeed]
  /\ nextSeed' = (nextSeed + 1) % Seeds
  /\ by' = [by EXCEPT ![r] = NoModel]
  /\ refusedBy' = [refusedBy EXCEPT ![r] = {}]
  /\ UNCHANGED <<wall, cooling, quotas>>

\* Mutant of Turn: every request draws a seed of its own.
TurnReseeded(r) ==
  /\ pc[r] = "over"
  /\ NewTour(r)
  /\ seed' = [seed EXCEPT ![r] = nextSeed]
  /\ nextSeed' = (nextSeed + 1) % Seeds
  /\ UNCHANGED <<wall, cooling, past, quotas>>

\* It makes another request, under the same seed.
Turn(r) ==
  /\ pc[r] = "over"
  /\ NewTour(r)
  /\ UNCHANGED <<wall, cooling, nextSeed, seed, past, quotas>>

\* A model that cools down is passed over.
Skip(r) ==
  /\ Looking(r)
  /\ cooling[At(r)] > 0
  /\ MoveOn(r)
  /\ UNCHANGED <<wall, cooling, nextSeed, seed, past, quotas>>

\* Any other is asked. Its deadline, if it had one, has expired, and is cleared.
Ask(r) ==
  /\ Looking(r)
  /\ cooling[At(r)] = 0
  /\ pc' = [pc EXCEPT ![r] = "wait"]
  /\ UNCHANGED <<wall, cooling, nextSeed, seed, pos, refused, past, quotas>>

\* The run's request has its answer.
Settled(r) == late' = [m \in Models |-> late[m] \ {r}]

\* Mutant of Answer: the model that answers is taken to have recovered.
AnswerRecovers(r) ==
  /\ pc[r] = "wait"
  /\ TurnOver(r)
  /\ by' = [by EXCEPT ![r] = At(r)]
  /\ refusedBy' = [refusedBy EXCEPT ![r] = refused[r]]
  /\ cooling' = [cooling EXCEPT ![At(r)] = 0]
  /\ Settled(r)
  /\ UNCHANGED <<wall, nextSeed, seed, banned, raced>>

\* The model answers.
Answer(r) ==
  /\ pc[r] = "wait"
  /\ TurnOver(r)
  /\ by' = [by EXCEPT ![r] = At(r)]
  /\ refusedBy' = [refusedBy EXCEPT ![r] = refused[r]]
  /\ Settled(r)
  /\ UNCHANGED <<wall, cooling, nextSeed, seed, banned, raced>>

\* The request fails for a reason no other model would mend.
FailFast(r, error) ==
  /\ pc[r] = "wait"
  /\ ~IsFailoverTrigger(error)
  /\ TurnOver(r)
  /\ Settled(r)
  /\ UNCHANGED <<wall, cooling, nextSeed, seed, past, banned, raced>>

\* Rate or quota exceeded, or no such model: the flat cooldown.
Limited(r, error) ==
  /\ pc[r] = "wait"
  /\ IsFailoverTrigger(error) /\ error # "DailyQuotaExceeded"
  /\ cooling' = [cooling EXCEPT ![At(r)] = Cooldown]
  /\ MoveOn(r)
  /\ raced' = [raced EXCEPT ![At(r)] = @ \/ r \in late[At(r)]]
  /\ Settled(r)
  /\ UNCHANGED <<wall, nextSeed, seed, past, banned>>

\* duration_until_utc_midnight: a full day at midnight.
UntilMidnight == Day - wall

\* The daily quota is exceeded: the model cools down until midnight.
OutForTheDay(r, error) ==
  /\ pc[r] = "wait"
  /\ error = "DailyQuotaExceeded"
  /\ cooling' = [cooling EXCEPT ![At(r)] = UntilMidnight]
  /\ MoveOn(r)
  /\ banned' = [banned EXCEPT ![At(r)] = Day - wall]
  /\ late' = [m \in Models |-> IF m = At(r)
                               THEN {q \in Runs \ {r} : pc[q] = "wait" /\ At(q) = m}
                               ELSE late[m] \ {r}]
  /\ raced' = [raced EXCEPT ![At(r)] = FALSE]
  /\ UNCHANGED <<wall, nextSeed, seed, past>>

\* No model is left.
Exhaust(r) ==
  /\ pc[r] = "look" /\ AtEnd(r)
  /\ TurnOver(r)
  /\ UNCHANGED <<wall, cooling, nextSeed, seed, past, quotas>>

Less(t) == IF t = 0 THEN 0 ELSE t - 1

\* Time passes, for both clocks alike.
Tick ==
  /\ wall' = (wall + 1) % Day
  /\ cooling' = [m \in Models |-> Less(cooling[m])]
  /\ banned' = [m \in Models |-> Less(banned[m])]
  /\ late' = [m \in Models |-> IF banned[m] > 1 THEN late[m] ELSE {}]
  /\ raced' = [m \in Models |-> raced[m] /\ banned[m] > 1]
  /\ UNCHANGED <<nextSeed, seed, tours, past>>

Init ==
  /\ wall \in 0..Day - 1
  /\ cooling = [m \in Models |-> 0]
  /\ nextSeed = 0
  /\ pc = [r \in Runs |-> "idle"]
  /\ seed = [r \in Runs |-> 0]
  /\ pos = [r \in Runs |-> TourStart]
  /\ refused = [r \in Runs |-> {}]
  /\ by = [r \in Runs |-> NoModel]
  /\ refusedBy = [r \in Runs |-> {}]
  /\ banned = [m \in Models |-> 0]
  /\ late = [m \in Models |-> {}]
  /\ raced = [m \in Models |-> FALSE]

Next ==
  \/ \E r \in Runs :
       \/ Begin(r) \/ Turn(r) \/ Skip(r) \/ Ask(r) \/ Answer(r) \/ Exhaust(r)
       \/ \E error \in ProviderErrors :
            FailFast(r, error) \/ Limited(r, error) \/ OutForTheDay(r, error)
  \/ Tick

Spec == Init /\ [][Next]_vars

-----------------------------------------------------------------------------

(***************************************************************************)
(* A request is given up as exhausted only when every model of every entry *)
(* was cooling down or limited when its turn came, wherever the rotation   *)
(* made the tour start (AllExhausted).                                     *)
(***************************************************************************)
ExhaustedMeansAllRefused ==
  [][\A r \in Runs : pc[r] = "look" /\ pc'[r] = "over" => refused[r] = Models]_vars

(***************************************************************************)
(* A conversation stays with the model it began with: a turn is answered   *)
(* by another model than the last one only if one of the two was limited   *)
(* or cooling when it was its turn, whatever seeds other explorations draw *)
(* meanwhile ("otherwise a later turn can rotate onto a different model",  *)
(* CallOptions::rotation_seed).                                            *)
(***************************************************************************)
SticksUnlessRefused ==
  [][\A r \in Runs :
       NoModel \notin {by[r], by'[r]} /\ by'[r] # by[r]
         => by[r] \in refused[r] \/ by'[r] \in refusedBy[r]]_vars

(***************************************************************************)
(* A model that has run out of its daily quota cools down for the rest of  *)
(* that day ("lock this model out for the rest of the UTC day"): neither   *)
(* answers that were on their way nor other errors shorten that, but for   *)
(* one, an ordinary limit of a request that waited for the model when it   *)
(* ran out (complete_with_tools).                                          *)
(***************************************************************************)
BannedUnlessRaced == \A m \in Models : banned[m] > cooling[m] => raced[m]
=============================================================================
