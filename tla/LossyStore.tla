------------------------------ MODULE LossyStore ------------------------------
(***************************************************************************)
(* What the persistent result cache promises the query cache above it: a   *)
(* map that may lose any entry at any time, and that answers a get, if it  *)
(* answers, with the last value put under that very key.                   *)
(***************************************************************************)
CONSTANTS
  Clients,   \* who uses the store
  Keys,      \* under what
  Values,    \* what it keeps
  None       \* no value, no answer

VARIABLES
  store,     \* store[k]: the value kept under k
  answer     \* answer[c]: the key and the value client c is being answered

Init ==
  /\ store = [k \in Keys |-> None]
  /\ answer = [c \in Clients |-> None]

\* Every key outside K keeps its value or loses it.
OthersLose(K) ==
  /\ DOMAIN store' = Keys
  /\ \A j \in Keys \ K : store'[j] \in {store[j], None}

\* A value is put under k; entries may be lost to it.
Put(k, v) ==
  /\ OthersLose({k})
  /\ store'[k] = v
  /\ UNCHANGED answer

\* Entries are lost.
Lose ==
  /\ OthersLose({})
  /\ UNCHANGED answer

\* Client c is answered with what is kept under k.
Get(c, k) ==
  /\ store[k] # None
  /\ answer' = [answer EXCEPT ![c] = <<k, store[k]>>]
  /\ UNCHANGED store

\* Answers are delivered, or their receivers are gone.
Deliver ==
  /\ DOMAIN answer' = Clients
  /\ \A c \in Clients : answer'[c] \in {answer[c], None}
  /\ UNCHANGED store

Next ==
  \/ \E k \in Keys, v \in Values : Put(k, v)
  \/ Lose
  \/ \E c \in Clients, k \in Keys : Get(c, k)
  \/ Deliver

Spec == Init /\ [][Next]_<<store, answer>>
=============================================================================
