----------------------------- MODULE MCTokenBucket -----------------------------
(*****************************************************************************)
(* TokenBucket for TLC, with a history: from a moment that may be any, the   *)
(* requests of one client that were let through and the time that has        *)
(* passed, for as long as the client is not forgotten.                       *)
(*****************************************************************************)
EXTENDS TokenBucket

CONSTANT MaxWindow  \* bound: ticks for which the client is watched

VARIABLES watched,  \* the client, or "none"
          granted,  \* its requests that were let through since
          window    \* ticks since

hvars == <<vars, watched, granted, window>>

HInit == Init /\ watched = "none" /\ granted = 0 /\ window = 0

Watch(c) ==
  /\ watched = "none" /\ place[c] # 0
  /\ watched' = c
  /\ UNCHANGED <<vars, granted, window>>

\* The client is forgotten, or has been watched for long enough.
LoseSight == watched' = "none" /\ granted' = 0 /\ window' = 0

HTick ==
  /\ Tick
  /\ IF watched # "none" /\ window = MaxWindow THEN LoseSight
     ELSE /\ window' = IF watched = "none" THEN 0 ELSE window + 1
          /\ UNCHANGED <<watched, granted>>

HAllow(c) ==
  /\ Allow(c)
  /\ IF watched # "none" /\ place'[watched] = 0 THEN LoseSight
     ELSE /\ granted' = IF watched = c /\ answer'.allowed THEN granted + 1 ELSE granted
          /\ UNCHANGED <<watched, window>>

HNext == HTick \/ \E c \in Clients : HAllow(c) \/ Watch(c)

HSpec == HInit /\ [][HNext]_hvars /\ WF_vars(Tick)

\* In any interval a client gets at most burst requests through, and what rate
\* brings meanwhile, however it spaces them and whatever others do.
BurstBound == granted * Cost <= Size + window * Rate
===============================================================================
