--------------------------- MODULE VeilproofServer ---------------------------
(***************************************************************************)
(* The server process: issuer requests (IssuerApi), prove requests         *)
(* (HolderApi) and the platform's probe of GET /health run concurrently on *)
(* the runtime's worker threads, over one database and one connection      *)
(* pool, until a signal stops the process in order (main.rs) or something  *)
(* kills it.  A step of the server is a step of one of them; what the      *)
(* prove requests assume of the issuers' (HolderApi!Environment) must be   *)
(* what IssuerApi does.                                                    *)
(***************************************************************************)
EXTENDS IssuerApi

CONSTANTS
  Provers, Secrets, Addresses, ProofBudget, MaxDetached,  \* of HolderApi
  Workers                                                 \* tokio's worker threads

ASSUME WorkersAssumption == Workers \in Nat \ {0}

VARIABLES
  prove, permits, detached, keys,  \* of HolderApi
  health,   \* the probe: idle, or waiting for its ping (no answer is kept)
  stage     \* serving, or stopping in order; "unread": stopping, and the head
            \* or body of some request is not all read (not a prove's body)

holderVars == <<prove, permits, detached, keys>>
processVars == <<health, stage>>
serverVars == <<vars, holderVars, processVars>>

Holder == INSTANCE HolderApi

ServerInit ==
  /\ Init
  /\ Holder!Init
  /\ health = "idle"
  /\ stage = "serving"

-----------------------------------------------------------------------------
(* The runtime.  Every step of a handler needs a worker thread for its     *)
(* moment; only a computation that is not moved to the blocking pool keeps *)
(* one for seconds.                                                        *)

(* Mutant: the proof is made where the handler runs. *)
OffWorkersNever(r) == FALSE

(* spawn_blocking.  All of the code's long computations are moved, so a    *)
(* worker is always free in the end: FreeWorker matters to the mutant.     *)
OffWorkers(r) == prove[r].pc = "proving"

FreeWorker ==
  Cardinality({r \in Provers : prove[r].pc = "proving" /\ ~OffWorkers(r)}) < Workers

-----------------------------------------------------------------------------
(* Requests *)

(* Mutant: without the graceful shutdown, requests are taken to the end. *)
TakesRequestsAlways == TRUE

TakesRequests == stage # "stopping"

(* The last request that was unread at the signal is read, or its client   *)
(* gives up.                                                               *)
NoneUnread == stage = "unread" /\ stage' = "stopping"

(* A request arrives when its head is read; issuers', with their body.     *)
Arrives == TakesRequests /\ FreeWorker /\ (UNCHANGED stage \/ NoneUnread)

OfIssuers(A) == FreeWorker /\ A /\ UNCHANGED <<holderVars, processVars>>
OfHolders(A) == FreeWorker /\ A /\ UNCHANGED <<apiVars, processVars>>

IssuerStep ==
  \/ Arrives /\ Arrivals /\ UNCHANGED <<holderVars, health>>
  \/ OfIssuers(RequestSteps)

(* A statement of a prove request borrows a connection of the same pool.   *)
HolderQueries(r) == OfHolders(FreeConnection /\ Holder!ProveQueries(r))

HolderStep ==
  \E r \in Provers :
    \/ Arrives /\ Holder!ProveArrives(r) /\ UNCHANGED <<apiVars, health>>
    \/ HolderQueries(r)
    \/ OfHolders(Holder!ProveOther(r))

(* Proofs run, and end, whether a worker is free or not. *)
ProofEnds(r) == Holder!Prove(r) /\ UNCHANGED <<apiVars, processVars>>
DetachedEnds == Holder!DetachedEnds /\ UNCHANGED <<apiVars, processVars>>

ProofStep == (\E r \in Provers : ProofEnds(r)) \/ DetachedEnds

ProbeArrives ==
  /\ Arrives
  /\ health = "idle"
  /\ health' = "ping"
  /\ UNCHANGED <<vars, holderVars>>

ProbeEnds ==
  /\ FreeWorker
  /\ health = "ping"
  /\ health' = "idle"
  /\ UNCHANGED <<vars, holderVars, stage>>

(* api::health: 200 after Store::ping on a connection of the pool.         *)
HealthAnswers == FreeConnection /\ ProbeEnds

(* 503 if it fails or no connection comes free in time, or the prober      *)
(* leaves.                                                                 *)
HealthFails == ProbeEnds

HealthStep == ProbeArrives \/ HealthAnswers \/ HealthFails

-----------------------------------------------------------------------------
(* The end of the process *)

(* Everything in memory is gone; the next process starts serving. *)
Restart ==
  /\ Crash
  /\ Holder!Restart
  /\ health' = "idle"
  /\ stage' = "serving"

(* SIGTERM or Ctrl-C: with_graceful_shutdown accepts no more connections   *)
(* and takes no more requests than those some client has half sent ...     *)
Signal ==
  /\ stage = "serving"
  /\ stage' \in {"unread", "stopping"}
  /\ UNCHANGED <<vars, holderVars, health>>

UnreadGone ==
  /\ NoneUnread
  /\ UNCHANGED <<vars, holderVars, health>>

(* ... waits for the answers to those it has, and main returns; dropping   *)
(* the runtime waits for the blocking pool, so for detached proofs too.    *)
Exit ==
  /\ stage = "stopping"
  /\ \A r \in Adders : add[r].pc \in AddAnswered
  /\ \A r \in Publishers : pub[r].pc \in PubAnswered
  /\ \A r \in Provers : prove[r].pc \in Holder!ProveAnswered
  /\ health # "ping"
  /\ detached = 0
  /\ Restart

(* The process dies, at any moment, or ends in order. *)
ServerNext ==
  \/ IssuerStep
  \/ HolderStep
  \/ ProofStep
  \/ HealthStep
  \/ Signal
  \/ UnreadGone
  \/ Exit
  \/ Restart

ServerSpec == ServerInit /\ [][ServerNext]_serverVars

(* IssuerApi's fairness, and the same for the other handlers: tokio polls  *)
(* what is ready when a worker is free, and statements get a connection in *)
(* the order they were asked for.  Nothing is assumed of how long proofs   *)
(* take; clients may take for ever over their bodies; and no failure,      *)
(* disconnect or death is relied on.                                       *)
ServerFairness ==
  /\ \A r \in Adders : SF_serverVars(OfIssuers(AddProceeds(r)))
  /\ \A r \in Publishers : SF_serverVars(OfIssuers(PubProceeds(r)))
  /\ \A r \in Provers : SF_serverVars(HolderQueries(r))
  /\ SF_serverVars(HealthAnswers)
  /\ WF_serverVars(Exit)

ServerFairSpec == ServerSpec /\ ServerFairness

(* A proof takes seconds: it does end. *)
ProofsEnd ==
  /\ \A r \in Provers : WF_serverVars(ProofEnds(r))
  /\ WF_serverVars(DetachedEnds)

-----------------------------------------------------------------------------
(* What IssuerApi does to the tables, in all its interleavings, failures   *)
(* and crashes, is what HolderApi assumes of its environment: so whatever  *)
(* holds of HolderApi holds of prove requests in the server.               *)
IssuersMeetHoldersAssumption == Holder!Spec

(* Requests of all kinds share the connections, and none waits for ever    *)
(* for one or for a row lock: each is answered or its client leaves, and   *)
(* no timeout has to fire for it.  (IssuerApi!PublishSettles says it of    *)
(* publish, here too.)                                                     *)
ProveSettles == ProofsEnd => Holder!ProveSettles

(* holder.rs:80: however long proofs take, and were they never to end, a   *)
(* probe of /health is answered, so the platform has no reason to restart  *)
(* the instance in the middle of them.                                     *)
HealthSettles == health = "ping" ~> health # "ping"

(* Some client has sent a part of a request, and not yet the rest. *)
Withheld ==
  \/ stage = "unread"
  \/ \E r \in Provers : prove[r].pc = "body"

(* main.rs:46, "so the container stops cleanly": after the signal the      *)
(* process ends by itself, unless clients hold it up for ever with a       *)
(* request they do not finish sending.  No request that is being answered, *)
(* no detached proof and no lock does, and no request that comes later.    *)
ShutdownCompletes ==
  ProofsEnd /\ []<>~Withheld => (stage # "serving" ~> stage = "serving")
=============================================================================
