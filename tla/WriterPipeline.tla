--------------------------- MODULE WriterPipeline ---------------------------
(***************************************************************************)
(* The durable write path of grokcli-2api.                                 *)
(*                                                                         *)
(* Gateway workers append events (account statistics, account state, usage)*)
(* to Redis Streams (store/events_redis.py); one or more writer processes  *)
(* (writer.py) read them through a consumer group, apply a batch to        *)
(* PostgreSQL in one transaction guarded by the writer_inbox table, and    *)
(* acknowledge the batch after the commit.  A message that was delivered   *)
(* but not acknowledged stays in the pending list of the group and is      *)
(* reclaimed by any writer; one delivered too often is dead-lettered.      *)
(*                                                                         *)
(* The three streams share one consumer group and one batch, so the model  *)
(* merges them; a message is a member of Events and carries no payload.    *)
(* What an event does to a row is the subject of AccountState.             *)
(*                                                                         *)
(* An operator introduced as a seeded fault is a mutated form of the       *)
(* definition after it; no action uses it.                                 *)
(***************************************************************************)
EXTENDS Naturals, FiniteSets

CONSTANTS
  Events,          \* messages that gateway workers may publish
  Writers,         \* writer processes
  Poison,          \* decodable events on which the SQL of the batch always fails
  Invalid,         \* messages decode_message rejects
  BatchSize,       \* WRITER_BATCH_SIZE
  MaxRetries,      \* WRITER_MAX_RETRIES
  MaxDisruptions   \* bound: crashes, SIGTERMs and lost replies in a behaviour

ASSUME WriterConstants ==
  /\ Poison \subseteq Events
  /\ Invalid \subseteq Events
  /\ IsFiniteSet(Events)
  /\ BatchSize \in Nat \ {0}
  /\ MaxRetries \in Nat \ {0}
  /\ MaxDisruptions \in Nat

VARIABLES
  published,    \* events a gateway worker handed to XADD and Redis accepted
  direct,       \* events whose publisher fell back to its own PostgreSQL write
  fresh,        \* stream entries the group has not delivered yet
  pel,          \* the group's pending entries: delivered, not acknowledged
  deliveries,   \* times_delivered of an entry, counted up to MaxRetries
  inbox,        \* rows of writer_inbox
  effect,       \* committed applications of an event by the writers
  dlq,          \* events copied to the dead-letter stream
  pc,           \* where a writer process is in its loop
  batch,        \* the messages a writer holds in memory
  running,      \* Writer.running: FALSE after SIGTERM
  draining,     \* the writer is past its loop, in the final drain
  disruptions   \* disruptions spent so far

pubVars  == <<published, direct>>
pgVars   == <<inbox, effect>>
procVars == <<pc, batch, running, draining>>
vars == <<pubVars, fresh, pel, deliveries, pgVars, dlq, procVars, disruptions>>

PCs == {"idle", "reading", "process", "ack", "failed", "down"}

TypeOK ==
  /\ published \subseteq Events
  /\ direct \subseteq Events
  /\ fresh \subseteq Events
  /\ pel \subseteq Events
  /\ deliveries \in [Events -> 0..MaxRetries]
  /\ inbox \subseteq Events
  /\ effect \in [Events -> Nat]
  /\ dlq \subseteq Events
  /\ pc \in [Writers -> PCs]
  /\ batch \in [Writers -> SUBSET Events]
  /\ running \in [Writers -> BOOLEAN]
  /\ draining \in [Writers -> BOOLEAN]
  /\ disruptions \in 0..MaxDisruptions

Init ==
  /\ published = {}
  /\ direct = {}
  /\ fresh = {}
  /\ pel = {}
  /\ deliveries = [e \in Events |-> 0]
  /\ inbox = {}
  /\ effect = [e \in Events |-> 0]
  /\ dlq = {}
  /\ pc = [w \in Writers |-> "idle"]
  /\ batch = [w \in Writers |-> {}]
  /\ running = [w \in Writers |-> TRUE]
  /\ draining = [w \in Writers |-> FALSE]
  /\ disruptions = 0

Disrupt ==
  /\ disruptions < MaxDisruptions
  /\ disruptions' = disruptions + 1

-----------------------------------------------------------------------------
(* Gateway worker: publish_event and its caller's fallback.                *)

(* XADD succeeds and its reply arrives. *)
Publish(e) ==
  /\ e \notin published \cup direct
  /\ published' = published \cup {e}
  /\ fresh' = fresh \cup {e}
  /\ UNCHANGED <<direct, pel, deliveries, pgVars, dlq, procVars, disruptions>>

(* XADD raises.  publish_event swallows the exception and returns None, and *)
(* the caller writes PostgreSQL itself.  The exception may be a timeout of  *)
(* the socket after Redis executed the command.                             *)
PublishFails(e) ==
  /\ e \notin published \cup direct
  /\ Disrupt
  /\ direct' = direct \cup {e}
  /\ \/ UNCHANGED <<published, fresh>>
     \/ /\ published' = published \cup {e}
        /\ fresh' = fresh \cup {e}
  /\ UNCHANGED <<pel, deliveries, pgVars, dlq, procVars>>

-----------------------------------------------------------------------------
(* Writer process.                                                          *)

(* Seeded fault: the counter of the model does not saturate.                *)
(* times_delivered is incremented by XREADGROUP and XAUTOCLAIM alike; only  *)
(* its comparison with WRITER_MAX_RETRIES matters, so it stops there.       *)
Delivered(S) ==
  [e \in Events |-> IF e \in S /\ deliveries[e] < MaxRetries
                    THEN deliveries[e] + 1 ELSE deliveries[e]]

(* After a batch the loop goes round again, unless it was the final drain. *)
AfterBatch(w) == IF draining[w] THEN "down" ELSE "idle"

(* _reclaim: XAUTOCLAIM of entries idle for at least five seconds, whoever  *)
(* holds them; entries that do not decode go to the dead-letter stream.     *)
(* An exception abandons the rest of the claimed entries: they stay pending *)
(* and out of the batch, and an invalid one may be copied but not removed.  *)
Reclaim(w, S) ==
  /\ pc[w] = "idle"
  /\ running[w]
  /\ S \subseteq pel
  /\ Cardinality(S) <= BatchSize
  /\ deliveries' = Delivered(S)
  /\ pc' = [pc EXCEPT ![w] = "reading"]
  /\ \E got \in SUBSET S, acked \in SUBSET (S \cap Invalid) :
       /\ \/ got = S /\ acked = S \cap Invalid /\ UNCHANGED disruptions
          \/ acked \subseteq got /\ Disrupt
       /\ batch' = [batch EXCEPT ![w] = got \ Invalid]
       /\ dlq' = dlq \cup (got \cap Invalid)
       /\ pel' = pel \ acked
  /\ UNCHANGED <<pubVars, fresh, pgVars, running, draining>>

(* Seeded fault: XREADGROUP with NOACK.                                     *)
DeliverNoAck(w, S) ==
  /\ S \subseteq fresh
  /\ Cardinality(S) + Cardinality(batch[w]) <= BatchSize
  /\ fresh' = fresh \ S
  /\ deliveries' = Delivered(S)
  /\ batch' = [batch EXCEPT ![w] = batch[w] \cup (S \ Invalid)]
  /\ dlq' = dlq \cup (S \cap Invalid)
  /\ UNCHANGED <<pel, disruptions>>

(* The effect of one XREADGROUP ">" that delivers S to writer w.  When the  *)
(* reply is lost _read returns [] and the entries are pending, held by      *)
(* nobody.  An invalid entry is copied to the dead-letter stream before it  *)
(* is acknowledged, and the exception of a failed XACK is swallowed.        *)
Deliver(w, S) ==
  /\ S \subseteq fresh
  /\ Cardinality(S) + Cardinality(batch[w]) <= BatchSize
  /\ fresh' = fresh \ S
  /\ deliveries' = Delivered(S)
  /\ \E got \in {S, {}}, acked \in SUBSET (S \cap Invalid) :
       /\ \/ got = S /\ acked = S \cap Invalid /\ UNCHANGED disruptions
          \/ S # {} /\ acked \subseteq got /\ Disrupt
       /\ batch' = [batch EXCEPT ![w] = batch[w] \cup (got \ Invalid)]
       /\ dlq' = dlq \cup (got \cap Invalid)
       /\ pel' = (pel \cup S) \ acked

(* One turn of the read loop of _collect_batch. *)
Read(w, S) ==
  /\ pc[w] = "reading"
  /\ running[w]
  /\ S # {}
  /\ Deliver(w, S)
  /\ UNCHANGED <<pubVars, pgVars, pc, running, draining>>

(* _collect_batch returns: deadline, full batch, nothing new, or SIGTERM. *)
EndCollect(w) ==
  /\ pc[w] = "reading"
  /\ pc' = [pc EXCEPT ![w] = IF batch[w] = {} THEN "idle" ELSE "process"]
  /\ UNCHANGED <<pubVars, fresh, pel, deliveries, pgVars, dlq, batch, running,
                 draining, disruptions>>

(* The last statements of run: one final read after the loop has ended. *)
FinalRead(w, S) ==
  /\ pc[w] = "idle"
  /\ ~running[w]
  /\ Deliver(w, S)
  /\ draining' = [draining EXCEPT ![w] = TRUE]
  /\ pc' = [pc EXCEPT ![w] = IF batch'[w] = {} THEN "down" ELSE "process"]
  /\ UNCHANGED <<pubVars, pgVars, running>>

(* Seeded fault: writer_inbox is not consulted.                             *)
AcceptedAll(w) == batch[w]

(* _insert_inbox: the events of the batch writer_inbox does not hold yet.   *)
Accepted(w) == batch[w] \ inbox

(* Seeded fault: the rollups are computed over all messages of the batch.   *)
CommitWholeBatch(w) ==
  /\ pc[w] = "process"
  /\ Accepted(w) \cap Poison = {}
  /\ inbox' = inbox \cup Accepted(w)
  /\ effect' = [e \in Events |-> IF e \in batch[w] THEN effect[e] + 1
                                 ELSE effect[e]]
  /\ pc' = [pc EXCEPT ![w] = "ack"]
  /\ UNCHANGED <<pubVars, fresh, pel, deliveries, dlq, batch, running, draining,
                 disruptions>>

(* _process up to conn.commit(): the inbox rows and the effects of the      *)
(* accepted events commit together or not at all.                           *)
Commit(w) ==
  /\ pc[w] = "process"
  /\ Accepted(w) \cap Poison = {}
  /\ inbox' = inbox \cup Accepted(w)
  /\ effect' = [e \in Events |-> IF e \in Accepted(w) THEN effect[e] + 1
                                 ELSE effect[e]]
  /\ pc' = [pc EXCEPT ![w] = "ack"]
  /\ UNCHANGED <<pubVars, fresh, pel, deliveries, dlq, batch, running, draining,
                 disruptions>>

(* The transaction raises: SQL rejected, deadlock, PostgreSQL away. *)
Fail(w) ==
  /\ pc[w] = "process"
  /\ IF Accepted(w) \cap Poison = {} THEN Disrupt ELSE UNCHANGED disruptions
  /\ pc' = [pc EXCEPT ![w] = "failed"]
  /\ UNCHANGED <<pubVars, fresh, pel, deliveries, pgVars, dlq, batch, running,
                 draining>>

(* XACK and XDEL, stream by stream.  If Redis raises half way the remaining *)
(* entries stay pending and _process takes its exception branch although    *)
(* the transaction has committed.                                           *)
Ack(w, done) ==
  /\ pc[w] = "ack"
  /\ done \subseteq batch[w]
  /\ pel' = pel \ done
  /\ \/ /\ done = batch[w]
        /\ batch' = [batch EXCEPT ![w] = {}]
        /\ pc' = [pc EXCEPT ![w] = AfterBatch(w)]
        /\ UNCHANGED disruptions
     \/ /\ done # batch[w]
        /\ Disrupt
        /\ pc' = [pc EXCEPT ![w] = "failed"]
        /\ UNCHANGED batch
  /\ UNCHANGED <<pubVars, fresh, deliveries, pgVars, dlq, running, draining>>

(* Seeded fault: the delivery counter is not compared.                      *)
(* _dead_letter_exhausted selects by the delivery counter of the pending    *)
(* entry, whichever consumer owns it by now.                                *)
Exhausted(w) == {e \in batch[w] \cap pel : deliveries[e] >= MaxRetries}

(* Seeded fault: the exception branch only drops the batch.                 *)
DeadLetterNever(w) ==
  /\ pc[w] = "failed"
  /\ batch' = [batch EXCEPT ![w] = {}]
  /\ pc' = [pc EXCEPT ![w] = AfterBatch(w)]
  /\ UNCHANGED <<pubVars, fresh, pel, dlq, deliveries, pgVars, running, draining,
                 disruptions>>

(* The exception branch of _process.  An entry whose counter cannot be read *)
(* or whose copy fails is left pending; a copied one may stay pending too.  *)
DeadLetter(w) ==
  /\ pc[w] = "failed"
  /\ \E moved \in SUBSET Exhausted(w), acked \in SUBSET Exhausted(w) :
       /\ \/ moved = Exhausted(w) /\ acked = Exhausted(w) /\ UNCHANGED disruptions
          \/ acked \subseteq moved /\ acked # Exhausted(w) /\ Disrupt
       /\ dlq' = dlq \cup moved
       /\ pel' = pel \ acked
  /\ batch' = [batch EXCEPT ![w] = {}]
  /\ pc' = [pc EXCEPT ![w] = AfterBatch(w)]
  /\ UNCHANGED <<pubVars, fresh, deliveries, pgVars, running, draining>>

(* SIGTERM or SIGINT. *)
Stop(w) ==
  /\ pc[w] # "down"
  /\ running[w]
  /\ Disrupt
  /\ running' = [running EXCEPT ![w] = FALSE]
  /\ UNCHANGED <<pubVars, fresh, pel, deliveries, pgVars, dlq, pc, batch, draining>>

(* The process dies; what it held in memory is gone. *)
Crash(w) ==
  /\ pc[w] # "down"
  /\ Disrupt
  /\ pc' = [pc EXCEPT ![w] = "down"]
  /\ batch' = [batch EXCEPT ![w] = {}]
  /\ UNCHANGED <<pubVars, fresh, pel, deliveries, pgVars, dlq, running, draining>>

(* The container is started again, under a new consumer name. *)
Restart(w) ==
  /\ pc[w] = "down"
  /\ pc' = [pc EXCEPT ![w] = "idle"]
  /\ running' = [running EXCEPT ![w] = TRUE]
  /\ draining' = [draining EXCEPT ![w] = FALSE]
  /\ UNCHANGED <<pubVars, fresh, pel, deliveries, pgVars, dlq, batch, disruptions>>

Next ==
  \/ \E e \in Events : Publish(e) \/ PublishFails(e)
  \/ \E w \in Writers :
       \/ \E S \in SUBSET Events : Reclaim(w, S) \/ Read(w, S) \/ FinalRead(w, S)
       \/ \E S \in SUBSET Events : Ack(w, S)
       \/ EndCollect(w) \/ Commit(w) \/ Fail(w) \/ DeadLetter(w)
       \/ Stop(w) \/ Crash(w) \/ Restart(w)

Spec == Init /\ [][Next]_vars

-----------------------------------------------------------------------------
(* Fairness.  A live writer keeps executing its loop; Docker restarts a     *)
(* stopped container; XREADGROUP serves the oldest entry first and an entry *)
(* nobody re-delivers is idle after five seconds, so XAUTOCLAIM, scanning   *)
(* from 0-0, cannot pass it over for ever (strong fairness per event).      *)
Fairness ==
  /\ \A w \in Writers :
       /\ WF_vars(\E S \in SUBSET Events : Reclaim(w, S))
       /\ WF_vars(\E S \in SUBSET Events : FinalRead(w, S))
       /\ WF_vars(EndCollect(w))
       /\ WF_vars(Commit(w) \/ Fail(w))
       /\ WF_vars(Ack(w, batch[w]))
       /\ WF_vars(DeadLetter(w))
       /\ WF_vars(Restart(w))
  /\ \A w \in Writers, e \in Events :
       /\ SF_vars(\E S \in SUBSET Events : e \in S /\ Read(w, S))
       /\ SF_vars(\E S \in SUBSET Events : e \in S /\ Reclaim(w, S))

FairSpec == Spec /\ Fairness

-----------------------------------------------------------------------------
(* Properties.                                                              *)

(* An event Redis accepted is never forgotten: whatever crashes, it is      *)
(* still in the stream, still pending, committed, or dead-lettered.         *)
(* XACK/XDEL run only after the commit (writer.py _process).                *)
NoEventLost == published \subseteq fresh \cup pel \cup inbox \cup dlq

(* The effects of an event and its inbox row commit together, so the        *)
(* additive counters see an event exactly once although it may be delivered *)
(* to several writers and redelivered after a crash between COMMIT and XACK *)
(* (store/pg.py, comment on writer_inbox).                                  *)
ExactlyOnceEffect ==
  \A e \in Events : effect[e] = IF e \in inbox THEN 1 ELSE 0

(* A decodable event is dead-lettered only after WRITER_MAX_RETRIES         *)
(* deliveries (writer.py _dead_letter_exhausted).                           *)
DeadLetteredOnlyWhenExhausted ==
  \A e \in dlq \ Invalid : deliveries[e] = MaxRetries

(* The strengthening the proofs need: everything in Redis and in the        *)
(* writers' memory was published, and a writer acknowledges only what the   *)
(* inbox already holds.                                                     *)
Provenance ==
  /\ fresh \cup pel \cup inbox \cup dlq \subseteq published
  /\ \A w \in Writers : batch[w] \subseteq published

AckAfterCommit == \A w \in Writers : pc[w] = "ack" => batch[w] \subseteq inbox

IInv ==
  /\ TypeOK
  /\ Provenance
  /\ AckAfterCommit
  /\ NoEventLost
  /\ ExactlyOnceEffect
  /\ DeadLetteredOnlyWhenExhausted

(* The pipeline implements the ledger: every step is a submission, an       *)
(* atomic count of uncounted events, a parking, or invisible; and every     *)
(* event settles.                                                           *)
Ledger == INSTANCE AbstractLedger WITH submitted <- published, parked <- dlq

ImplementsLedger == Ledger!LedgerSafe

EventsSettle == Ledger!Settles

(* publish_event "returns its event_id when Redis accepted it" (its         *)
(* docstring), so a caller that gets None may write PostgreSQL itself       *)
(* without the event being counted a second time by a writer.               *)
=============================================================================
