--------------------------- MODULE AbstractLedger ---------------------------
(***************************************************************************)
(* What the asynchronous write path promises to the rest of the gateway:   *)
(* an event that Redis accepted takes effect in PostgreSQL at most once,   *)
(* and it is never forgotten: sooner or later it has taken effect or it is *)
(* parked where an operator can find it.                                   *)
(*                                                                         *)
(* WriterPipeline implements this specification with Redis Streams, a      *)
(* consumer group, the writer_inbox table and a dead-letter stream.        *)
(***************************************************************************)
EXTENDS Naturals

CONSTANT Events           \* the events gateway workers may submit

VARIABLES submitted,      \* events accepted by the pipeline
          effect,         \* how often each event took effect
          parked          \* events set aside as undeliverable

ledgerVars == <<submitted, effect, parked>>

LedgerInit ==
  /\ submitted = {}
  /\ effect = [e \in Events |-> 0]
  /\ parked = {}

Submit(e) ==
  /\ e \notin submitted
  /\ submitted' = submitted \cup {e}
  /\ UNCHANGED <<effect, parked>>

(* A set of events takes effect in one atomic step. *)
Count(S) ==
  /\ S # {}
  /\ S \subseteq submitted
  /\ \A e \in S : effect[e] = 0
  /\ effect' = [e \in Events |-> IF e \in S THEN effect[e] + 1 ELSE effect[e]]
  /\ UNCHANGED <<submitted, parked>>

Park(S) ==
  /\ S # {}
  /\ S \subseteq submitted
  /\ parked' = parked \cup S
  /\ UNCHANGED <<submitted, effect>>

LedgerNext ==
  \/ \E e \in Events : Submit(e)
  \/ \E S \in SUBSET Events : Count(S) \/ Park(S)

(* Every submitted event is eventually counted or parked. *)
Settles ==
  \A e \in Events : (e \in submitted) ~> (effect[e] = 1 \/ e \in parked)

LedgerSafe == LedgerInit /\ [][LedgerNext]_ledgerVars

LedgerSpec == LedgerSafe /\ Settles
=============================================================================
