----------------------------- MODULE HealthSweep -----------------------------
(* The background probing of accounts (pool/model_health.py): cycle after    *)
(* cycle a batch is chosen by priority among the accounts the current sweep  *)
(* has not covered and the covered ones that need to recover; who answers is *)
(* covered, who is still limited is held back, and the sweep starts again    *)
(* when nobody is left.  A probe is the only way out of a cooldown.          *)
(* Time is the order of stamps (order), and whether an account was stamped   *)
(* less than the re-check age ago (fresh).                                   *)
EXTENDS Naturals, Sequences
Seqs == INSTANCE SequencesExt

CONSTANTS
  Accounts,   \* numbers: the order of the keys
  Batch,      \* MODEL_PROBE_BATCH
  KickAt,     \* failed probes in a row that cool an account
  MaxEvents   \* bound: interventions from outside the sweep

Running == {"manual", "background"}
Outcomes == {"ok", "limited", "broken", "blocked"}

VARIABLES
  auto,       \* model_health_auto_disable: failed probes change the status
  live,       \* accounts with a valid token
  rows,       \* what their rows say
  order,      \* accounts once stamped, the longest ago first
  fresh,      \* accounts stamped less than the re-check age ago
  covered,    \* the Redis set of the sweep
  started,    \* the Redis key of the sweep exists
  pc,         \* "idle", probing, or "again": on to the next cycle at once
  batch,      \* accounts the cycle still has to probe
  tally,      \* accounts it has probed: TRUE to be covered, FALSE held back
  attempted,  \* history: accounts probed since the sweep began or they came
  rejoined,   \* history: accounts imported again since the sweep began
  events

svars == <<auto, live, rows, order, fresh, covered, started, pc, batch, tally,
           attempted, rejoined, events>>

Untried == [cool |-> FALSE, off |-> FALSE, streak |-> 0, last |-> "never", ever |-> FALSE]
RowType == [cool : BOOLEAN, off : BOOLEAN, streak : 0 .. KickAt,
            last : {"never", "ok", "bad"}, ever : BOOLEAN]
-----------------------------------------------------------------------------
(* _background_probe_priority and _pick_priority_reserved_batch              *)
Band(a) ==
  LET r == rows[a]
  IN IF r.off THEN 9 ELSE IF r.cool THEN 0 ELSE IF r.last = "never" THEN 1
     ELSE IF r.streak > 0 \/ r.last = "bad" THEN 2 ELSE 3

Position(a) ==
  IF Band(a) \in {1, 9} THEN a
  ELSE IF \E i \in DOMAIN order : order[i] = a THEN CHOOSE i \in DOMAIN order : order[i] = a ELSE 0

Before(a, b) ==
  \/ Band(a) < Band(b)
  \/ Band(a) = Band(b) /\ Position(a) < Position(b)
  \/ Band(a) = Band(b) /\ Position(a) = Position(b) /\ a < b

Sorted(S) == Seqs!SetToSortSeq(S, Before)

Least(m, n) == IF m < n THEN m ELSE n
First(s, n) == SubSeq(s, 1, Least(n, Len(s)))
After(s, n) == SubSeq(s, Least(n, Len(s)) + 1, Len(s))

\* Six tenths of a batch are for the accounts that have to recover.
Reserved == IF Batch = 1 THEN 1 ELSE Least(Batch, (6 * Batch + 5) \div 10)

Pick(S) ==
  LET recovery == Sorted({a \in S : Band(a) \in 0 .. 2})
      rest == Sorted({a \in S : Band(a) \notin 0 .. 2})
      share == First(recovery, Reserved)
      fill == share \o First(rest, Batch - Len(share))
  IN fill \o First(After(recovery, Reserved), Batch - Len(fill))

\* Seeded fault: who is covered waits for the next sweep.
ReAdmittedNever(seen, recent) == (seen \cap recent) \ recent

\* Covered accounts that are looked at again within the same sweep.
ReAdmitted(seen, recent) == {a \in live \cap seen : Band(a) \in {0, 2} /\ a \notin recent}
-----------------------------------------------------------------------------
\* What happens from outside the sweep is bounded.
Event == events < MaxEvents /\ events' = events + 1

Init ==
  /\ auto \in BOOLEAN /\ live = Accounts
  /\ rows = [a \in Accounts |-> Untried]
  /\ order = <<>> /\ fresh = {} /\ covered = {} /\ started = FALSE
  /\ pc = "idle" /\ batch = <<>> /\ tally = <<>>
  /\ attempted = {} /\ rejoined = {} /\ events = 0

\* _sweep_start_new
NewSweep ==
  /\ covered' = {} /\ started' = TRUE /\ attempted' = {} /\ rejoined' = {}
OldSweep == UNCHANGED <<covered, started, attempted, rejoined>>

\* run_once(background): after an interval, or right after a manual run.
Start ==
  /\ pc \in {"idle", "again"} /\ live # {}
  /\ fresh' = IF pc = "again" THEN fresh ELSE {}
  /\ LET seen == IF started THEN covered ELSE {}
         left == (live \ seen) \cup ReAdmitted(seen, fresh')
     IN /\ IF ~started \/ left = {} THEN NewSweep ELSE OldSweep
        /\ batch' = Pick(IF left = {} THEN live ELSE left)
  /\ pc' = "background" /\ tally' = <<>>
  /\ UNCHANGED <<auto, live, rows, order, events>>

\* run_once(manual_all): every account from the first on, no part of a sweep.
StartManual ==
  /\ Event /\ pc = "idle" /\ live # {} /\ fresh' \in {{}, fresh}
  /\ pc' = "manual" /\ tally' = <<>>
  /\ batch' = Seqs!SetToSortSeq(live, LAMBDA a, b : a < b)
  /\ UNCHANGED <<auto, live, rows, order, covered, started, attempted, rejoined>>

Stamped(a) == Append(SelectSeq(order, LAMBDA b : b # a), a)

\* record_model_probe_outcome and handle_upstream_error_for_model
Verdict(r, what) ==
  LET n == Least(r.streak + 1, KickAt)
      bad == [r EXCEPT !.last = "bad"]
  IN IF what = "ok" THEN [r EXCEPT !.cool = FALSE, !.streak = 0, !.last = "ok", !.ever = TRUE]
     ELSE IF ~auto THEN bad
     ELSE
       CASE what = "limited" -> [bad EXCEPT !.cool = TRUE, !.off = FALSE, !.streak = n]
       [] what = "broken" -> [bad EXCEPT !.cool = @ \/ n = KickAt, !.streak = n]
       [] OTHER -> [bad EXCEPT !.cool = TRUE, !.off = TRUE, !.streak = n]

\* _is_recoverable_probe_result: limited, or cooled by this very probe.
Settles(r, what) ==
  what = "ok" \/ (what # "limited" /\ ~(auto /\ r.streak + 1 >= KickAt))

\* probe_model_for_creds.  Probes run beside each other, each on its own
\* account, and are started in the order of the batch, so they are taken one
\* by one.  A failure leaves the stamp of an earlier success.
Probe(a, what) ==
  /\ pc \in Running /\ batch # <<>> /\ a = batch[1]
  /\ rows' = [rows EXCEPT ![a] = Verdict(@, what)]
  /\ order' = IF what = "ok" \/ rows'[a].cool \/ ~rows[a].ever THEN Stamped(a) ELSE order
  /\ fresh' = IF what = "ok" \/ ~rows[a].ever THEN fresh \cup {a} ELSE fresh
  /\ batch' = Tail(batch)
  /\ tally' = [b \in DOMAIN tally \cup {a} |-> IF b = a THEN Settles(rows[a], what) ELSE tally[b]]
  /\ attempted' = attempted \cup {a}
  /\ UNCHANGED <<auto, live, covered, started, pc, rejoined, events>>

\* _sweep_mark_covered: the key may have lapsed meanwhile.
Mark(ids) ==
  IF ids = {} THEN OldSweep
  ELSE IF started THEN covered' = covered \cup ids /\ UNCHANGED <<started, attempted, rejoined>>
  ELSE /\ covered' = ids /\ started' = TRUE
       /\ attempted' = DOMAIN tally /\ rejoined' = {}

\* Seeded fault: what the budget has cut off is covered too.
FinishWholeBatch ==
  /\ pc \in Running /\ (batch = <<>> \/ DOMAIN tally # {})
  /\ IF pc = "manual" THEN OldSweep
     ELSE Mark({a \in DOMAIN tally : tally[a]} \cup {batch[i] : i \in DOMAIN batch})
  /\ pc' = IF pc = "manual" THEN "again" ELSE "idle"
  /\ batch' = <<>> /\ tally' = <<>>
  /\ UNCHANGED <<auto, live, rows, order, fresh, events>>

\* The cycle ends with its batch or with its budget; at least the account
\* that was submitted first has been probed by then.
Finish ==
  /\ pc \in Running /\ (batch = <<>> \/ DOMAIN tally # {})
  /\ IF pc = "manual" THEN OldSweep ELSE Mark({a \in DOMAIN tally : tally[a]})
  /\ pc' = IF pc = "manual" THEN "again" ELSE "idle"
  /\ batch' = <<>> /\ tally' = <<>>
  /\ UNCHANGED <<auto, live, rows, order, fresh, events>>
-----------------------------------------------------------------------------
(* From outside: the worker dies in a cycle, the sweep's keys lapse, traffic *)
(* cools an account, the administrator clears or switches one, an account is *)
(* removed or imported.                                                      *)
Crash ==
  /\ Event /\ pc \in Running /\ pc' = "idle" /\ batch' = <<>> /\ tally' = <<>>
  /\ OldSweep /\ UNCHANGED <<auto, live, rows, order, fresh>>

Lapse ==
  /\ Event /\ started
  /\ started' = FALSE /\ covered' = {} /\ attempted' = {} /\ rejoined' = {}
  /\ UNCHANGED <<auto, live, rows, order, fresh, pc, batch, tally>>

Touch(a) ==
  /\ Event /\ a \in live
  /\ \/ rows' = [rows EXCEPT ![a].cool = TRUE] /\ order' = Stamped(a)
     \/ rows' = [rows EXCEPT ![a].cool = FALSE, ![a].streak = 0] /\ UNCHANGED order
     \/ rows' = [rows EXCEPT ![a].off = ~@] /\ UNCHANGED order
  /\ OldSweep /\ UNCHANGED <<auto, live, fresh, pc, batch, tally>>

Remove(a) ==
  /\ Event /\ a \in live /\ live' = live \ {a}
  /\ rows' = [rows EXCEPT ![a] = Untried]
  /\ order' = SelectSeq(order, LAMBDA b : b # a) /\ fresh' = fresh \ {a}
  /\ attempted' = attempted \ {a} /\ rejoined' = rejoined \ {a}
  /\ UNCHANGED <<auto, covered, started, pc, batch, tally>>

Import(a) ==
  /\ Event /\ a \notin live /\ live' = live \cup {a} /\ rejoined' = rejoined \cup {a}
  /\ UNCHANGED <<auto, rows, order, fresh, covered, started, pc, batch, tally, attempted>>

Next ==
  \/ Start \/ StartManual \/ Finish \/ Crash \/ Lapse
  \/ \E a \in Accounts : Touch(a) \/ Remove(a) \/ Import(a) \/ \E what \in Outcomes : Probe(a, what)

\* The thread goes on: a cycle has at least its first account probed, then
\* ends, and another follows.
Work == Start \/ Finish \/ \E a \in Accounts, what \in Outcomes : Probe(a, what)
Fairness == WF_svars(Work)
Spec == Init /\ [][Next]_svars /\ Fairness
-----------------------------------------------------------------------------
\* A sweep starts again only when every live account was probed in it, however
\* cycles were cut short, workers died and accounts were held back; only an
\* account that was removed and imported again is passed over, because its
\* key stays in the covered set.
NoneSkipped ==
  [][covered # {} /\ covered' = {} /\ started /\ started' =>
       live \subseteq attempted \cup rejoined]_svars

\* A cooldown ends with a probe and nothing else, so an account that cools is
\* probed again: neither the covered mark, nor the healthy accounts' share,
\* nor the budget, nor other cooling accounts keep it out for ever.
Cooling(a) == a \in live /\ rows[a].cool /\ ~rows[a].off
CoolingIsProbed ==
  \A a \in Accounts : Cooling(a) ~> (a \in DOMAIN tally \/ ~Cooling(a))
=============================================================================
