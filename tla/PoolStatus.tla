----------------------------- MODULE PoolStatus -----------------------------
(* Why an account is out of rotation (pool/account_pool.py, pool/quota.py):  *)
(* its row says whether it is enabled, whether its quota is used up, who     *)
(* said so, and whether it cools.  Quota queries, requests, probes, renewals *)
(* and the start of the process read the row, decide, and patch some of its  *)
(* fields later; the administrator patches at once.  Each patch is one       *)
(* statement in PostgreSQL; what asynchronous patches add is in AccountState.*)
EXTENDS Naturals

CONSTANTS
  Procs,       \* queries, requests, probes and renewals under way
  MaxJobs,     \* bound: jobs and actions of the administrator
  MaxEvents    \* bound: changes of the account's credit

VARIABLES
  row,         \* of account_pool
  spent,       \* the provider says that the credit is used up
  job,         \* of each process
  jobs, events,
  marked,      \* history: taken out for its quota since it was last enabled
  slipped      \* history: the quota flag was set between a read and its patch

svars == <<row, spent, job, jobs, events, marked, slipped>>

Fresh == [enabled |-> TRUE, quota |-> FALSE, qsource |-> "", dsource |-> "", cool |-> FALSE]
Idle == [kind |-> "none", pc |-> "idle", seen |-> Fresh, found |-> "", alone |-> TRUE]
-----------------------------------------------------------------------------
(* The patches.  Sources are "billing" (quota queries and upstream errors),  *)
(* "health" (probes) and "renew" (a renewal that gave the account up).       *)
Either(a, b) == IF a # "" THEN a ELSE b

\* disable_for_quota, and the snapshot that follows it
Disabled(r, who) == [r EXCEPT !.enabled = FALSE, !.quota = TRUE, !.qsource = who, !.dsource = who]
Exhausted(r) == [r EXCEPT !.enabled = FALSE, !.quota = TRUE, !.qsource = "billing"]

\* Seeded fault: the switch is set and the mark stays.
RecoveredHalf(r) == [r EXCEPT !.enabled = TRUE, !.dsource = ""]

\* save_quota_snapshot of a healthy answer, reenable_for_quota
Recovered(r) == [r EXCEPT !.enabled = TRUE, !.quota = FALSE, !.qsource = "", !.dsource = ""]
WasQuota(r) == r.quota \/ Either(r.qsource, r.dsource) \in {"billing", "health"}

\* maybe_disable_from_quota_result, after the snapshot was saved
StillOut(r) == (r.quota \/ ~r.enabled) /\ (r.quota \/ Either(r.qsource, r.dsource) # "renew")

\* apply_free_usage_cooldown: the quota flag goes, quota_source stays.
FreeUsage(r) == [r EXCEPT !.enabled = TRUE, !.quota = FALSE, !.dsource = "", !.cool = TRUE]
Cooled(r) == [r EXCEPT !.cool = TRUE]

\* kick_from_pool without a time
Kicked(r) == [r EXCEPT !.enabled = FALSE]

\* set_account_enabled
Switched(r, on) == IF on THEN [Recovered(r) EXCEPT !.cool = FALSE] ELSE Kicked(r)

\* Seeded fault: a renewal enables every account.
RenewedAlways(r, seen) == [r EXCEPT !.enabled = TRUE, !.dsource = IF seen.dsource = "renew" THEN "" ELSE @]

\* clear_account_expired
Renewed(r, seen) ==
  IF seen.quota THEN r
  ELSE [r EXCEPT !.enabled = TRUE, !.dsource = IF seen.dsource = "renew" THEN "" ELSE @]

\* remove_from_pool_after_renew_failure: the account lives on under another id.
Removed(r) == [r EXCEPT !.enabled = FALSE, !.quota = FALSE, !.dsource = "renew", !.cool = FALSE]

\* record_model_probe_outcome of a success, reenable_probe_kick_accounts
Healthy(seen) == ~seen.enabled /\ ~seen.quota /\ Either(seen.dsource, seen.qsource) = "health"
Probed(r, seen) ==
  IF Healthy(seen) /\ seen.qsource \in {"", "health"}
  THEN [r EXCEPT !.cool = FALSE, !.enabled = TRUE, !.dsource = ""]
  ELSE [r EXCEPT !.cool = FALSE]
Restarted(r, seen) == IF Healthy(seen) THEN [r EXCEPT !.enabled = TRUE, !.dsource = ""] ELSE r
-----------------------------------------------------------------------------
Init ==
  /\ row = Fresh /\ spent = FALSE /\ job = [p \in Procs |-> Idle]
  /\ jobs = 0 /\ events = 0 /\ marked = FALSE /\ slipped = FALSE

\* Process p goes on as j, and the row becomes r.
Set(p, j, r) ==
  /\ row' = r
  /\ job' = [q \in Procs |-> IF q = p THEN j ELSE [job[q] EXCEPT !.alone = @ /\ r = row]]
  /\ marked' = IF r.quota THEN TRUE ELSE IF r.enabled THEN FALSE ELSE marked
At(p, kind, pc) == job[p].kind = kind /\ job[p].pc = pc
Goto(p, pc) == Set(p, [job[p] EXCEPT !.pc = pc], row)
Read(p, pc) == Set(p, [job[p] EXCEPT !.pc = pc, !.seen = row], row)
Write(p, pc, r) == Set(p, IF pc = "idle" THEN Idle ELSE [job[p] EXCEPT !.pc = pc], r)
Same == UNCHANGED <<spent, jobs, events>>
Quiet == Same /\ UNCHANGED slipped
Slips(p) == slipped' = (slipped \/ job[p].seen.quota # row.quota)

\* A request is sent to an account in rotation; the rest goes to any account.
Start(p) ==
  /\ job[p] = Idle /\ jobs < MaxJobs /\ jobs' = jobs + 1
  /\ \E kind \in {"poll", "request", "probe", "renew", "restart"} :
       /\ kind = "request" => row.enabled /\ ~row.cool
       /\ Set(p, [Idle EXCEPT !.kind = kind, !.pc = "begun"], row)
  /\ UNCHANGED <<spent, events, slipped>>

\* fetch_quota_for_creds: an answer that says used up, healthy, or none.
Fetch(p) ==
  /\ At(p, "poll", "begun")
  /\ \/ spent /\ Set(p, [job[p] EXCEPT !.pc = "disable", !.found = "spent"], row)
     \/ ~spent /\ Set(p, [job[p] EXCEPT !.pc = "look", !.found = "healthy"], row)
     \/ Write(p, "idle", row)
  /\ Quiet
Disable(p) == At(p, "poll", "disable") /\ Write(p, "snapshot", Disabled(row, "billing")) /\ Quiet
Snapshot(p) == At(p, "poll", "snapshot") /\ Write(p, "idle", Exhausted(row)) /\ Quiet
Look(p) == At(p, "poll", "look") /\ Read(p, "save") /\ Quiet
Save(p) ==
  /\ At(p, "poll", "save")
  /\ Write(p, "again", IF WasQuota(job[p].seen) THEN Recovered(row) ELSE row) /\ Quiet
LookAgain(p) == At(p, "poll", "again") /\ Read(p, "enable") /\ Quiet
Enable(p) ==
  /\ At(p, "poll", "enable")
  /\ Write(p, "idle", IF StillOut(job[p].seen) THEN Recovered(row) ELSE row) /\ Quiet
\* report_failure and handle_upstream_error_for_model.  A credit error takes
\* the account out, is looked at once more as an error of the account (which
\* cools it and takes it out again), and cools it; an error of the free
\* window is applied by both handlers.
Fails(p) ==
  \/ At(p, "request", "begun") /\ spent /\ Write(p, "block", Disabled(row, "billing"))
  \/ At(p, "probe", "begun") /\ spent /\ Goto(p, "block")
  \/ job[p].kind \in {"request", "probe"} /\ job[p].pc = "begun" /\ Write(p, "free", FreeUsage(row))
FreeAgain(p) == job[p].pc = "free" /\ Write(p, "idle", FreeUsage(row))
Block(p) ==
  /\ job[p].pc = "block"
  /\ \/ Write(p, "mark", Cooled(row))
     \/ Goto(p, "cool")
Mark(p) == job[p].pc = "mark" /\ Write(p, "cool", Disabled(row, "health"))
Cool(p) == job[p].pc = "cool" /\ Write(p, "idle", Cooled(row))
Failure(p) == (Fails(p) \/ FreeAgain(p) \/ Block(p) \/ Mark(p) \/ Cool(p)) /\ Quiet

\* A request that is answered leaves the row's status alone.
Answered(p) == At(p, "request", "begun") /\ Write(p, "idle", row) /\ Quiet

\* A successful probe or renewal and the start of a process read the row
\* before they write.
Reads(p) == job[p].kind \in {"probe", "renew", "restart"} /\ job[p].pc = "begun" /\ Read(p, "write") /\ Quiet
Writes(p) ==
  /\ job[p].pc = "write" /\ Same /\ Slips(p)
  /\ \/ job[p].kind = "probe" /\ Write(p, "idle", Probed(row, job[p].seen))
     \/ job[p].kind = "renew" /\ Write(p, "idle", Renewed(row, job[p].seen))
     \/ job[p].kind = "restart" /\ Write(p, "idle", Restarted(row, job[p].seen))

\* A renewal that is refused for good, or that finds the account under
\* another id.
GivesUp(p) ==
  /\ At(p, "renew", "begun") /\ Quiet
  /\ \E r \in {Kicked(row), Removed(row)} : Write(p, "idle", r)

\* The administrator switches the account or ends its cooldown.
Administer ==
  /\ jobs < MaxJobs /\ jobs' = jobs + 1
  /\ \E r \in {Switched(row, TRUE), Switched(row, FALSE), [row EXCEPT !.cool = FALSE]} :
       /\ row' = r
       /\ job' = [q \in Procs |-> [job[q] EXCEPT !.alone = @ /\ r = row]]
       /\ marked' = IF r.quota THEN TRUE ELSE IF r.enabled THEN FALSE ELSE marked
  /\ UNCHANGED <<spent, events, slipped>>

\* The credit is used up, or renewed with the billing period.
Spend ==
  /\ events < MaxEvents /\ events' = events + 1 /\ spent' = ~spent
  /\ UNCHANGED <<row, job, jobs, marked, slipped>>

Next ==
  \/ Administer \/ Spend
  \/ \E p \in Procs :
       \/ Start(p) \/ Fetch(p) \/ Disable(p) \/ Snapshot(p) \/ Look(p) \/ Save(p) \/ LookAgain(p) \/ Enable(p)
       \/ Failure(p) \/ Answered(p) \/ Reads(p) \/ Writes(p) \/ GivesUp(p)
Spec == Init /\ [][Next]_svars
-----------------------------------------------------------------------------
\* An account whose quota is used up is not enabled by whatever else happens
\* to it, unless a renewal, a probe or a restart has read its row before the
\* quota was noticed and writes it now.
QuotaKeepsOut == ~slipped /\ row.quota => ~row.enabled

\* A quota query during which nobody else changes the row leaves it as the
\* provider says: out and marked, or without the mark and, if its quota had
\* taken it out and no renewal has given it up since, in.
PollSettles ==
  [][\A p \in Procs :
       (job[p].kind = "poll" /\ job[p].found # "" /\ job'[p] = Idle /\ job[p].alone) =>
         IF job[p].found = "spent" THEN row'.quota /\ ~row'.enabled
         ELSE ~row'.quota /\ (marked => row'.enabled \/ Either(row'.qsource, row'.dsource) = "renew")]_svars
=============================================================================
