------------------------------ MODULE AdminJobs ------------------------------
(* A background job of the admin interface (admin/admin_routes.py): the      *)
(* import of SSO cookies, the import of JSON files and the export.  A thread *)
(* of one worker does the work and keeps the job's record in its memory and, *)
(* for the pollers of other workers, in Redis; the two kinds of jobs read    *)
(* these copies in opposite order.                                           *)
(* Messages, percentages and times are left out.  Cookies are converted      *)
(* beside each other, so they finish in any order.                           *)
EXTENDS Naturals, Sequences, FiniteSets, SequencesExt

CONSTANTS
  Items,      \* numbers: the cookies or files of the job
  Owner,      \* the account each of them belongs to
  MaxEvents,  \* bound: crashes, Redis calls that fail, records that lapse
  Nobody, Absent

VARIABLES
  kind,       \* "sso", "json", "export"
  pc,         \* where its thread is; "dead" with its worker
  result,     \* what became of each item
  finished,   \* pending_entries, payloads: items that can be imported, in order
  named,      \* account_id of each result
  stored,     \* accounts the job has written
  here,       \* _sso_jobs_local, _io_jobs_local of the thread's worker
  there,      \* the record in Redis
  events,
  disturbed   \* history: what has failed

jvars == <<kind, pc, result, finished, named, stored, here, there, events, disturbed>>

Final(r) == r # Absent /\ r.status \in {"done", "partial", "error"}
Count(what) == Cardinality({i \in Items : result[i] = what})

Queued == [status |-> "queued", done |-> 0, success |-> 0, fail |-> 0,
           results |-> [i \in Items |-> "waiting"], named |-> [i \in Items |-> Nobody], bytes |-> FALSE]

Event(what) ==
  events < MaxEvents /\ events' = events + 1 /\ disturbed' = disturbed \cup {what}
Calm == UNCHANGED <<events, disturbed>>

\* What _sso_job_get and _io_job_get find in the thread's worker, elsewhere.
AtHome == IF kind = "sso" THEN (IF there # Absent THEN there ELSE here)
                          ELSE (IF here # Absent THEN here ELSE there)
Views == {AtHome, there}

\* _sso_job_put and _io_job_put: the bytes of an export stay in the process,
\* and a Redis that fails goes unnoticed.
Put(r) ==
  /\ here' = r
  /\ \/ there' = [r EXCEPT !.bytes = FALSE] /\ Calm
     \/ Event("redis") /\ UNCHANGED there

\* _sso_job_patch and _io_job_patch change the record they read first.
Patch(fields) ==
  Put([f \in DOMAIN AtHome |-> IF f \in DOMAIN fields THEN fields[f] ELSE AtHome[f]])
Unpublished == UNCHANGED <<here, there>> /\ Calm
-----------------------------------------------------------------------------
Init ==
  /\ kind \in {"sso", "json", "export"} /\ pc = "none"
  /\ result = Queued.results /\ named = Queued.named /\ finished = <<>> /\ stored = {}
  /\ here = Absent /\ there = Absent /\ events = 0 /\ disturbed = {}

\* The POST handler stores the record and starts the thread.
Submit ==
  /\ pc = "none" /\ pc' = "queued" /\ Put(Queued)
  /\ UNCHANGED <<kind, result, finished, named, stored>>

Begin ==
  /\ pc = "queued" /\ pc' = "working"
  /\ Patch([status |-> "running", done |-> 0, success |-> 0, fail |-> 0])
  /\ UNCHANGED <<kind, result, finished, named, stored>>

\* _convert_one and the loop over as_completed: progress is not published
\* for every cookie, but for the last one.
Convert(i) ==
  /\ kind = "sso" /\ pc = "working" /\ result[i] = "waiting"
  /\ \E good \in BOOLEAN :
       /\ result' = [result EXCEPT ![i] = IF good THEN "converted" ELSE "failed"]
       /\ finished' = IF good THEN Append(finished, i) ELSE finished
  /\ \/ Patch([done |-> Cardinality(Items) - Count("waiting") + 1, results |-> result',
               fail |-> Cardinality({j \in Items : result'[j] = "failed"})])
     \/ Count("waiting") > 1 /\ Unpublished
  /\ UNCHANGED <<kind, pc, named, stored>>

\* Files are parsed in their order.
Parse(i) ==
  /\ kind = "json" /\ pc = "working" /\ result[i] = "waiting"
  /\ \A j \in Items : j < i => result[j] # "waiting"
  /\ \E good \in BOOLEAN :
       /\ result' = [result EXCEPT ![i] = IF good THEN "converted" ELSE "failed"]
       /\ finished' = IF good THEN Append(finished, i) ELSE finished
  /\ Patch([done |-> i, success |-> Len(finished'), results |-> result',
            fail |-> Cardinality({j \in Items : result'[j] = "failed"})])
  /\ UNCHANGED <<kind, pc, named, stored>>

StartImport ==
  /\ kind # "export" /\ pc = "working" /\ Count("waiting") = 0
  /\ IF finished = <<>>
     THEN pc' = (IF kind = "sso" THEN "ending" ELSE "failing") /\ Unpublished
     ELSE pc' = "importing" /\ Patch([status |-> "running", results |-> result])
  /\ UNCHANGED <<kind, result, finished, named, stored>>

\* The accounts of the entries, each once, in the order of their first entry.
Distinct(s) ==
  LET front[i \in 0 .. Len(s)] ==
        IF i = 0 THEN <<>>
        ELSE IF Contains(front[i - 1], s[i]) THEN front[i - 1] ELSE Append(front[i - 1], s[i])
  IN front[Len(s)]

\* The results are in the order of the cookies, the accounts in the order of
\* conversion; they are paired one by one.
Paired(accounts) ==
  LET ahead(i) == Cardinality({j \in Items : j <= i /\ result[j] = "converted"})
  IN [i \in Items |-> IF result[i] = "converted" /\ ahead(i) <= Len(accounts)
                      THEN accounts[ahead(i)] ELSE Nobody]

\* Seeded fault: cookies count as imported whatever the write has answered.
ImportAll(usable) ==
  /\ pc = "importing"
  /\ LET owners == {Owner[finished[i]] : i \in usable}
     IN /\ stored' = owners
        /\ result' = [i \in Items |-> IF result[i] = "converted" THEN "ok" ELSE result[i]]
        /\ UNCHANGED named
  /\ pc' = IF usable = {} /\ kind = "json" THEN "failing" ELSE "ending"
  /\ Unpublished
  /\ UNCHANGED <<kind, finished>>

\* import_auth_payloads_bulk: one write for all entries that hold a token (a
\* converted cookie does, a JSON file need not).
Import(usable) ==
  /\ pc = "importing" /\ (kind = "sso" => usable \in {{}, DOMAIN finished})
  /\ LET owners == {Owner[finished[i]] : i \in usable}
         fate == IF usable = {} THEN "failed" ELSE "ok"
         accounts == Distinct([i \in DOMAIN finished |-> Owner[finished[i]]])
     IN /\ stored' = owners
        /\ result' = [i \in Items |-> IF result[i] # "converted" THEN result[i]
                                      ELSE IF kind = "sso" THEN fate
                                      ELSE IF \E n \in usable : finished[n] = i THEN "ok" ELSE "failed"]
        /\ named' = IF kind = "sso" /\ usable # {} THEN Paired(accounts) ELSE named
  /\ pc' = IF usable = {} /\ kind = "json" THEN "failing" ELSE "ending"
  /\ Unpublished
  /\ UNCHANGED <<kind, finished>>

\* The storage or the pool raises an exception before anything is written.
Raise ==
  /\ pc \in {"working", "importing"} /\ Event("error")
  /\ pc' = "failing"
  /\ UNCHANGED <<kind, result, finished, named, stored, here, there>>

\* export_auth_payload: none of the selected accounts may be left.
Export ==
  /\ kind = "export" /\ pc = "working"
  /\ pc' \in {"ending", "failing"}
  /\ IF pc' = "ending" THEN Patch([status |-> "running", done |-> Cardinality(Items)]) ELSE Unpublished
  /\ UNCHANGED <<kind, result, finished, named, stored>>

\* A JSON job counts the files it could not parse, not those without a token.
Unparsed == Cardinality(Items) - Len(finished)
Outcome ==
  IF kind = "sso" THEN [status |-> "done", done |-> Cardinality(Items), success |-> Count("ok"),
                        fail |-> Count("failed"), results |-> result, named |-> named]
  ELSE IF kind = "json" THEN [status |-> IF Unparsed = 0 THEN "done" ELSE "partial",
                              success |-> Cardinality(stored), fail |-> Unparsed]
  ELSE [status |-> "done", success |-> Cardinality(Items), bytes |-> TRUE]

Finish ==
  /\ pc = "ending" /\ pc' = "over"
  /\ Patch(Outcome)
  /\ UNCHANGED <<kind, result, finished, named, stored>>

\* Seeded fault: an error ends the thread and not the job.
FailQuiet ==
  /\ pc = "failing" /\ pc' = "over" /\ Unpublished
  /\ UNCHANGED <<kind, result, finished, named, stored>>

Fail ==
  /\ pc = "failing" /\ pc' = "over"
  /\ Patch(IF kind = "json" /\ disturbed \cap {"error"} = {}
           THEN [status |-> "error", success |-> 0, fail |-> Cardinality(Items)] ELSE [status |-> "error"])
  /\ UNCHANGED <<kind, result, finished, named, stored>>
-----------------------------------------------------------------------------
\* The worker dies; its threads are daemons and its memory goes with it.
Crash ==
  /\ pc \notin {"none", "dead"} /\ Event("crash")
  /\ pc' = "dead" /\ here' = Absent
  /\ UNCHANGED <<kind, result, finished, named, stored, there>>

\* An hour after the last put.
Lapse ==
  /\ there # Absent /\ Event("lapse") /\ there' = Absent
  /\ UNCHANGED <<kind, pc, result, finished, named, stored, here>>

Thread ==
  \/ Begin \/ StartImport \/ Export \/ Finish \/ Fail
  \/ \E i \in Items : Convert(i) \/ Parse(i)
  \/ \E usable \in SUBSET DOMAIN finished : Import(usable)

Next == Submit \/ Thread \/ Raise \/ Crash \/ Lapse
Spec == Init /\ [][Next]_jvars /\ WF_jvars(Thread)
-----------------------------------------------------------------------------
InOrder == \A i, j \in DOMAIN finished : i < j => finished[i] < finished[j]
OwnersDiffer == \A i, j \in Items : Owner[i] = Owner[j] => i = j

\* What a poller reads of a job that is over is what has happened, in every
\* copy of its record and whatever failed on the way: of a cookie job each
\* result that is "ok" is an account in the pool, the counts agree with the
\* results, and an error leaves the pool as it was.  (The account a result
\* names is the cookie's own only if the cookies were converted in their
\* order and no two belong to one account.)
OverTellsTruth ==
  \A r \in {here, there} : Final(r) =>
    /\ r.status = "error" => stored = {}
    /\ kind = "sso" /\ r.status = "done" =>
         /\ \A i \in Items : r.results[i] = "ok" <=> (i \in ToSet(finished) /\ Owner[i] \in stored)
         /\ r.success + r.fail = Cardinality(Items)
         /\ InOrder /\ OwnersDiffer => \A i \in Items : r.results[i] = "ok" => r.named[i] = Owner[i]
    /\ kind = "json" /\ r.status # "error" => r.success = Cardinality(stored)

\* Every poller of every worker sees each job end, also one whose thread met
\* an error, and sees no other end later, unless the worker has died, a
\* write to Redis was lost or the record has lapsed.
Undisturbed == disturbed \subseteq {"error"}
JobEnds ==
  pc = "queued" ~> (~Undisturbed \/ [](~Undisturbed \/ \A r \in Views : Final(r)))
=============================================================================
