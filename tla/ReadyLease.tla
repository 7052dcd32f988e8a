----------------------------- MODULE ReadyLease -----------------------------
(***************************************************************************)
(* Requests, the accounts they try in turn, and the in-flight leases that  *)
(* are to keep any account from serving too many of them at once.          *)
(* (READY_INDEX_MODE = on: ready_redis.py, _acquire_indexed_one and the    *)
(* lazy chain of account_pool.py, the failover loops of app.py, of which   *)
(* every protocol has its own copies, streamed and not.)                   *)
(*                                                                         *)
(* The leases of an account are one Redis counter with a time to live.     *)
(* Claiming is one Lua script; releasing is a DECR followed by a DEL or an *)
(* EXPIRE in a call of its own, and other processes run in between.        *)
(* A release runs beside the request that started it (a thread), so it is  *)
(* a record of its own in "releases".                                      *)
(*                                                                         *)
(* An operator introduced as a seeded fault is a mutated form of the       *)
(* definition after it; no action uses it.                                 *)
(***************************************************************************)
EXTENDS Integers, FiniteSets

CONSTANTS
  Accounts,
  Requests,
  Streams,         \* the requests answered by an event stream
  MaxInflight,     \* MAX_ACCOUNT_INFLIGHT
  MaxAttempts,     \* MAX_FAILOVER_ATTEMPTS
  MaxDisruptions   \* bound: Redis errors, crashes, leases expiring in use

ASSUME LeaseConstants ==
  /\ Streams \subseteq Requests
  /\ MaxInflight \in Nat \ {0}
  /\ MaxAttempts \in Nat \ {0}
  /\ MaxDisruptions \in Nat

NoAccount == "none"
ASSUME NoAccountIsNone == NoAccount \notin Accounts

VARIABLES
  ready,       \* the ready ZSET
  count,       \* pool:lease_count:<account>; an absent key counts 0
  ttl,         \* whether that key has a time to live
  releases,    \* calls of ready_redis.release under way
  pc,          \* where each request is
  ids,         \* the candidates it listed
  tried,       \* accounts it has looked at: "exclude", "seen"
  attempt,     \* attempts begun: the index in the chain
  using,       \* the account whose upstream serves it
  started,     \* stream_started: the client has got model bytes
  then,        \* what it does when its release has returned
  disruptions

leaseVars   == <<count, ttl>>
requestVars == <<pc, ids, tried, attempt, using, started, then>>
vars == <<ready, leaseVars, releases, requestVars, disruptions>>

PCs == {"list", "pick", "load", "again", "serve", "wait", "ended"}
Nexts == {"list", "pick", "ended"}

(* Why a release is made: only those that answer to a success run beside     *)
(* the request.  A free-usage failure releases twice: report_failure, then   *)
(* apply_free_usage_cooldown.                                                *)
Whys == {"success", "failure", "load"}
Release == [by : Requests, of : Accounts, why : Whys,
            at : {"decr", "del", "expire"}, more : {0, 1}]

TypeOK ==
  /\ ready \subseteq Accounts
  /\ count \in [Accounts -> Int]
  /\ ttl \in [Accounts -> BOOLEAN]
  /\ releases \subseteq Release
  /\ pc \in [Requests -> PCs]
  /\ ids \in [Requests -> SUBSET Accounts]
  /\ tried \in [Requests -> SUBSET Accounts]
  /\ attempt \in [Requests -> 0..MaxAttempts]
  /\ using \in [Requests -> Accounts \cup {NoAccount}]
  /\ started \in [Requests -> BOOLEAN]
  /\ then \in [Requests -> Nexts]
  /\ disruptions \in 0..MaxDisruptions

Init ==
  /\ ready = Accounts
  /\ count = [a \in Accounts |-> 0]
  /\ ttl = [a \in Accounts |-> FALSE]
  /\ releases = {}
  /\ pc = [r \in Requests |-> "list"]
  /\ ids = [r \in Requests |-> {}]
  /\ tried = [r \in Requests |-> {}]
  /\ attempt = [r \in Requests |-> 0]
  /\ using = [r \in Requests |-> NoAccount]
  /\ started = [r \in Requests |-> FALSE]
  /\ then = [r \in Requests |-> "ended"]
  /\ disruptions = 0

Disrupt ==
  /\ disruptions < MaxDisruptions
  /\ disruptions' = disruptions + 1

Users(a) == {r \in Requests : using[r] = a}

-----------------------------------------------------------------------------
(* The lease counter.                                                       *)

Claimable(a) == a \in ready /\ count[a] < MaxInflight

(* Seeded fault: the script has no limit to compare with.                   *)
ClaimUnlimited(a) ==
  /\ a \in ready
  /\ count' = [count EXCEPT ![a] = @ + 1]
  /\ ttl' = [ttl EXCEPT ![a] = TRUE]

(* Seeded fault: the script leaves EXPIRE out.                              *)
ClaimForever(a) ==
  /\ Claimable(a)
  /\ count' = [count EXCEPT ![a] = @ + 1]
  /\ UNCHANGED ttl

(* claim_preferred: ZSCORE, GET, INCR and EXPIRE in one script. *)
ClaimPreferred(a) ==
  /\ Claimable(a)
  /\ count' = [count EXCEPT ![a] = @ + 1]
  /\ ttl' = [ttl EXCEPT ![a] = TRUE]

(* The key is deleted, or its time is up. *)
DropKey(a) ==
  /\ count' = [count EXCEPT ![a] = 0]
  /\ ttl' = [ttl EXCEPT ![a] = FALSE]

(* A release has returned; one that answers to a free-usage failure is       *)
(* followed by a second.                                                     *)
Returned(j) ==
  releases' = (releases \ {j}) \cup
              (IF j.more = 1 THEN {[j EXCEPT !.at = "decr", !.more = 0]} ELSE {})

(* Seeded fault: only a counter of exactly zero is deleted.                 *)
AfterDecrExact(n) == IF n = 0 THEN "del" ELSE "expire"

AfterDecr(n) == IF n <= 0 THEN "del" ELSE "expire"

(* release: the DECR. *)
Decr(j) ==
  /\ j \in releases /\ j.at = "decr"
  /\ count' = [count EXCEPT ![j.of] = @ - 1]
  /\ releases' = (releases \ {j}) \cup
                 {[j EXCEPT !.at = AfterDecr(count[j.of] - 1)]}
  /\ UNCHANGED <<ready, ttl, requestVars, disruptions>>

(* release: the DEL, whatever has been claimed since the DECR. *)
Del(j) ==
  /\ j \in releases /\ j.at = "del"
  /\ DropKey(j.of)
  /\ Returned(j)
  /\ UNCHANGED <<ready, requestVars, disruptions>>

(* release: the EXPIRE, which does nothing to a key that is gone. *)
Expire(j) ==
  /\ j \in releases /\ j.at = "expire"
  /\ ttl' = [ttl EXCEPT ![j.of] = @ \/ count[j.of] # 0]
  /\ Returned(j)
  /\ UNCHANGED <<ready, count, requestVars, disruptions>>

(* Redis raises during a release; release_account_pick swallows it.  The     *)
(* exception may hide a command that Redis executed.                         *)
ReleaseFails(j) ==
  /\ j \in releases
  /\ Disrupt
  /\ Returned(j)
  /\ \/ UNCHANGED count
     \/ j.at = "decr" /\ count' = [count EXCEPT ![j.of] = @ - 1]
  /\ UNCHANGED <<ready, ttl, requestVars>>

(* ACCOUNT_LEASE_TTL_SEC pass without a claim or a release.  Nothing renews  *)
(* the lease of a request that takes longer.                                 *)
TimeUp(a) ==
  /\ ttl[a]
  /\ IF Users(a) = {} THEN UNCHANGED disruptions ELSE Disrupt
  /\ DropKey(a)
  /\ UNCHANGED <<ready, releases, requestVars>>

(* The request is over and its local variables are gone. *)
End(r) ==
  /\ pc' = [pc EXCEPT ![r] = "ended"]
  /\ ids' = [ids EXCEPT ![r] = {}]
  /\ tried' = [tried EXCEPT ![r] = {}]
  /\ attempt' = [attempt EXCEPT ![r] = 0]
  /\ using' = [using EXCEPT ![r] = NoAccount]
  /\ started' = [started EXCEPT ![r] = FALSE]
  /\ then' = [then EXCEPT ![r] = "ended"]

-----------------------------------------------------------------------------
(* Choosing an account: _acquire_indexed_one.                               *)

(* is_ready and list_candidates. *)
List(r) ==
  /\ pc[r] = "list"
  /\ ids' = [ids EXCEPT ![r] = ready]
  /\ pc' = [pc EXCEPT ![r] = "pick"]
  /\ UNCHANGED <<ready, leaseVars, releases, tried, attempt, using, started, then,
                 disruptions>>

(* Seeded fault: the account is not added to the exclusions.                *)
(* The next candidate; it is not looked at again during this request. *)
Candidate(r, a) ==
  /\ pc[r] = "pick"
  /\ a \in ids[r] \ tried[r]
  /\ tried' = [tried EXCEPT ![r] = @ \cup {a}]

(* Cooling, disabled, blocked for the model, or refused by the script. *)
Skip(r, a) ==
  /\ Candidate(r, a)
  /\ UNCHANGED <<ready, leaseVars, releases, pc, ids, attempt, using, started,
                 then, disruptions>>

Picked(r, a) ==
  /\ using' = [using EXCEPT ![r] = a]
  /\ pc' = [pc EXCEPT ![r] = "load"]
  /\ UNCHANGED <<ready, releases, ids, attempt, started, then>>

Claim(r, a) ==
  /\ Candidate(r, a)
  /\ ClaimPreferred(a)
  /\ Picked(r, a)
  /\ UNCHANGED disruptions

(* get_account_mode raises; note_account_pick goes on without a lease. *)
PickUnleased(r, a) ==
  /\ Candidate(r, a)
  /\ Disrupt
  /\ Picked(r, a)
  /\ UNCHANGED leaseVars

(* No candidate left: the client is told that no account is available. *)
Exhausted(r) ==
  /\ pc[r] = "pick"
  /\ ids[r] \subseteq tried[r]
  /\ End(r)
  /\ UNCHANGED <<ready, leaseVars, releases, disruptions>>

(* Seeded fault: the first of the n releases is counted as one to come.     *)
(* Start a release of the account in use, made n times, and wait for it. *)
ReleaseAndThen(r, why, n, next) ==
  /\ releases' = releases \cup {[by |-> r, of |-> using[r], why |-> why,
                                 at |-> "decr", more |-> n - 1]}
  /\ pc' = [pc EXCEPT ![r] = "wait"]
  /\ then' = [then EXCEPT ![r] = next]

(* peek_credentials_by_id finds no live credentials. *)
LoadFails(r) ==
  /\ pc[r] = "load"
  /\ ReleaseAndThen(r, "load", 1, "pick")
  /\ UNCHANGED <<ready, leaseVars, ids, tried, attempt, using, started, disruptions>>

Load(r) ==
  /\ pc[r] = "load"
  /\ attempt' = [attempt EXCEPT ![r] = @ + 1]
  /\ started' = [started EXCEPT ![r] = FALSE]
  /\ pc' = [pc EXCEPT ![r] = IF attempt[r] = 0 THEN "serve" ELSE "again"]
  /\ UNCHANGED <<ready, leaseVars, releases, ids, tried, using, then, disruptions>>

(* The failover loops claim every account after the first once more and      *)
(* ignore whether they got it: _note_account_pick.                           *)
PickAgain(r) ==
  /\ pc[r] = "again"
  /\ \/ ClaimPreferred(using[r])
     \/ ~Claimable(using[r]) /\ UNCHANGED leaseVars
  /\ pc' = [pc EXCEPT ![r] = "serve"]
  /\ UNCHANGED <<ready, releases, ids, tried, attempt, using, started, then,
                 disruptions>>

-----------------------------------------------------------------------------
(* Serving: the failover loops of app.py.                                   *)

(* report_success of r, in a task of its own. *)
NoteSuccess(r) ==
  releases' = releases \cup {[by |-> r, of |-> using[r], why |-> "success",
                              at |-> "decr", more |-> 0]}

(* The first model bytes go to the client: _note_success_once. *)
FirstBytes(r) ==
  /\ pc[r] = "serve" /\ r \in Streams /\ ~started[r]
  /\ started' = [started EXCEPT ![r] = TRUE]
  /\ NoteSuccess(r)
  /\ UNCHANGED <<ready, leaseVars, pc, ids, tried, attempt, using, then, disruptions>>

(* The answer is complete. *)
Finish(r) ==
  /\ pc[r] = "serve"
  /\ IF started[r] THEN UNCHANGED releases ELSE NoteSuccess(r)
  /\ End(r)
  /\ UNCHANGED <<ready, leaseVars, disruptions>>

(* Seeded fault: stream_started is not looked at.                           *)
(* Failover is safe until model bytes have been sent. *)
MayRetry(r) == ~started[r] /\ attempt[r] < MaxAttempts

Onward(r) == {"ended"} \cup (IF MayRetry(r) THEN {"list"} ELSE {})

(* The upstream fails: report_failure, whose first act is the release.  A    *)
(* status that is not retryable ends the request at once.                    *)
Fail(r, n) ==
  /\ pc[r] = "serve"
  /\ \E next \in Onward(r) : ReleaseAndThen(r, "failure", n, next)
  /\ UNCHANGED <<ready, leaseVars, ids, tried, attempt, using, started, disruptions>>

(* Leave the account: look for another, or stop. *)
GoOn(r, next) ==
  IF next = "ended"
  THEN End(r)
  ELSE /\ using' = [using EXCEPT ![r] = NoAccount]
       /\ pc' = [pc EXCEPT ![r] = next]
       /\ then' = [then EXCEPT ![r] = "ended"]
       /\ UNCHANGED <<ids, tried, attempt, started>>

(* The release has returned.  After a failure the account is cooled, which   *)
(* takes it out of the ready set; without credentials it is removed, and     *)
(* with it the leases of everybody.                                          *)
Proceed(r) ==
  /\ pc[r] = "wait"
  /\ \A j \in releases : j.by = r => j.why = "success"
  /\ ready' = ready \ {using[r]}
  /\ IF then[r] = "pick" THEN DropKey(using[r]) ELSE UNCHANGED leaseVars
  /\ GoOn(r, then[r])
  /\ UNCHANGED <<releases, disruptions>>

(* A local error (_is_local_infra_error): nothing is reported, so nothing is *)
(* released.                                                                 *)
LocalError(r) ==
  /\ pc[r] = "serve"
  /\ \E next \in Onward(r) : GoOn(r, next)
  /\ UNCHANGED <<ready, leaseVars, releases, disruptions>>

(* The client goes away; the generator returns without a report. *)
Cancel(r) ==
  /\ pc[r] = "serve" /\ r \in Streams
  /\ End(r)
  /\ UNCHANGED <<ready, leaseVars, releases, disruptions>>

(* The gateway process dies, and the releases of r with it. *)
Crash(r) ==
  /\ pc[r] # "ended"
  /\ Disrupt
  /\ End(r)
  /\ releases' = {j \in releases : j.by # r}
  /\ UNCHANGED <<ready, leaseVars>>

(* A probe or an administrator puts a cooled account back. *)
Readmit(a) ==
  /\ a \notin ready
  /\ ready' = ready \cup {a}
  /\ UNCHANGED <<leaseVars, releases, requestVars, disruptions>>

Step(r) ==
  \/ List(r) \/ Exhausted(r)
  \/ \E a \in Accounts : Skip(r, a) \/ Claim(r, a) \/ PickUnleased(r, a)
  \/ Load(r) \/ LoadFails(r) \/ PickAgain(r)
  \/ FirstBytes(r) \/ Finish(r) \/ Cancel(r) \/ LocalError(r)
  \/ \E n \in {1, 2} : Fail(r, n)
  \/ Proceed(r)
  \/ Crash(r)

Next ==
  \/ \E r \in Requests : Step(r)
  \/ \E j \in releases : Decr(j) \/ Del(j) \/ Expire(j) \/ ReleaseFails(j)
  \/ \E a \in Accounts : TimeUp(a) \/ Readmit(a)

Spec == Init /\ [][Next]_vars

-----------------------------------------------------------------------------
(* Properties.                                                              *)

(* No counter ever exceeds the limit, however claims, releases, expiries and *)
(* deletions interleave (claim_preferred).                                   *)
LeaseCap == \A a \in Accounts : count[a] <= MaxInflight

(* A counter that holds leases has a time to live: the leases of a crashed   *)
(* worker cannot take an account out of use for good.                        *)
LeasesExpire == \A a \in Accounts : count[a] > 0 => ttl[a]

(* Releases that find no lease drive the counter below zero, and an account  *)
(* in debt admits more requests than its limit.  Unless a release was cut    *)
(* short, whoever made the debt is about to delete it (release: <= 0).       *)
DebtIsPassing ==
  disruptions = 0 =>
    \A a \in Accounts : count[a] < 0 =>
       \E j \in releases : j.of = a /\ j.at = "del"

(* "Only block failover once real content/tool frames were sent - secondary  *)
(* relays treat mid-stream account switches as corruption" (app.py): once    *)
(* the client has model bytes, no other account is looked for.               *)
NoFailoverMidStream ==
  \A r \in Requests : started[r] =>
     /\ pc[r] \in {"serve", "wait", "ended"}
     /\ pc[r] = "wait" => then[r] = "ended"

(* Every attempt of a request is on another account, so failing over never   *)
(* comes back to one that just failed it, even if that one has been          *)
(* readmitted in the meantime (_acquire_indexed_one, exclude).               *)
EveryAttemptAnew ==
  \A r \in Requests : attempt[r] <= Cardinality(tried[r])

(* A request holds an account exactly while it is choosing, loading, serving *)
(* or reporting it.                                                          *)
Holds(r) == pc[r] \in {"load", "again", "serve", "wait"}

(* The strengthening the proofs need: while a request still looks for an     *)
(* account it has an attempt left and has sent nothing.                      *)
Looking(r) ==
  pc[r] \in {"list", "pick", "load"} \/ (pc[r] = "wait" /\ then[r] # "ended")

RequestsConsistent ==
  \A r \in Requests :
    /\ Holds(r) <=> using[r] # NoAccount
    /\ Looking(r) => attempt[r] < MaxAttempts /\ ~started[r]
    /\ pc[r] = "again" => ~started[r]

AttemptsCounted ==
  \A r \in Requests :
    /\ IsFiniteSet(tried[r])
    /\ pc[r] = "load" => attempt[r] < Cardinality(tried[r])

IInv ==
  /\ TypeOK
  /\ RequestsConsistent
  /\ AttemptsCounted
  /\ LeaseCap
  /\ LeasesExpire
  /\ DebtIsPassing
  /\ NoFailoverMidStream
  /\ EveryAttemptAnew
=============================================================================
