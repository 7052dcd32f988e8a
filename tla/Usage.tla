-------------------------------- MODULE Usage --------------------------------
(* What the gateway counts (admin/usage_stats.py): each finished request is  *)
(* added to the day's buckets in Redis, then handed to the writer, or added  *)
(* to PostgreSQL by the worker itself if the event cannot be handed over.    *)
(* The dashboard merges both.  Of the token fields the total stands for all. *)
EXTENDS Naturals, FiniteSets, FiniteSetsExt

CONSTANTS
  Requests, Accounts,
  Shapes,      \* of requests: account or Nobody, ok, tokens, sampled
  LastDay,     \* bound: days
  MaxEvents,   \* bound: failures, crashes, losses of Redis
  Nobody

VARIABLES
  async,       \* ASYNC_USAGE and Redis
  day,         \* the date, UTC
  pc,          \* of each request: "new", "hot", "publish", "direct", "detail", "over"
  shape,       \* of each request, or Nobody before its end
  hot,         \* history: the day its Redis buckets have, or 0
  on,          \* the day of its event (occurred_at) or of its own write, or 0
  redis,       \* daily buckets in Redis
  stream,      \* usage events that are not acknowledged
  inbox,       \* writer_inbox
  daily,       \* usage_daily
  column,      \* total_tokens_total of account_pool
  details,     \* usage_events
  missed, doubled,   \* history: requests whose count was lost, may be there twice
  forgot,      \* history: Redis has lost a count
  events

uvars == <<async, day, pc, shape, hot, on, redis, stream, inbox, daily, column, details,
           missed, doubled, forgot, events>>

Days == 1 .. LastDay
Dims == Accounts \cup {"global"}
Zero == [requests |-> 0, success |-> 0, tokens |-> 0]
Plus(b, c) == [f \in DOMAIN b |-> b[f] + c[f]]
Greater(m, n) == IF m > n THEN m ELSE n

\* Seeded fault: what a failed request has used is counted.
CountAll(r) == [requests |-> 1, success |-> IF shape[r].ok THEN 1 ELSE 0, tokens |-> shape[r].tokens]

\* What one request adds; the tokens of a failed one do not count.
Count(r) ==
  IF shape[r].ok THEN [requests |-> 1, success |-> 1, tokens |-> shape[r].tokens]
  ELSE [requests |-> 1, success |-> 0, tokens |-> 0]
DimsOf(r) == {"global", shape[r].account} \ {Nobody}
Total(R) == MapThenFoldSet(Plus, Zero, Count, LAMBDA S : CHOOSE x \in S : TRUE, R)

\* What is kept of a request beside its counts (_capture_decision).
Kept(r) == ~shape[r].ok \/ shape[r].sampled
Detailed(R) == details' = details \cup {r \in R : Kept(r)}

\* The buckets of day d after the requests R.
Bumped(buckets, d, R) ==
  [buckets EXCEPT ![d] = [dim \in Dims |-> Plus(@[dim], Total({r \in R : dim \in DimsOf(r)}))]]
Credited(R) ==
  column' = [a \in Accounts |-> column[a] + Total({r \in R : shape[r].account = a}).tokens]
-----------------------------------------------------------------------------
Calm == UNCHANGED <<forgot, events>>
Fault == events < MaxEvents /\ events' = events + 1
Goto(r, where) == pc' = [pc EXCEPT ![r] = where]

Init ==
  /\ async \in BOOLEAN /\ day = 1 /\ pc = [r \in Requests |-> "new"] /\ shape = [r \in Requests |-> Nobody]
  /\ hot = [r \in Requests |-> 0] /\ on = [r \in Requests |-> 0]
  /\ redis = [d \in Days |-> [dim \in Dims |-> Zero]] /\ daily = redis
  /\ stream = {} /\ inbox = {} /\ column = [a \in Accounts |-> 0] /\ details = {}
  /\ missed = {} /\ doubled = {} /\ forgot = FALSE /\ events = 0

\* _record_usage_safe, at the end of a request
Finish(r) ==
  /\ pc[r] = "new" /\ Goto(r, "hot") /\ \E s \in Shapes : shape' = [shape EXCEPT ![r] = s]
  /\ UNCHANGED <<async, day, hot, on, redis, stream, inbox, daily, column, details, missed, doubled>> /\ Calm

\* usage_redis.record: a bucket after the other, each a pipeline.
Hot(r) ==
  /\ pc[r] = "hot" /\ Goto(r, IF async THEN "publish" ELSE "direct")
  /\ hot' = [hot EXCEPT ![r] = day]
  /\ \/ redis' = Bumped(redis, day, {r}) /\ Calm
     \/ Fault /\ forgot' = TRUE /\ UNCHANGED redis
  /\ UNCHANGED <<async, day, shape, on, stream, inbox, daily, column, details, missed, doubled>>

\* events_redis.publish: accepted, refused, or accepted with the reply lost.
Publish(r) ==
  /\ pc[r] = "publish" /\ on' = [on EXCEPT ![r] = day]
  /\ \/ stream' = stream \cup {r} /\ Goto(r, "over") /\ UNCHANGED doubled /\ Calm
     \/ Fault /\ Goto(r, "direct") /\ UNCHANGED <<stream, doubled, forgot>>
     \/ /\ Fault /\ stream' = stream \cup {r} /\ Goto(r, "direct")
        /\ doubled' = doubled \cup {r} /\ UNCHANGED forgot
  /\ UNCHANGED <<async, day, shape, hot, redis, inbox, daily, column, details, missed>>

\* Without the writer: usage_pg.record in one transaction, record_event in
\* another, which keeps every request.
Booked(r) == daily' = Bumped(daily, day, {r}) /\ Credited({r})
Direct(r) ==
  /\ pc[r] = "direct" /\ Goto(r, "detail") /\ on' = [on EXCEPT ![r] = day]
  /\ \/ Booked(r) /\ UNCHANGED missed /\ Calm
     \/ Fault /\ missed' = missed \cup {r} /\ UNCHANGED <<daily, column, forgot>>
  /\ UNCHANGED <<async, day, shape, hot, redis, stream, inbox, details, doubled>>
Detail(r) ==
  /\ pc[r] = "detail" /\ Goto(r, "over")
  /\ \/ details' = details \cup {r} /\ Calm
     \/ Fault /\ UNCHANGED <<details, forgot>>
  /\ UNCHANGED <<async, day, shape, hot, on, redis, stream, inbox, daily, column, missed, doubled>>

\* The writer's transaction for a batch: what is in the inbox counts no more.
Apply(S) ==
  LET new == S \ inbox
  IN /\ S # {} /\ inbox' = inbox \cup S
     /\ daily' = [d \in Days |-> Bumped(daily, d, {r \in new : on[r] = d})[d]]
     /\ Credited(new)
     /\ Detailed(new)
     /\ UNCHANGED <<async, day, pc, shape, hot, on, redis, stream, missed, doubled>> /\ Calm
Ack(r) ==
  /\ r \in stream \cap inbox /\ stream' = stream \ {r}
  /\ UNCHANGED <<async, day, pc, shape, hot, on, redis, inbox, daily, column, details, missed, doubled>> /\ Calm

Midnight ==
  /\ day < LastDay /\ day' = day + 1
  /\ UNCHANGED <<async, pc, shape, hot, on, redis, stream, inbox, daily, column, details, missed, doubled>> /\ Calm

\* The worker dies; Redis loses its data.
Crash(r) ==
  /\ pc[r] \in {"hot", "publish", "direct", "detail"} /\ Fault /\ Goto(r, "over")
  /\ missed' = IF pc[r] = "detail" THEN missed ELSE missed \cup {r}
  /\ UNCHANGED <<async, day, shape, hot, on, redis, stream, inbox, daily, column, details, doubled, forgot>>
Flush ==
  /\ Fault /\ forgot' = TRUE /\ redis' = [d \in Days |-> [dim \in Dims |-> Zero]]
  /\ missed' = missed \cup (stream \ inbox) /\ stream' = {}
  /\ UNCHANGED <<async, day, pc, shape, hot, on, inbox, daily, column, details, doubled>>

Next ==
  \/ \E r \in Requests : Finish(r) \/ Hot(r) \/ Publish(r) \/ Direct(r) \/ Detail(r) \/ Ack(r) \/ Crash(r)
  \/ \E S \in SUBSET stream : Apply(S)
  \/ Midnight \/ Flush

Spec == Init /\ [][Next]_uvars
-----------------------------------------------------------------------------
\* Seeded fault: Redis and PostgreSQL are added up.
ShownSum(d) == Plus(redis[d]["global"], daily[d]["global"])

\* summary(): field by field the greater of both.
Shown(d) == [f \in DOMAIN Zero |-> Greater(redis[d]["global"][f], daily[d]["global"][f])]

\* What the requests R amount to.
Truth(R) ==
  LET good == {r \in R : shape[r].ok}
  IN [requests |-> Cardinality(R), success |-> Cardinality(good),
      tokens |-> MapThenSumSet(LAMBDA r : shape[r].tokens, good)]
On(d) == {r \in Requests : on[r] = d}
Seen(d) == {r \in Requests : hot[r] = d}

\* PostgreSQL's books agree: an account's lifetime column is what its days
\* add up to, every failure the writer has counted has its detail row, and
\* once nothing is under way each day holds, in every dimension, the requests
\* of that day, each of them once, unless a count or a reply was lost.
BooksBalance ==
  /\ \A a \in Accounts : column[a] = MapThenSumSet(LAMBDA d : daily[d][a].tokens, Days)
  /\ {r \in inbox : ~shape[r].ok} \subseteq details
  /\ stream \subseteq inbox /\ (\A r \in Requests : pc[r] \in {"new", "over"}) /\ missed \cup doubled = {}
     => \A d \in Days, dim \in Dims :
          daily[d][dim] = Truth({r \in On(d) : dim \in DimsOf(r)})

\* The dashboard shows a day's requests at once and once: never less than
\* Redis has seen unless Redis has lost something, whatever the writer's lag,
\* and never more than there were unless an event may have been counted twice
\* (around midnight the two stores may differ in the day of a request).
ShownOnce ==
  \A d \in Days :
    /\ ~forgot => \A f \in DOMAIN Zero : Shown(d)[f] >= Truth(Seen(d))[f]
    /\ doubled = {} => \A f \in DOMAIN Zero :
         Shown(d)[f] <= Greater(Truth(Seen(d))[f], Truth(On(d))[f])
=============================================================================
