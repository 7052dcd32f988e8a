------------------------------- MODULE Selector -------------------------------
(* Which accounts a request is given, and in which order, when the ready     *)
(* index does not decide (READY_INDEX_MODE off or shadow, the default):      *)
(* try_acquire_sequence and acquire in pool/account_pool.py.  One worker     *)
(* chooses for its requests, from PostgreSQL's rows or a copy of them of up  *)
(* to 1.5 s, while failures of its own and changes of others arrive.         *)
(* Stamps of last use and the share of failed requests in the health score   *)
(* are left out: ties are broken in any order where a stamp would decide.    *)
EXTENDS Naturals, Sequences, FiniteSets, SequencesExt

CONSTANTS
  Accounts,    \* numbers: the order of list_live_credentials, newest expiry first
  Requests,    \* numbers, in the order of their arrival
  Window,      \* candidates looked at
  Attempts,    \* max_failover_attempts
  Rows,        \* what the table may hold at the beginning
  MaxEvents,   \* bound: changes from outside, cancellations, lapsed marks
  Nobody, Cold

VARIABLES
  mode,        \* get_account_mode
  queues,      \* ASYNC_ACCOUNT_STATE with Redis: reports go through the writer
  row,         \* account_pool in PostgreSQL
  fresh,       \* accounts with an unexpired token
  cache,       \* _pool_state_cache of the worker, or Cold
  queued,      \* reports the writer has not applied
  cursor,      \* rr_next
  busy,        \* in-flight marks
  request,
  behind,      \* history: accounts changed by others since the cache was filled
  leaked,      \* history: marks nobody takes back
  plain,       \* history: every mark was set and taken back once
  events

pvars == <<mode, queues, row, fresh, cache, queued, cursor, busy, request,
           behind, leaked, plain, events>>

Healthy == [cool |-> FALSE, off |-> FALSE, quota |-> FALSE, expired |-> FALSE, block |-> "no", fails |-> 0]
Waiting == [pc |-> "new", chain |-> <<>>, fast |-> FALSE, prefer |-> Nobody]
Done == [Waiting EXCEPT !.pc = "over"]
Serving(r) == r.pc = "serving"
At(a) == {n \in Requests : Serving(request[n]) /\ Head(request[n].chain) = a}

Lesser(m, n) == IF m < n THEN m ELSE n
First(s, n) == SubSeq(s, 1, Lesser(n, Len(s)))
\* The members of S among the accounts of s, in their order.
Within(s, S) ==
  LET found[i \in 0 .. Len(s)] ==
        IF i = 0 THEN <<>>
        ELSE IF s[i] \in S THEN Append(found[i - 1], s[i]) ELSE found[i - 1]
  IN found[Len(s)]
Listed(S) == Within([i \in 1 .. Cardinality(Accounts) |-> i], S)
Without(s, a) == Within(s, Accounts \ {a})
Preferring(s, p) == IF p = Nobody THEN s ELSE Within(s, {p}) \o Without(s, p)
-----------------------------------------------------------------------------
(* Who may be used, by what the row v[a] says.                               *)
Enabled(v, a) == ~v[a].cool /\ ~v[a].off
Unblocked(v, a) == v[a].block = "no"
Usable(v) == {a \in Accounts : Enabled(v, a) /\ Unblocked(v, a)}
SoftlyBlocked(v) == {a \in Accounts : Enabled(v, a) /\ v[a].block # "hard"}
Switched(v) == {a \in Accounts : Enabled(v, a)}

\* Seeded fault: the last pass forgets the cooldown.
PassesWarm(v, s) ==
  <<Within(s, Usable(v)), Within(s, SoftlyBlocked(v)), Within(s, Switched(v)),
    Within(s, {a \in Accounts : ~v[a].quota})>>

\* The passes over the candidates: soft blocks, hard blocks and the switch
\* are overlooked one after another, a cooldown never.
Passes(v, s) ==
  <<Within(s, Usable(v)), Within(s, SoftlyBlocked(v)), Within(s, Switched(v)),
    Within(s, {a \in Accounts : ~v[a].cool /\ ~v[a].quota})>>
FirstPass(v, s) ==
  LET passes == Passes(v, s)
      found == {i \in 1 .. 4 : passes[i] # <<>>}
  IN IF found = {} THEN <<>> ELSE passes[CHOOSE i \in found : \A j \in found : i <= j]

\* _health_penalty, doubled; a third of it is a band.
Penalty(v, a) == 6 * v[a].fails + Lesser(24, 5 * busy[a])

\* No account of s stands behind one that is worse by this measure.
Key(v, a) ==
  CASE mode = "round_robin" -> <<Penalty(v, a) \div 6, busy[a]>>
    [] mode = "least_used" -> <<Penalty(v, a), 2 * busy[a]>>
    [] mode = "random" -> <<Penalty(v, a), 0>>
Better(v, a, b) ==
  Key(v, a)[1] < Key(v, b)[1] \/ (Key(v, a)[1] = Key(v, b)[1] /\ Key(v, a)[2] < Key(v, b)[2])
Orders(v, s) ==
  LET place(a) == CHOOSE i \in DOMAIN s : s[i] = a
  IN {t \in SetToSeqs(ToSet(s)) :
       \A i, j \in DOMAIN t : i < j => /\ ~Better(v, t[j], t[i])
                                       /\ mode = "round_robin" /\ ~Better(v, t[i], t[j]) => place(t[i]) < place(t[j])}
-----------------------------------------------------------------------------
Init ==
  /\ mode \in {"round_robin", "least_used", "random"} /\ queues \in BOOLEAN
  /\ row \in Rows /\ fresh = Accounts
  /\ cache = Cold /\ queued = {} /\ cursor = 0
  /\ busy = [a \in Accounts |-> 0] /\ request = [n \in Requests |-> Waiting]
  /\ behind = {} /\ leaked = [a \in Accounts |-> 0] /\ plain = TRUE /\ events = 0

\* The window of candidates: rotated, drawn or from the beginning.
Windows(p) ==
  LET order == Preferring(Listed(fresh), p)
      start == cursor % Len(order)
      turned == First(SubSeq(order, start + 1, Len(order)) \o SubSeq(order, 1, start), Window)
  IN IF Len(order) <= Window \/ mode = "least_used" THEN {First(order, Window)}
     ELSE IF mode = "random" THEN {s \in SeqOf(fresh, Window) : Len(s) = Window /\ IsInjective(s)}
     ELSE {Preferring(turned, p)}
Advances == mode = "round_robin" /\ Cardinality(fresh) > Window

\* Without a candidate in the window the next ones are looked at once.
Candidates(v, window, p) ==
  IF FirstPass(v, window) # <<>> THEN FirstPass(v, window)
  ELSE LET extra == First(Within(Preferring(Listed(fresh), p), Accounts \ ToSet(window)), Window)
       IN First(Within(extra, Usable(v)), 2 * Attempts)

\* The preferred account first, or last if it keeps failing.
Sticky(v, s, p) ==
  IF p = Nobody \/ ~Contains(s, p) THEN s
  ELSE IF ~Unblocked(v, p) \/ v[p].fails >= 2 THEN Without(s, p) \o <<p>>
  ELSE Preferring(s, p)

View == IF cache = Cold THEN row ELSE cache

Given(n, chain, fast) ==
  LET pc == IF chain = <<>> THEN "refused" ELSE IF fast THEN "serving" ELSE "chosen"
  IN request' = [request EXCEPT ![n] = [pc |-> pc, chain |-> chain, fast |-> fast, prefer |-> Nobody]]

\* The preferred account that is ready: no look at the pool, and no mark.
Ready(p) ==
  /\ p \in fresh /\ Enabled(View, p) /\ ~View[p].quota /\ ~View[p].expired
  /\ Unblocked(View, p) /\ View[p].fails < 2
Fast(n) ==
  LET p == request[n].prefer
      others == Without(Listed(fresh), p)
      known == IF cache = Cold THEN others ELSE Within(others, Usable(cache))
  IN /\ p # Nobody /\ Ready(p)
     /\ \E backups \in {<<>>, First(known, Attempts - 1)} : Given(n, <<p>> \o backups, TRUE)
     /\ plain' = FALSE
     /\ UNCHANGED <<cache, cursor, behind>>

\* Seeded fault: acquire takes only what is perfectly eligible.
EligibleOnly(v) ==
  Within(Listed(fresh), {a \in Usable(v) : ~v[a].expired})

\* Which of the eligible accounts acquire takes, by the mode.
Picks(v, eligible) ==
  {i \in DOMAIN eligible :
     /\ mode = "round_robin" => i = (cursor % Len(eligible)) + 1
     /\ mode = "least_used" => \A j \in DOMAIN eligible : ~Better(v, eligible[j], eligible[i])}

\* acquire, over the whole pool
Eligible(v) == FirstPass(v, Listed({a \in fresh : ~v[a].expired}))
Acquire(n) ==
  /\ LET eligible == Eligible(View)
     IN IF eligible = <<>> THEN Given(n, <<>>, FALSE) /\ UNCHANGED cursor
        ELSE \E i \in Picks(View, eligible) :
               /\ Given(n, <<eligible[i]>>, FALSE)
               /\ cursor' = IF mode = "round_robin" THEN cursor + 1 ELSE cursor
  /\ cache' = View /\ behind' = IF cache = Cold THEN {} ELSE behind
  /\ UNCHANGED plain

Full(n) ==
  LET p == request[n].prefer
      found == IF fresh = {} THEN {<<>>} ELSE {Candidates(View, w, p) : w \in Windows(p)}
  IN /\ p = Nobody \/ ~Ready(p)
     /\ \E s \in found :
          IF s = <<>> THEN Acquire(n)
          ELSE /\ \E t \in Orders(View, s) : Given(n, First(Sticky(View, t, p), Attempts), FALSE)
               /\ cursor' = IF Advances THEN cursor + 1 ELSE cursor
               /\ UNCHANGED <<cache, behind, plain>>
-----------------------------------------------------------------------------
Unchanged == UNCHANGED <<mode, queues, leaked, events>>

\* _pick_account_chain; what affinity prefers is one account or none.
Arrive(n) ==
  /\ request[n].pc = "new" /\ \A m \in Requests : m < n => request[m].pc # "new"
  /\ \E p \in Accounts \cup {Nobody} :
       request' = [request EXCEPT ![n] =
         [@ EXCEPT !.pc = "choosing", !.prefer = p]]
  /\ UNCHANGED <<row, fresh, cache, queued, cursor, busy, behind, plain>> /\ Unchanged

Choose(n) ==
  /\ request[n].pc = "choosing" /\ (Fast(n) \/ Full(n))
  /\ UNCHANGED <<row, fresh, queued, busy>> /\ Unchanged

\* note_account_pick
Mark(n) ==
  /\ request[n].pc = "chosen"
  /\ request' = [request EXCEPT ![n].pc = "serving"]
  /\ busy' = [busy EXCEPT ![Head(request[n].chain)] = @ + 1]
  /\ UNCHANGED <<row, fresh, cache, queued, cursor, behind, plain>> /\ Unchanged

Released(b, a, times) == [b EXCEPT ![a] = IF @ > times THEN @ - times ELSE 0]

\* What a report changes in the row.
Reported(r, what) ==
  IF what = "ok" THEN [r EXCEPT !.fails = 0, !.block = IF @ = "soft" /\ ~r.cool THEN "no" ELSE @]
  ELSE [r EXCEPT !.fails = Lesser(2, @ + 1), !.cool = @ \/ what = "cool",
                 !.block = IF what = "soft" /\ @ = "no" THEN "soft" ELSE @]

\* patch_account_pool_meta: to the writer, or to the row, which drops the copy.
Report(a, what) ==
  IF queues THEN queued' = queued \cup {<<a, what>>} /\ UNCHANGED <<row, cache, behind>>
  ELSE row' = [row EXCEPT ![a] = Reported(@, what)] /\ cache' = Cold /\ behind' = {} /\ UNCHANGED queued

\* Seeded fault: the failed account keeps its mark.
FailKeeping(n) ==
  /\ Serving(request[n])
  /\ LET chain == request[n].chain
     IN \E what \in {"cool", "soft", "minor"} :
          /\ Report(Head(chain), what)
          /\ IF Len(chain) = 1
             THEN request' = [request EXCEPT ![n] = Done] /\ UNCHANGED busy
             ELSE /\ request' = [request EXCEPT ![n].chain = Tail(@)]
                  /\ busy' = [busy EXCEPT ![chain[2]] = @ + 1]
          /\ UNCHANGED plain
  /\ UNCHANGED <<fresh, cursor>> /\ Unchanged

\* report_failure, and on to the next account, which is marked then.  A free
\* usage error gives the mark back twice.
Fail(n) ==
  /\ Serving(request[n])
  /\ LET chain == request[n].chain
     IN \E what \in {"cool", "soft", "minor"}, times \in {1, 2} :
          /\ times = 2 => what = "cool"
          /\ Report(Head(chain), what)
          /\ LET given == Released(busy, Head(chain), times)
             IN IF Len(chain) = 1
                THEN request' = [request EXCEPT ![n] = Done] /\ busy' = given
                ELSE /\ request' = [request EXCEPT ![n].chain = Tail(@)]
                     /\ busy' = [given EXCEPT ![chain[2]] = @ + 1]
          /\ plain' = (plain /\ times = 1)
  /\ UNCHANGED <<fresh, cursor>> /\ Unchanged

\* report_success
Succeed(n) ==
  /\ Serving(request[n])
  /\ Report(Head(request[n].chain), "ok")
  /\ request' = [request EXCEPT ![n] = Done]
  /\ busy' = Released(busy, Head(request[n].chain), 1)
  /\ UNCHANGED <<fresh, cursor, plain>> /\ Unchanged
-----------------------------------------------------------------------------
\* Bound: the rows and the copy change only as long as a request has to choose.
Awaited == \E n \in Requests : request[n].pc \in {"new", "choosing"}
Event == events < MaxEvents /\ events' = events + 1
Others == UNCHANGED <<mode, queues, cursor>>

\* The writer applies a report in its own process.
Apply(x) ==
  /\ Awaited /\ x \in queued /\ queued' = queued \ {x}
  /\ row' = [row EXCEPT ![x[1]] = Reported(@, x[2])]
  /\ behind' = IF cache = Cold THEN {} ELSE behind \cup {x[1]}
  /\ UNCHANGED <<fresh, cache, busy, request, plain>> /\ Unchanged /\ UNCHANGED <<cursor>>

\* A probe, the administrator or another worker begins or ends a cooldown.
Change(a) ==
  /\ Event /\ Awaited
  /\ row' = [row EXCEPT ![a].cool = ~@]
  /\ behind' = IF cache = Cold THEN {} ELSE behind \cup {a}
  /\ UNCHANGED <<fresh, cache, queued, busy, request, leaked, plain>> /\ Others

\* A token expires, or is renewed.
Token(a) ==
  /\ Event /\ Awaited /\ fresh' = (fresh \ {a}) \cup ({a} \ fresh)
  /\ UNCHANGED <<row, cache, queued, busy, request, behind, leaked, plain>> /\ Others

\* Another part of the worker reads all rows; the copy is 1.5 s old.
Load ==
  /\ Awaited /\ cache = Cold /\ cache' = row /\ behind' = {}
  /\ UNCHANGED <<row, fresh, queued, busy, request, plain>> /\ Unchanged /\ UNCHANGED <<cursor>>
Lapse ==
  /\ Awaited /\ cache # Cold /\ cache' = Cold /\ behind' = {}
  /\ UNCHANGED <<row, fresh, queued, busy, request, plain>> /\ Unchanged /\ UNCHANGED <<cursor>>

\* The client leaves: nothing is reported, the mark stays for its 90 s.
Cancel(n) ==
  /\ Event /\ Serving(request[n])
  /\ request' = [request EXCEPT ![n] = Done]
  /\ leaked' = [leaked EXCEPT ![Head(request[n].chain)] = @ + 1]
  /\ UNCHANGED <<row, fresh, cache, queued, busy, behind, plain>> /\ Others
Fade(a) ==
  /\ Event /\ busy[a] > 0
  /\ busy' = [busy EXCEPT ![a] = 0] /\ plain' = FALSE
  /\ UNCHANGED <<row, fresh, cache, queued, request, behind, leaked>> /\ Others

Next ==
  \/ \E n \in Requests : Arrive(n) \/ Choose(n) \/ Mark(n) \/ Fail(n) \/ Succeed(n) \/ Cancel(n)
  \/ \E x \in queued : Apply(x)
  \/ \E a \in Accounts : Token(a) \/ Fade(a) \/ Change(a)
  \/ Load \/ Lapse

Spec == Init /\ [][Next]_pvars
-----------------------------------------------------------------------------
(* The moment request n is given its chain.                                  *)
Chosen(n) == request[n].pc = "choosing" /\ request'[n].pc # "choosing"
Unseen(a) == cache # Cold /\ a \in behind

\* An account that cools is in no chain, whichever pass had to fill it,
\* unless another process has cooled it since the worker's copy was made, or
\* it stands behind a sticky account that was chosen without such a copy.
CoolingStaysOut ==
  [][\A n \in Requests : Chosen(n) =>
       \A i \in DOMAIN request'[n].chain :
         LET a == request'[n].chain[i]
         IN row[a].cool => Unseen(a) \/ (request'[n].fast /\ i > 1 /\ cache = Cold)]_pvars

\* A request is turned away only if every account with a valid token cools,
\* is out of quota or is marked expired: the passes over the window, the next
\* candidates and acquire's passes over all accounts together miss nobody.
RefusedOnlyIfNone ==
  [][\A n \in Requests : Chosen(n) /\ request'[n].pc = "refused" =>
       \A a \in fresh : row[a].cool \/ row[a].quota \/ row[a].expired \/ Unseen(a)]_pvars

\* As long as requests are chosen in full and fail or succeed in the ordinary
\* way, an account's marks are the requests it serves and those that were
\* cancelled; no other request makes an idle account look busy.
MarksMatch ==
  /\ plain => \A a \in Accounts : busy[a] = Cardinality(At(a)) + leaked[a]
  /\ \A a \in Accounts : busy[a] <= Cardinality(At(a)) + leaked[a]
=============================================================================
