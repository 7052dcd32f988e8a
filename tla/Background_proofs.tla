-------------------------- MODULE Background_proofs --------------------------
(* What goes on behind the requests, for any number of workers, accounts and *)
(* items.  The parts share no state, so that a step of Background is a step  *)
(* of one part and changes nothing of the others.                            *)
EXTENDS Background, FiniteSetTheorems, WellFoundedInduction, TLAPS

LEMMA StepOfAPart ==
  ASSUME [Next]_vars
  PROVE  [S!Next]_sweepVars /\ [J!Next]_jobVars /\ [D!Next]_loginVars
BY DEF Next, Sweep, Jobs, Login, vars, sweepVars, jobVars, loginVars

-----------------------------------------------------------------------------
(* A login with a device code.  What any worker says of it is true, whatever *)
(* is lost on the way.  Besides the property itself the invariant says where *)
(* in its run the thread has stored the account: before it is stored every   *)
(* end that is recorded is a failure, and from then on the only end the      *)
(* thread can record is the success.                                         *)
Statuses == {Absent, "waiting_user"} \cup D!Ended

LoginTyping ==
  /\ status \in [Workers -> Statuses]
  /\ mirror \in Statuses

StoredLate ==
  /\ stored => thread \in {"record", "over"}
  /\ thread = "record" => stored

\* What one copy of the session may say.
True(s) ==
  /\ s = "success" => stored
  /\ s \in {"error", "expired"} => ~stored
  /\ s \in D!Ended => thread = "over"
AllTrue == (\A w \in Workers : True(status[w])) /\ True(mirror)

LoginInv == LoginTyping /\ StoredLate /\ AllTrue

LEMMA AllTrueIsTruth == AllTrue => D!LoginTellsTruth
BY DEF AllTrue, True, D!LoginTellsTruth

-----------------------------------------------------------------------------
\* _device_update and _device_mirror: every copy says what it said or the new
\* status, wherever the mirror fails and whether or not the session is gone.
LEMMA RecordWrites ==
  ASSUME LoginTyping, NEW new \in Statuses, D!Record(new)
  PROVE  /\ LoginTyping'
         /\ \A w \in Workers : status'[w] \in {status[w], new}
         /\ mirror' \in {mirror, new}
<1>1. CASE status[Home] = Absent
  BY <1>1 DEF D!Record, LoginTyping
<1>2. CASE status[Home] # Absent
  <2>1. status' = [status EXCEPT ![Home] = new] /\ mirror' \in {mirror, new}
    BY <1>2 DEF D!Record, D!Mirrored
  <2> QED BY <2>1 DEF LoginTyping
<1> QED BY <1>1, <1>2

\* A step that ends the thread keeps every copy true if what it records is.
LEMMA RecordKeepsTruth ==
  ASSUME LoginInv, thread # "over", thread' = "over", UNCHANGED stored,
         NEW new \in D!Ended, D!Record(new), new = "success" <=> stored
  PROVE  LoginInv'
<1>1. new \in Statuses
  BY DEF Statuses
<1>2. LoginTyping' /\ (\A w \in Workers : status'[w] \in {status[w], new}) /\ mirror' \in {mirror, new}
  BY <1>1, RecordWrites DEF LoginInv
<1>3. StoredLate'
  BY DEF StoredLate
<1>4. ASSUME NEW s, True(s) PROVE True(s)'
  BY <1>4 DEF True
<1>5. True(new)'
  BY DEF True, D!Ended
<1>6. AllTrue'
  BY <1>2, <1>4, <1>5 DEF LoginInv, AllTrue, True
<1> QED BY <1>2, <1>3, <1>6 DEF LoginInv

LEMMA LoginStep ==
  ASSUME LoginInv, [D!Next]_loginVars
  PROVE  LoginInv'
<1> USE DEF LoginInv
<1>1. CASE D!Start
  <2>1. LoginTyping' /\ (\A w \in Workers : status'[w] \in {status[w], "waiting_user"})
        /\ mirror' \in {mirror, "waiting_user"}
    BY <1>1 DEF D!Start, D!Mirrored, LoginTyping, Statuses
  <2>2. StoredLate'
    BY <1>1 DEF D!Start, StoredLate
  <2>3. AllTrue'
    BY <1>1, <2>1 DEF D!Start, AllTrue, True, D!Ended
  <2> QED BY <2>1, <2>2, <2>3
<1>2. CASE D!Decide \/ D!RunOut
  BY <1>2 DEF D!Decide, D!RunOut, LoginTyping, StoredLate, AllTrue, True
<1>3. CASE D!Check
  <2>1. CASE D!Unrecorded
    BY <1>3, <2>1 DEF D!Check, D!Unrecorded, LoginTyping, StoredLate, AllTrue, True
  <2>2. CASE D!Record("expired") /\ thread' = "over"
    <3>1. thread # "over" /\ ~stored /\ UNCHANGED stored /\ "expired" \in D!Ended
      BY <1>3 DEF D!Check, StoredLate, D!Ended
    <3> QED BY <2>2, <3>1, RecordKeepsTruth
  <2> QED BY <1>3, <2>1, <2>2 DEF D!Check
<1>4. CASE D!Ask
  <2>1. ~stored /\ UNCHANGED stored /\ thread = "ask"
    BY <1>4 DEF D!Ask, StoredLate
  <2>2. CASE UNCHANGED <<status, mirror>> /\ thread' \in {"check", "save"}
    BY <2>1, <2>2 DEF LoginTyping, StoredLate, AllTrue, True
  <2>3. CASE D!Record("expired") /\ thread' = "over"
    <3>1. "expired" \in D!Ended
      BY DEF D!Ended
    <3> QED BY <2>1, <2>3, <3>1, RecordKeepsTruth
  <2>4. CASE D!Record("error") /\ thread' = "over"
    <3>1. "error" \in D!Ended
      BY DEF D!Ended
    <3> QED BY <2>1, <2>4, <3>1, RecordKeepsTruth
  <2> QED BY <1>4, <2>2, <2>3, <2>4 DEF D!Ask, D!Unrecorded
<1>5. CASE D!Save
  <2>1. CASE stored' = TRUE /\ thread' = "record" /\ D!Unrecorded
    BY <1>5, <2>1 DEF D!Save, D!Unrecorded, LoginTyping, StoredLate, AllTrue, True, D!Ended
  <2>2. CASE thread' = "over" /\ D!Record("error") /\ UNCHANGED stored
    <3>1. thread # "over" /\ ~stored /\ "error" \in D!Ended
      BY <1>5 DEF D!Save, StoredLate, D!Ended
    <3> QED BY <2>2, <3>1, RecordKeepsTruth
  <2> QED BY <1>5, <2>1, <2>2 DEF D!Save
<1>6. CASE D!Succeed
  <2>1. thread # "over" /\ stored /\ UNCHANGED stored /\ thread' = "over" /\ "success" \in D!Ended
    BY <1>6 DEF D!Succeed, StoredLate, D!Ended
  <2> QED BY <1>6, <2>1, RecordKeepsTruth DEF D!Succeed
<1>7. ASSUME NEW w \in Workers, D!Look(w) \/ D!Forget(w) PROVE LoginInv'
  BY <1>7, AbsentIsNoEnd DEF D!Look, D!Forget, LoginTyping, Statuses, D!Ended, StoredLate, AllTrue, True
<1>8. CASE D!Lapse \/ D!Crash
  BY <1>8, AbsentIsNoEnd DEF D!Lapse, D!Crash, LoginTyping, Statuses, D!Ended, StoredLate, AllTrue, True
<1>9. CASE UNCHANGED loginVars
  BY <1>9 DEF loginVars, LoginTyping, StoredLate, AllTrue, True
<1> QED BY <1>1, <1>2, <1>3, <1>4, <1>5, <1>6, <1>7, <1>8, <1>9 DEF D!Next, D!Thread

-----------------------------------------------------------------------------
(* A worker that reports a login as successful has its account in the        *)
(* storage, one that reports a failure has not, and nobody reports an end    *)
(* before the polling thread has come to one (_device_poll_worker).          *)
THEOREM LoginReportsAreTrue == Spec => []LoginTellsTruth
<1>1. Init => LoginInv
  BY AbsentIsNoEnd DEF Init, D!Init, LoginInv, LoginTyping, Statuses, D!Ended, StoredLate, AllTrue, True
<1>2. LoginInv /\ [D!Next]_loginVars => LoginInv'
  BY LoginStep
<1>3. [Next]_vars => [D!Next]_loginVars
  BY StepOfAPart
<1>4. LoginInv => LoginTellsTruth
  BY AllTrueIsTruth DEF LoginInv, LoginTellsTruth
<1> QED BY <1>1, <1>2, <1>3, <1>4, PTL DEF Spec
-----------------------------------------------------------------------------
(* The sweep.  What its record covers was probed since the sweep began, or   *)
(* is of an account that has left or came back meanwhile; and so are the     *)
(* accounts the cycle under way will add to it.                              *)
Accounted == attempted \cup rejoined \cup (Accounts \ live)
SweepInv ==
  /\ live \subseteq Accounts
  /\ ~started => covered = {}
  /\ started => covered \subseteq Accounted /\ DOMAIN tally \subseteq Accounted

\* What a cycle marks is of its tally.
LEMMA MarkKeeps ==
  ASSUME SweepInv, NEW ids \in SUBSET DOMAIN tally, S!Mark(ids), UNCHANGED live,
         DOMAIN tally' = {}
  PROVE  SweepInv' /\ covered \subseteq covered'
<1>1. CASE ids = {}
  BY <1>1 DEF S!Mark, S!OldSweep, SweepInv, Accounted
<1>2. CASE ids # {} /\ started
  BY <1>2 DEF S!Mark, SweepInv, Accounted
<1>3. CASE ids # {} /\ ~started
  BY <1>3 DEF S!Mark, SweepInv, Accounted
<1> QED BY <1>1, <1>2, <1>3

LEMMA SweepStep ==
  ASSUME SweepInv, [S!Next]_sweepVars
  PROVE  /\ SweepInv'
         /\ covered # {} /\ covered' = {} /\ started /\ started' => live \subseteq attempted \cup rejoined
<1> DEFINE Whole == covered # {} /\ covered' = {} /\ started /\ started' => live \subseteq attempted \cup rejoined
<1>1. CASE S!Start
  <2> DEFINE seen == IF started THEN covered ELSE {}
             left == (live \ seen) \cup S!ReAdmitted(seen, fresh')
  <2>1. /\ IF ~started \/ left = {} THEN S!NewSweep ELSE S!OldSweep
        /\ DOMAIN tally' = {} /\ UNCHANGED live
    BY <1>1 DEF S!Start
  <2>2. CASE ~started \/ left = {}
    <3>1. live \subseteq seen \/ ~started
      BY <2>2
    <3> QED BY <2>1, <2>2, <3>1 DEF S!NewSweep, SweepInv, Accounted
  <2>3. CASE started /\ left # {}
    BY <2>1, <2>3 DEF S!OldSweep, SweepInv, Accounted
  <2> QED BY <2>2, <2>3
<1>2. CASE S!Finish
  <2>1. DOMAIN tally' = {} /\ UNCHANGED live
    BY <1>2 DEF S!Finish
  <2>2. CASE pc = "manual"
    BY <1>2, <2>1, <2>2 DEF S!Finish, S!OldSweep, SweepInv, Accounted
  <2>3. CASE pc # "manual"
    BY <1>2, <2>1, <2>3, MarkKeeps DEF S!Finish
  <2> QED BY <2>2, <2>3
<1>3. ASSUME NEW a \in Accounts, NEW what \in S!Outcomes, S!Probe(a, what) PROVE SweepInv' /\ Whole
  <2>1. DOMAIN tally' = DOMAIN tally \cup {a} /\ attempted' = attempted \cup {a}
        /\ UNCHANGED <<live, covered, started, rejoined>>
    BY <1>3 DEF S!Probe
  <2> QED BY <2>1 DEF SweepInv, Accounted
<1>4. ASSUME NEW a \in Accounts, S!Touch(a) \/ S!Remove(a) \/ S!Import(a) PROVE SweepInv' /\ Whole
  BY <1>4 DEF S!Touch, S!Remove, S!Import, S!OldSweep, SweepInv, Accounted
<1>5. CASE S!StartManual \/ S!Crash
  <2>1. tally' = <<>> /\ UNCHANGED <<live, covered, started, attempted, rejoined>>
    BY <1>5, Zenon DEF S!StartManual, S!Crash, S!OldSweep
  <2> QED BY <2>1 DEF SweepInv, Accounted
<1>6. CASE S!Lapse
  BY <1>6 DEF S!Lapse, SweepInv
<1>7. CASE UNCHANGED sweepVars
  BY <1>7 DEF sweepVars, SweepInv, Accounted
<1> QED BY <1>1, <1>2, <1>3, <1>4, <1>5, <1>6, <1>7 DEF S!Next

(* A sweep begins again only when every live account was probed in it, or    *)
(* was imported while it ran, however its cycles were cut short              *)
(* (_background_probe_priority, _sweep_mark_covered, _sweep_start_new).      *)
THEOREM SweepsAreComplete == Spec => NoneSkipped
<1>1. Init => SweepInv
  BY DEF Init, S!Init, SweepInv, Accounted
<1>2. SweepInv /\ [S!Next]_sweepVars => SweepInv'
  BY SweepStep
<1>3. SweepInv /\ [S!Next]_sweepVars =>
        [covered # {} /\ covered' = {} /\ started /\ started' =>
           live \subseteq attempted \cup rejoined]_sweepVars
  BY SweepStep
<1>4. [Next]_vars => [S!Next]_sweepVars
  BY StepOfAPart
<1> QED BY <1>1, <1>2, <1>3, <1>4, PTL DEF Spec, NoneSkipped, S!NoneSkipped, sweepVars, S!svars
-----------------------------------------------------------------------------
\* The copies of Cardinality and IsFiniteSet that an instance carries are the
\* library's.
LEMMA StandardCounting ==
  /\ \A X : J!Cardinality(X) = Cardinality(X)
  /\ \A X : J!IsFiniteSet(X) <=> IsFiniteSet(X)
<1>1. \A X : J!Cardinality(X) = Cardinality(X)
  BY Zenon DEF J!Cardinality, Cardinality
<1>2. \A X : J!IsFiniteSet(X) <=> IsFiniteSet(X)
  BY Zenon DEF J!IsFiniteSet, IsFiniteSet
<1> QED BY <1>1, <1>2

\* Of a set of numbers that is not all of them there is a first one outside.
LEMMA Upwards ==
  ASSUME NEW T \in SUBSET Nat, 0 \in T, \A n \in T : n + 1 \in T
  PROVE  T = Nat
<1> DEFINE U == Nat \ T
           R == OpToRel(<, Nat)
<1> SUFFICES ASSUME U # {} PROVE FALSE
  OBVIOUS
<1>1. IsWellFoundedOn(R, Nat)
  BY NatLessThanWellFounded
<1>2. \A x, y \in Nat : y < x => <<y, x>> \in R
  BY DEF OpToRel
<1> HIDE DEF R
<1>3. PICK x \in U : \A y \in U : ~(<<y, x>> \in R)
  <2> U \in SUBSET Nat
    OBVIOUS
  <2> HIDE DEF U
  <2> QED BY <1>1, WFMin
<1>4. x - 1 \in Nat /\ x - 1 < x
  OBVIOUS
<1>5. x - 1 \notin U
  BY <1>2, <1>3, <1>4
<1> QED BY <1>4, <1>5

\* A list without repetitions is its own list of distinct members.
LEMMA DistinctIsItself ==
  ASSUME NEW X, NEW s \in Seq(X), \A i, j \in DOMAIN s : s[i] = s[j] => i = j
  PROVE  J!Distinct(s) = s
<1> DEFINE m == Len(s)
           Runs(f) == f = [i \in 0 .. m |-> IF i = 0 THEN <<>>
                             ELSE IF J!Contains(f[i - 1], s[i]) THEN f[i - 1] ELSE Append(f[i - 1], s[i])]
           g == CHOOSE f : Runs(f)
           upto(i) == SubSeq(s, 1, i)
           F == [i \in 0 .. m |-> upto(i)]
<1>1. m \in Nat /\ DOMAIN s = 1 .. m
  OBVIOUS
<1>2. \A i \in 0 .. m : upto(i) \in Seq(X) /\ Len(upto(i)) = i /\ \A j \in 1 .. i : upto(i)[j] = s[j]
  BY <1>1
<1>3. upto(0) = <<>> /\ upto(m) = s
  BY <1>1
<1>4. ASSUME NEW i \in 1 .. m
      PROVE  upto(i) = IF J!Contains(upto(i - 1), s[i]) THEN upto(i - 1) ELSE Append(upto(i - 1), s[i])
  <2>1. i - 1 \in 0 .. m /\ i \in DOMAIN s
    BY <1>1
  <2>2. ~J!Contains(upto(i - 1), s[i])
    <3>1. Len(upto(i - 1)) = i - 1 /\ \A j \in 1 .. i - 1 : upto(i - 1)[j] = s[j] /\ j \in DOMAIN s
      BY <1>1, <1>2, <2>1
    <3> HIDE DEF upto
    <3> QED BY <2>1, <3>1 DEF J!Contains
  <2>3. upto(i) = Append(upto(i - 1), s[i])
    BY <1>1, <2>1
  <2> QED BY <2>2, <2>3
<1> HIDE DEF upto
<1>5. Runs(F)
  <2>1. \A i \in 0 .. m : i # 0 => i \in 1 .. m /\ F[i - 1] = upto(i - 1)
    BY <1>1
  <2> QED BY <1>3, <1>4, <2>1
<1>6. Runs(g)
  BY <1>5, Zenon
<1>7. J!Distinct(s) = g[m]
  BY Zenon DEF J!Distinct
<1> HIDE DEF g, F
<1>8. g[0] = <<>> /\ \A i \in 1 .. m : g[i] = IF J!Contains(g[i - 1], s[i]) THEN g[i - 1] ELSE Append(g[i - 1], s[i])
  <2>1. \A i \in 0 .. m : g[i] = IF i = 0 THEN <<>>
                             ELSE IF J!Contains(g[i - 1], s[i]) THEN g[i - 1] ELSE Append(g[i - 1], s[i])
    BY <1>6, Zenon
  <2> QED BY <1>1, <2>1
<1> DEFINE T == {n \in Nat : n <= m => g[n] = upto(n)}
<1>9. T = Nat
  <2>1. 0 \in T
    BY <1>3, <1>8
  <2>2. ASSUME NEW n \in T PROVE n + 1 \in T
    <3> SUFFICES ASSUME n + 1 <= m PROVE g[n + 1] = upto(n + 1)
      OBVIOUS
    <3>1. g[n] = upto(n) /\ n + 1 \in 1 .. m /\ (n + 1) - 1 = n
      BY <1>1
    <3> QED BY <1>4, <1>8, <3>1
  <2> HIDE DEF T
  <2>3. T \in SUBSET Nat
    BY DEF T
  <2> QED BY <2>1, <2>2, <2>3, Upwards
<1> QED BY <1>1, <1>3, <1>7, <1>9

-----------------------------------------------------------------------------
(* A job.  Its record is a function of the same fields from its first put    *)
(* on, so that a patch changes the fields it names and no other; nothing is  *)
(* final before the thread has left its work; and the cookies that are       *)
(* converted are those that wait to be imported.                             *)
Fields == {"status", "done", "success", "fail", "results", "named", "bytes"}
Live(r) == DOMAIN r = Fields /\ r.status \in {"queued", "running"}
Busy == {"queued", "working", "importing", "ending", "failing"}
Unwritten == {"none", "queued", "working", "importing", "failing"}

\* What OverTellsTruth says of one copy.
Truth(r) ==
  /\ r.status = "error" => accepted = {}
  /\ kind = "sso" /\ r.status = "done" =>
       /\ \A i \in Items : r.results[i] = "ok" <=> (i \in J!ToSet(finished) /\ Owner[i] \in accepted)
       /\ r.success + r.fail = J!Cardinality(Items)
       /\ J!InOrder /\ J!OwnersDiffer => \A i \in Items : r.results[i] = "ok" => r.named[i] = Owner[i]
  /\ kind = "json" /\ r.status # "error" => r.success = J!Cardinality(accepted)

Stages == Busy \cup {"none", "over", "dead"}
Copies ==
  /\ at \in Stages
  /\ at = "none" => here = Absent /\ there = Absent
  /\ at \in Busy => Live(here) /\ (there = Absent \/ Live(there))
  /\ \A r \in {here, there} : J!Final(r) => Truth(r)

ToImport ==
  /\ result \in [Items -> {"waiting", "converted", "failed"}]
  /\ {i \in Items : result[i] = "converted"} = J!ToSet(finished)
  /\ at = "importing" => \A i \in Items : result[i] # "waiting"
Imported ==
  /\ result \in [Items -> {"ok", "failed"}]
  /\ \A i \in Items : result[i] = "ok" <=> (i \in J!ToSet(finished) /\ Owner[i] \in accepted)
  /\ J!InOrder /\ J!OwnersDiffer => \A i \in Items : result[i] = "ok" => named[i] = Owner[i]
Work ==
  /\ finished \in Seq(Items)
  /\ at \in Unwritten => accepted = {}
  /\ at \in {"none", "queued", "working", "importing"} => ToImport
  /\ at = "ending" /\ kind = "sso" => Imported

JobInv == Copies /\ Work

-----------------------------------------------------------------------------
\* The two kinds of results of a job that has ended add up.
LEMMA ResultsAddUp ==
  ASSUME result \in [Items -> {"ok", "failed"}]
  PROVE  J!Count("ok") + J!Count("failed") = J!Cardinality(Items)
<1> DEFINE Ok == {i \in Items : result[i] = "ok"}
           Bad == {i \in Items : result[i] = "failed"}
<1>1. IsFiniteSet(Items)
  BY ItemsAreCounted, StandardCounting, Zenon
<1>2. IsFiniteSet(Ok) /\ IsFiniteSet(Bad)
  <2>1. Ok \in SUBSET Items /\ Bad \in SUBSET Items
    OBVIOUS
  <2> HIDE DEF Ok, Bad
  <2> QED BY <1>1, <2>1, FS_Subset
<1>3. Ok \cup Bad = Items /\ Ok \cap Bad = {}
  OBVIOUS
<1>4. J!Count("ok") = Cardinality(Ok) /\ J!Count("failed") = Cardinality(Bad)
      /\ J!Cardinality(Items) = Cardinality(Items)
  BY StandardCounting, Zenon DEF J!Count
<1> HIDE DEF Ok, Bad
<1>5. Cardinality(Items) = Cardinality(Ok) + Cardinality(Bad) - Cardinality({})
  BY <1>2, <1>3, FS_Union
<1>6. Cardinality({}) = 0 /\ Cardinality(Ok) \in Nat /\ Cardinality(Bad) \in Nat
  BY <1>2, FS_EmptySet, FS_CardinalityType
<1> QED BY <1>4, <1>5, <1>6

\* Among the converted cookies the one at place k of a list in order is the
\* k-th.
LEMMA PlaceIsRank ==
  ASSUME ToImport, finished \in Seq(Items), J!InOrder, NEW k \in DOMAIN finished
  PROVE  J!Cardinality({j \in Items : j <= finished[k] /\ result[j] = "converted"}) = k
<1> DEFINE A == {j \in Items : j <= finished[k] /\ result[j] = "converted"}
           g == [n \in 1 .. k |-> finished[n]]
<1>1. k \in Nat /\ k <= Len(finished) /\ DOMAIN finished = 1 .. Len(finished) /\ Len(finished) \in Nat
  OBVIOUS
<1>2. \A n \in 1 .. k : n \in DOMAIN finished
  BY <1>1
<1>3. \A n \in DOMAIN finished : finished[n] \in Items /\ finished[n] \in Nat
  <2>1. Items \subseteq Nat
    BY ItemsAreCounted
  <2>2. \A n \in DOMAIN finished : finished[n] \in Items
    OBVIOUS
  <2> QED BY <2>1, <2>2
<1>4. \A j \in Items : result[j] = "converted" <=> \E n \in DOMAIN finished : finished[n] = j
  BY DEF ToImport, J!ToSet
<1>5. \A a, b \in DOMAIN finished : a < b => finished[a] < finished[b]
  BY DEF J!InOrder
<1>6. \A n \in 1 .. k : g[n] \in A
  <2> TAKE n \in 1 .. k
  <2>1. finished[n] <= finished[k]
    BY <1>1, <1>2, <1>3, <1>5
  <2> QED BY <1>2, <1>3, <1>4, <2>1
<1>7. \A a, b \in 1 .. k : g[a] = g[b] => a = b
  <2> TAKE a, b \in 1 .. k
  <2>1. a < b => finished[a] < finished[b]
    BY <1>2, <1>5
  <2>2. b < a => finished[b] < finished[a]
    BY <1>2, <1>5
  <2>3. finished[a] \in Nat /\ finished[b] \in Nat
    BY <1>2, <1>3
  <2> QED BY <2>1, <2>2, <2>3, <1>1
<1>8. \A j \in A : \E n \in 1 .. k : g[n] = j
  <2> TAKE j \in A
  <2>1. PICK n \in DOMAIN finished : finished[n] = j
    BY <1>4
  <2>2. ~(k < n)
    BY <1>3, <1>5, <2>1
  <2>3. n \in 1 .. k
    BY <1>1, <2>1, <2>2
  <2> QED BY <2>1, <2>3
<1> HIDE DEF A
<1>9. g \in Bijection(1 .. k, A)
  <2>1. g \in [1 .. k -> A]
    BY <1>6
  <2> HIDE DEF g
  <2> QED BY <1>7, <1>8, <2>1 DEF Bijection, Injection, Surjection, IsInjective
<1>10. ExistsBijection(1 .. k, A)
  BY <1>9 DEF ExistsBijection
<1>11. Cardinality(A) = k
  BY <1>1, <1>10, FS_CountingElements
<1> QED BY <1>11, StandardCounting, Zenon DEF A

\* Cookies converted in their order, of accounts of their own: each result
\* names the account of its cookie.
LEMMA PairedInOrder ==
  ASSUME ToImport, finished \in Seq(Items), J!InOrder, J!OwnersDiffer,
         NEW i \in Items, result[i] = "converted"
  PROVE  J!Paired(J!Distinct([n \in DOMAIN finished |-> Owner[finished[n]]]))[i] = Owner[i]
<1> DEFINE X == {Owner[j] : j \in Items}
           s == [n \in DOMAIN finished |-> Owner[finished[n]]]
<1>1. Len(finished) \in Nat /\ DOMAIN finished = 1 .. Len(finished)
      /\ \A n \in DOMAIN finished : finished[n] \in Items /\ finished[n] \in Nat
  <2>1. Items \subseteq Nat
    BY ItemsAreCounted
  <2>2. Len(finished) \in Nat /\ DOMAIN finished = 1 .. Len(finished)
        /\ \A n \in DOMAIN finished : finished[n] \in Items
    OBVIOUS
  <2> QED BY <2>1, <2>2
<1>2. s \in Seq(X) /\ Len(s) = Len(finished) /\ DOMAIN s = DOMAIN finished
  BY <1>1
<1>3. \A a, b \in DOMAIN s : s[a] = s[b] => a = b
  <2> TAKE a, b \in DOMAIN s
  <2> HAVE s[a] = s[b]
  <2>1. finished[a] = finished[b] /\ finished[a] \in Nat
    BY <1>1 DEF J!OwnersDiffer
  <2>2. ~(a < b) /\ ~(b < a)
    BY <1>1, <2>1 DEF J!InOrder
  <2> QED BY <1>1, <2>2
<1>4. J!Distinct(s) = s
  <2> HIDE DEF X, s
  <2> QED BY <1>2, <1>3, DistinctIsItself
<1>5. PICK k \in DOMAIN finished : finished[k] = i
  BY DEF ToImport, J!ToSet
<1>6. J!Cardinality({j \in Items : j <= i /\ result[j] = "converted"}) = k
  BY <1>5, PlaceIsRank
<1>7. k <= Len(s) /\ s[k] = Owner[i]
  BY <1>1, <1>2, <1>5
<1> HIDE DEF s
<1>8. J!Paired(s)[i] = s[k]
  BY <1>6, <1>7 DEF J!Paired
<1> QED BY <1>4, <1>7, <1>8 DEF s

-----------------------------------------------------------------------------
\* _sso_job_put, _io_job_put: what the worker keeps is the record, what Redis
\* holds is that record without its bytes or what it held before.
Same(r, q) == DOMAIN r = Fields /\ \A f \in Fields \ {"bytes"} : r[f] = q[f]

LEMMA QueuedIsLive == Live(J!Queued)
BY DEF Live, Fields, J!Queued

LEMMA PutWrites ==
  ASSUME NEW r, DOMAIN r = Fields, J!Put(r)
  PROVE  here' = r /\ (there' = there \/ Same(there', r))
<1>1. CASE there' = [r EXCEPT !.bytes = FALSE]
  <2>1. Same([r EXCEPT !.bytes = FALSE], r)
    BY DEF Same, Fields
  <2> QED BY <1>1, <2>1 DEF J!Put
<1>2. CASE UNCHANGED there
  BY <1>2 DEF J!Put
<1> QED BY <1>1, <1>2 DEF J!Put

\* Whichever copy a patch of a thread at work reads first is one that is not
\* final.
LEMMA BusyReads ==
  ASSUME Copies, at \in Busy
  PROVE  Live(J!AtHome)
BY DEF Copies, J!AtHome

\* _sso_job_patch, _io_job_patch.
LEMMA PatchWrites ==
  ASSUME Copies, at \in Busy, NEW fields, DOMAIN fields \subseteq Fields, J!Patch(fields)
  PROVE  /\ DOMAIN here' = Fields
         /\ \A f \in Fields : here'[f] = IF f \in DOMAIN fields THEN fields[f] ELSE J!AtHome[f]
         /\ there' = there \/ Same(there', here')
<1> DEFINE r == [f \in DOMAIN J!AtHome |-> IF f \in DOMAIN fields THEN fields[f] ELSE J!AtHome[f]]
<1>1. DOMAIN J!AtHome = Fields
  BY BusyReads DEF Live
<1>2. DOMAIN r = Fields
  BY <1>1
<1>3. J!Put(r)
  BY Zenon DEF J!Patch
<1>4. here' = r /\ (there' = there \/ Same(there', r))
  <2> HIDE DEF r
  <2> QED BY <1>2, <1>3, PutWrites
<1> QED BY <1>1, <1>4

\* A patch by a thread that goes on leaves no copy final.
LEMMA PatchStaysLive ==
  ASSUME Copies, at \in Busy, at' \in Busy, NEW fields, DOMAIN fields \subseteq Fields, J!Patch(fields),
         "status" \in DOMAIN fields => fields.status \in {"queued", "running"}
  PROVE  Copies'
<1>1. /\ DOMAIN here' = Fields
      /\ \A f \in Fields : here'[f] = IF f \in DOMAIN fields THEN fields[f] ELSE J!AtHome[f]
      /\ there' = there \/ Same(there', here')
  BY PatchWrites
<1>2. Live(J!AtHome)
  BY BusyReads
<1>3. "status" \in Fields /\ "status" # "bytes"
  BY DEF Fields
<1>4. Live(here)'
  BY <1>1, <1>2, <1>3 DEF Live
<1>5. (there = Absent \/ Live(there))'
  BY <1>1, <1>3, <1>4 DEF Live, Same, Copies
<1>6. \A r \in {here', there'} : ~J!Final(r)
  BY <1>4, <1>5 DEF Live, J!Final
<1>7. at' # "none" /\ at' \in Stages
  BY DEF Busy, Stages
<1> QED BY <1>4, <1>5, <1>6, <1>7 DEF Copies, J!Final

\* A thread that goes on without a patch.
LEMMA UnpublishedStaysLive ==
  ASSUME Copies, at \in Busy, at' \in Busy, UNCHANGED <<here, there>>
  PROVE  Copies'
<1>1. at' # "none" /\ at' \in Stages
  BY DEF Busy, Stages
<1>2. \A r \in {here', there'} : ~J!Final(r)
  BY DEF Copies, Live, J!Final
<1> QED BY <1>1, <1>2 DEF Copies, Live, J!Final

\* The last patch of a job publishes an end that is true.
LEMMA PatchEnds ==
  ASSUME Copies, at \in Busy, at' = "over", NEW fields, DOMAIN fields \subseteq Fields, J!Patch(fields),
         UNCHANGED <<kind, finished, accepted>>,
         \A r : /\ DOMAIN r = Fields
                /\ \A f \in Fields \ {"bytes"} : f \in DOMAIN fields => r[f] = fields[f]
                => Truth(r)
  PROVE  Copies'
<1>1. /\ DOMAIN here' = Fields
      /\ \A f \in Fields : here'[f] = IF f \in DOMAIN fields THEN fields[f] ELSE J!AtHome[f]
      /\ there' = there \/ Same(there', here')
  BY PatchWrites
<1>2. ~J!Final(there)
  BY DEF Copies, Live, J!Final
<1>3. Truth(here')
  BY <1>1
<1>4. Same(there', here') => Truth(there')
  BY <1>1 DEF Same
<1>5. \A r : Truth(r) => Truth(r)'
  BY DEF Truth, J!InOrder, J!OwnersDiffer
<1>6. at' \in Stages /\ at' \notin Busy /\ at' # "none"
  BY DEF Stages, Busy
<1> QED BY <1>1, <1>2, <1>3, <1>4, <1>5, <1>6 DEF Copies, J!Final

-----------------------------------------------------------------------------
\* Steps of the thread that convert, parse or import.
LEMMA ConvertedOne ==
  ASSUME JobInv, at = "working", UNCHANGED <<at, kind, accepted>>,
         NEW i \in Items, result[i] = "waiting", NEW good \in BOOLEAN,
         result' = [result EXCEPT ![i] = IF good THEN "converted" ELSE "failed"],
         finished' = IF good THEN Append(finished, i) ELSE finished
  PROVE  Work'
<1>1. ToImport /\ finished \in Seq(Items) /\ accepted = {}
  BY DEF JobInv, Work, Unwritten
<1>2. finished' \in Seq(Items)
  BY <1>1
<1>3. result' \in [Items -> {"waiting", "converted", "failed"}]
  BY <1>1 DEF ToImport
<1>4. J!ToSet(finished)' = IF good THEN J!ToSet(finished) \cup {i} ELSE J!ToSet(finished)
  <2>1. CASE good
    <3>1. Len(finished) \in Nat /\ DOMAIN finished = 1 .. Len(finished)
      BY <1>1
    <3>2. DOMAIN finished' = 1 .. Len(finished) + 1 /\ finished'[Len(finished) + 1] = i
          /\ \A n \in DOMAIN finished : finished'[n] = finished[n]
      BY <1>1, <2>1
    <3>3. 1 .. Len(finished) + 1 = (1 .. Len(finished)) \cup {Len(finished) + 1}
      BY <3>1
    <3> QED BY <2>1, <3>1, <3>2, <3>3 DEF J!ToSet
  <2>2. CASE ~good
    BY <2>2 DEF J!ToSet
  <2> QED BY <2>1, <2>2
<1>5. {j \in Items : result'[j] = "converted"} =
        IF good THEN {j \in Items : result[j] = "converted"} \cup {i} ELSE {j \in Items : result[j] = "converted"}
  BY <1>1 DEF ToImport
<1>6. ToImport'
  <2>1. {j \in Items : result'[j] = "converted"} = J!ToSet(finished)'
    BY <1>1, <1>4, <1>5 DEF ToImport
  <2> QED BY <1>3, <2>1 DEF ToImport
<1> QED BY <1>1, <1>2, <1>6 DEF Work, Unwritten

LEMMA ConvertKeeps ==
  ASSUME JobInv, NEW i \in Items, J!Convert(i) \/ J!Parse(i)
  PROVE  JobInv'
<1>1. PICK good \in BOOLEAN :
        /\ result' = [result EXCEPT ![i] = IF good THEN "converted" ELSE "failed"]
        /\ finished' = IF good THEN Append(finished, i) ELSE finished
  BY DEF J!Convert, J!Parse
<1>2. at = "working" /\ UNCHANGED <<at, kind, accepted>> /\ result[i] = "waiting"
  BY DEF J!Convert, J!Parse
<1>3. Work'
  BY <1>1, <1>2, ConvertedOne
<1>4. at \in Busy /\ at' \in Busy
  BY <1>2 DEF Busy
<1>5. CASE J!Unpublished
  <2>1. UNCHANGED <<here, there>>
    BY <1>5 DEF J!Unpublished
  <2>2. Copies'
    BY <1>4, <2>1, UnpublishedStaysLive DEF JobInv
  <2> QED BY <1>3, <2>2 DEF JobInv
<1>6. CASE J!Patch([done |-> J!Cardinality(Items) - J!Count("waiting") + 1, results |-> result',
               fail |-> J!Cardinality({j \in Items : result'[j] = "failed"})])
  <2> DEFINE fields == [done |-> J!Cardinality(Items) - J!Count("waiting") + 1, results |-> result',
               fail |-> J!Cardinality({j \in Items : result'[j] = "failed"})]
  <2>1. DOMAIN fields \subseteq Fields /\ "status" \notin DOMAIN fields
    BY DEF Fields
  <2> HIDE DEF fields
  <2>2. J!Patch(fields)
    BY <1>6 DEF fields
  <2> QED BY <1>3, <1>4, <2>1, <2>2, PatchStaysLive DEF JobInv
<1>7. CASE J!Patch([done |-> i, success |-> Len(finished'), results |-> result',
            fail |-> J!Cardinality({j \in Items : result'[j] = "failed"})])
  <2> DEFINE fields == [done |-> i, success |-> Len(finished'), results |-> result',
            fail |-> J!Cardinality({j \in Items : result'[j] = "failed"})]
  <2>1. DOMAIN fields \subseteq Fields /\ "status" \notin DOMAIN fields
    BY DEF Fields
  <2> HIDE DEF fields
  <2>2. J!Patch(fields)
    BY <1>7 DEF fields
  <2> QED BY <1>3, <1>4, <2>1, <2>2, PatchStaysLive DEF JobInv
<1> QED BY <1>3, <1>5, <1>6, <1>7 DEF JobInv, J!Convert, J!Parse

LEMMA BeginKeeps ==
  ASSUME JobInv, J!Begin
  PROVE  JobInv'
<1> DEFINE fields == [status |-> "running", done |-> 0, success |-> 0, fail |-> 0]
<1>1. DOMAIN fields \subseteq Fields /\ fields.status = "running"
  BY DEF Fields
<1>2. J!Patch(fields) /\ at = "queued" /\ at' = "working" /\ UNCHANGED <<kind, result, finished, named, accepted>>
  BY DEF J!Begin
<1> HIDE DEF fields
<1>3. Copies'
  BY <1>1, <1>2, PatchStaysLive DEF JobInv, Busy
<1>4. Work'
  BY <1>2 DEF JobInv, Work, Unwritten, ToImport, J!ToSet
<1> QED BY <1>3, <1>4 DEF JobInv

LEMMA StartImportKeeps ==
  ASSUME JobInv, J!StartImport
  PROVE  JobInv'
<1>1. at = "working" /\ UNCHANGED <<kind, result, finished, named, accepted>> /\ kind # "export"
      /\ J!Count("waiting") = 0
  BY DEF J!StartImport
<1>2. ToImport /\ accepted = {} /\ finished \in Seq(Items)
  BY <1>1 DEF JobInv, Work, Unwritten
<1>3. \A i \in Items : result[i] # "waiting"
  <2>1. IsFiniteSet(Items)
    BY ItemsAreCounted, StandardCounting, Zenon
  <2> DEFINE W == {i \in Items : result[i] = "waiting"}
  <2>2. W \in SUBSET Items
    OBVIOUS
  <2>3. Cardinality(W) = 0
    BY <1>1, StandardCounting, Zenon DEF J!Count
  <2> HIDE DEF W
  <2>4. IsFiniteSet(W) /\ W = {}
    BY <2>1, <2>2, <2>3, FS_Subset, FS_EmptySet
  <2> QED BY <2>4 DEF W
<1>4. CASE finished = <<>>
  <2>1. at' \in {"ending", "failing"} /\ UNCHANGED <<here, there>>
    BY <1>4 DEF J!StartImport, J!Unpublished
  <2>2. Copies'
    BY <1>1, <2>1, UnpublishedStaysLive DEF JobInv, Busy
  <2>3. J!ToSet(finished) = {}
    BY <1>4 DEF J!ToSet
  <2>4. Imported
    <3>1. \A i \in Items : result[i] = "failed"
      BY <1>2, <1>3, <2>3 DEF ToImport
    <3> QED BY <1>2, <2>3, <3>1 DEF Imported, ToImport
  <2>5. Imported'
    BY <1>1, <2>4 DEF Imported, J!ToSet, J!InOrder, J!OwnersDiffer
  <2>6. Work'
    BY <1>1, <1>2, <2>1, <2>5 DEF Work, Unwritten
  <2> QED BY <2>2, <2>6 DEF JobInv
<1>5. CASE finished # <<>>
  <2> DEFINE fields == [status |-> "running", results |-> result]
  <2>1. DOMAIN fields \subseteq Fields /\ fields.status = "running"
    BY DEF Fields
  <2>2. at' = "importing" /\ J!Patch(fields)
    BY <1>5 DEF J!StartImport
  <2> HIDE DEF fields
  <2>3. Copies'
    BY <1>1, <2>1, <2>2, PatchStaysLive DEF JobInv, Busy
  <2>4. ToImport'
    BY <1>1, <1>2, <1>3 DEF ToImport, J!ToSet
  <2>5. Work'
    BY <1>1, <1>2, <2>2, <2>4 DEF Work, Unwritten
  <2> QED BY <2>3, <2>5 DEF JobInv
<1> QED BY <1>4, <1>5

\* import_auth_payloads_bulk.  Of a job of cookies either every converted
\* cookie is imported or none is.
LEMMA ImportKeeps ==
  ASSUME JobInv, NEW usable \in SUBSET DOMAIN finished, J!Import(usable)
  PROVE  JobInv'
<1> DEFINE owners == {Owner[finished[n]] : n \in usable}
           accounts == J!Distinct([n \in DOMAIN finished |-> Owner[finished[n]]])
<1>1. /\ at = "importing" /\ UNCHANGED <<kind, finished, here, there>>
      /\ at' \in {"ending", "failing"} /\ (kind = "sso" => at' = "ending")
      /\ at' = "failing" => usable = {}
      /\ accepted' = owners
  BY DEF J!Import, J!Unpublished
<1>2. ToImport /\ finished \in Seq(Items)
  BY <1>1 DEF JobInv, Work
<1>3. Copies'
  BY <1>1, UnpublishedStaysLive DEF JobInv, Busy
<1>4. ASSUME kind = "sso" PROVE Imported'
  <2>1. /\ usable = {} \/ usable = DOMAIN finished
        /\ result' = [i \in Items |-> IF result[i] # "converted" THEN result[i]
                                      ELSE IF usable = {} THEN "failed" ELSE "ok"]
        /\ named' = IF usable # {} THEN J!Paired(accounts) ELSE named
    <3> HIDE DEF accounts
    <3>1. kind = "sso" => usable \in {{}, DOMAIN finished}
      BY Zenon DEF J!Import
    <3>2. result' = [i \in Items |-> IF result[i] # "converted" THEN result[i]
                                      ELSE IF kind = "sso" THEN (IF usable = {} THEN "failed" ELSE "ok")
                                      ELSE IF \E n \in usable : finished[n] = i THEN "ok" ELSE "failed"]
      BY Zenon DEF J!Import
    <3>3. named' = IF kind = "sso" /\ usable # {} THEN J!Paired(accounts) ELSE named
      BY Zenon DEF J!Import, accounts
    <3> QED BY <1>4, <3>1, <3>2, <3>3
  <2> HIDE DEF accounts
  <2>2. result' \in [Items -> {"ok", "failed"}]
    BY <1>1, <1>2, <2>1 DEF ToImport
  <2>3. \A i \in Items : result'[i] = "ok" <=> (result[i] = "converted" /\ usable # {})
    BY <1>1, <1>2, <2>1 DEF ToImport
  <2>4. J!ToSet(finished) = {finished[n] : n \in DOMAIN finished}
    BY DEF J!ToSet
  <2>5. \A i \in Items : result'[i] = "ok" <=> (i \in J!ToSet(finished) /\ Owner[i] \in accepted')
    <3>1. CASE usable = {}
      BY <1>1, <2>3, <3>1
    <3>2. CASE usable = DOMAIN finished
      <4>1. \A i \in J!ToSet(finished) : Owner[i] \in accepted' /\ usable # {}
        BY <1>1, <2>4, <3>2
      <4>2. \A i \in Items : result[i] = "converted" <=> i \in J!ToSet(finished)
        BY <1>2 DEF ToImport
      <4> QED BY <2>3, <4>1, <4>2
    <3> QED BY <2>1, <3>1, <3>2
  <2>6. ASSUME J!InOrder, J!OwnersDiffer, NEW i \in Items, result'[i] = "ok" PROVE named'[i] = Owner[i]
    <3>1. named' = J!Paired(accounts) /\ result[i] = "converted"
      BY <2>1, <2>3, <2>6
    <3> QED BY <1>2, <2>6, <3>1, PairedInOrder DEF accounts
  <2>7. UNCHANGED <<J!InOrder, J!OwnersDiffer, J!ToSet(finished)>>
    BY <1>1 DEF J!InOrder, J!OwnersDiffer, J!ToSet
  <2> QED BY <2>2, <2>5, <2>6, <2>7 DEF Imported
<1>5. at' = "failing" => accepted' = {}
  BY <1>1
<1>6. Work'
  <2> HIDE DEF owners, accounts
  <2> QED BY <1>1, <1>2, <1>4, <1>5 DEF Work, Unwritten
<1> QED BY <1>3, <1>6 DEF JobInv

\* The end of a thread that met no error, and of one that did.
LEMMA FinishKeeps ==
  ASSUME JobInv, J!Finish
  PROVE  JobInv'
<1>1. at = "ending" /\ at' = "over" /\ UNCHANGED <<kind, result, finished, named, accepted>> /\ J!Patch(J!Outcome)
  BY DEF J!Finish
<1>2. Copies /\ at \in Busy
  BY <1>1 DEF JobInv, Busy
<1>3. DOMAIN J!Outcome \subseteq Fields
  BY DEF J!Outcome, Fields
<1>4. ASSUME NEW r, DOMAIN r = Fields, \A f \in Fields \ {"bytes"} : f \in DOMAIN J!Outcome => r[f] = J!Outcome[f]
      PROVE  Truth(r)
  <2>1. CASE kind = "sso"
    <3>1. J!Outcome = [status |-> "done", done |-> J!Cardinality(Items), success |-> J!Count("ok"),
                       fail |-> J!Count("failed"), results |-> result, named |-> named]
      BY <2>1 DEF J!Outcome
    <3>2. r.status = "done" /\ r.success = J!Count("ok") /\ r.fail = J!Count("failed") /\ r.results = result
          /\ r.named = named
      BY <1>4, <3>1 DEF Fields
    <3>3. Imported
      BY <1>1, <2>1 DEF JobInv, Work
    <3>4. r.success + r.fail = J!Cardinality(Items)
      BY <3>2, <3>3, ResultsAddUp DEF Imported
    <3> QED BY <2>1, <3>2, <3>3, <3>4 DEF Imported, Truth
  <2>2. CASE kind = "json"
    <3>1. J!Outcome = [status |-> IF J!Unparsed = 0 THEN "done" ELSE "partial",
                       success |-> J!Cardinality(accepted), fail |-> J!Unparsed]
      BY <2>2 DEF J!Outcome
    <3>2. r.status \in {"done", "partial"} /\ r.success = J!Cardinality(accepted)
      BY <1>4, <3>1 DEF Fields
    <3> QED BY <2>2, <3>2 DEF Truth
  <2>3. CASE kind \notin {"sso", "json"}
    <3>1. J!Outcome = [status |-> "done", success |-> J!Cardinality(Items), bytes |-> TRUE]
      BY <2>3 DEF J!Outcome
    <3>2. r.status = "done"
      BY <1>4, <3>1 DEF Fields
    <3> QED BY <2>3, <3>2 DEF Truth
  <2> QED BY <2>1, <2>2, <2>3
<1>5. Copies'
  <2> HIDE DEF J!Outcome
  <2> QED BY <1>1, <1>2, <1>3, <1>4, PatchEnds
<1>6. Work'
  BY <1>1 DEF JobInv, Work, Unwritten
<1> QED BY <1>5, <1>6 DEF JobInv

LEMMA FailKeeps ==
  ASSUME JobInv, J!Fail
  PROVE  JobInv'
<1>1. at = "failing" /\ at' = "over" /\ UNCHANGED <<kind, result, finished, named, accepted>>
  BY DEF J!Fail
<1>2. Copies /\ at \in Busy /\ accepted = {}
  BY <1>1 DEF JobInv, Busy, Work, Unwritten
<1> DEFINE fields == IF kind = "json" /\ disturbed \cap {"error"} = {}
             THEN [status |-> "error", success |-> 0, fail |-> J!Cardinality(Items)] ELSE [status |-> "error"]
<1>3. DOMAIN fields \subseteq Fields /\ "status" \in DOMAIN fields /\ fields.status = "error"
  BY DEF Fields
<1>4. J!Patch(fields)
  BY DEF J!Fail
<1> HIDE DEF fields
<1>5. ASSUME NEW r, DOMAIN r = Fields, \A f \in Fields \ {"bytes"} : f \in DOMAIN fields => r[f] = fields[f]
      PROVE  Truth(r)
  <2>1. r.status = "error"
    BY <1>3, <1>5 DEF Fields
  <2> QED BY <1>2, <2>1 DEF Truth
<1>6. Copies'
  BY <1>1, <1>2, <1>3, <1>4, <1>5, PatchEnds
<1>7. Work'
  BY <1>1 DEF JobInv, Work, Unwritten
<1> QED BY <1>6, <1>7 DEF JobInv

LEMMA JobStep ==
  ASSUME JobInv, [J!Next]_jobVars
  PROVE  JobInv'
<1>1. CASE J!Submit
  <2>1. at = "none" /\ at' = "queued" /\ UNCHANGED <<kind, result, finished, named, accepted>> /\ J!Put(J!Queued)
    BY <1>1 DEF J!Submit
  <2>2. Live(J!Queued)
    BY QueuedIsLive
  <2>3. there = Absent /\ here' = J!Queued /\ (there' = there \/ Same(there', J!Queued))
    <3>1. DOMAIN J!Queued = Fields
      BY <2>2 DEF Live
    <3> HIDE DEF J!Queued
    <3> QED BY <2>1, <3>1, PutWrites DEF JobInv, Copies
  <2>4. Live(here)' /\ (there = Absent \/ Live(there))'
    <3> HIDE DEF J!Queued
    <3> QED BY <2>2, <2>3 DEF Live, Same, Fields
  <2>5. Copies'
    BY <2>1, <2>4 DEF Copies, Stages, Busy, Live, J!Final
  <2>6. Work'
    BY <2>1 DEF JobInv, Work, Unwritten, ToImport, J!ToSet
  <2> QED BY <2>5, <2>6 DEF JobInv
<1>2. CASE J!Export
  <2>1. at = "working" /\ at' \in {"ending", "failing"} /\ kind = "export"
        /\ UNCHANGED <<kind, result, finished, named, accepted>>
    BY <1>2 DEF J!Export
  <2>2. Copies'
    <3>1. at \in Busy /\ at' \in Busy
      BY <2>1 DEF Busy
    <3>2. CASE UNCHANGED <<here, there>>
      BY <3>1, <3>2, UnpublishedStaysLive DEF JobInv
    <3>3. CASE J!Patch([status |-> "running", done |-> J!Cardinality(Items)])
      <4> DEFINE fields == [status |-> "running", done |-> J!Cardinality(Items)]
      <4>1. DOMAIN fields \subseteq Fields /\ fields.status = "running" /\ J!Patch(fields)
        BY <3>3 DEF Fields
      <4> HIDE DEF fields
      <4> QED BY <3>1, <4>1, PatchStaysLive DEF JobInv
    <3> QED BY <1>2, <3>2, <3>3 DEF J!Export, J!Unpublished
  <2>3. Work'
    BY <2>1 DEF JobInv, Work, Unwritten
  <2> QED BY <2>2, <2>3 DEF JobInv
<1>3. CASE J!Raise
  <2>1. at \in {"working", "importing"} /\ at' = "failing"
        /\ UNCHANGED <<kind, result, finished, named, accepted, here, there>>
    BY <1>3 DEF J!Raise
  <2>2. Copies'
    BY <2>1, UnpublishedStaysLive DEF JobInv, Busy
  <2>3. Work'
    BY <2>1 DEF JobInv, Work, Unwritten
  <2> QED BY <2>2, <2>3 DEF JobInv
<1>4. CASE J!Crash
  <2>1. at \notin {"none", "dead"} /\ at' = "dead" /\ here' = Absent
        /\ UNCHANGED <<kind, result, finished, named, accepted, there>>
    BY <1>4 DEF J!Crash
  <2>2. \A r : Truth(r) => Truth(r)'
    BY <2>1 DEF Truth, J!InOrder, J!OwnersDiffer
  <2>3. Copies'
    BY <2>1, <2>2 DEF JobInv, Copies, Stages, Busy, J!Final
  <2>4. Work'
    BY <2>1 DEF JobInv, Work, Unwritten
  <2> QED BY <2>3, <2>4 DEF JobInv
<1>5. CASE J!Lapse
  <2>1. there' = Absent /\ there # Absent /\ UNCHANGED <<kind, at, result, finished, named, accepted, here>>
    BY <1>5 DEF J!Lapse
  <2>2. \A r : Truth(r) => Truth(r)'
    BY <2>1 DEF Truth, J!InOrder, J!OwnersDiffer
  <2>3. Copies'
    BY <2>1, <2>2 DEF JobInv, Copies, Live, J!Final
  <2>4. Work'
    BY <2>1 DEF JobInv, Work, ToImport, Imported, J!ToSet, J!InOrder, J!OwnersDiffer
  <2> QED BY <2>3, <2>4 DEF JobInv
<1>6. CASE UNCHANGED jobVars
  <2>1. UNCHANGED <<kind, at, result, finished, named, accepted, here, there>>
    BY <1>6 DEF jobVars
  <2>2. \A r : Truth(r) => Truth(r)'
    BY <2>1 DEF Truth, J!InOrder, J!OwnersDiffer
  <2>3. Copies'
    BY <2>1, <2>2 DEF JobInv, Copies, Live, J!Final
  <2>4. Work'
    BY <2>1 DEF JobInv, Work, ToImport, Imported, J!ToSet, J!InOrder, J!OwnersDiffer
  <2> QED BY <2>3, <2>4 DEF JobInv
<1> QED BY <1>1, <1>2, <1>3, <1>4, <1>5, <1>6, BeginKeeps, ConvertKeeps, StartImportKeeps, ImportKeeps,
           FinishKeeps, FailKeeps DEF J!Next, J!Thread

(* What a poller reads of a job that is over has happened, for any number of *)
(* cookies or files and whatever failed on the way: an error left the pool   *)
(* as it was, each result that is "ok" is an account in the pool, and the    *)
(* counts agree with the results (_sso_job_worker, _io_import_worker,        *)
(* _sso_job_put, _io_job_put).                                               *)
THEOREM JobReportsAreTrue == Spec => []OverTellsTruth
<1>1. Init => JobInv
  <2> SUFFICES ASSUME Init PROVE JobInv
    OBVIOUS
  <2>1. at = "none" /\ here = Absent /\ there = Absent /\ finished = <<>> /\ accepted = {}
        /\ result = [i \in Items |-> "waiting"]
    BY DEF Init, J!Init, J!Queued
  <2>2. Copies
    BY <2>1 DEF Copies, Stages, Busy, J!Final
  <2>3. Work
    BY <2>1 DEF Work, ToImport, Unwritten, J!ToSet
  <2> QED BY <2>2, <2>3 DEF JobInv
<1>2. JobInv /\ [J!Next]_jobVars => JobInv'
  BY JobStep
<1>3. [Next]_vars => [J!Next]_jobVars
  BY StepOfAPart
<1>4. JobInv => OverTellsTruth
  BY DEF JobInv, Copies, Truth, OverTellsTruth, J!OverTellsTruth
<1> QED BY <1>1, <1>2, <1>3, <1>4, PTL DEF Spec
=============================================================================
