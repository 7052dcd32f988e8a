-------------------------- MODULE ReadyLease_proofs --------------------------
(***************************************************************************)
(* Proofs about ReadyLease, for any accounts and requests, any limit and   *)
(* any number of disruptions.                                              *)
(***************************************************************************)
EXTENDS ReadyLease, FiniteSetTheorems, TLAPS

USE DEF leaseVars, requestVars

-----------------------------------------------------------------------------
(* Types, and what a request's place in the code says of its variables.      *)

Typing == TypeOK /\ RequestsConsistent

LEMMA ReturnedTyped ==
  ASSUME TypeOK, NEW j \in releases, Returned(j)
  PROVE  releases' \subseteq Release
<1>1. [j EXCEPT !.at = "decr", !.more = 0] \in Release
  BY DEF TypeOK, Release
<1> QED BY <1>1 DEF TypeOK, Returned

(* The steps that touch only the leases.                                     *)
LEMMA LeaseStepTyped ==
  ASSUME Typing, UNCHANGED <<ready, requestVars>>,
         count' \in [Accounts -> Int], ttl' \in [Accounts -> BOOLEAN],
         releases' \subseteq Release, disruptions' \in 0..MaxDisruptions
  PROVE  Typing'
BY DEF Typing, TypeOK, RequestsConsistent, Holds, Looking

LEMMA DisruptTyped ==
  ASSUME TypeOK, Disrupt
  PROVE  disruptions' \in 0..MaxDisruptions /\ disruptions' # 0
BY LeaseConstants DEF TypeOK, Disrupt

LEMMA EndTyped ==
  ASSUME Typing, NEW r \in Requests, End(r), ready' \subseteq Accounts,
         count' \in [Accounts -> Int], ttl' \in [Accounts -> BOOLEAN],
         releases' \subseteq Release, disruptions' \in 0..MaxDisruptions
  PROVE  Typing'
<1>1. TypeOK'
  BY LeaseConstants DEF Typing, TypeOK, End, PCs, Nexts
<1>2. RequestsConsistent'
  <2> SUFFICES ASSUME NEW q \in Requests PROVE RequestsConsistent!(q)'
    BY DEF RequestsConsistent
  <2>1. CASE q = r
    BY <2>1 DEF Typing, TypeOK, End, Holds, Looking
  <2>2. CASE q # r
    BY <2>2 DEF Typing, TypeOK, End, Holds, Looking, RequestsConsistent
  <2> QED BY <2>1, <2>2
<1> QED BY <1>1, <1>2 DEF Typing

LEMMA GoOnTyped ==
  ASSUME Typing, NEW r \in Requests, NEW next \in Nexts, GoOn(r, next),
         next # "ended" => attempt[r] < MaxAttempts /\ ~started[r],
         ready' \subseteq Accounts,
         count' \in [Accounts -> Int], ttl' \in [Accounts -> BOOLEAN],
         releases' \subseteq Release, disruptions' \in 0..MaxDisruptions
  PROVE  Typing'
<1>1. CASE next = "ended"
  BY <1>1, EndTyped DEF GoOn
<1>2. CASE next # "ended"
  <2>1. /\ using' = [using EXCEPT ![r] = NoAccount]
        /\ pc' = [pc EXCEPT ![r] = next]
        /\ then' = [then EXCEPT ![r] = "ended"]
        /\ UNCHANGED <<ids, tried, attempt, started>>
    BY <1>2 DEF GoOn
  <2>2. TypeOK'
    BY <2>1 DEF Typing, TypeOK, PCs, Nexts
  <2>3. RequestsConsistent'
    <3> SUFFICES ASSUME NEW q \in Requests PROVE RequestsConsistent!(q)'
      BY DEF RequestsConsistent
    <3>1. CASE q = r
      BY <1>2, <2>1, <3>1 DEF Typing, TypeOK, Holds, Looking, Nexts
    <3>2. CASE q # r
      BY <2>1, <3>2 DEF Typing, TypeOK, Holds, Looking, RequestsConsistent
    <3> QED BY <3>1, <3>2
  <2> QED BY <2>2, <2>3 DEF Typing
<1> QED BY <1>1, <1>2

(* A request starts n releases of its account and waits.                     *)
LEMMA ReleaseTyped ==
  ASSUME Typing, NEW r \in Requests, pc[r] \in {"load", "serve"},
         NEW n \in {1, 2}, NEW why \in Whys, NEW next \in Nexts,
         ReleaseAndThen(r, why, n, next),
         next # "ended" => attempt[r] < MaxAttempts /\ ~started[r],
         UNCHANGED <<ready, leaseVars, ids, tried, attempt, using, started,
                     disruptions>>
  PROVE  Typing'
<1>1. using[r] \in Accounts
  BY DEF Typing, TypeOK, RequestsConsistent, Holds
<1>2. [by |-> r, of |-> using[r], why |-> why, at |-> "decr", more |-> n - 1]
        \in Release
  BY <1>1 DEF Release
<1>3. TypeOK'
  BY <1>2 DEF Typing, TypeOK, ReleaseAndThen, PCs
<1>4. RequestsConsistent'
  <2> SUFFICES ASSUME NEW q \in Requests PROVE RequestsConsistent!(q)'
    BY DEF RequestsConsistent
  <2>1. CASE q = r
    BY <1>1, <2>1, NoAccountIsNone DEF Typing, TypeOK, ReleaseAndThen, Holds, Looking
  <2>2. CASE q # r
    BY <2>2 DEF Typing, TypeOK, ReleaseAndThen, Holds, Looking, RequestsConsistent
  <2> QED BY <2>1, <2>2
<1> QED BY <1>3, <1>4 DEF Typing

LEMMA SuccessTyped ==
  ASSUME Typing, NEW r \in Requests, pc[r] = "serve", NoteSuccess(r)
  PROVE  releases' \subseteq Release
<1>1. using[r] \in Accounts
  BY DEF Typing, TypeOK, RequestsConsistent, Holds
<1> QED BY <1>1 DEF NoteSuccess, Release, Whys, Typing, TypeOK

LEMMA ClaimTyped ==
  ASSUME TypeOK, NEW a \in Accounts, ClaimPreferred(a)
  PROVE  count' \in [Accounts -> Int] /\ ttl' \in [Accounts -> BOOLEAN]
BY DEF TypeOK, ClaimPreferred

LEMMA DropTyped ==
  ASSUME TypeOK, NEW a \in Accounts, DropKey(a)
  PROVE  count' \in [Accounts -> Int] /\ ttl' \in [Accounts -> BOOLEAN]
BY DEF TypeOK, DropKey

LEMMA TypingStep ==
  ASSUME Typing, [Next]_vars
  PROVE  Typing'
<1>0. TypeOK /\ RequestsConsistent
  BY DEF Typing
<1>1. ASSUME NEW r \in Requests, List(r) PROVE Typing'
  <2>1. TypeOK'
    BY <1>0, <1>1 DEF List, TypeOK, PCs
  <2>2. RequestsConsistent'
    BY <1>0, <1>1 DEF List, TypeOK, RequestsConsistent, Holds, Looking
  <2> QED BY <2>1, <2>2 DEF Typing
<1>2. ASSUME NEW r \in Requests, Exhausted(r) PROVE Typing'
  BY <1>0, <1>2, EndTyped DEF Exhausted, TypeOK
<1>3. ASSUME NEW r \in Requests, NEW a \in Accounts, Skip(r, a) PROVE Typing'
  <2>1. TypeOK'
    BY <1>0, <1>3 DEF Skip, Candidate, TypeOK
  <2>2. RequestsConsistent'
    BY <1>0, <1>3 DEF Skip, RequestsConsistent, Holds, Looking
  <2> QED BY <2>1, <2>2 DEF Typing
<1>4. ASSUME NEW r \in Requests, NEW a \in Accounts, Candidate(r, a), Picked(r, a),
             count' \in [Accounts -> Int], ttl' \in [Accounts -> BOOLEAN],
             disruptions' \in 0..MaxDisruptions
      PROVE  Typing'
  <2>1. TypeOK'
    BY <1>0, <1>4 DEF Candidate, Picked, TypeOK, PCs
  <2>2. RequestsConsistent'
    BY <1>0, <1>4, NoAccountIsNone
       DEF Candidate, Picked, TypeOK, RequestsConsistent, Holds, Looking
  <2> QED BY <2>1, <2>2 DEF Typing
<1>5. ASSUME NEW r \in Requests, NEW a \in Accounts,
             Claim(r, a) \/ PickUnleased(r, a)
      PROVE  Typing'
  <2>1. CASE Claim(r, a)
    BY <1>0, <1>4, <2>1, ClaimTyped DEF Claim, TypeOK
  <2>2. CASE PickUnleased(r, a)
    BY <1>0, <1>4, <2>2, DisruptTyped DEF PickUnleased, TypeOK
  <2> QED BY <1>5, <2>1, <2>2
<1>6. ASSUME NEW r \in Requests, Load(r) PROVE Typing'
  <2>1. attempt[r] < MaxAttempts
    BY <1>0, <1>6 DEF Load, RequestsConsistent, Looking
  <2>2. TypeOK'
    BY <1>0, <1>6, <2>1, LeaseConstants DEF Load, TypeOK, PCs
  <2>3. RequestsConsistent'
    <3> SUFFICES ASSUME NEW q \in Requests PROVE RequestsConsistent!(q)'
      BY DEF RequestsConsistent
    <3>1. CASE q = r
      BY <1>0, <1>6, <3>1 DEF Load, TypeOK, RequestsConsistent, Holds, Looking
    <3>2. CASE q # r
      BY <1>0, <1>6, <3>2 DEF Load, TypeOK, RequestsConsistent, Holds, Looking
    <3> QED BY <3>1, <3>2
  <2> QED BY <2>2, <2>3 DEF Typing
<1>7. ASSUME NEW r \in Requests, LoadFails(r) PROVE Typing'
  BY <1>0, <1>7, ReleaseTyped
     DEF LoadFails, RequestsConsistent, Looking, Nexts, Whys
<1>8. ASSUME NEW r \in Requests, PickAgain(r) PROVE Typing'
  <2>1. count' \in [Accounts -> Int] /\ ttl' \in [Accounts -> BOOLEAN]
    <3>1. using[r] \in Accounts
      BY <1>0, <1>8 DEF PickAgain, TypeOK, RequestsConsistent, Holds
    <3> QED BY <1>0, <1>8, <3>1, ClaimTyped DEF PickAgain, TypeOK
  <2>2. TypeOK'
    BY <1>0, <1>8, <2>1 DEF PickAgain, TypeOK, PCs
  <2>3. RequestsConsistent'
    BY <1>0, <1>8 DEF PickAgain, TypeOK, RequestsConsistent, Holds, Looking
  <2> QED BY <2>2, <2>3 DEF Typing
<1>9. ASSUME NEW r \in Requests, FirstBytes(r) PROVE Typing'
  <2>1. releases' \subseteq Release
    BY <1>9, SuccessTyped DEF FirstBytes
  <2>2. TypeOK'
    BY <1>0, <1>9, <2>1 DEF FirstBytes, TypeOK
  <2>3. RequestsConsistent'
    BY <1>0, <1>9 DEF FirstBytes, TypeOK, RequestsConsistent, Holds, Looking
  <2> QED BY <2>2, <2>3 DEF Typing
<1>10. ASSUME NEW r \in Requests, Finish(r) \/ Cancel(r) PROVE Typing'
  <2>1. releases' \subseteq Release
    BY <1>0, <1>10, SuccessTyped DEF Finish, Cancel, TypeOK
  <2> QED BY <1>0, <1>10, <2>1, EndTyped DEF Finish, Cancel, TypeOK
<1>11. ASSUME NEW r \in Requests, NEW n \in {1, 2}, Fail(r, n) PROVE Typing'
  <2>1. PICK next \in Onward(r) : ReleaseAndThen(r, "failure", n, next)
    BY <1>11 DEF Fail
  <2>2. next \in Nexts /\ (next # "ended" => attempt[r] < MaxAttempts /\ ~started[r])
    BY DEF Onward, MayRetry, Nexts
  <2> QED BY <1>11, <2>1, <2>2, ReleaseTyped DEF Fail, Whys
<1>12. ASSUME NEW r \in Requests, LocalError(r) PROVE Typing'
  <2>1. PICK next \in Onward(r) : GoOn(r, next)
    BY <1>12 DEF LocalError
  <2>2. next \in Nexts /\ (next # "ended" => attempt[r] < MaxAttempts /\ ~started[r])
    BY DEF Onward, MayRetry, Nexts
  <2> QED BY <1>0, <1>12, <2>1, <2>2, GoOnTyped DEF LocalError, TypeOK
<1>13. ASSUME NEW r \in Requests, Proceed(r) PROVE Typing'
  <2>1. then[r] \in Nexts
    BY <1>0 DEF TypeOK
  <2>2. then[r] # "ended" => attempt[r] < MaxAttempts /\ ~started[r]
    BY <1>0, <1>13 DEF Proceed, RequestsConsistent, Looking
  <2>3. count' \in [Accounts -> Int] /\ ttl' \in [Accounts -> BOOLEAN]
    <3>1. using[r] \in Accounts
      BY <1>0, <1>13 DEF Proceed, TypeOK, RequestsConsistent, Holds
    <3> QED BY <1>0, <1>13, <3>1, DropTyped DEF Proceed, TypeOK
  <2> QED BY <1>0, <1>13, <2>1, <2>2, <2>3, GoOnTyped DEF Proceed, TypeOK
<1>14. ASSUME NEW r \in Requests, Crash(r) PROVE Typing'
  <2>1. releases' \subseteq Release
    BY <1>0, <1>14 DEF Crash, TypeOK
  <2> QED BY <1>0, <1>14, <2>1, DisruptTyped, EndTyped DEF Crash, TypeOK
<1>15. ASSUME NEW j \in releases, Decr(j) PROVE Typing'
  <2>1. count' \in [Accounts -> Int]
    <3>1. j.of \in Accounts
      BY <1>0 DEF TypeOK, Release
    <3>2. count[j.of] - 1 \in Int /\ count' = [count EXCEPT ![j.of] = count[j.of] - 1]
      BY <1>0, <1>15, <3>1 DEF Decr, TypeOK
    <3> QED BY <1>0, <3>2 DEF TypeOK
  <2>2. [j EXCEPT !.at = AfterDecr(count[j.of] - 1)] \in Release
    BY <1>0 DEF TypeOK, Release, AfterDecr
  <2>3. releases' \subseteq Release
    BY <1>0, <1>15, <2>2 DEF Decr, TypeOK
  <2> QED BY <1>0, <1>15, <2>1, <2>3, LeaseStepTyped DEF Decr, TypeOK
<1>16. ASSUME NEW j \in releases, Del(j) PROVE Typing'
  <2>1. j.of \in Accounts
    BY <1>0 DEF TypeOK, Release
  <2> QED BY <1>0, <1>16, <2>1, DropTyped, ReturnedTyped, LeaseStepTyped DEF Del, TypeOK
<1>17. ASSUME NEW j \in releases, Expire(j) PROVE Typing'
  <2>1. ttl' \in [Accounts -> BOOLEAN]
    BY <1>0, <1>17 DEF Expire, TypeOK
  <2> QED BY <1>0, <1>17, <2>1, ReturnedTyped, LeaseStepTyped DEF Expire, TypeOK
<1>18. ASSUME NEW j \in releases, ReleaseFails(j) PROVE Typing'
  <2>1. count' \in [Accounts -> Int]
    BY <1>0, <1>18 DEF ReleaseFails, TypeOK
  <2> QED
    BY <1>0, <1>18, <2>1, DisruptTyped, ReturnedTyped, LeaseStepTyped
       DEF ReleaseFails, TypeOK
<1>19. ASSUME NEW a \in Accounts, TimeUp(a) PROVE Typing'
  <2>1. disruptions' \in 0..MaxDisruptions
    BY <1>0, <1>19, DisruptTyped DEF TimeUp, TypeOK
  <2> QED BY <1>0, <1>19, <2>1, DropTyped, LeaseStepTyped DEF TimeUp, TypeOK
<1>20. ASSUME NEW a \in Accounts, Readmit(a) PROVE Typing'
  BY <1>0, <1>20 DEF Readmit, Typing, TypeOK, RequestsConsistent, Holds, Looking
<1>21. CASE UNCHANGED vars
  BY <1>0, <1>21 DEF vars, Typing, TypeOK, RequestsConsistent, Holds, Looking
<1> QED
  BY <1>1, <1>2, <1>3, <1>5, <1>6, <1>7, <1>8, <1>9, <1>10, <1>11, <1>12, <1>13,
     <1>14, <1>15, <1>16, <1>17, <1>18, <1>19, <1>20, <1>21 DEF Next, Step

LEMMA TypingAlways == Spec => []Typing
<1>1. Init => Typing
  BY LeaseConstants, NoAccountIsNone
     DEF Init, Typing, TypeOK, RequestsConsistent, Holds, Looking, PCs, Nexts
<1> QED BY <1>1, TypingStep, PTL DEF Spec
-----------------------------------------------------------------------------
(* The lease counters.                                                       *)

Leases == LeaseCap /\ LeasesExpire /\ DebtIsPassing

LEMMA ClaimKeepsLeases ==
  ASSUME Typing, Leases, NEW a \in Accounts, ClaimPreferred(a),
         releases \subseteq releases', disruptions' = disruptions
  PROVE  Leases'
<1>1. /\ count' = [count EXCEPT ![a] = count[a] + 1]
      /\ ttl' = [ttl EXCEPT ![a] = TRUE]
      /\ count \in [Accounts -> Int] /\ ttl \in [Accounts -> BOOLEAN]
      /\ count[a] < MaxInflight
  BY DEF ClaimPreferred, Claimable, Typing, TypeOK
<1>2. LeaseCap' /\ LeasesExpire'
  BY <1>1, LeaseConstants DEF Leases, LeaseCap, LeasesExpire
<1>3. DebtIsPassing'
  BY <1>1 DEF Leases, DebtIsPassing
<1> QED BY <1>2, <1>3 DEF Leases

LEMMA DropKeepsLeases ==
  ASSUME Typing, Leases, NEW a \in Accounts, DropKey(a),
         \A j \in releases : j.of # a => j \in releases',
         disruptions' = 0 => disruptions = 0
  PROVE  Leases'
<1>1. /\ count' = [count EXCEPT ![a] = 0]
      /\ ttl' = [ttl EXCEPT ![a] = FALSE]
      /\ count \in [Accounts -> Int] /\ ttl \in [Accounts -> BOOLEAN]
  BY DEF DropKey, Typing, TypeOK
<1>2. LeaseCap' /\ LeasesExpire'
  BY <1>1, LeaseConstants DEF Leases, LeaseCap, LeasesExpire
<1>3. DebtIsPassing'
  BY <1>1 DEF Leases, DebtIsPassing
<1> QED BY <1>2, <1>3 DEF Leases

(* Nothing happens to the counters, and no pending DEL is lost.              *)
LEMMA QuietKeepsLeases ==
  ASSUME Leases, UNCHANGED leaseVars,
         disruptions' = 0 =>
           disruptions = 0 /\ \A j \in releases : j.at = "del" => j \in releases'
  PROVE  Leases'
BY DEF Leases, LeaseCap, LeasesExpire, DebtIsPassing

LEMMA LeasesStep ==
  ASSUME Typing, Leases, [Next]_vars
  PROVE  Leases'
<1>0. /\ TypeOK /\ RequestsConsistent
      /\ count \in [Accounts -> Int] /\ ttl \in [Accounts -> BOOLEAN]
      /\ \A j \in releases : j.of \in Accounts
      /\ disruptions \in 0..MaxDisruptions
  BY DEF Typing, TypeOK, Release
<1>1. ASSUME NEW r \in Requests, Holds(r) PROVE using[r] \in Accounts
  BY <1>0, <1>1 DEF TypeOK, RequestsConsistent
<1>2. ASSUME NEW r \in Requests, NEW a \in Accounts, Claim(r, a) PROVE Leases'
  BY <1>2, ClaimKeepsLeases DEF Claim, Picked
<1>3. ASSUME NEW r \in Requests, PickAgain(r) PROVE Leases'
  <2>1. using[r] \in Accounts
    BY <1>1, <1>3 DEF PickAgain, Holds
  <2>2. CASE ClaimPreferred(using[r])
    BY <1>3, <2>1, <2>2, ClaimKeepsLeases DEF PickAgain
  <2>3. CASE UNCHANGED leaseVars
    BY <1>3, <2>3, QuietKeepsLeases DEF PickAgain
  <2> QED BY <1>3, <2>2, <2>3 DEF PickAgain
<1>4. ASSUME NEW r \in Requests, Proceed(r) PROVE Leases'
  <2>1. using[r] \in Accounts
    BY <1>1, <1>4 DEF Proceed, Holds
  <2>2. CASE DropKey(using[r])
    BY <1>4, <2>1, <2>2, DropKeepsLeases DEF Proceed
  <2>3. CASE UNCHANGED leaseVars
    BY <1>4, <2>3, QuietKeepsLeases DEF Proceed
  <2> QED BY <1>4, <2>2, <2>3 DEF Proceed
<1>5. ASSUME NEW r \in Requests,
             \/ List(r) \/ Exhausted(r) \/ Load(r) \/ Cancel(r) \/ LocalError(r)
             \/ \E a \in Accounts : Skip(r, a)
      PROVE  Leases'
  BY <1>5, QuietKeepsLeases
     DEF List, Exhausted, Load, Cancel, LocalError, Skip
<1>6. ASSUME NEW r \in Requests,
             \/ LoadFails(r) \/ FirstBytes(r) \/ Finish(r)
             \/ \E n \in {1, 2} : Fail(r, n)
      PROVE  Leases'
  <2>1. releases \subseteq releases'
    BY <1>6
       DEF LoadFails, FirstBytes, Finish, Fail, ReleaseAndThen, NoteSuccess
  <2>2. UNCHANGED leaseVars /\ UNCHANGED disruptions
    BY <1>6 DEF LoadFails, FirstBytes, Finish, Fail
  <2> QED BY <2>1, <2>2, QuietKeepsLeases
<1>7. ASSUME NEW r \in Requests,
             Crash(r) \/ \E a \in Accounts : PickUnleased(r, a)
      PROVE  Leases'
  <2>1. UNCHANGED leaseVars /\ Disrupt
    BY <1>7 DEF Crash, PickUnleased
  <2> QED BY <1>0, <2>1, DisruptTyped, QuietKeepsLeases
<1>8. ASSUME NEW j \in releases, Decr(j) PROVE Leases'
  <2>1. /\ count' = [count EXCEPT ![j.of] = count[j.of] - 1]
        /\ ttl' = ttl /\ disruptions' = disruptions
        /\ releases' = (releases \ {j}) \cup
                       {[j EXCEPT !.at = AfterDecr(count[j.of] - 1)]}
    BY <1>0, <1>8 DEF Decr
  <2>2. LeaseCap' /\ LeasesExpire'
    BY <1>0, <2>1, LeaseConstants DEF Leases, LeaseCap, LeasesExpire
  <2>3. DebtIsPassing'
    <3> SUFFICES ASSUME disruptions = 0, NEW a \in Accounts, count'[a] < 0
                 PROVE  \E k \in releases' : k.of = a /\ k.at = "del"
      BY <2>1 DEF DebtIsPassing
    <3>1. CASE a = j.of
      <4> DEFINE k == [j EXCEPT !.at = AfterDecr(count[j.of] - 1)]
      <4>1. count[j.of] - 1 <= 0
        BY <1>0, <2>1, <3>1
      <4>2. AfterDecr(count[j.of] - 1) = "del"
        BY <4>1 DEF AfterDecr
      <4>3. j \in Release
        BY <1>0 DEF TypeOK
      <4>4. k.of = a /\ k.at = "del"
        BY <3>1, <4>2, <4>3 DEF Release
      <4>5. k \in releases'
        BY <2>1
      <4> QED BY <4>4, <4>5
    <3>2. CASE a # j.of
      <4>1. PICK k \in releases : k.of = a /\ k.at = "del"
        BY <1>0, <2>1, <3>2 DEF Leases, DebtIsPassing
      <4> QED BY <2>1, <3>2, <4>1
    <3> QED BY <3>1, <3>2
  <2> QED BY <2>2, <2>3 DEF Leases
<1>9. ASSUME NEW j \in releases, Del(j) PROVE Leases'
  BY <1>0, <1>9, DropKeepsLeases DEF Del, Returned
<1>10. ASSUME NEW j \in releases, Expire(j) PROVE Leases'
  <2>1. /\ ttl' = [ttl EXCEPT ![j.of] = ttl[j.of] \/ count[j.of] # 0]
        /\ count' = count /\ disruptions' = disruptions /\ j.at = "expire"
    BY <1>0, <1>10 DEF Expire
  <2>2. LeaseCap' /\ DebtIsPassing'
    BY <1>10, <2>1 DEF Expire, Returned, Leases, LeaseCap, DebtIsPassing
  <2>3. \A a \in Accounts : ttl[a] => ttl'[a]
    BY <1>0, <2>1
  <2>4. LeasesExpire'
    BY <2>1, <2>3 DEF Leases, LeasesExpire
  <2> QED BY <2>2, <2>4 DEF Leases
<1>11. ASSUME NEW j \in releases, ReleaseFails(j) PROVE Leases'
  <2>1. disruptions' # 0 /\ ttl' = ttl
    BY <1>0, <1>11, DisruptTyped DEF ReleaseFails
  <2>2. \A a \in Accounts : count'[a] <= count[a] /\ count'[a] \in Int
    BY <1>0, <1>11 DEF ReleaseFails
  <2>3. LeaseCap' /\ LeasesExpire'
    BY <1>0, <2>1, <2>2, LeaseConstants DEF Leases, LeaseCap, LeasesExpire
  <2> QED BY <2>1, <2>3 DEF Leases, DebtIsPassing
<1>12. ASSUME NEW a \in Accounts, TimeUp(a) PROVE Leases'
  <2>1. disruptions' = 0 => disruptions = 0
    BY <1>0, <1>12, DisruptTyped DEF TimeUp
  <2> QED BY <1>12, <2>1, DropKeepsLeases DEF TimeUp
<1>13. ASSUME NEW a \in Accounts, Readmit(a) PROVE Leases'
  BY <1>13, QuietKeepsLeases DEF Readmit
<1>14. CASE UNCHANGED vars
  BY <1>14, QuietKeepsLeases DEF vars
<1> QED
  BY <1>2, <1>3, <1>4, <1>5, <1>6, <1>7, <1>8, <1>9, <1>10, <1>11, <1>12, <1>13,
     <1>14 DEF Next, Step
-----------------------------------------------------------------------------
(* Attempts and the accounts looked at.                                      *)

Attempts == AttemptsCounted /\ EveryAttemptAnew

(* Steps that begin no attempt and look at no account, except that an ended  *)
(* request has its counts reset.                                             *)
LEMMA AttemptsKept ==
  ASSUME Attempts,
         \A r \in Requests :
           \/ attempt'[r] = attempt[r] /\ tried'[r] = tried[r] /\ pc'[r] # "load"
           \/ attempt'[r] = attempt[r] /\ tried'[r] = tried[r] /\ pc'[r] = pc[r]
           \/ attempt'[r] = 0 /\ tried'[r] = {} /\ pc'[r] # "load"
  PROVE  Attempts'
<1> SUFFICES ASSUME NEW r \in Requests
             PROVE  /\ IsFiniteSet(tried'[r])
                    /\ pc'[r] = "load" => attempt'[r] < Cardinality(tried'[r])
                    /\ attempt'[r] <= Cardinality(tried'[r])
  BY DEF Attempts, AttemptsCounted, EveryAttemptAnew
<1>1. CASE attempt'[r] = 0 /\ tried'[r] = {} /\ pc'[r] # "load"
  BY <1>1, FS_EmptySet
<1>2. CASE attempt'[r] = attempt[r] /\ tried'[r] = tried[r]
             /\ (pc'[r] # "load" \/ pc'[r] = pc[r])
  BY <1>2 DEF Attempts, AttemptsCounted, EveryAttemptAnew
<1> QED BY <1>1, <1>2

LEMMA CandidateCounts ==
  ASSUME Typing, Attempts, NEW r \in Requests, NEW a \in Accounts,
         Candidate(r, a), attempt' = attempt,
         \A q \in Requests : q # r => pc'[q] = pc[q]
  PROVE  Attempts'
<1>1. /\ tried' = [tried EXCEPT ![r] = tried[r] \cup {a}] /\ a \notin tried[r]
      /\ tried \in [Requests -> SUBSET Accounts]
      /\ attempt \in [Requests -> 0..MaxAttempts]
  BY DEF Candidate, Typing, TypeOK
<1>2. /\ IsFiniteSet(tried[r]) /\ attempt[r] <= Cardinality(tried[r])
      /\ Cardinality(tried[r]) \in Nat
  BY FS_CardinalityType DEF Attempts, AttemptsCounted, EveryAttemptAnew
<1>3. /\ IsFiniteSet(tried[r] \cup {a})
      /\ Cardinality(tried[r] \cup {a}) = Cardinality(tried[r]) + 1
  BY <1>1, <1>2, FS_AddElement
<1>4. tried'[r] = tried[r] \cup {a} /\ \A q \in Requests : q # r => tried'[q] = tried[q]
  BY <1>1
<1>5. /\ IsFiniteSet(tried'[r]) /\ attempt'[r] < Cardinality(tried'[r])
      /\ attempt'[r] <= Cardinality(tried'[r])
  BY <1>1, <1>2, <1>3, <1>4, LeaseConstants
<1> QED
  BY <1>4, <1>5 DEF Attempts, AttemptsCounted, EveryAttemptAnew

LEMMA EndCounts ==
  ASSUME Typing, Attempts, NEW r \in Requests, End(r)
  PROVE  Attempts'
<1>1. \A q \in Requests :
         \/ attempt'[q] = 0 /\ tried'[q] = {} /\ pc'[q] # "load"
         \/ attempt'[q] = attempt[q] /\ tried'[q] = tried[q] /\ pc'[q] = pc[q]
  BY DEF Typing, TypeOK, End
<1> QED BY <1>1, AttemptsKept

LEMMA AttemptsStep ==
  ASSUME Typing, Attempts, [Next]_vars
  PROVE  Attempts'
<1>0. TypeOK
  BY DEF Typing
<1>1. ASSUME NEW r \in Requests, NEW a \in Accounts,
             Skip(r, a) \/ Claim(r, a) \/ PickUnleased(r, a)
      PROVE  Attempts'
  BY <1>0, <1>1, CandidateCounts DEF Skip, Claim, PickUnleased, Picked, TypeOK
<1>2. ASSUME NEW r \in Requests, Load(r) PROVE Attempts'
  <2>1. /\ attempt' = [attempt EXCEPT ![r] = attempt[r] + 1] /\ tried' = tried
        /\ pc[r] = "load" /\ pc'[r] # "load"
        /\ \A q \in Requests : q # r => pc'[q] = pc[q]
        /\ attempt \in [Requests -> 0..MaxAttempts]
    BY <1>0, <1>2 DEF Load, TypeOK
  <2>2. /\ attempt[r] < Cardinality(tried[r]) /\ Cardinality(tried[r]) \in Nat
    BY <2>1, FS_CardinalityType DEF Attempts, AttemptsCounted
  <2>3. attempt'[r] <= Cardinality(tried'[r])
    BY <2>1, <2>2, LeaseConstants
  <2> QED BY <2>1, <2>3 DEF Attempts, AttemptsCounted, EveryAttemptAnew
<1>3. ASSUME NEW r \in Requests, UNCHANGED <<attempt, tried>>,
             NEW next \in PCs, next # "load", pc' = [pc EXCEPT ![r] = next]
      PROVE  Attempts'
  <2>1. \A q \in Requests : pc'[q] # "load" \/ pc'[q] = pc[q]
    BY <1>0, <1>3 DEF TypeOK
  <2> QED BY <1>3, <2>1, AttemptsKept
<1>4. ASSUME NEW r \in Requests,
             List(r) \/ LoadFails(r) \/ PickAgain(r) \/ \E n \in {1, 2} : Fail(r, n)
      PROVE  Attempts'
  BY <1>3, <1>4 DEF List, LoadFails, PickAgain, Fail, ReleaseAndThen, PCs
<1>5. ASSUME NEW r \in Requests, NEW next \in Nexts, GoOn(r, next) PROVE Attempts'
  <2>1. CASE next = "ended"
    BY <1>5, <2>1, EndCounts DEF GoOn
  <2>2. CASE next # "ended"
    BY <1>3, <1>5, <2>2 DEF GoOn, Nexts, PCs
  <2> QED BY <2>1, <2>2
<1>6. ASSUME NEW r \in Requests, LocalError(r) \/ Proceed(r) PROVE Attempts'
  <2>1. Onward(r) \subseteq Nexts /\ then[r] \in Nexts
    BY <1>0 DEF Onward, Nexts, TypeOK
  <2> QED BY <1>5, <1>6, <2>1 DEF LocalError, Proceed
<1>7. ASSUME NEW r \in Requests,
             Exhausted(r) \/ Finish(r) \/ Cancel(r) \/ Crash(r)
      PROVE  Attempts'
  BY <1>7, EndCounts DEF Exhausted, Finish, Cancel, Crash
<1>8. CASE UNCHANGED <<attempt, tried, pc>>
  BY <1>8, AttemptsKept
<1>9. ASSUME NEW r \in Requests, FirstBytes(r) PROVE Attempts'
  BY <1>8, <1>9 DEF FirstBytes
<1>10. ASSUME NEW j \in releases, Decr(j) \/ Del(j) \/ Expire(j) \/ ReleaseFails(j)
       PROVE  Attempts'
  BY <1>8, <1>10 DEF Decr, Del, Expire, ReleaseFails
<1>11. ASSUME NEW a \in Accounts, TimeUp(a) \/ Readmit(a) PROVE Attempts'
  BY <1>8, <1>11 DEF TimeUp, Readmit
<1>12. CASE UNCHANGED vars
  BY <1>8, <1>12 DEF vars
<1> QED
  BY <1>1, <1>2, <1>4, <1>6, <1>7, <1>9, <1>10, <1>11, <1>12 DEF Next, Step

-----------------------------------------------------------------------------
(* The theorems.                                                            *)

LEMMA IInvAlways == Spec => [](Typing /\ Leases /\ Attempts)
<1>1. Init => Leases
  BY LeaseConstants DEF Init, Leases, LeaseCap, LeasesExpire, DebtIsPassing
<1>2. Init => Attempts
  BY FS_EmptySet DEF Init, Attempts, AttemptsCounted, EveryAttemptAnew
<1> QED BY <1>1, <1>2, TypingAlways, LeasesStep, AttemptsStep, PTL DEF Spec

(* Every variable keeps its type through claims, releases, failovers,        *)
(* expiries and crashes.                                                     *)
THEOREM TypeCorrect == Spec => []TypeOK
BY TypingAlways, PTL DEF Typing

(* No lease counter exceeds MAX_ACCOUNT_INFLIGHT, whatever claims (one Lua   *)
(* script), releases (DECR, then DEL or EXPIRE) and expiries interleave.     *)
THEOREM CounterNeverExceeds == Spec => []LeaseCap
BY IInvAlways, PTL DEF Leases

(* A counter above zero always has a time to live, so the leases of a        *)
(* crashed or cancelled request are returned by Redis (claim_preferred).     *)
THEOREM LeasesAlwaysExpire == Spec => []LeasesExpire
BY IInvAlways, PTL DEF Leases

(* As long as no release is cut short, a counter below zero is about to be   *)
(* deleted by the release that made it so (release).                         *)
THEOREM DebtAlwaysPasses == Spec => []DebtIsPassing
BY IInvAlways, PTL DEF Leases

(* Once model bytes are with the client the request stays on its account     *)
(* (stream_started in _stream_proxy_with_failover_inner).                    *)
THEOREM StreamStays == Spec => []NoFailoverMidStream
<1>1. Typing => NoFailoverMidStream
  <2> SUFFICES ASSUME Typing, NEW r \in Requests, started[r]
               PROVE  /\ pc[r] \in {"serve", "wait", "ended"}
                      /\ pc[r] = "wait" => then[r] = "ended"
    BY DEF NoFailoverMidStream
  <2>1. ~Looking(r) /\ pc[r] # "again" /\ pc[r] \in PCs
    BY DEF Typing, TypeOK, RequestsConsistent
  <2> QED BY <2>1 DEF Looking, PCs
<1> QED BY <1>1, TypingAlways, PTL

(* A request never makes two attempts on one account (exclude in             *)
(* _acquire_indexed_one).                                                    *)
THEOREM AttemptsDiffer == Spec => []EveryAttemptAnew
BY IInvAlways, PTL DEF Attempts
=============================================================================
