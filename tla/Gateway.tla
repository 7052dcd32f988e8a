------------------------------- MODULE Gateway -------------------------------
(* What the gateway does for its clients, one part at a time: the turns it   *)
(* serves (Turns, which this module extends), the conversation's hold on an  *)
(* account, the arguments of a tool call, the history it shortens, the       *)
(* choice of an account, why an account is out of rotation, the keys of the  *)
(* clients and the books of what they used.  The parts share no state here,  *)
(* so one of them runs in a behaviour and the others rest in their initial   *)
(* state, where their properties hold.                                       *)
EXTENDS Turns

CONSTANTS
  MaxEvents,      \* bound of each part: what happens to it from outside
  Nobody, Absent, Cold,
  \* Affinity
  Accounts, Exchanges, Overlap,
  \* ToolArgs
  Objects, Schemas, Bytes, MaxChunks,
  \* History
  Keep, Mid, MaxChars, MidChars, OldChars, Budget, Wrap, MarkChars, Gone, Shapes, MaxTurns,
  \* Selector
  Pool, Requests, Window, Rows,
  \* PoolStatus
  Procs, MaxJobs,
  \* ApiKeys
  ClientKeys, Made, Threads, Home, MaxOps,
  \* Usage
  Uses, LastDay

\* Exchanges are counted from 1: no earlier answer is written 0.
ASSUME ExchangesCount == Exchanges \subseteq Nat \ {0} /\ Nobody \notin Accounts
\* There are threads, and a lock that nobody holds is held by none of them.
ASSUME NobodyIsNoThread == Threads # {} /\ Nobody \notin Threads
\* The keys and values of an object have a length; so has the name by which
\* schemas know a path.
ASSUME ObjectsAreListed ==
  Objects \subseteq Seq((DOMAIN Bytes) \X (DOMAIN Bytes)) /\ "file_path" \in DOMAIN Bytes
\* Candidates are counted in the order of the list; every one has a row.
ASSUME CandidatesAreListed ==
  /\ IsFiniteSet(Pool) /\ Pool = 1 .. Cardinality(Pool)
  /\ IsFiniteSet(Requests) /\ Window \in Nat \ {0}
  /\ Rows \subseteq [Pool -> [cool : BOOLEAN, off : BOOLEAN, quota : BOOLEAN,
                              expired : BOOLEAN, block : {"no", "soft", "hard"}, fails : Nat]]
\* A request is paid by an account or by nobody; "global" is neither.
ASSUME UsesAreTyped ==
  /\ Uses \subseteq [account : Accounts \cup {Nobody}, ok : BOOLEAN, tokens : Nat, sampled : BOOLEAN]
  /\ LastDay \in Nat \ {0} /\ "global" \notin Accounts \cup {Nobody}

VARIABLES
  part,
  \* Affinity
  entry, up, sweep, turn, lastTurn, lost, expiries,
  \* ToolArgs
  required, style, target, pieces, objects, mistaken, buffer,
  \* History
  turns, protocol, compacting, sent, pressed,
  \* Selector
  mode, queues, row, fresh, cache, queued, cursor, busy, request, behind, leaked, plain,
  changes,
  \* PoolStatus
  standing, spent, job, jobs, credits, marked, slipped,
  \* ApiKeys
  storage, counting, pg, file, lock, verified, at, op, seen, newest, wanted, by, ops, faults,
  overlap,
  \* Usage
  async, day, stage, shape, hot, on, redis, stream, inbox, daily, column, details, missed,
  doubled, forgot, losses

affinityVars == <<entry, up, sweep, turn, lastTurn, lost, expiries>>
argumentVars == <<required, style, target, pieces, objects, mistaken, buffer>>
historyVars == <<turns, protocol, compacting, sent, pressed>>
choiceVars == <<mode, queues, row, fresh, cache, queued, cursor, busy, request, behind,
  leaked, plain, changes>>
statusVars == <<standing, spent, job, jobs, credits, marked, slipped>>
keyVars == <<storage, counting, pg, file, lock, verified, at, op, seen, newest, wanted, by,
  ops, faults, overlap>>
usageVars == <<async, day, stage, shape, hot, on, redis, stream, inbox, daily, column,
  details, missed, doubled, forgot, losses>>
-----------------------------------------------------------------------------
\* The chain of an exchange is as long as that of a turn.
A == INSTANCE Affinity WITH
       Turns <- Exchanges, MaxAttempts <- Attempts, MaxEvents <- MaxEvents["affinity"],
       last <- lastTurn, events <- expiries
TA == INSTANCE ToolArgs WITH sent <- pieces
H == INSTANCE History
S == INSTANCE Selector WITH
       Accounts <- Pool, MaxEvents <- MaxEvents["choice"], events <- changes
P == INSTANCE PoolStatus WITH
       MaxEvents <- MaxEvents["status"], row <- standing, events <- credits
K == INSTANCE ApiKeys WITH
       Keys <- ClientKeys, MaxEvents <- MaxEvents["keys"], mode <- storage,
       cache <- verified, pc <- at, last <- newest, events <- faults
U == INSTANCE Usage WITH
       Shapes <- Uses, MaxEvents <- MaxEvents["usage"], pc <- stage, events <- losses
-----------------------------------------------------------------------------
\* A part that rests has the first of its initial states.
Rests(p, x, X) == part # p => x = CHOOSE v \in X : TRUE
GatewayInit ==
  /\ part \in {"turn", "affinity", "arguments", "history", "choice", "status", "keys", "usage"}
  /\ Init /\ Rests("turn", <<proto, streamed, tooled>>, {<<"chat", TRUE, TRUE>>})
  /\ A!Init
  /\ TA!Init /\ Rests("arguments", <<required, style, target>>, {<<{}, "pieces", <<>>>>})
  /\ H!Init /\ Rests("history", <<protocol, compacting>>, {<<"anthropic", FALSE>>})
  /\ S!Init /\ Rests("choice", <<mode, queues, row>>, {<<"random", FALSE, r>> : r \in Rows})
  /\ P!Init
  /\ K!Init /\ Rests("keys", <<storage, counting>>, {<<"file", FALSE>>})
  /\ U!Init /\ Rests("usage", async, {FALSE})

GatewayNext ==
  /\ UNCHANGED part
  /\ \/ part = "turn" /\ Next
        /\ UNCHANGED <<affinityVars, argumentVars, historyVars, choiceVars, statusVars, keyVars, usageVars>>
     \/ part = "affinity" /\ A!Next
        /\ UNCHANGED <<vars, argumentVars, historyVars, choiceVars, statusVars, keyVars, usageVars>>
     \/ part = "arguments" /\ TA!Next
        /\ UNCHANGED <<vars, affinityVars, historyVars, choiceVars, statusVars, keyVars, usageVars>>
     \/ part = "history" /\ H!Next
        /\ UNCHANGED <<vars, affinityVars, argumentVars, choiceVars, statusVars, keyVars, usageVars>>
     \/ part = "choice" /\ S!Next
        /\ UNCHANGED <<vars, affinityVars, argumentVars, historyVars, statusVars, keyVars, usageVars>>
     \/ part = "status" /\ P!Next
        /\ UNCHANGED <<vars, affinityVars, argumentVars, historyVars, choiceVars, keyVars, usageVars>>
     \/ part = "keys" /\ K!Next
        /\ UNCHANGED <<vars, affinityVars, argumentVars, historyVars, choiceVars, statusVars, usageVars>>
     \/ part = "usage" /\ U!Next
        /\ UNCHANGED <<vars, affinityVars, argumentVars, historyVars, choiceVars, statusVars, keyVars>>

gatewayVars == <<part, vars, affinityVars, argumentVars, historyVars, choiceVars, statusVars,
  keyVars, usageVars>>
GatewaySpec == GatewayInit /\ [][GatewayNext]_gatewayVars
-----------------------------------------------------------------------------
\* The parts' properties, under the names they have there or as pairs that
\* speak of one thing; those of the turns are in Turns.
KeyStable == part = "affinity" => A!KeyStable
PinFollowsAnswer == part = "affinity" => A!PinFollowsAnswer
ArgumentsPutTogether == part = "arguments" => TA!LastCompletePrevails /\ TA!TextRestored
SameStory == part = "history" => H!SameStory
LossIsGraded == part = "history" => H!LossIsGraded
SettledStays == H!SettledStays
MarksMatch == part = "choice" => S!MarksMatch
CoolingStaysOut == S!CoolingStaysOut
RefusedOnlyIfNone == S!RefusedOnlyIfNone
QuotaKeepsOut == part = "status" => P!QuotaKeepsOut
PollSettles == P!PollSettles
KeysFollowAdmin == part = "keys" => K!TableFollowsAdmin /\ K!WithdrawnIsForgotten
BooksAgree == part = "usage" => U!BooksBalance /\ U!ShownOnce
=============================================================================
