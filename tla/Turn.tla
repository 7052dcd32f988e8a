-------------------------------- MODULE Turn --------------------------------
(* One turn of a client: the request goes to one account of a chain after    *)
(* another until one answers, and the upstream's chat completion is turned   *)
(* into the frames of the client's protocol.  This module has what the three *)
(* protocols share: the chain, the upstream's lines, the slots in which the  *)
(* fragments of tool calls are collected, and the frames on the wire.        *)
(* ChatTurn, MessagesTurn and ResponsesTurn are the streaming loops,         *)
(* CollectTurn is the loop of the answers that are not streamed.             *)
(* Text is abstracted to its kind: the model tells apart that some text was  *)
(* sent, not which, and repeated deltas of one kind are one frame.           *)
EXTENDS Naturals, Sequences, FiniteSets

CONSTANTS
  Tools,      \* the indices of the tool calls in the upstream's answer
  Strict,     \* those whose schema has required keys (Edit, Read, Bash ...)
  Attempts,   \* the length of the chain of accounts
  MaxLines,   \* bound: lines one account sends
  Lines,      \* the lines and bodies it can send
  Cap         \* calls a turn of each protocol may send, 0 = any
              \* (OUTBOUND_MAX_TOOLS, OUTBOUND_MAX_TOOLS_OPENAI)

Protocols == {"chat", "messages", "responses"}
Parts == {"thinking", "text"}
Fragments == {"name", "args", "cut", "whole"}
SlotStates == {"unseen", "anon", "named", "cut", "ready"}
Finishes == {"stop", "length", "tool_calls"}

ASSUME TurnAssumption ==
  /\ Tools \subseteq Nat /\ IsFiniteSet(Tools) /\ Strict \subseteq Tools
  /\ Attempts \in Nat \ {0} /\ MaxLines \in Nat
  /\ Cap \in [Protocols -> Nat]
  /\ \A l \in Lines :
       /\ l.say \subseteq Parts /\ l.finish \in Finishes \cup {"none"}
       /\ DOMAIN l.calls \subseteq Tools /\ \A t \in DOMAIN l.calls : l.calls[t] \in Fragments

VARIABLES
  proto,      \* the client's protocol
  streamed,   \* whether it asked for a stream
  tooled,     \* tools_requested: the turn may call tools
  attempt,    \* position in the chain
  pc,         \* "dial", "lines" or "body" of an answer 200, "over"
  lines,      \* lines read of this account's answer
  slots,      \* tool_acc / _tools: what is known of each tool call
  held,       \* text kept back until it is known whether tools win
  got,        \* the kinds of text this account has sent
  finish,     \* the finish_reason it has sent
  gone,       \* client_gone: the probe has settled that the client left
  out,        \* the frames sent, and the content block that is open
  reports     \* what the pool was told of each attempt

vars == <<proto, streamed, tooled, attempt, pc, lines, slots, held, got,
          finish, gone, out, reports>>
-----------------------------------------------------------------------------
(* The frames.  A tool call is sent whole: its start, its arguments and its  *)
(* stop leave in one burst, so it is one frame, with its outbound index.     *)
Frame(kind, what, n) == [kind |-> kind, what |-> what, n |-> n]

Silent == [wire |-> <<>>, block |-> "none", index |-> 0, next |-> 0]

Put(o, f) ==
  IF f.kind = "delta" /\ o.wire # <<>> /\ o.wire[Len(o.wire)] = f
  THEN o ELSE [o EXCEPT !.wire = Append(@, f)]

Sent(o, kind) == {o.wire[i].what : i \in {j \in DOMAIN o.wire : o.wire[j].kind = kind}}
Opened(o) == Sent(o, "open") # {}
Called(o) == Sent(o, "tool")
Said(o) == Sent(o, "delta")
Payload(o) == Said(o) # {} \/ Called(o) # {}

Open(o) == IF Opened(o) THEN o ELSE Put(o, Frame("open", "-", 0))
End(o, why) == Put(o, Frame("end", why, 0))
Fail(o) == Put(o, Frame("fail", "-", 0))

\* Calls in ascending upstream order, under dense outbound indices.
InOrder(S) ==
  CHOOSE s \in [1 .. Cardinality(S) -> S] :
    \A i, j \in 1 .. Cardinality(S) : i < j => s[i] < s[j]
CallAll(o, S) ==
  [o EXCEPT !.wire = @ \o [i \in 1 .. Cardinality(S) |->
                             Frame("tool", InOrder(S)[i], o.next + i - 1)],
            !.next = @ + Cardinality(S)]
-----------------------------------------------------------------------------
(* The slots.  A fragment brings the name, complete arguments without a      *)
(* name, the name with arguments cut short, or everything; a fragment that   *)
(* is sent again changes nothing.                                            *)
Merge(s, f) ==
  IF s = "ready" \/ f = "whole" THEN "ready"
  ELSE CASE s = "unseen" -> [name |-> "named", args |-> "anon", cut |-> "cut"][f]
         [] s = "anon" -> IF f = "args" THEN "anon" ELSE "ready"
         [] s \in {"named", "cut"} ->
              IF f = "args" THEN "ready" ELSE IF f = "cut" THEN "cut" ELSE s

Merged(calls) ==
  [t \in Tools |-> IF t \in DOMAIN calls THEN Merge(slots[t], calls[t]) ELSE slots[t]]

NoSlots == [t \in Tools |-> "unseen"]

\* Complete calls that no lower unfinished call holds back.
Deliverable(known, o) ==
  {t \in Tools : /\ known[t] = "ready" /\ t \notin Called(o)
                 /\ \A u \in Tools : u < t /\ u \notin Called(o)
                                       => known[u] \in {"unseen", "ready"}}
\* The first of the calls S in order, as many as the cap leaves.
Budgeted(o, S) ==
  IF Cap[proto] = 0 THEN S
  ELSE {t \in S : Cardinality({u \in S : u <= t}) + Cardinality(Called(o)) <= Cap[proto]}

Lowest(S) == {t \in S : \A u \in S : t <= u}
\* Seeded fault: the required keys of a schema are not looked at.
FinishableAny(known, o) ==
  {t \in Tools \ Called(o) : known[t] \in {"ready", "named", "cut"}}
Finishable(known, o) ==
  {t \in Tools \ Called(o) : known[t] = "ready" \/ (t \notin Strict /\ known[t] = "named")}

NormalFinish(f, called) ==
  IF called /\ f \in {"none", "stop"} THEN "tool_calls"
  ELSE IF f = "none" THEN "stop" ELSE f
-----------------------------------------------------------------------------
Init ==
  /\ proto \in Protocols
  /\ streamed \in BOOLEAN
  /\ tooled \in BOOLEAN
  /\ attempt = 1 /\ pc = "dial" /\ lines = 0 /\ slots = NoSlots
  /\ held = <<>> /\ got = {} /\ finish = "none" /\ gone = FALSE
  /\ out = Silent
  /\ reports = [a \in 1 .. Attempts |-> {}]

Speaks(p) == streamed /\ proto = p
Tell(what) == reports' = [reports EXCEPT ![attempt] = @ \cup {what}]

\* The upstream's headers say 200: a stream of lines, or one JSON body.
Answered ==
  /\ pc = "dial"
  /\ pc' \in {"lines", "body"}
  /\ UNCHANGED <<proto, streamed, attempt, lines, slots, held, got, finish, gone>>

\* The next account of the chain starts with nothing of this one's answer.
NextAccount ==
  /\ attempt' = attempt + 1 /\ pc' = "dial" /\ lines' = 0 /\ slots' = NoSlots
  /\ held' = <<>> /\ got' = {} /\ finish' = "none" /\ gone' = FALSE
  /\ UNCHANGED <<proto, streamed, out>>

Over == pc' = "over" /\ UNCHANGED <<proto, streamed, attempt, lines, gone>>

\* What a line or a body brings, whatever the protocol makes of it.
Read(l) ==
  /\ slots' = Merged(l.calls)
  /\ got' = got \cup l.say
  /\ finish' = IF l.finish = "none" THEN finish ELSE l.finish

\* The debounced probe of a stream settles that the client has left.
Leave ==
  /\ streamed /\ pc = "lines" /\ ~gone /\ gone' = TRUE
  /\ UNCHANGED <<proto, streamed, tooled, attempt, pc, lines, slots, held, got,
                 finish, out, reports>>
=============================================================================
