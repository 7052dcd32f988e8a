-------------------------------- MODULE Turns --------------------------------
(* Every turn the gateway serves: the three streaming protocols and the      *)
(* answers that are not streamed, with the properties of what the client     *)
(* sees and of what the pool is told.                                        *)
EXTENDS ChatTurn, MessagesTurn, ResponsesTurn, CollectTurn

Next == ChatNext \/ MsgNext \/ RespNext \/ CollectNext \/ Leave
Spec == Init /\ [][Next]_vars
-----------------------------------------------------------------------------
TypeOK ==
  /\ proto \in Protocols
  /\ streamed \in BOOLEAN /\ tooled \in BOOLEAN /\ gone \in BOOLEAN
  /\ attempt \in 1 .. Attempts /\ pc \in {"dial", "lines", "body", "over"}
  /\ lines \in 0 .. MaxLines
  /\ slots \in [Tools -> SlotStates]
  /\ held \in Seq(SUBSET Parts) /\ got \in SUBSET Parts
  /\ finish \in Finishes \cup {"none"}
  /\ reports \in [1 .. Attempts -> SUBSET {"ok", "fail", "pinned"}]

\* A turn keeps the contract of TurnContract: the retry loops, the flush at
\* the end, the exceptions and the cancellation of each protocol together
\* never try another account after content, repeat a call, end a turn twice
\* or send anything after its end.
Contract == INSTANCE TurnContract WITH account <- attempt, wire <- out.wire, over <- pc = "over"
ImplementsContract == Contract!CSpec

Wire == out.wire
Numbered == {i \in DOMAIN Wire : Wire[i].kind \in {"start", "tool"}}

\* The frames of a stream nest: blocks and calls are numbered 0, 1, 2 ... in
\* the order they start, a delta belongs to the block that was started last
\* and is still open, and a turn that ends well leaves none open.
FramesNest ==
  streamed =>
    /\ \A i \in Numbered : Wire[i].n = Cardinality({j \in Numbered : j < i})
    /\ proto = "messages" =>
         \A i \in DOMAIN Wire : Wire[i].kind \in {"delta", "stop"} =>
           \E j \in 1 .. i - 1 :
             /\ Wire[j] = Frame("start", Wire[i].what, Wire[i].n)
             /\ \A k \in j + 1 .. i - 1 : Wire[k].kind = "delta"
    /\ Sent(out, "end") # {} => Sent(out, "start") = Sent(out, "stop")

\* In a turn with tools text and calls exclude each other: once a call was
\* sent no text follows (clients end the turn at a call with text after it),
\* and text the Messages stream kept back is dropped when a call is ready.
ToolsWin ==
  streamed /\ tooled /\ proto # "responses" =>
    \A i, j \in DOMAIN Wire :
      Wire[i].kind = "tool" /\ Wire[j].kind = "delta" => proto = "chat" /\ j < i

\* Text is never lost between the upstream and the stream: what an account
\* has said is on the wire, or kept back, or a call was sent in its place.
\* (A JSON body inside a chat stream is the exception the README describes.)
TextKept ==
  /\ streamed /\ "text" \in got /\ ~gone
  /\ ~(proto = "chat" /\ pc = "over" /\ lines = 0)
  => \/ "text" \in Said(out) \/ Called(out) # {}
     \/ \E i \in DOMAIN held : "text" \in held[i]

TextGivesWay == ToolsWin /\ TextKept

\* A call whose tool has required arguments reaches the client only when all
\* of them have arrived, whichever path sends it: as its fragments come, at
\* the end of the stream, from a JSON body or from a collected answer.
\* (Raw messages of the other protocols are passed on unchecked, and the
\* end of a Responses stream ships a call without its arguments as {}.)
KnownToolsWhole ==
  proto = "messages" \/ (proto = "chat" /\ streamed) =>
    \A t \in Called(out) \cap Strict : slots[t] = "ready"

\* The pool hears what became of every account: one that is left for the next
\* has failed, and one whose content reached the client is credited.
PoolHears ==
  /\ \A a \in 1 .. attempt - 1 : "fail" \in reports[a]
  /\ Payload(out) => "ok" \in reports[attempt]
=============================================================================
