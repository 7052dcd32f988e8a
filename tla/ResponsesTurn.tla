---------------------------- MODULE ResponsesTurn ---------------------------
(* The stream of /v1/responses (_sse_gen_live and ResponsesLiveStreamer).    *)
(* response.created leaves as soon as the upstream answers 200.  The text is *)
(* one output item that stays open until the end; thinking is never shown;   *)
(* a call is an item of its own, sent whole.                                 *)
EXTENDS Turn

RespSay(o, say) ==
  IF "text" \notin say THEN o
  ELSE LET s == IF o.block = "text" THEN o
                ELSE [Put(o, Frame("start", "text", o.next))
                        EXCEPT !.block = "text", !.index = o.next, !.next = @ + 1]
       IN Put(s, Frame("delta", "text", s.index))

\* on_tool_delta and _emit_ready_tools: one complete call at a time.
RespCall(o, known, calls) ==
  IF calls = {} THEN o ELSE CallAll(o, Lowest(Deliverable(known, o)))

\* _terminal_args: complete arguments, and {} for a call that has none.
Terminal(known, o) == {t \in Tools \ Called(o) : known[t] \in {"ready", "named"}}

\* _any_shipable_tool(terminal): the lowest unfinished call decides.
AnyTerminal(known, o) ==
  Lowest({t \in Tools \ Called(o) : known[t] # "unseen"}) \cap Terminal(known, o) # {}

\* complete: the calls in order, the end of the text, response.completed.
CompleteStream(o, known) ==
  LET o1 == CallAll(o, Deliverable(known, o))
      o2 == CallAll(o1, Terminal(known, o1))
      o3 == IF o2.block = "none" THEN o2
            ELSE [Put(o2, Frame("stop", "text", o2.index)) EXCEPT !.block = "none"]
  IN End(o3, "completed")

RespAnswered ==
  /\ Speaks("responses") /\ Answered
  /\ out' = Open(out)
  /\ Tell("pinned")
  /\ UNCHANGED tooled

RespGiveUp(mayRetry) ==
  /\ IF mayRetry /\ ~Opened(out) /\ attempt < Attempts
     THEN NextAccount
     ELSE Over /\ out' = Fail(Open(out)) /\ UNCHANGED <<slots, held, got, finish>>
  /\ UNCHANGED tooled

RespRefused ==
  /\ Speaks("responses") /\ pc = "dial" /\ Tell("fail")
  /\ \E retryable \in BOOLEAN : RespGiveUp(retryable)

\* An exception: once the stream is open the pool is told nothing of it.
RespBroken ==
  /\ Speaks("responses") /\ pc # "over"
  /\ IF Opened(out) THEN UNCHANGED reports ELSE Tell("fail")
  /\ RespGiveUp(TRUE)

RespLine(l) ==
  /\ Speaks("responses") /\ pc = "lines" /\ lines < MaxLines
  /\ Read(l)
  /\ out' = RespCall(RespSay(out, l.say), slots', DOMAIN l.calls)
  /\ IF Payload(out') /\ ("text" \in l.say \/ out' # out) THEN Tell("ok") ELSE UNCHANGED reports
  /\ lines' = lines + 1
  /\ UNCHANGED <<proto, streamed, tooled, attempt, pc, held, gone>>

\* Seeded fault: the pool is not told of an answer that came as one body.
RespCloseQuiet(o, known, heard, why) ==
  /\ IF ~Payload(o) /\ ~AnyTerminal(known, o)
     THEN Tell("fail") /\ out' = Fail(o)
     ELSE UNCHANGED reports /\ out' = CompleteStream(o, known)
  /\ Over
  /\ slots' = known /\ got' = heard /\ finish' = why
  /\ UNCHANGED <<tooled, held>>

RespClose(o, known, heard, why) ==
  /\ IF ~Payload(o) /\ ~AnyTerminal(known, o)
     THEN Tell("fail") /\ out' = Fail(o)
     ELSE Tell("ok") /\ out' = CompleteStream(o, known)
  /\ Over
  /\ slots' = known /\ got' = heard /\ finish' = why
  /\ UNCHANGED <<tooled, held>>

RespDrained ==
  /\ Speaks("responses") /\ pc = "lines"
  /\ RespClose(out, slots, got, finish)

RespBody(l) ==
  /\ Speaks("responses") /\ pc = "body"
  /\ LET known == Merged(l.calls)
     IN RespClose(RespCall(RespSay(out, l.say), known, DOMAIN l.calls), known, l.say, l.finish)

RespCancelled ==
  /\ Speaks("responses") /\ pc # "over"
  /\ Over
  /\ out' = IF Opened(out) THEN Fail(out) ELSE out
  /\ UNCHANGED <<tooled, slots, held, got, finish, reports>>

RespNext ==
  \/ RespAnswered \/ RespRefused \/ RespBroken \/ RespDrained \/ RespCancelled
  \/ \E l \in Lines : RespLine(l) \/ RespBody(l)
=============================================================================
