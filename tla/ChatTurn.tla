------------------------------ MODULE ChatTurn ------------------------------
(* The stream of /v1/chat/completions (_stream_proxy_with_failover_inner).   *)
(* The role frame opens the stream; text is held back while tools may still  *)
(* win; a tool call leaves only when it is complete; the finish frame is     *)
(* held until the upstream has ended.                                        *)
EXTENDS Turn

\* One chunk carries the reasoning and the content of a line.
ChatSay(o, say) ==
  LET Delta(oo, p) == IF p \in say THEN Put(oo, Frame("delta", p, 0)) ELSE oo
  IN Delta(Delta(o, "thinking"), "text")

ChatSayAll(o, h) ==
  LET f[i \in 0 .. Len(h)] == IF i = 0 THEN o ELSE ChatSay(f[i - 1], h[i])
  IN f[Len(h)]

\* What leaves at the end: complete calls, and best effort without a schema.
ChatFlushable(known, o) ==
  Finishable(known, o) \cup {t \in Tools \ (Called(o) \cup Strict) : known[t] = "cut"}

\* _finalize_tool_calls: the calls of the completed answer.
Completed(known) == ChatFlushable(known, Silent)

ChatAnswered ==
  /\ Speaks("chat") /\ Answered
  /\ out' = Open(out)
  /\ UNCHANGED <<tooled, reports>>

\* Seeded fault: another account is tried whatever the client has seen.
ChatGiveUpLate(mayRetry) ==
  /\ Tell("fail")
  /\ IF mayRetry /\ attempt < Attempts
     THEN NextAccount
     ELSE Over /\ out' = Fail(out) /\ UNCHANGED <<slots, held, got, finish>>

\* The account ends the turn badly: another one, or the error and [DONE].
ChatGiveUp(mayRetry) ==
  /\ Tell("fail")
  /\ IF mayRetry /\ ~Payload(out) /\ attempt < Attempts
     THEN NextAccount
     ELSE Over /\ out' = Fail(out) /\ UNCHANGED <<slots, held, got, finish>>

ChatRefused ==
  /\ Speaks("chat") /\ pc = "dial"
  /\ \E retryable \in BOOLEAN : ChatGiveUp(retryable)
  /\ UNCHANGED tooled

ChatBroken ==
  /\ Speaks("chat") /\ pc # "over"
  /\ ChatGiveUp(TRUE)
  /\ UNCHANGED tooled

\* A line: tools first decide whether its text may leave, then both do.
ChatLine(l) ==
  /\ Speaks("chat") /\ pc = "lines" /\ lines < MaxLines
  /\ Read(l)
  /\ tooled' = (tooled \/ DOMAIN l.calls # {})
  /\ LET ready == IF DOMAIN l.calls = {} THEN {} ELSE Budgeted(out, Deliverable(slots', out))
         won == ready # {} \/ Called(out) # {}
     IN /\ held' = IF ready # {} THEN <<>>
                   ELSE IF tooled' /\ ~won /\ l.say # {} THEN Append(held, l.say) ELSE held
        /\ out' = CallAll(IF tooled' THEN out ELSE ChatSay(out, l.say), ready)
  /\ IF out' # out \/ (~tooled' /\ l.say # {}) THEN Tell("ok") ELSE UNCHANGED reports
  /\ lines' = lines + 1
  /\ UNCHANGED <<proto, streamed, attempt, pc, gone>>

\* The end of an answer: o was sent, h is kept back, the rest was received.
ChatClose(o, h, known, heard, why) ==
  LET o1 == IF gone THEN o ELSE CallAll(o, Budgeted(o, ChatFlushable(known, o)))
      called == Called(o1) # {}
      keep == IF called THEN <<>> ELSE h
  IN IF ~gone /\ ~called /\ keep = <<>> /\ heard = {} /\ Completed(known) = {}
     THEN ChatGiveUp(TRUE)
     ELSE /\ Tell("ok") /\ Over
          /\ out' = End(IF gone THEN o1 ELSE ChatSayAll(o1, keep), NormalFinish(why, called))
          /\ slots' = known /\ got' = heard /\ finish' = why /\ held' = <<>>

\* [DONE], the end of the stream, a dead connection or too long a silence.
ChatDrained ==
  /\ Speaks("chat") /\ pc = "lines"
  /\ ChatClose(out, held, slots, got, finish)
  /\ UNCHANGED tooled

\* A JSON body instead of lines: with tool calls in it its text is dropped.
ChatBody(l) ==
  /\ Speaks("chat") /\ pc = "body"
  /\ tooled' = (tooled \/ DOMAIN l.calls # {})
  /\ LET known == Merged(l.calls)
         o == CallAll(out, Budgeted(out, ChatFlushable(known, out)))
     IN ChatClose(IF DOMAIN l.calls = {} THEN ChatSay(o, l.say) ELSE o, <<>>, known, l.say,
                  IF l.finish = "none" THEN "stop" ELSE l.finish)

\* The client's connection is cut: the opened stream still gets its end.
ChatCancelled ==
  /\ Speaks("chat") /\ pc # "over"
  /\ Over
  /\ out' = IF Opened(out) THEN End(out, "stop") ELSE out
  /\ UNCHANGED <<tooled, slots, held, got, finish, reports>>

ChatNext ==
  \/ ChatAnswered \/ ChatRefused \/ ChatBroken \/ ChatDrained \/ ChatCancelled
  \/ \E l \in Lines : ChatLine(l) \/ ChatBody(l)
=============================================================================
