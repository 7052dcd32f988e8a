------------------------------ MODULE MCGateway ------------------------------
(* A small instance of Gateway: two accounts and two tool calls for a turn,  *)
(* two turns that may overlap, short histories, three candidates, one        *)
(* account's status, three threads with keys and two requests to count.      *)
EXTENDS Gateway, TLC

\* Bounds on what happens to a part from outside.
MCEvents == [affinity |-> 1, choice |-> 1, status |-> 2, keys |-> 1, usage |-> 2]
\* Two calls, one with required arguments; every kind of line that the
\* protocols treat differently.
Says(kinds) == [say |-> kinds, calls |-> <<>>, finish |-> "none"]
Calls(c) == [say |-> {}, calls |-> c, finish |-> "none"]
Ends(f) == [say |-> {}, calls |-> <<>>, finish |-> f]
Only(t, f) == [x \in {t} |-> f]
MCLines ==
  {Says({"text"}), Says({"thinking"}),
   Calls(Only(0, "name")), Calls(Only(0, "args")), Calls(Only(0, "cut")),
   Calls(Only(0, "whole")), Calls(Only(1, "name")), Calls(Only(1, "whole")),
   Calls((0 :> "name") @@ (1 :> "whole")),
   [Calls(Only(0, "whole")) EXCEPT !.say = {"text"}],
   [Calls(Only(1, "cut")) EXCEPT !.say = {"thinking", "text"}],
   Ends("tool_calls"), Ends("length")}
MCCap == ("chat" :> 0) @@ ("messages" :> 1) @@ ("responses" :> 0)

\* Objects with the path under its three names, empty values, a key twice.
MCObjects ==
  {<<>>, <<<<"file_path", "long">>>>, <<<<"path", "a">>>>,
   <<<<"path", "">>, <<"replace_all", "a">>>>,
   <<<<"file_path", "long">>, <<"new_string", "a">>>>,
   <<<<"path", "a">>, <<"new_string", "">>>>,
   <<<<"new_string", "b">>, <<"path", "long">>, <<"file_path", "a">>>>,
   <<<<"file_path", "b">>, <<"todos", "list">>, <<"new_string", "b">>>>}
MCBytes == ("file_path" :> 9) @@ ("path" :> 4) @@ ("new_string" :> 10) @@ ("replace_all" :> 11)
  @@ ("todos" :> 5) @@ ("" :> 0) @@ ("a" :> 1) @@ ("b" :> 1) @@ ("long" :> 9) @@ ("list" :> 2)
MCSchemas == {{}, {"file_path", "new_string"}}

\* Turns with long and short texts and results, a result that quotes an
\* earlier one's mark; the limits are such that a few turns pass through
\* every tier and every kind of cut.
Shape(said, results, ask, quotes) == [said |-> said, results |-> results, ask |-> ask, quotes |-> quotes]
MCShapes ==
  {Shape(40, <<>>, 7500, FALSE), Shape(7500, <<>>, 40, FALSE), Shape(0, <<2500>>, 0, FALSE),
   Shape(40, <<50, 7500>>, 300, FALSE), Shape(0, <<7500>>, 0, TRUE), Shape(0, <<50>>, 0, FALSE)}

\* A row of every kind the table may hold; a window smaller than the pool.
Cooling == [cool |-> TRUE, off |-> FALSE, quota |-> FALSE, expired |-> FALSE, block |-> "no", fails |-> 0]
Healthy == [Cooling EXCEPT !.cool = FALSE]
Off == [Healthy EXCEPT !.off = TRUE]
Spent == [Off EXCEPT !.quota = TRUE]
Expired == [Healthy EXCEPT !.expired = TRUE, !.block = "soft"]
Failing == [Healthy EXCEPT !.block = "hard", !.fails = 2]
MCRows == {<<Healthy, Cooling, Failing>>, <<Cooling, Spent, Off>>, <<Expired, Spent, Cooling>>}

\* Two threads of one worker and one of another, a key to begin with.
MCHome == ("t1" :> "w1") @@ ("t2" :> "w1") @@ ("t3" :> "w2")

\* Two requests around a midnight, paid by an account or by nobody.
Use(payer, ok, tokens, sampled) == [account |-> payer, ok |-> ok, tokens |-> tokens, sampled |-> sampled]
MCUses == {Use("a", TRUE, 3, FALSE), Use("b", TRUE, 0, TRUE), Use("a", FALSE, 2, FALSE), Use(Nobody, FALSE, 0, FALSE)}
=============================================================================
