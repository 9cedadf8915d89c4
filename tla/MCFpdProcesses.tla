--------------------------- MODULE MCFpdProcesses ---------------------------
(* Three processes that start together, in each of the ways below. *)
EXTENDS FpdProcesses, TLC

CONSTANTS a, b, c, v1, v2

Run(words, terms, env) ==
    [words |-> words, terms |-> terms, env |-> env, profile |-> "known",
     samples |-> 2, socket |-> TRUE, attach |-> FALSE, listen |-> FALSE,
     verify |-> TRUE]

Show == Run(<<"terms", "show">>, v1, FALSE)
Accept(v) == Run(<<"terms", "accept">>, v, FALSE)
Check(v, env) == Run(<<"check", "curl">>, v, env)
Nameless == [Check(v1, FALSE) EXCEPT !.profile = "unknown"]
Serve == Run(<<"serve">>, v1, FALSE)
Capture == Run(<<"capture">>, v1, FALSE)
Emulate == Run(<<"emulate">>, v1, FALSE)
Describe(v, env) == [Run(<<"emulate">>, v, env) EXCEPT !.verify = FALSE]
Attach == [Run(<<"tui">>, v1, FALSE) EXCEPT !.attach = TRUE]
Watch == [Run(<<"tui">>, v1, FALSE) EXCEPT !.listen = TRUE]

Together(x, y, z) == a :> x @@ b :> y @@ c :> z

(* Accepting while others accept, upgrade or already run; servers that take *)
(* the socket from each other, with a view; the probing commands, one of    *)
(* them behind a flag the gate lets through; runs that only answer.         *)
Families ==
    { Together(Accept(v1), Accept(v2), Describe(v2, FALSE)),
      Together(Accept(v1), Accept(v1), Show),
      Together(Describe(v2, TRUE), Accept(v1), Show),
      Together(Serve, Serve, Serve),
      Together(Serve, Serve, Attach),
      Together(Capture, Watch, Nameless),
      Together(Emulate, Check(v1, FALSE), Run(<<>>, v1, FALSE)),
      Together(Run(<<"check", "curl", "-V">>, v1, FALSE), Show,
               [Capture EXCEPT !.samples = 0]),
      Together(Run(<<"serve", "--help">>, v1, FALSE), Show, Show) }

=============================================================================
