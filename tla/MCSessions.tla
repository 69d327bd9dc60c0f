----------------------------- MODULE MCSessions -----------------------------
(* Setups: which tools are in use and how they write, and how much happens. *)
EXTENDS Sessions, TLC

Base == [tools |-> {"codex"}, installed |-> TRUE, stamped |-> TRUE, schema |-> {},
         old |-> FALSE, current |-> None, use |-> "scans",
         events |-> {"elsewhere", "own", "delegate", "continue", "tear", "remove",
                     "archive", "root"},
         writes |-> 3, days |-> 1, commands |-> 1]

\* Each scanner, with enough commands somewhere to list, launch and return.
Scanning ==
    {[Base EXCEPT !.commands = 2], [Base EXCEPT !.tools = {"claude"}],
     [Base EXCEPT !.tools = {"pi"}, !.installed = FALSE],
     [Base EXCEPT !.tools = {"kimi", "custom"}, !.commands = 2],
     [Base EXCEPT !.tools = {"opencode"}],
     [Base EXCEPT !.tools = {"opencode"}, !.schema = {"parent", "turns"}],
     [Base EXCEPT !.tools = {"aider", "opencode"},
                  !.schema = {"parent", "permission", "turns"}],
     [Base EXCEPT !.tools = {"claude", "pi"}, !.stamped = FALSE,
                  !.events = {"elsewhere", "root"}, !.writes = 2, !.commands = 3]}

Clean == [Base EXCEPT !.use = "cleanup", !.days = 2, !.commands = 2]

\* Each kind of candidate, and analyses one after the other.
Cleaning ==
    {[Clean EXCEPT !.events = {"another", "unsaved", "remove"}, !.commands = 3],
     [Clean EXCEPT !.events = {"delegate", "continue"}],
     [Clean EXCEPT !.events = {"archive", "tear"}],
     [Clean EXCEPT !.events = {"continue", "root"}, !.old = TRUE, !.current = 1],
     [Clean EXCEPT !.events = {"delegate", "tear"}, !.tools = {"claude"}]}

MCSetups == Scanning \cup Cleaning
MCSymmetry == Permutations(Projects)
=============================================================================
