----------------------------- MODULE MCRuleGate -----------------------------
(* An instance of RuleGate for TLC: a session under one parent, calls of every kind of     *)
(* tool, and commands on both sides of every line the gates draw.                          *)
EXTENDS RuleGate

CONSTANTS own, parent

TwoAgents == {own, parent}
OwnUnderParent == <<own, parent>>

\* A path of the workspace, of the user's keys, above them, of Jones, and outside.
Plainly == [resolves |-> TRUE, relative |-> FALSE, data |-> FALSE, permissions |-> FALSE,
            mentions |-> FALSE, shell |-> FALSE, sensitive |-> FALSE, contains |-> FALSE,
            inside |-> {"home"}, credential |-> FALSE]
MCPlace ==
  ("./src" :> [Plainly EXCEPT !.relative = TRUE, !.inside = {"project", "home"}])
  @@ ("./.env" :> [Plainly EXCEPT !.relative = TRUE, !.credential = TRUE,
                                  !.inside = {"project", "home"}])
  @@ ("~/.ssh" :> [Plainly EXCEPT !.sensitive = TRUE])
  @@ ("~" :> [Plainly EXCEPT !.contains = TRUE])
  @@ ("~/.jones" :> [Plainly EXCEPT !.data = TRUE, !.mentions = TRUE])
  @@ ("../.jones/x" :> [Plainly EXCEPT !.relative = TRUE, !.mentions = TRUE])
  @@ ("./permissions.json" :> [Plainly EXCEPT !.permissions = TRUE, !.relative = TRUE,
                                              !.inside = {"project", "home"}])
  @@ ("~/.zshrc" :> [Plainly EXCEPT !.shell = TRUE])
  @@ ("/odd" :> [Plainly EXCEPT !.resolves = FALSE, !.inside = {}])

MCHosts == ("example" :> "public") @@ ("router" :> "private") @@ ("file" :> "other")
           @@ ("" :> "none")

Line(tokens) == [tokens |-> tokens, syntax |-> FALSE, open |-> FALSE]
Words1(s) == Line([i \in DOMAIN s |-> <<s[i]>>])
NoLine == Line(<<>>)

Run(command, match) == [tool |-> "terminal", server |-> None, argument |-> "",
                        command |-> command, match |-> match]
Use(tool, argument) == [tool |-> tool, server |-> None, argument |-> argument,
                        command |-> NoLine, match |-> ""]

MCWords == {"-r", "-f", "push", "curl", "touch", "~", "~/.ssh", "main", "-delete", "sudo"}

\* The second command has a rule of its own in MCPermSets.
Commands ==
  { Run(Words1(<<"ls", "./src">>), "list"),
    Run(Words1(<<"git", "status">>), "status"),
    Run(Words1(<<"git", "commit">>), "commit"),
    Run(Words1(<<"find", "~">>), "search"),
    Run(Words1(<<"cat", "~/.jones">>), "peek"),
    Run(Words1(<<"chmod", "./src">>), "chmod"),
    Run([Words1(<<"ls", "./src">>) EXCEPT !.syntax = TRUE], "piped"),
    Run(Words1(<<"rm", "-r", "./src">>), "wipe"),
    Run(Words1(<<"touch", "~/.jones">>), "touch"),
    Run(Words1(<<"touch", "./permissions.json">>), "touch it"),
    Run(Words1(<<"cp", "./src", "../.jones/x">>), "copy"),
    Run(Words1(<<"sudo", "rm", "-rf", "~">>), "wipe as root"),
    Run(Words1(<<"git", "push", "-f">>), "force"),
    Run(Line(<< <<"bash">>, <<"-c">>, <<"find", "./src", "-delete">> >>), "nested") }
Tools ==
  { Use("read_file", "./src"), Use("read_file", "./.env"), Use("search_files", "~"),
    Use("write_file", "./src"), Use("write_file", "~/.jones"), Use("write_file", "~/.zshrc"),
    Use("patch", "./permissions.json"), Use("patch", "/odd"),
    Use("browser_navigate", "example"), Use("browser_navigate", "router"),
    Use("browser_console", "fetch"), Use("execute_code", ""), Use("jones.__probe__", ""),
    [Use("mcp__notes__add", "") EXCEPT !.server = "mcp:notes"] }

MCCalls == Commands \cup Tools

NoRules == [allow |-> {}, deny |-> {}]
Files(user, project, broken) == [user |-> user, project |-> project, broken |-> broken]
Nothing == Files(NoRules, NoRules, {})
Ruled == Files([allow |-> {"status", "wipe", "write_file"}, deny |-> {}],
               [allow |-> {}, deny |-> {"list", "browser_navigate"}], {})
Damaged == Files([allow |-> {"status", "write_file"}, deny |-> {"mcp__notes__add"}],
                 [allow |-> {"mcp__notes__add"}, deny |-> {"write_file"}], {"project"})
MCPermSets == {Nothing, Ruled, Damaged}
MCToolLists == {{}, {"terminal", "read_file"}, {"write_file", "mcp:notes"}}

Setup(m, p, l, k) == [mode |-> m, perms |-> p, lists |-> (own :> l) @@ (parent :> k)]
MCSetups ==
  { Setup("task", Ruled, {}, {}),
    Setup("auto", Nothing, {"terminal", "read_file"}, {"write_file", "mcp:notes"}),
    Setup("auto", Damaged, {}, {"write_file", "mcp:notes"}),
    Setup("chat", Nothing, {}, {}) }
=============================================================================
