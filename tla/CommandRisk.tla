---------------------------- MODULE CommandRisk ----------------------------
(* What the gates of Jones can tell about a tool call by looking at it: whether a command  *)
(* is transparent (kernel/plugin/jones_gate/_transparency.py), whether it is denied        *)
(* outright (_hard_deny.py), and the level of its risk (permissions/review.py, with the    *)
(* lists of permissions/defaults.py).                                                      *)
(*                                                                                         *)
(* A command is a sequence of tokens, a token the sequence of the words between its        *)
(* quotes; an unquoted word is a token of its own.  Shell operators and substitutions are  *)
(* the flag "syntax", an unterminated quote is "open".  Letter case is left out, nested    *)
(* quotes are flattened, and how a path is spelt and what it or a URL resolves to is a     *)
(* constant.                                                                               *)
EXTENDS Naturals, SequencesExt

CONSTANTS
  Place,     \* [path word -> what the path resolves to, a record of Features]
  Hosts      \* [url -> "none", "other" (scheme), "private" or "public"]

Features ==
  [resolves : BOOLEAN,      \* expanding and resolving it raises nothing
   relative : BOOLEAN,
   data : BOOLEAN,          \* under the user root, ~/.jones
   mentions : BOOLEAN,      \* spelt with ~/.jones, $HOME/.jones, /.jones/ or the user root
   permissions : BOOLEAN,   \* the project's permissions.json
   shell : BOOLEAN,         \* a shell start-up file, ~/.hermes, ~/.claude, LaunchAgents
   sensitive : BOOLEAN,     \* in a root of defaults.py
   contains : BOOLEAN,      \* has such a root below it
   inside : SUBSET {"project", "home"},  \* the workspaces it lies in
   credential : BOOLEAN]    \* its name is that of a credential file

ASSUME PlaceAssumption ==
  /\ \A p \in DOMAIN Place : Place[p] \in Features
  /\ \A u \in DOMAIN Hosts : Hosts[u] \in {"none", "other", "private", "public"}

Paths == DOMAIN Place

\* The command lines, as tokenize leaves them.
Lines == [tokens : Seq(Seq(STRING)), syntax : BOOLEAN, open : BOOLEAN]

-----------------------------------------------------------------------------
(* Words and tokens *)

\* The words of the text without its quotes, in which the raw scan looks.
Text(c) == FlattenSeq(c.tokens)

\* The program a token may name; one with blanks in it names none.
Prog(token) == IF Len(token) = 1 THEN token[1] ELSE ""

Progs(c) == {Prog(t) : t \in Range(c.tokens)}

\* tokens[i + 1 :]
After(s, i) == SubSeq(s, i + 1, Len(s))

RecursiveFlags == {"-r", "-R", "-rf", "-fr", "--recursive"}
ForceFlags == {"-f", "--force", "--force-with-lease"}
DefaultBranches == {"main", "master"}
Options == RecursiveFlags \cup ForceFlags \cup {"-i", "-c", "-delete", "-exec", "--in-place"}

\* A program followed, anywhere, by one of the flags.
FollowedBy(words, program, flags) ==
  \E i \in DOMAIN words : words[i] = program /\ Range(After(words, i)) \cap flags # {}

-----------------------------------------------------------------------------
(* _transparency.classify *)

OpaquePrograms ==
  {"sh", "bash", "zsh", "dash", "ksh", "fish", "env", "nohup", "timeout", "xargs", "eval",
   "exec", "source", "node", "perl", "ruby", "php", "osascript", "base64", "awk", "tee",
   "python", "python3"}

OpaqueToken(c) ==
  LET progs == [i \in DOMAIN c.tokens |-> Prog(c.tokens[i])] IN
    \/ Range(progs) \cap OpaquePrograms # {}
    \/ FollowedBy(progs, "find", {"-delete", "-exec"})
    \/ FollowedBy(progs, "sed", {"-i", "--in-place"})
    \/ c.tokens # <<>> /\ progs[1] = "."

Plain(c) == ~c.syntax /\ ~c.open /\ ~OpaqueToken(c)

-----------------------------------------------------------------------------
(* _hard_deny.classify_command *)

\* Patterns in the raw text, quoted or not (ruling R6).
RawTextDenied(c) ==
  LET words == Text(c) IN
    \/ FollowedBy(words, "rm", RecursiveFlags)
    \/ Range(words) \cap {"shred", "mkfs", "mkfs.ext4", "trash"} # {}
    \/ \E i \in DOMAIN words \ {1} : words[i - 1] = "diskutil" /\ words[i] = "eraseDisk"
    \/ \E i \in DOMAIN words \ {1} :
         /\ words[i - 1] = "git" /\ words[i] = "push"
         /\ \E f \in ForceFlags : FollowedBy(After(words, i), f, DefaultBranches)

\* is_protected_path, for the path of an edit: Jones's own data and the permissions file of
\* the project, if that is known; what cannot be resolved is taken for protected.
OwnData(path, project) ==
  /\ path \in Paths
  /\ \/ ~Place[path].resolves
     \/ Place[path].data
     \/ project /\ Place[path].permissions

ReadOnlyPrograms ==
  {"cat", "ls", "head", "tail", "less", "more", "wc", "stat", "file", "grep", "rg", "diff",
   "find", "tree", "du", "jq", "yq"}

ReadOnly(c) ==
  /\ Plain(c)
  /\ c.tokens # <<>>
  /\ Prog(c.tokens[1]) \in ReadOnlyPrograms
  /\ ~ (Prog(c.tokens[1]) = "diff" /\ <<"-i">> \in Range(Tail(c.tokens)))
  /\ ~ (Prog(c.tokens[1]) = "find"
        /\ {<<"-delete">>, <<"-exec">>} \cap Range(Tail(c.tokens)) # {})

\* For the text of a command: nothing is resolved, a spelling is looked for.  That of the
\* project's permissions file always has "/.jones/" in it.
Mentions(c) == \E w \in Range(Text(c)) \cap Paths : Place[w].mentions

ProtectedPathDenied(c) == Mentions(c) /\ ~ReadOnly(c)

GitPushForceDenied(progs) ==
  /\ "git" \in Range(progs)
  /\ Range(progs) \cap ForceFlags # {}
  /\ \E i \in DOMAIN progs :
       /\ progs[i] = "push" /\ "push" \notin Range(SubSeq(progs, 1, i - 1))
       /\ LET refs == SelectSeq(After(progs, i), LAMBDA w : w \notin Options) IN
            Len(refs) < 2 \/ refs[Len(refs)] \in DefaultBranches

\* What _scan denies in one list of tokens.
TokensDenied(tokens) ==
  LET progs == [i \in DOMAIN tokens |-> Prog(tokens[i])] IN
    \/ FollowedBy(progs, "rm", RecursiveFlags)
    \/ {"find", "-delete"} \subseteq Range(progs)
    \/ Range(progs) \cap {"trash", "rmtrash", "shred", "mkfs", "mkfs.ext4"} # {}
    \/ FollowedBy(progs, "diskutil", {"eraseDisk"})
    \/ GitPushForceDenied(progs)

ShellInterpreters == {"sh", "bash", "zsh", "dash", "ksh"}

\* The strings handed to a shell with -c, tokenized.
Payloads(tokens) ==
  {[k \in DOMAIN tokens[i + 2] |-> <<tokens[i + 2][k]>>] :
     i \in {j \in 1..(Len(tokens) - 2) :
              Prog(tokens[j]) \in ShellInterpreters /\ tokens[j + 1] = <<"-c">>}}

Unwrap(lists) == lists \cup UNION {Payloads(tokens) : tokens \in lists}

\* _scan, with _MAX_SHELL_C_DEPTH = 3.
ScanDenied(tokens) ==
  \E inner \in Unwrap(Unwrap(Unwrap({tokens}))) : TokensDenied(inner)

CommandDenied(c) ==
  \/ RawTextDenied(c)
  \/ ProtectedPathDenied(c)
  \/ ~c.open /\ ScanDenied(c.tokens)

-----------------------------------------------------------------------------
(* permissions/review.py *)

NetworkEgressPrograms == {"curl", "wget", "ssh", "scp", "nc", "rsync", "ftp"}
PrivilegeEscalationPrograms == {"sudo", "doas", "su", "pkexec"}
DataDestructivePrograms == {"dd"}
RecursiveEscalates == {"chmod", "chown"}
RecursiveTraversal == {"find", "tar", "zip"}
MutatingPrograms ==
  {"chmod", "chown", "chgrp", "dd", "kill", "pkill", "killall", "launchctl", "systemctl",
   "brew", "npm", "pnpm", "yarn", "pip", "pip3", "uv", "cargo", "apt", "apt-get", "yum",
   "dnf", "mv", "cp", "ln", "mkdir", "rmdir", "touch", "truncate", "install", "crontab",
   "defaults"}
GitMutatingSubcommands ==
  {"push", "reset", "clean", "rebase", "checkout", "switch", "restore", "stash", "branch",
   "tag", "commit", "merge", "cherry-pick", "revert", "am", "apply"}

\* The tokens that could be paths, resolved; an unresolvable one says nothing.
Resolved(c, cwd) ==
  {Place[p] : p \in {q \in Progs(c) \cap Paths :
                       Place[q].resolves /\ (Place[q].relative => cwd # "unknown")}}

HighCommand(c, cwd) ==
  \/ c.tokens = <<>>
  \/ ~Plain(c)
  \/ \E place \in Resolved(c, cwd) : place.sensitive
  \/ Progs(c) \cap (NetworkEgressPrograms \cup PrivilegeEscalationPrograms
                    \cup DataDestructivePrograms) # {}
  \/ Progs(c) \cap RecursiveEscalates # {} /\ Progs(c) \cap RecursiveFlags # {}
  \/ {"git", "push"} \subseteq Progs(c) /\ Progs(c) \cap ForceFlags # {}

MediumCommand(c, cwd) ==
  \/ /\ Progs(c) \cap (RecursiveTraversal \cup RecursiveFlags) # {}
     /\ \E place \in Resolved(c, cwd) : place.contains
  \/ Progs(c) \cap MutatingPrograms # {}
  \/ "git" \in Progs(c) /\ Progs(c) \cap GitMutatingSubcommands # {}

\* Mutant of ClassifyTerminal: the medium signals are tested first.
ClassifyTerminalMildFirst(c, cwd) ==
  IF MediumCommand(c, cwd) THEN "medium" ELSE IF HighCommand(c, cwd) THEN "high" ELSE "low"

ClassifyTerminal(c, cwd) ==
  IF HighCommand(c, cwd) THEN "high" ELSE IF MediumCommand(c, cwd) THEN "medium" ELSE "low"

\* _classify_path_access.  The workspace "cwd" is the project's directory, the home
\* directory, or unknown.  A directory search and a write find the home directory too wide
\* to be a workspace; a read looks at the file's name.
ClassifyPath(path, cwd, wide, nameCounts) ==
  LET place == Place[path] IN
    IF path \notin Paths \/ (place.relative /\ cwd = "unknown") THEN "medium"
    ELSE IF ~place.resolves \/ place.shell \/ place.sensitive THEN "high"
    ELSE IF cwd = "unknown" \/ (wide /\ cwd = "home") THEN "medium"
    ELSE IF cwd \notin place.inside THEN "high"
    ELSE IF nameCounts /\ place.credential THEN "medium" ELSE "low"

ReadOnlyLow == {"browser_snapshot", "browser_get_images", "browser_vision"}
BrowserAlwaysHigh ==
  {"browser_cdp", "browser_vault_unlock", "browser_vault_fill", "browser_vault_save_login",
   "browser_vault_enter_code"}

ClassifyNavigate(url) ==
  CASE Hosts[url] = "none"                -> "medium"
    [] Hosts[url] \in {"other", "private"} -> "high"
    [] Hosts[url] = "public"              -> "low"

\* A console call fetches the log, clears it, or evaluates an expression.
ClassifyConsole(what) ==
  CASE what = "fetch" -> "low" [] what = "storage" -> "high" [] OTHER -> "medium"

\* review.classify.  "argument" is the call's path, URL or console request.
Classify(call, cwd) ==
  CASE call.tool \in ReadOnlyLow -> "low"
    [] call.tool = "read_file"    -> ClassifyPath(call.argument, cwd, FALSE, TRUE)
    [] call.tool = "search_files" -> ClassifyPath(call.argument, cwd, TRUE, FALSE)
    [] call.tool \in {"write_file", "patch"} -> ClassifyPath(call.argument, cwd, TRUE, FALSE)
    [] call.tool = "terminal" -> ClassifyTerminal(call.command, cwd)
    [] call.tool = "browser_navigate" -> ClassifyNavigate(call.argument)
    [] call.tool = "browser_console" -> ClassifyConsole(call.argument)
    [] call.tool \in BrowserAlwaysHigh -> "high"
    [] OTHER -> "medium"

-----------------------------------------------------------------------------
Rank(level) == CASE level = "low" -> 0 [] level = "medium" -> 1 [] level = "high" -> 2

\* A command line does not become less risky because a word is added to it.
NeverSaferWith(c, word, cwd) ==
  c.tokens # <<>> =>
    Rank(ClassifyTerminal(c, cwd)) <=
      Rank(ClassifyTerminal([c EXCEPT !.tokens = Append(@, <<word>>)], cwd))
=============================================================================
