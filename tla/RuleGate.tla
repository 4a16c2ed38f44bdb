------------------------------ MODULE RuleGate ------------------------------
(* How a tool call of the agent comes to run, or not, without the user: the rule gate in   *)
(* the Hermes process (kernel/plugin/jones_gate), the gate configuration the daemon writes *)
(* for it when a message starts a Turn (permissions/gate_config.py), and the daemon's own  *)
(* review of what the plugin hands on (sessions/service.py, _on_request_permission).       *)
(* Between them modes, rules, tool lists and remembered answers change at any time, and    *)
(* the client that sends may be gone in the middle of it.                                  *)
(* What happens to a request the user has to decide is UserGate's matter: here he answers. *)
EXTENDS CommandRisk, FiniteSets

CONSTANTS
  Calls,       \* tool calls the agent may try: [tool, server, argument, command, match]
  Words,       \* words a command may go on with
  Agents, Chain,   \* agents; those of the session, its parent, the parent's parent...
  PermSets,    \* contents of the two permissions.json, as a user may edit them
  ToolLists,   \* tool whitelists an agent may be given
  Setups,      \* where a behaviour begins: [mode, perms, lists]
  Workspaces,  \* where the session may work: "project", "home", "unknown" (look-up failed)
  ParentMode,  \* the mode of the parent session, or None
  None,
  MaxSends,    \* bound on the messages
  MaxEvents    \* bound on edits, remembered answers, lost clients and faults together

Modes == {"chat", "task", "auto"}

NoTools == "__jones:no-tools-allowed__"

ASSUME RuleGateAssumption ==
  /\ Chain \in Seq(Agents) /\ Chain # <<>>
  /\ None \notin Modes
  /\ Setups \subseteq [mode : Modes, perms : PermSets, lists : [Agents -> ToolLists]]
  /\ ParentMode = "task" => \A setup \in Setups : setup.mode # "auto"
  /\ MaxSends \in Nat /\ MaxEvents \in Nat
  /\ \A c \in Calls : c.command \in Lines /\ NoTools \notin {c.tool, c.server}
  /\ Words \subseteq STRING

VARIABLES
  mode,        \* sessions.mode
  perms,       \* the two permissions.json: rules, and which of them do not parse
  lists,       \* agents.tool_allowlist_json
  remembered,  \* _session_remembered_rules
  snapshot,    \* _turn_mode_snapshot
  sender,      \* the coroutine of send()
  turn,        \* number of the Turn, whether it runs, how many messages wait
  file,        \* jones_gate.json: whether it can be read, how often it was written, content
  cache,       \* the plugin's parsed copy, with the write it is a copy of
  call,        \* the last tool call
  charter,     \* history: what the user had configured when the file was written, and the
               \* mode the message it was written for had read
  events       \* edits, remembered answers, lost clients and faults so far

gate == <<file, charter>>
vars == <<mode, perms, lists, remembered, snapshot, sender, turn, file, cache, call,
          charter, events>>

TerminalLike == {"terminal", "process_manage", "execute_code"}
EditTools == {"write_file", "patch"}
BuiltinTools ==
  TerminalLike \cup EditTools
  \cup {"web_search", "read_file", "search_files", "browser_navigate", "browser_console",
        "browser_snapshot", "browser_click", "browser_cdp", "delegate_task", "memory"}
ProbeTool == "jones.__probe__"

HasCommand(c) == c.tool = "terminal" /\ c.command.tokens # <<>>

-----------------------------------------------------------------------------
(* permissions/gate_config.py and config/resolver.py: what the daemon writes *)

\* The rules of a scope, unless its file does not parse.
RulesOf(p, scope) == IF scope \in p.broken THEN [allow |-> {}, deny |-> {}] ELSE p[scope]

\* _merge_permission_rules: the project can only tighten.
Merged(p) ==
  LET user == RulesOf(p, "user")
      project == RulesOf(p, "project")
      denied == user.deny \cup project.deny
  IN [allow |-> (user.allow \cup project.allow) \ denied, deny |-> denied]

\* The whitelists along the chain of parents that restrict anything.
Restricting(l) == {l[Chain[i]] : i \in DOMAIN Chain} \ {{}}

\* Mutant of Allowlist: a list narrowed to nothing is written as an empty list.
AllowlistUnmarked(l) ==
  IF Restricting(l) = {} THEN {} ELSE
    {t \in UNION Restricting(l) : \A r \in Restricting(l) : t \in r}

\* _effective_tool_allowlist and _tool_allowlist_for_json: an empty list means "no
\* restriction", so "no tool at all" needs a name of its own.
Allowlist(l) ==
  IF Restricting(l) = {} THEN {} ELSE
    LET narrowed == {t \in UNION Restricting(l) : \A r \in Restricting(l) : t \in r}
    IN  IF narrowed = {} THEN {NoTools} ELSE narrowed

\* gate_config.build.  The rules remembered for the session come after those of the files.
Build(m, cwd, extra) ==
  [mode |-> m, project |-> cwd # "unknown", allow |-> Merged(perms).allow \cup extra,
   deny |-> Merged(perms).deny, degraded |-> perms.broken # {},
   allowlist |-> Allowlist(lists)]

-----------------------------------------------------------------------------
(* kernel/plugin/jones_gate: what the rule gate answers *)

HardDenied(c, project) ==
  \/ HasCommand(c) /\ CommandDenied(c.command)
  \/ c.tool \in EditTools /\ OwnData(c.argument, project)

\* _rules.decide: a deny of the tool or of its exact command, else an allow, which an
\* opaque command does not get.
RuleVerdict(c, config) ==
  LET matches == {c.tool} \cup (IF HasCommand(c) THEN {c.match} ELSE {}) IN
    IF matches \cap config.deny # {} THEN "deny"
    ELSE IF matches \cap config.allow # {} /\ (HasCommand(c) => Plain(c.command))
         THEN "allow" ELSE "none"

\* _policy.tool_allowed.
ToolAllowed(c, allowlist) ==
  \/ c.tool \in allowlist
  \/ c.tool \in BuiltinTools /\ allowlist = {}
  \/ c.tool \notin BuiltinTools /\ c.server # None /\ c.server \in allowlist

Blocks(c, config) ==
  \/ c.tool = ProbeTool
  \/ HardDenied(c, config.project)
  \/ RuleVerdict(c, config) = "deny"
  \/ config.mode = "chat"
  \/ ~ToolAllowed(c, config.allowlist)

\* Mutant of Decide: an allow rule answers before the hard denials are looked at.
DecideRulesFirst(c, config) ==
  IF c.tool # ProbeTool /\ RuleVerdict(c, config) = "allow" /\ ~config.degraded
  THEN "approve" ELSE IF Blocks(c, config) THEN "block" ELSE "approve"

\* _decide.  "pass" is no verdict: Hermes goes on, with its own approval of edits.
Decide(c, config) ==
  IF Blocks(c, config) THEN "block"
  ELSE IF \/ /\ RuleVerdict(c, config) = "allow"
             /\ ~config.degraded
             /\ c.tool \notin TerminalLike
          \/ c.tool \in EditTools
       THEN "pass" ELSE "approve"

-----------------------------------------------------------------------------
NoConfig == [mode |-> "chat", project |-> FALSE, allow |-> {}, deny |-> {},
             degraded |-> FALSE, allowlist |-> {}]

Nobody == [pc |-> "idle", mode |-> None, extra |-> FALSE]

NoCall == [pc |-> "none", call |-> None, config |-> NoConfig, charter |-> None,
           seen |-> NoConfig, hint |-> None, live |-> None, mode |-> None, cwd |-> None,
           consent |-> FALSE]

Init ==
  /\ \E setup \in Setups :
       mode = setup.mode /\ perms = setup.perms /\ lists = setup.lists
  /\ remembered = {}
  /\ snapshot = None
  /\ sender = Nobody
  /\ turn = [n |-> 0, runs |-> FALSE, queue |-> 0]
  /\ file = [readable |-> FALSE, writes |-> 0, config |-> NoConfig]
  /\ cache = [of |-> 0, config |-> NoConfig]
  /\ call = NoCall
  /\ charter = None
  /\ events = 0

\* Something the agent and the gates do not control.
Happens == events < MaxEvents /\ events' = events + 1

-----------------------------------------------------------------------------
(* What the user changes *)

\* set_mode: a child of a task session may not be made autonomous.
SetMode(m) ==
  /\ Happens
  /\ m # mode
  /\ ~(ParentMode = "task" /\ m = "auto")
  /\ mode' = m
  /\ UNCHANGED <<perms, lists, remembered, snapshot, sender, turn, gate, cache, call>>

EditRules(p) ==
  /\ Happens
  /\ p # perms
  /\ perms' = p
  /\ UNCHANGED <<mode, lists, remembered, snapshot, sender, turn, gate, cache, call>>

EditAgent(a, l) ==
  /\ Happens
  /\ l # lists[a]
  /\ lists' = [lists EXCEPT ![a] = l]
  /\ UNCHANGED <<mode, perms, remembered, snapshot, sender, turn, gate, cache, call>>

-----------------------------------------------------------------------------
(* send, and the Turns it starts *)

\* send reads the session before it waits for the lock.
SendReads ==
  /\ sender.pc = "idle"
  /\ turn.n + turn.queue < MaxSends
  /\ sender' = [pc |-> "read", mode |-> mode, extra |-> FALSE]
  /\ UNCHANGED <<mode, perms, lists, remembered, snapshot, turn, gate, cache, call, events>>

\* Mutant of SendQueues: the configuration is refreshed for every message.
SendQueuesRefreshing ==
  /\ sender.pc = "read"
  /\ turn.runs
  /\ turn' = [turn EXCEPT !.queue = @ + 1]
  /\ sender' = Nobody
  /\ file' = [file EXCEPT !.config = Build(sender.mode, "project", remembered),
                          !.writes = @ + 1]
  /\ UNCHANGED <<mode, perms, lists, remembered, snapshot, charter, cache, call, events>>

\* Behind a running Turn the message is queued, and the configuration left alone.
SendQueues ==
  /\ sender.pc = "read"
  /\ turn.runs
  /\ turn' = [turn EXCEPT !.queue = @ + 1]
  /\ sender' = Nobody
  /\ UNCHANGED <<mode, perms, lists, remembered, snapshot, gate, cache, call, events>>

\* Else the mode it read becomes that of the Turn.  The list of remembered rules is taken
\* by reference here, if there is one.
SendStarts ==
  /\ sender.pc = "read"
  /\ ~turn.runs
  /\ snapshot' = sender.mode
  /\ sender' = [sender EXCEPT !.pc = "refresh", !.extra = remembered # {}]
  /\ UNCHANGED <<mode, perms, lists, remembered, turn, gate, cache, call, events>>

\* _build_and_write, in the database thread.
Writes(cwd) ==
  LET extra == IF sender.extra THEN remembered ELSE {} IN
  /\ file' = [readable |-> TRUE, writes |-> file.writes + 1,
              config |-> Build(sender.mode, cwd, extra)]
  /\ charter' = [mode |-> mode, read |-> sender.mode, perms |-> perms, lists |-> lists,
                 extra |-> extra]

\* _refresh_gate_config, and _start_turn.
Refresh(cwd) ==
  /\ sender.pc = "refresh"
  /\ Writes(cwd)
  /\ turn' = [turn EXCEPT !.n = @ + 1, !.runs = TRUE]
  /\ sender' = Nobody
  /\ UNCHANGED <<mode, perms, lists, remembered, snapshot, cache, call, events>>

\* The project or the file cannot be had: the message fails, and nothing starts.
RefreshFails ==
  /\ Happens
  /\ sender.pc = "refresh"
  /\ sender' = Nobody
  /\ UNCHANGED <<mode, perms, lists, remembered, snapshot, turn, gate, cache, call>>

\* The client is gone, and its send cancelled: before the database thread was asked to write
\* the file, or after, and then it is written for no Turn.  What becomes of the message is
\* SessionTurns's matter.
SendCut(cwd) ==
  /\ Happens
  /\ sender.pc \in {"read", "refresh"}
  /\ sender' = Nobody
  /\ UNCHANGED gate \/ (sender.pc = "refresh" /\ Writes(cwd))
  /\ UNCHANGED <<mode, perms, lists, remembered, snapshot, turn, cache, call>>

\* _advance_queue starts the next message, or suspends the queue; neither refreshes.
TurnEnds(suspends) ==
  /\ turn.runs
  /\ turn' = IF turn.queue = 0 \/ suspends
             THEN [turn EXCEPT !.runs = FALSE]
             ELSE [n |-> turn.n + 1, runs |-> TRUE, queue |-> turn.queue - 1]
  /\ UNCHANGED <<mode, perms, lists, remembered, snapshot, sender, gate, cache, call, events>>

QueueResume ==
  /\ ~turn.runs
  /\ turn.queue > 0
  /\ sender.pc # "refresh"
  /\ turn' = [n |-> turn.n + 1, runs |-> TRUE, queue |-> turn.queue - 1]
  /\ UNCHANGED <<mode, perms, lists, remembered, snapshot, sender, gate, cache, call, events>>

\* The daemon dies, its workers with it, and starts again.
Restart ==
  /\ Happens
  /\ remembered' = {}
  /\ snapshot' = None
  /\ sender' = Nobody
  /\ turn' = [turn EXCEPT !.runs = FALSE]
  /\ cache' = [of |-> 0, config |-> NoConfig]
  /\ call' = NoCall
  /\ UNCHANGED <<mode, perms, lists, gate>>

\* The file is damaged or removed under the worker.
FileBreaks ==
  /\ Happens
  /\ file.readable
  /\ file' = [file EXCEPT !.readable = FALSE, !.writes = @ + 1]
  /\ UNCHANGED <<mode, perms, lists, remembered, snapshot, sender, turn, cache, call, charter>>

-----------------------------------------------------------------------------
(* A tool call *)

\* _config.load: the copy serves as long as the file's modification time is the same.
Load ==
  IF ~file.readable THEN cache ELSE IF cache.of = file.writes THEN cache
  ELSE [of |-> file.writes, config |-> file.config]

\* _on_pre_tool_call.  An unreadable configuration blocks every call.
Asks(c) ==
  LET config == Load.config
      verdict == IF file.readable THEN Decide(c, config) ELSE "block"
  IN
  /\ turn.runs
  /\ call.pc \in {"none", "ran"}
  /\ cache' = Load
  /\ call' = IF verdict = "block" THEN NoCall ELSE
               [NoCall EXCEPT
                  !.pc = IF verdict = "approve" \/ c.tool \in EditTools THEN "asks" ELSE "ran",
                  !.call = c, !.config = config, !.charter = charter,
                  !.hint = IF verdict = "approve" THEN config.mode ELSE None]
  /\ UNCHANGED <<mode, perms, lists, remembered, snapshot, sender, turn, gate, events>>

\* _on_request_permission reads the session...
Reviews ==
  /\ call.pc = "asks"
  /\ call' = [call EXCEPT !.pc = "review", !.live = mode]
  /\ UNCHANGED <<mode, perms, lists, remembered, snapshot, sender, turn, gate, cache, events>>

\* ...then takes the mode the plugin saw, or the Turn's, or what it read.
ModeFor == IF call.hint # None THEN call.hint
           ELSE IF snapshot # None THEN snapshot ELSE call.live

\* gate_config.read.
Seen == IF file.readable THEN file.config ELSE NoConfig

\* _decide_terminal_like_permission for commands, the review gate for the rest.
Verdict(c, cwd) ==
  LET low == Classify(c, cwd) = "low" IN
    IF c.tool \in TerminalLike
    THEN IF HasCommand(c) /\ CommandDenied(c.command) THEN "refused"
         ELSE IF /\ HasCommand(c) /\ Plain(c.command) /\ low
                 /\ c.match \in Seen.allow \/ ModeFor = "auto"
              THEN "ran" ELSE "user"
    ELSE IF low /\ ModeFor \in {"auto", "task"} THEN "ran" ELSE "user"

Classifies(cwd) ==
  /\ call.pc = "review"
  /\ call' = IF Verdict(call.call, cwd) = "refused" THEN NoCall ELSE
               [call EXCEPT !.pc = Verdict(call.call, cwd), !.seen = Seen, !.mode = ModeFor,
                            !.cwd = cwd, !.hint = None, !.live = None]
  /\ UNCHANGED <<mode, perms, lists, remembered, snapshot, sender, turn, gate, cache, events>>

\* permission_decide.
UserDenies ==
  /\ call.pc = "user"
  /\ call' = NoCall
  /\ UNCHANGED <<mode, perms, lists, remembered, snapshot, sender, turn, gate, cache, events>>

\* _remember_allow: the rule replaces what the scope says of the same match.  A project
\* file that does not parse is replaced as a whole.
RememberMatch == IF HasCommand(call.call) THEN call.call.match ELSE call.call.tool

UserAllows(remember) ==
  LET project == RulesOf(perms, "project") IN
  /\ call.pc = "user"
  /\ IF remember = "once" THEN UNCHANGED events ELSE Happens
  /\ call' = [call EXCEPT !.pc = "ran", !.consent = TRUE]
  /\ remembered' = IF remember = "session" THEN remembered \cup {RememberMatch}
                   ELSE remembered
  /\ perms' = IF remember = "project"
              THEN [perms EXCEPT !.project = [allow |-> project.allow \cup {RememberMatch},
                                              deny |-> project.deny \ {RememberMatch}],
                                 !.broken = @ \ {"project"}]
              ELSE perms
  /\ UNCHANGED <<mode, lists, snapshot, sender, turn, gate, cache>>

-----------------------------------------------------------------------------
Next ==
  \/ \E m \in Modes : SetMode(m)
  \/ \E p \in PermSets : EditRules(p)
  \/ \E a \in Agents, l \in ToolLists : EditAgent(a, l)
  \/ SendReads \/ SendQueues \/ SendStarts \/ RefreshFails
  \/ \E cwd \in Workspaces : Refresh(cwd) \/ SendCut(cwd)
  \/ \E suspends \in BOOLEAN : TurnEnds(suspends)
  \/ QueueResume \/ Restart \/ FileBreaks
  \/ \E c \in Calls : Asks(c)
  \/ Reviews
  \/ \E cwd \in Workspaces : Classifies(cwd)
  \/ UserDenies
  \/ \E remember \in {"once", "session", "project"} : UserAllows(remember)

Spec == Init /\ [][Next]_vars

-----------------------------------------------------------------------------
(* What a command line may start, told without the gates *)

Wrappers == {"sudo", "doas", "env", "nohup", "timeout", "xargs", "exec", "command"}

\* Tokens that begin with a program the line starts: the whole line, what follows a wrapper
\* and its options, and, behind an operator or in a substitution, any part of it.
Started(tokens, syntax) ==
  {After(tokens, k) : k \in {n \in 0 .. (Len(tokens) - 1) :
     n = 0 \/ syntax \/ \E j \in 1 .. n : Prog(tokens[j]) \in Wrappers}}

\* The program deletes what cannot be had back (PRD 5.7; forced pushes are left aside).
Destroys(tokens) ==
  LET program == Prog(tokens[1])
      flags == {Prog(tokens[i]) : i \in 2 .. Len(tokens)}
  IN
  \/ program = "rm" /\ flags \cap RecursiveFlags # {}
  \/ program = "find" /\ "-delete" \in flags
  \/ program = "diskutil" /\ "eraseDisk" \in flags
  \/ program \in {"trash", "rmtrash", "shred", "mkfs", "mkfs.ext4"}

\* Three shells deep, by which the code scans too.
StartsDestruction(c) ==
  \E tokens \in Unwrap(Unwrap(Unwrap({c.tokens}))) :
    \E started \in Started(tokens, c.syntax) : Destroys(started)

\* In whatever mode, by whatever rule, tool list or consent of the user, the agent starts no
\* program that deletes for good, not behind sudo, an operator or a shell in a shell either,
\* and changes nothing of Jones's own data: a command that names it starts with a program
\* that only reads, and an edit leads somewhere else (PRD 5.7, 10.4, N01).
HardDenyAbsolute ==
  LET c == call.call IN
  call.pc = "ran" =>
    /\ HasCommand(c) /\ ~c.command.open =>
         /\ ~StartsDestruction(c.command)
         /\ Mentions(c.command) =>
              ~c.command.syntax /\ Prog(c.command.tokens[1]) \notin MutatingPrograms
    /\ c.tool \in EditTools /\ c.argument \in Paths =>
         Place[c.argument].resolves /\ ~Place[c.argument].data

\* What every agent from the session up allows to be used.
Granted(c, l) ==
  \A r \in Restricting(l) :
    c.tool \in r \/ (c.tool \notin BuiltinTools /\ c.server \in r)

\* A call is covered by a mode and by the rest of what was configured when its file was
\* written: not in chat mode, by a tool that every agent of the chain grants, against no
\* deny rule, and because an allow rule names the tool, or because the daemon found it
\* harmless - a command only in auto mode or by a rule of its own.
Covered(m, u) ==
  LET c == call.call
      rules == Merged(u.perms)
      names == {c.tool} \cup (IF HasCommand(c) THEN {c.match} ELSE {})
  IN
  /\ m # "chat"
  /\ Granted(c, u.lists)
  /\ names \cap rules.deny = {}
  /\ \/ /\ c.tool \in (rules.allow \cup u.extra) \ TerminalLike
        /\ u.perms.broken = {}
     \/ /\ Classify(c, call.cwd) = "low"
        /\ c.tool \in TerminalLike =>
             Plain(c.command) /\ (c.match \in call.seen.allow \/ m = "auto")

\* A call that runs without being asked about is covered by what the user had configured
\* when its file was written, the mode included (_refresh_gate_config: "CURRENT mode").
\* Violated: send reads the mode before it waits for the lock.
SilentRunsAreCovered ==
  call.pc = "ran" /\ ~call.consent => Covered(call.charter.mode, call.charter)

\* It is covered by the mode its message had read, which set_mode may have replaced before
\* the file was written, and by the rules and lists of the time of writing.  Modes, rules,
\* lists, messages, Turns and the daemon itself may change between any two steps.
SilentRunsFitTheirMessage ==
  call.pc = "ran" /\ ~call.consent => Covered(call.charter.read, call.charter)

\* A command reviewed by the daemon is not found less risky with a word more.
MoreIsNeverSafer ==
  \A w \in Words :
    call.pc \in {"user", "ran"} /\ call.call.tool = "terminal" =>
      \A cwd \in Workspaces : NeverSaferWith(call.call.command, w, cwd)

\* Nothing changes the mode the rule gate works with while a Turn runs (PRD 9.1).
TurnKeepsItsMode ==
  [][turn.runs /\ turn'.runs /\ turn'.n = turn.n => file'.config.mode = file.config.mode]_vars

\* A rule does not let a command run while a permissions.json does not parse.
DegradedNeverWidens ==
  call.pc = "ran" /\ ~call.consent /\ call.call.tool = "terminal" =>
    call.mode = "auto" \/ ~call.seen.degraded
=============================================================================
