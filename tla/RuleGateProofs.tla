--------------------------- MODULE RuleGateProofs ---------------------------
(* Theorems about RuleGate, for every set of calls, rules, tool lists and agents, and every *)
(* interleaving of what the user changes with messages, Turns, faults and tool calls.       *)
EXTENDS RuleGate, SequenceTheorems, TLAPS

\* What the gate works with was written for u.
Configures(config, u) ==
  /\ config.mode = u.read /\ u.read \in Modes
  /\ config.allow = Merged(u.perms).allow \cup u.extra
  /\ config.deny = Merged(u.perms).deny
  /\ config.degraded = (u.perms.broken # {})
  /\ config.allowlist = Allowlist(u.lists)

\* A copy of the file that is as old as the file has its content.
FileInv ==
  /\ DOMAIN file = {"readable", "writes", "config"} /\ file.writes \in Nat
  /\ DOMAIN cache = {"of", "config"} /\ cache.of \in 0 .. file.writes
  /\ file.readable => file.writes # 0 /\ Configures(file.config, charter)
  /\ file.readable /\ cache.of = file.writes => cache.config = file.config

\* The file is written for a Turn that does not run yet, in the mode the sender read.
SendInv ==
  /\ mode \in Modes
  /\ DOMAIN sender = {"pc", "mode", "extra"}
  /\ sender.pc # "idle" => sender.mode \in Modes
  /\ sender.pc = "refresh" => ~turn.runs
  /\ DOMAIN turn = {"n", "runs", "queue"} /\ turn.n \in Nat

\* What the rule gate has let pass.
Passed(c, config) ==
  /\ ~HardDenied(c, config.project)
  /\ RuleVerdict(c, config) # "deny"
  /\ config.mode # "chat"
  /\ ToolAllowed(c, config.allowlist)

\* Why a call runs unasked: a rule, or the review.
ByRule(c, config) ==
  RuleVerdict(c, config) = "allow" /\ ~config.degraded /\ c.tool \notin TerminalLike
ByReview(c, config) ==
  /\ Classify(c, call.cwd) = "low"
  /\ c.tool \in TerminalLike => Plain(c.command) /\ (c.match \in call.seen.allow \/ config.mode = "auto")

CallFields ==
  {"pc", "call", "config", "charter", "seen", "hint", "live", "mode", "cwd", "consent"}

CallInv ==
  /\ DOMAIN call = CallFields
  /\ call.pc \in {"none", "asks", "review", "user", "ran"}
  /\ call.pc # "none" =>
       /\ call.call \in Calls
       /\ Passed(call.call, call.config) /\ Configures(call.config, call.charter)
  /\ call.pc \in {"asks", "review"} /\ call.call.tool \in TerminalLike =>
       call.hint = call.config.mode
  /\ call.pc = "ran" /\ ~call.consent =>
       ByRule(call.call, call.config) \/ ByReview(call.call, call.config)

\* The inductive invariant.
GateInv == FileInv /\ SendInv /\ CallInv

-----------------------------------------------------------------------------
(* What the gate's answers mean *)

\* A call the gate does not block has passed all it looks at, and only a rule, or an edit,
\* passes without a question.
LEMMA DecideMeans ==
  ASSUME NEW c, NEW config, Decide(c, config) # "block"
  PROVE  /\ Passed(c, config)
         /\ Decide(c, config) \in {"pass", "approve"}
         /\ Decide(c, config) = "pass" => c.tool \in EditTools \/ ByRule(c, config)
         /\ c.tool \in TerminalLike => Decide(c, config) = "approve"
<1>1. c.tool \in TerminalLike => c.tool \notin EditTools
  BY DEF TerminalLike, EditTools
<1> QED
  BY <1>1 DEF Decide, Blocks, Passed, ByRule

\* A list narrowed to nothing, written by a name of its own, grants nothing.
LEMMA AllowlistGrants ==
  ASSUME NEW c, NEW l, NoTools \notin {c.tool, c.server}, ToolAllowed(c, Allowlist(l))
  PROVE  Granted(c, l)
<1> DEFINE narrowed == {t \in UNION Restricting(l) : \A r \in Restricting(l) : t \in r}
<1>1. CASE Restricting(l) = {}
  BY <1>1 DEF Granted
<1>2. CASE Restricting(l) # {} /\ narrowed = {}
  <2>1. Allowlist(l) = {NoTools}
    BY <1>2 DEF Allowlist
  <2> QED
    BY <2>1 DEF ToolAllowed
<1>3. CASE Restricting(l) # {} /\ narrowed # {}
  <2>1. Allowlist(l) = narrowed
    BY <1>3 DEF Allowlist
  <2> QED
    BY <1>3, <2>1 DEF ToolAllowed, Granted
<1> QED
  BY <1>1, <1>2, <1>3

-----------------------------------------------------------------------------
(* A command line with one word more *)

\* What Prog returns: a program, or "", which the provers do not know to be a string.
ProgNames == STRING \cup {""}

\* More are the programs of a line whose programs were progs.
Extends(more, progs) ==
  /\ progs \in Seq(ProgNames) /\ more \in Seq(ProgNames)
  /\ Len(progs) <= Len(more)
  /\ \A i \in 1 .. Len(progs) : more[i] = progs[i]

\* The program at one place and the flag at a later one.
LEMMA FollowedByPlaces ==
  ASSUME NEW words \in Seq(ProgNames), NEW program, NEW flags
  PROVE  FollowedBy(words, program, flags) <=>
           \E i, j \in 1 .. Len(words) : i < j /\ words[i] = program /\ words[j] \in flags
<1>1. \A i \in 1 .. Len(words) :
        Range(After(words, i)) = {words[j] : j \in i + 1 .. Len(words)}
  <2> SUFFICES ASSUME NEW i \in 1 .. Len(words)
               PROVE  Range(After(words, i)) = {words[j] : j \in i + 1 .. Len(words)}
    OBVIOUS
  <2>1. /\ DOMAIN After(words, i) = 1 .. (Len(words) - i)
        /\ \A k \in 1 .. (Len(words) - i) : After(words, i)[k] = words[k + i]
    BY DEF After
  <2>2. ASSUME NEW j \in i + 1 .. Len(words)
        PROVE  words[j] \in Range(After(words, i))
    <3>1. j - i \in 1 .. (Len(words) - i) /\ After(words, i)[j - i] = words[j]
      BY <2>1
    <3> QED
      BY <2>1, <3>1 DEF Range
  <2>3. ASSUME NEW x \in Range(After(words, i))
        PROVE  x \in {words[j] : j \in i + 1 .. Len(words)}
    <3>1. PICK k \in 1 .. (Len(words) - i) : x = words[k + i]
      BY <2>1 DEF Range
    <3>2. k + i \in i + 1 .. Len(words)
      OBVIOUS
    <3> QED
      BY <3>1, <3>2
  <2> QED
    BY <2>2, <2>3
<1>2. DOMAIN words = 1 .. Len(words)
  OBVIOUS
<1>3. ASSUME FollowedBy(words, program, flags)
      PROVE  \E i, j \in 1 .. Len(words) : i < j /\ words[i] = program /\ words[j] \in flags
  <2>1. PICK i \in 1 .. Len(words) :
               words[i] = program /\ Range(After(words, i)) \cap flags # {}
    BY <1>2, <1>3 DEF FollowedBy
  <2>2. PICK j \in i + 1 .. Len(words) : words[j] \in flags
    BY <1>1, <2>1
  <2>3. j \in 1 .. Len(words) /\ i < j
    OBVIOUS
  <2> QED
    BY <2>1, <2>2, <2>3
<1>4. ASSUME NEW i \in 1 .. Len(words), NEW j \in 1 .. Len(words),
             i < j, words[i] = program, words[j] \in flags
      PROVE  FollowedBy(words, program, flags)
  <2>1. j \in i + 1 .. Len(words)
    BY <1>4
  <2>2. words[j] \in Range(After(words, i))
    BY <1>1, <2>1
  <2> QED
    BY <1>2, <1>4, <2>2 DEF FollowedBy
<1> QED
  BY <1>3, <1>4

\* What follows a program still does when the line has more words.
LEMMA FollowedByMore ==
  ASSUME NEW progs, NEW more, Extends(more, progs), NEW program, NEW flags,
         FollowedBy(progs, program, flags)
  PROVE  FollowedBy(more, program, flags)
<1>1. PICK i \in 1 .. Len(progs), j \in 1 .. Len(progs) :
             i < j /\ progs[i] = program /\ progs[j] \in flags
  BY FollowedByPlaces DEF Extends
<1>2. /\ i \in 1 .. Len(more) /\ j \in 1 .. Len(more)
      /\ more[i] = program /\ more[j] \in flags
  BY <1>1 DEF Extends
<1> QED
  BY <1>1, <1>2, FollowedByPlaces DEF Extends

\* The line c, and the line with the word.
Longer(c, word) == [c EXCEPT !.tokens = Append(@, <<word>>)]

\* The programs of a line's tokens, in their order.
ProgsOf(c) == [i \in DOMAIN c.tokens |-> Prog(c.tokens[i])]

\* One word is a token.
LEMMA SingleWord ==
  ASSUME NEW S, NEW x \in S
  PROVE  <<x>> \in Seq(S)
OBVIOUS

\* A word more leaves the line as it was, and follows it.
LEMMA LongerExtends ==
  ASSUME NEW c \in Lines, NEW word \in STRING
  PROVE  /\ Longer(c, word).tokens = Append(c.tokens, <<word>>)
         /\ Longer(c, word).syntax = c.syntax /\ Longer(c, word).open = c.open
         /\ Range(c.tokens) \subseteq Range(Longer(c, word).tokens)
         /\ Extends(ProgsOf(Longer(c, word)), ProgsOf(c))
<1> DEFINE d == Longer(c, word)
<1>1. /\ d.tokens = Append(c.tokens, <<word>>) /\ d.syntax = c.syntax /\ d.open = c.open
      /\ c.tokens \in Seq(Seq(STRING))
  BY DEF Longer, Lines
<1>2. <<word>> \in Seq(STRING)
  BY SingleWord
<1>3. /\ d.tokens \in Seq(Seq(STRING)) /\ Len(d.tokens) = Len(c.tokens) + 1
      /\ \A i \in 1 .. Len(c.tokens) : d.tokens[i] = c.tokens[i]
      /\ DOMAIN c.tokens = 1 .. Len(c.tokens) /\ DOMAIN d.tokens = 1 .. Len(d.tokens)
      /\ Len(c.tokens) \in Nat
  BY <1>1, <1>2
<1> HIDE DEF d
<1>4. Range(c.tokens) \subseteq Range(d.tokens)
  <2>1. \A i \in DOMAIN c.tokens : i \in DOMAIN d.tokens /\ d.tokens[i] = c.tokens[i]
    BY <1>3
  <2> QED
    BY <2>1, Zenon DEF Range
<1>5. \A token \in Seq(STRING) : Prog(token) \in ProgNames
  <2>1. ASSUME NEW token \in Seq(STRING), Len(token) = 1
        PROVE  token[1] \in STRING
    BY <2>1, ElementOfSeq
  <2> QED
    BY <2>1 DEF Prog, ProgNames
<1>6. /\ \A i \in 1 .. Len(c.tokens) : c.tokens[i] \in Seq(STRING)
      /\ \A i \in 1 .. Len(d.tokens) : d.tokens[i] \in Seq(STRING)
  BY <1>1, <1>3, ElementOfSeq
<1>7. ProgsOf(c) \in Seq(ProgNames) /\ Len(ProgsOf(c)) = Len(c.tokens)
  BY <1>3, <1>5, <1>6 DEF ProgsOf
<1>8. ProgsOf(d) \in Seq(ProgNames) /\ Len(ProgsOf(d)) = Len(d.tokens)
  BY <1>3, <1>5, <1>6 DEF ProgsOf
<1>9. \A i \in 1 .. Len(c.tokens) : ProgsOf(d)[i] = ProgsOf(c)[i]
  BY <1>3 DEF ProgsOf
<1>10. Extends(ProgsOf(d), ProgsOf(c))
  BY <1>3, <1>7, <1>8, <1>9 DEF Extends
<1> QED
  BY <1>1, <1>4, <1>10 DEF d

\* A line the gate cannot read does not become readable by a word more ...
LEMMA OpaqueStaysOpaque ==
  ASSUME NEW c \in Lines, NEW word \in STRING, OpaqueToken(c)
  PROVE  OpaqueToken(Longer(c, word))
<1> DEFINE d == Longer(c, word)
<1>1. Extends(ProgsOf(d), ProgsOf(c)) /\ d.tokens = Append(c.tokens, <<word>>)
  BY LongerExtends
<1>2. c.tokens \in Seq(Seq(STRING))
  BY DEF Lines
<1>3. d.tokens # <<>>
  BY <1>1, <1>2
<1>4. /\ DOMAIN ProgsOf(c) = 1 .. Len(ProgsOf(c)) /\ DOMAIN ProgsOf(d) = 1 .. Len(ProgsOf(d))
      /\ DOMAIN ProgsOf(c) \subseteq DOMAIN ProgsOf(d)
      /\ \A i \in DOMAIN ProgsOf(c) : ProgsOf(d)[i] = ProgsOf(c)[i]
  BY <1>1 DEF Extends
<1> HIDE DEF d
<1>5. Range(ProgsOf(c)) \subseteq Range(ProgsOf(d))
  BY <1>4 DEF Range
<1>0. \A e : OpaqueToken(e) <=>
        \/ Range(ProgsOf(e)) \cap OpaquePrograms # {}
        \/ FollowedBy(ProgsOf(e), "find", {"-delete", "-exec"})
        \/ FollowedBy(ProgsOf(e), "sed", {"-i", "--in-place"})
        \/ e.tokens # <<>> /\ ProgsOf(e)[1] = "."
  BY Zenon DEF OpaqueToken, ProgsOf
<1>6. CASE Range(ProgsOf(c)) \cap OpaquePrograms # {}
  <2>1. Range(ProgsOf(d)) \cap OpaquePrograms # {}
    BY <1>5, <1>6
  <2> QED
    BY <1>0, <2>1 DEF d
<1>7. CASE FollowedBy(ProgsOf(c), "find", {"-delete", "-exec"})
  <2>1. FollowedBy(ProgsOf(d), "find", {"-delete", "-exec"})
    BY <1>1, <1>7, FollowedByMore
  <2> QED
    BY <1>0, <2>1 DEF d
<1>8. CASE FollowedBy(ProgsOf(c), "sed", {"-i", "--in-place"})
  <2>1. FollowedBy(ProgsOf(d), "sed", {"-i", "--in-place"})
    BY <1>1, <1>8, FollowedByMore
  <2> QED
    BY <1>0, <2>1 DEF d
<1>9. CASE c.tokens # <<>> /\ ProgsOf(c)[1] = "."
  <2>1. 1 \in DOMAIN ProgsOf(c)
    BY <1>2, <1>9 DEF ProgsOf
  <2>2. ProgsOf(d)[1] = "."
    BY <1>4, <1>9, <2>1
  <2> QED
    BY <1>0, <1>3, <2>2 DEF d
<1> QED
  BY <1>0, <1>6, <1>7, <1>8, <1>9 DEF d

\* ... nor does a high risk become smaller ...
LEMMA HighStaysHigh ==
  ASSUME NEW c \in Lines, NEW word \in STRING, NEW cwd, c.tokens # <<>>, HighCommand(c, cwd)
  PROVE  HighCommand(Longer(c, word), cwd)
<1> DEFINE d == Longer(c, word)
<1>1. /\ d.syntax = c.syntax /\ d.open = c.open /\ Range(c.tokens) \subseteq Range(d.tokens)
  BY LongerExtends
<1>2. ~Plain(c) => ~Plain(d)
  BY <1>1, OpaqueStaysOpaque DEF Plain
<1> HIDE DEF d
<1>3. Progs(c) \subseteq Progs(d)
  BY <1>1 DEF Progs
<1>4. Resolved(c, cwd) \subseteq Resolved(d, cwd)
  BY <1>3 DEF Resolved
<1> QED
  BY <1>2, <1>3, <1>4 DEF HighCommand, d

\* ... nor a medium one.
LEMMA MediumStaysMedium ==
  ASSUME NEW c \in Lines, NEW word \in STRING, NEW cwd, MediumCommand(c, cwd)
  PROVE  MediumCommand(Longer(c, word), cwd)
<1> DEFINE d == Longer(c, word)
<1>1. Range(c.tokens) \subseteq Range(d.tokens)
  BY LongerExtends
<1> HIDE DEF d
<1>2. Progs(c) \subseteq Progs(d)
  BY <1>1 DEF Progs
<1>3. Resolved(c, cwd) \subseteq Resolved(d, cwd)
  BY <1>2 DEF Resolved
<1> QED
  BY <1>2, <1>3 DEF MediumCommand, d

\* A line does not fall in risk by a word that is added to it: every signal the review
\* looks for stays where it was found.
LEMMA NeverSafer ==
  ASSUME NEW c \in Lines, NEW word \in STRING, NEW cwd
  PROVE  NeverSaferWith(c, word, cwd)
<1> SUFFICES ASSUME c.tokens # <<>>
             PROVE  Rank(ClassifyTerminal(c, cwd)) <= Rank(ClassifyTerminal(Longer(c, word), cwd))
  BY DEF NeverSaferWith, Longer
<1>1. HighCommand(c, cwd) => HighCommand(Longer(c, word), cwd)
  BY HighStaysHigh
<1>2. MediumCommand(c, cwd) => MediumCommand(Longer(c, word), cwd)
  BY MediumStaysMedium
<1>3. Rank("low") = 0 /\ Rank("medium") = 1 /\ Rank("high") = 2
  BY DEF Rank
<1> QED
  BY <1>1, <1>2, <1>3 DEF ClassifyTerminal

-----------------------------------------------------------------------------
(* What a line may start, and the scan *)

TokenLists == Seq(Seq(STRING))

\* The programs of a list of tokens, one for each.
LEMMA ProgramsOfTokens ==
  ASSUME NEW tokens \in TokenLists
  PROVE  /\ [i \in DOMAIN tokens |-> Prog(tokens[i])] \in Seq(ProgNames)
         /\ Len([i \in DOMAIN tokens |-> Prog(tokens[i])]) = Len(tokens)
<1>1. \A i \in 1 .. Len(tokens) : tokens[i] \in Seq(STRING)
  BY ElementOfSeq DEF TokenLists
<1>2. ASSUME NEW token \in Seq(STRING)
      PROVE  Prog(token) \in ProgNames
  <2>1. Len(token) = 1 => token[1] \in STRING
    BY ElementOfSeq
  <2> QED
    BY <2>1 DEF Prog, ProgNames
<1>3. DOMAIN tokens = 1 .. Len(tokens) /\ Len(tokens) \in Nat
  BY DEF TokenLists
<1> QED
  BY <1>1, <1>2, <1>3

\* A program that destroys is found by the scan wherever in the line it is started.
LEMMA StartedIsScanned ==
  ASSUME NEW tokens \in TokenLists, NEW syntax,
         NEW started \in Started(tokens, syntax), Destroys(started)
  PROVE  TokensDenied(tokens)
<1> DEFINE progs == [i \in DOMAIN tokens |-> Prog(tokens[i])]
<1>1. PICK k \in 0 .. (Len(tokens) - 1) : started = After(tokens, k)
  BY DEF Started
<1>2. /\ tokens \in TokenLists /\ Len(tokens) \in Nat /\ DOMAIN tokens = 1 .. Len(tokens)
  BY DEF TokenLists
<1>3. /\ Len(started) = Len(tokens) - k /\ k + 1 \in 1 .. Len(tokens)
      /\ \A m \in 1 .. (Len(tokens) - k) : started[m] = tokens[m + k]
  BY <1>1, <1>2 DEF After, TokenLists
<1>4. progs \in Seq(ProgNames) /\ Len(progs) = Len(tokens)
  BY ProgramsOfTokens
<1>5. \A i \in 1 .. Len(tokens) : progs[i] = Prog(tokens[i])
  BY <1>2
<1> DEFINE program == Prog(started[1])
           flags == {Prog(started[i]) : i \in 2 .. Len(started)}
<1>6. program = progs[k + 1]
  BY <1>3, <1>5
<1>7. \A f \in flags : \E j \in 1 .. Len(tokens) : k + 1 < j /\ progs[j] = f
  <2> SUFFICES ASSUME NEW i \in 2 .. Len(started)
               PROVE  \E j \in 1 .. Len(tokens) : k + 1 < j /\ progs[j] = Prog(started[i])
    OBVIOUS
  <2>1. i + k \in 1 .. Len(tokens) /\ k + 1 < i + k /\ i \in 1 .. (Len(tokens) - k)
    BY <1>2, <1>3
  <2> QED
    BY <1>3, <1>5, <2>1
<1>8. /\ program \in Range(progs) /\ flags \subseteq Range(progs)
  BY <1>2, <1>3, <1>6, <1>7, Zenon DEF Range
<1> HIDE DEF progs, program, flags
<1>9. \A p, S : program = p /\ flags \cap S # {} => FollowedBy(progs, p, S)
  <2> SUFFICES ASSUME NEW p, NEW S, program = p, flags \cap S # {}
               PROVE  FollowedBy(progs, p, S)
    OBVIOUS
  <2>1. PICK j \in 1 .. Len(tokens) : k + 1 < j /\ progs[j] \in S
    BY <1>7
  <2>2. \E i, l \in 1 .. Len(progs) : i < l /\ progs[i] = p /\ progs[l] \in S
    BY <1>3, <1>4, <1>6, <2>1
  <2> QED
    BY <1>4, <2>2, FollowedByPlaces
<1>10. Destroys(started) =>
         \/ program = "rm" /\ flags \cap RecursiveFlags # {}
         \/ program = "find" /\ "-delete" \in flags
         \/ program = "diskutil" /\ flags \cap {"eraseDisk"} # {}
         \/ program \in {"trash", "rmtrash", "shred", "mkfs", "mkfs.ext4"}
  BY DEF Destroys, program, flags
<1>11. \/ FollowedBy(progs, "rm", RecursiveFlags)
       \/ {"find", "-delete"} \subseteq Range(progs)
       \/ FollowedBy(progs, "diskutil", {"eraseDisk"})
       \/ Range(progs) \cap {"trash", "rmtrash", "shred", "mkfs", "mkfs.ext4"} # {}
  BY <1>8, <1>9, <1>10
<1> QED
  BY <1>11 DEF TokensDenied, progs

\* What a shell is handed with -c is a list of tokens.
LEMMA UnwrapTypes ==
  ASSUME NEW lists0 \in SUBSET TokenLists
  PROVE  Unwrap(lists0) \subseteq TokenLists
<1> SUFFICES ASSUME NEW tokens \in lists0, NEW inner \in Payloads(tokens)
             PROVE  inner \in TokenLists
  BY DEF Unwrap
<1>1. PICK i \in 1 .. (Len(tokens) - 2) :
             inner = [n \in DOMAIN tokens[i + 2] |-> <<tokens[i + 2][n]>>]
  BY DEF Payloads
<1>2. tokens \in Seq(Seq(STRING))
  BY DEF TokenLists
<1>3. i + 2 \in 1 .. Len(tokens)
  BY <1>2
<1>4. tokens[i + 2] \in Seq(STRING)
  BY <1>2, <1>3, ElementOfSeq
<1> DEFINE words == tokens[i + 2]
<1> HIDE DEF words
<1>5. words \in Seq(STRING) /\ DOMAIN words = 1 .. Len(words) /\ Len(words) \in Nat
  BY <1>4 DEF words
<1>6. \A n \in 1 .. Len(words) : <<words[n]>> \in Seq(STRING)
  BY <1>5, ElementOfSeq, SingleWord
<1>7. inner = [n \in 1 .. Len(words) |-> <<words[n]>>]
  BY <1>1, <1>5 DEF words
<1> QED
  BY <1>5, <1>6, <1>7 DEF TokenLists

\* A line that starts a destruction is denied.
LEMMA DestructionIsDenied ==
  ASSUME NEW c \in Lines, StartsDestruction(c)
  PROVE  ScanDenied(c.tokens)
<1>1. {c.tokens} \subseteq TokenLists
  BY DEF Lines, TokenLists
<1>2. Unwrap(Unwrap(Unwrap({c.tokens}))) \subseteq TokenLists
  BY <1>1, UnwrapTypes
<1>3. PICK tokens \in Unwrap(Unwrap(Unwrap({c.tokens}))) :
             \E started \in Started(tokens, c.syntax) : Destroys(started)
  BY DEF StartsDestruction
<1>4. TokensDenied(tokens)
  BY <1>2, <1>3, StartedIsScanned
<1> QED
  BY <1>3, <1>4 DEF ScanDenied

-----------------------------------------------------------------------------
\* What changes only what the user configures.
LEMMA InitGate ==
  ASSUME Init
  PROVE  GateInv
<1>1. FileInv
  BY DEF Init, FileInv
<1>2. SendInv
  BY RuleGateAssumption DEF Init, SendInv, Nobody
<1>3. CallInv
  BY DEF Init, CallInv, NoCall, CallFields
<1> QED
  BY <1>1, <1>2, <1>3 DEF GateInv

\* Steps that leave the gate, its file and the call alone.
LEMMA OthersKeep ==
  ASSUME GateInv, UNCHANGED <<file, charter, cache, call>>, SendInv'
  PROVE  GateInv'
<1>1. FileInv'
  BY DEF GateInv, FileInv
<1>2. CallInv'
  BY DEF GateInv, CallInv, ByReview
<1> QED
  BY <1>1, <1>2 DEF GateInv

\* What the user configures, a message that comes and a Turn that goes on or ends.
Around ==
  \/ \E m \in Modes : SetMode(m)
  \/ \E p \in PermSets : EditRules(p)
  \/ \E a \in Agents, l \in ToolLists : EditAgent(a, l)
  \/ SendReads \/ SendQueues \/ SendStarts \/ RefreshFails
  \/ \E suspends \in BOOLEAN : TurnEnds(suspends)
  \/ QueueResume

\* What happens around a call: to the mode, the rules, the lists, a send and the Turns.
LEMMA AroundKeeps ==
  ASSUME GateInv, Around
  PROVE  GateInv'
<1>1. UNCHANGED <<file, charter, cache, call>>
  BY DEF Around, SetMode, EditRules, EditAgent, SendReads, SendQueues, SendStarts,
         RefreshFails, TurnEnds, QueueResume, gate
<1>2. SendInv'
  <2>1. CASE \E m \in Modes : SetMode(m)
    BY <2>1 DEF GateInv, SendInv, SetMode
  <2>2. CASE (\E p \in PermSets : EditRules(p)) \/ \E a \in Agents, l \in ToolLists : EditAgent(a, l)
    BY <2>2 DEF GateInv, SendInv, EditRules, EditAgent
  <2>3. CASE SendReads
    BY <2>3 DEF GateInv, SendInv, SendReads
  <2>4. CASE SendQueues
    BY <2>4 DEF GateInv, SendInv, SendQueues, Nobody
  <2>5. CASE SendStarts
    BY <2>5 DEF GateInv, SendInv, SendStarts
  <2>6. CASE RefreshFails
    BY <2>6 DEF GateInv, SendInv, RefreshFails, Nobody
  <2>7. CASE \E suspends \in BOOLEAN : TurnEnds(suspends)
    BY <2>7 DEF GateInv, SendInv, TurnEnds
  <2>8. CASE QueueResume
    BY <2>8 DEF GateInv, SendInv, QueueResume
  <2> QED
    BY <2>1, <2>2, <2>3, <2>4, <2>5, <2>6, <2>7, <2>8 DEF Around
<1> QED
  BY <1>1, <1>2, OthersKeep

\* The file is written from the mode the sender read and from what is configured now, for a
\* Turn or, when the sender's client is gone, for none.
LEMMA WritesKeeps ==
  ASSUME GateInv, NEW cwd, Writes(cwd), sender.pc = "refresh",
         UNCHANGED <<cache, call, mode>>, SendInv'
  PROVE  GateInv'
<1> DEFINE extra == IF sender.extra THEN remembered ELSE {}
<1>1. /\ file' = [readable |-> TRUE, writes |-> file.writes + 1,
                  config |-> Build(sender.mode, cwd, extra)]
      /\ charter' = [mode |-> mode, read |-> sender.mode, perms |-> perms, lists |-> lists,
                     extra |-> extra]
      /\ cache' = cache /\ call' = call
      /\ sender.mode \in Modes
  BY DEF Writes, GateInv, SendInv
<1>2. Configures(file'.config, charter')
  BY <1>1 DEF Configures, Build
<1>3. FileInv'
  BY <1>1, <1>2 DEF GateInv, FileInv
<1>4. CallInv'
  BY <1>1 DEF GateInv, CallInv, ByReview
<1> QED
  BY <1>3, <1>4 DEF GateInv

LEMMA RefreshKeeps ==
  ASSUME GateInv, NEW cwd, Refresh(cwd)
  PROVE  GateInv'
<1>1. SendInv'
  BY DEF Refresh, GateInv, SendInv, Nobody
<1> QED
  BY <1>1, WritesKeeps DEF Refresh

LEMMA SendCutKeeps ==
  ASSUME GateInv, NEW cwd, SendCut(cwd)
  PROVE  GateInv'
<1>1. SendInv'
  BY DEF SendCut, GateInv, SendInv, Nobody
<1>2. CASE UNCHANGED gate
  BY <1>1, <1>2, OthersKeep DEF SendCut, gate
<1>3. CASE sender.pc = "refresh" /\ Writes(cwd)
  BY <1>1, <1>3, WritesKeeps DEF SendCut
<1> QED
  BY <1>2, <1>3 DEF SendCut

\* A new daemon starts workers that have read nothing.
LEMMA RestartKeeps ==
  ASSUME GateInv, Restart
  PROVE  GateInv'
<1>1. FileInv'
  BY DEF GateInv, FileInv, Restart, gate
<1>2. SendInv'
  BY DEF GateInv, SendInv, Restart, Nobody
<1>3. CallInv'
  BY DEF Restart, CallInv, NoCall, CallFields
<1> QED
  BY <1>1, <1>2, <1>3 DEF GateInv

\* The file becomes unreadable.
LEMMA FileBreaksKeeps ==
  ASSUME GateInv, FileBreaks
  PROVE  GateInv'
<1>1. FileInv'
  BY DEF GateInv, FileInv, FileBreaks
<1>2. SendInv'
  BY DEF GateInv, SendInv, FileBreaks
<1>3. CallInv'
  BY DEF GateInv, CallInv, ByReview, FileBreaks
<1> QED
  BY <1>1, <1>2, <1>3 DEF GateInv

\* What the plugin decides by is what was written last, whether it read the file again or not.
LEMMA LoadIsCurrent ==
  ASSUME GateInv, file.readable
  PROVE  /\ Load.config = file.config
         /\ Configures(Load.config, charter)
  BY DEF GateInv, FileInv, Load

\* A call is decided by the plugin.
LEMMA AsksKeeps ==
  ASSUME GateInv, NEW c \in Calls, Asks(c)
  PROVE  GateInv'
<1>1. file' = file /\ charter' = charter /\ cache' = Load
  BY DEF Asks, gate
<1>2. FileInv'
  BY <1>1 DEF GateInv, FileInv, Load
<1>3. SendInv'
  BY DEF GateInv, SendInv, Asks
<1>4. CallInv'
  <2>1. CASE call' = NoCall
    BY <2>1 DEF CallInv, NoCall, CallFields
  <2>2. CASE call' # NoCall
    <3> DEFINE config == Load.config
    <3>1. /\ file.readable /\ Decide(c, config) # "block"
          /\ call' = [NoCall EXCEPT
                        !.pc = IF Decide(c, config) = "approve" \/ c.tool \in EditTools
                               THEN "asks" ELSE "ran",
                        !.call = c, !.config = config, !.charter = charter,
                        !.hint = IF Decide(c, config) = "approve" THEN config.mode ELSE None]
      BY <2>2 DEF Asks
    <3>2. Configures(config, charter)
      BY <3>1, LoadIsCurrent
    <3> HIDE DEF config
    <3>3. /\ Passed(c, config)
          /\ Decide(c, config) = "pass" => c.tool \in EditTools \/ ByRule(c, config)
          /\ c.tool \in TerminalLike => Decide(c, config) = "approve"
          /\ Decide(c, config) \in {"pass", "approve"}
      BY <3>1, DecideMeans
    <3>4. /\ DOMAIN call' = CallFields /\ call'.call = c /\ call'.config = config
          /\ call'.charter = charter /\ call'.pc \in {"asks", "ran"}
          /\ call'.hint = (IF Decide(c, config) = "approve" THEN config.mode ELSE None)
          /\ call'.pc = "ran" => ByRule(c, config)
      BY <3>1, <3>3 DEF NoCall, CallFields
    <3> QED
      BY <3>2, <3>3, <3>4 DEF CallInv
  <2> QED
    BY <2>1, <2>2
<1> QED
  BY <1>2, <1>3, <1>4 DEF GateInv

\* A call is reviewed by the daemon.
LEMMA ReviewsKeeps ==
  ASSUME GateInv, Reviews
  PROVE  GateInv'
<1>1. UNCHANGED <<file, charter, cache, mode, sender, turn>>
  BY DEF Reviews, gate
<1>2. FileInv'
  BY <1>1 DEF GateInv, FileInv
<1>3. SendInv'
  BY <1>1 DEF GateInv, SendInv
<1>4. CallInv'
  BY DEF GateInv, CallInv, CallFields, Reviews
<1> QED
  BY <1>2, <1>3, <1>4 DEF GateInv

\* The daemon goes by the mode the plugin saw, and lets a call run that its review, or for a
\* command an exact rule or the auto mode, speaks for.
LEMMA ClassifiesKeeps ==
  ASSUME GateInv, NEW cwd, Classifies(cwd)
  PROVE  GateInv'
<1>1. UNCHANGED <<file, charter, cache, mode, sender, turn>>
  BY DEF Classifies, gate
<1>2. FileInv'
  BY <1>1 DEF GateInv, FileInv
<1>3. SendInv'
  BY <1>1 DEF GateInv, SendInv
<1>4. CallInv'
  <2>1. CASE call' = NoCall
    BY <2>1 DEF CallInv, NoCall, CallFields
  <2>2. CASE call' # NoCall
    <3> DEFINE verdict == Verdict(call.call, cwd)
    <3>1. /\ verdict # "refused" /\ call.pc = "review"
          /\ call' = [call EXCEPT !.pc = verdict, !.seen = Seen, !.mode = ModeFor,
                                  !.cwd = cwd, !.hint = None, !.live = None]
      BY <2>2 DEF Classifies
    <3>2. verdict \in {"ran", "user"}
      BY <3>1 DEF Verdict
    <3>3. call.call.tool \in TerminalLike => ModeFor = call.config.mode
      <4>1. call.call.tool \in TerminalLike => call.hint = call.config.mode
        BY <3>1 DEF GateInv, CallInv
      <4>2. call.config.mode # None
        BY <3>1, RuleGateAssumption DEF GateInv, CallInv, Configures
      <4> QED
        BY <4>1, <4>2 DEF ModeFor
    <3>4. verdict = "ran" =>
            /\ Classify(call.call, cwd) = "low"
            /\ call.call.tool \in TerminalLike =>
                 /\ Plain(call.call.command)
                 /\ call.call.match \in Seen.allow \/ call.config.mode = "auto"
      BY <3>1, <3>3 DEF Verdict
    <3> HIDE DEF verdict
    <3>5. /\ DOMAIN call' = CallFields /\ call'.call = call.call
          /\ call'.config = call.config /\ call'.charter = call.charter
          /\ call'.pc = verdict /\ call'.seen = Seen /\ call'.cwd = cwd
      BY <3>1 DEF GateInv, CallInv, CallFields
    <3>6. /\ call.call \in Calls /\ Passed(call.call, call.config)
          /\ Configures(call.config, call.charter)
      BY <3>1 DEF GateInv, CallInv
    <3>7. call'.pc = "ran" => ByReview(call.call, call.config)'
      BY <3>4, <3>5 DEF ByReview
    <3> QED
      BY <3>2, <3>5, <3>6, <3>7 DEF CallInv
  <2> QED
    BY <2>1, <2>2
<1> QED
  BY <1>2, <1>3, <1>4 DEF GateInv

\* The user answers.
LEMMA UserAnswersKeep ==
  ASSUME GateInv, UserDenies \/ \E remember \in {"once", "session", "project"} : UserAllows(remember)
  PROVE  GateInv'
<1>1. /\ UNCHANGED <<file, charter, cache, mode, sender, turn>>
      /\ call' = NoCall \/ (call.pc = "user" /\ call' = [call EXCEPT !.pc = "ran", !.consent = TRUE])
  BY DEF UserDenies, UserAllows, gate
<1>2. FileInv'
  BY <1>1 DEF GateInv, FileInv
<1>3. SendInv'
  BY <1>1 DEF GateInv, SendInv
<1>4. CallInv'
  <2>1. CASE call' = NoCall
    BY <2>1 DEF CallInv, NoCall, CallFields
  <2>2. CASE call' # NoCall
    BY <1>1, <2>2 DEF GateInv, CallInv, CallFields
  <2> QED
    BY <2>1, <2>2
<1> QED
  BY <1>2, <1>3, <1>4 DEF GateInv

-----------------------------------------------------------------------------
\* Every step keeps the invariant ...
LEMMA NextKeeps ==
  ASSUME GateInv, [Next]_vars
  PROVE  GateInv'
<1>1. CASE Around
  BY <1>1, AroundKeeps
<1>2. CASE \E cwd \in Workspaces : Refresh(cwd) \/ SendCut(cwd)
  BY <1>2, RefreshKeeps, SendCutKeeps
<1>3. CASE Restart
  BY <1>3, RestartKeeps
<1>4. CASE FileBreaks
  BY <1>4, FileBreaksKeeps
<1>5. CASE \E c \in Calls : Asks(c)
  BY <1>5, AsksKeeps
<1>6. CASE Reviews
  BY <1>6, ReviewsKeeps
<1>7. CASE \E cwd \in Workspaces : Classifies(cwd)
  BY <1>7, ClassifiesKeeps
<1>8. CASE UserDenies \/ \E remember \in {"once", "session", "project"} : UserAllows(remember)
  BY <1>8, UserAnswersKeep
<1>9. CASE UNCHANGED vars
  <2>1. UNCHANGED <<file, charter, cache, call, mode, sender, turn>>
    BY <1>9 DEF vars
  <2>2. SendInv'
    BY <2>1 DEF GateInv, SendInv
  <2> QED
    BY <2>1, <2>2, OthersKeep
<1> QED
  BY <1>1, <1>2, <1>3, <1>4, <1>5, <1>6, <1>7, <1>8, <1>9 DEF Next, Around

\* ... so that it always holds.
LEMMA GateInvAlways == Spec => []GateInv
<1>1. Init => GateInv
  BY InitGate
<1>2. GateInv /\ [Next]_vars => GateInv'
  BY NextKeeps
<1> QED
  BY <1>1, <1>2, PTL DEF Spec

\* No command that runs starts a program that deletes for good, or writes where Jones's own
\* data is named, and no edit leads to it, in whatever mode, by whatever rule and with
\* whatever consent of the user (_hard_deny.py, asked first by _decide).
THEOREM HardDenyAlways == Spec => []HardDenyAbsolute
<1>1. GateInv => HardDenyAbsolute
  <2> SUFFICES ASSUME GateInv, call.pc = "ran"
               PROVE  LET c == call.call IN
                      /\ HasCommand(c) /\ ~c.command.open =>
                           /\ ~StartsDestruction(c.command)
                           /\ Mentions(c.command) =>
                                /\ ~c.command.syntax
                                /\ Prog(c.command.tokens[1]) \notin MutatingPrograms
                      /\ c.tool \in EditTools /\ c.argument \in Paths =>
                           Place[c.argument].resolves /\ ~Place[c.argument].data
    BY DEF HardDenyAbsolute
  <2> DEFINE c == call.call
  <2>1. c \in Calls /\ ~HardDenied(c, call.config.project)
    BY DEF GateInv, CallInv, Passed
  <2>2. c.command \in Lines
    BY <2>1, RuleGateAssumption
  <2>3. ASSUME HasCommand(c), ~c.command.open
        PROVE  /\ ~StartsDestruction(c.command)
               /\ Mentions(c.command) =>
                    ~c.command.syntax /\ Prog(c.command.tokens[1]) \notin MutatingPrograms
    <3>1. ~CommandDenied(c.command)
      BY <2>1, <2>3 DEF HardDenied
    <3>2. ~StartsDestruction(c.command)
      BY <2>2, <2>3, <3>1, DestructionIsDenied DEF CommandDenied
    <3>3. Mentions(c.command) => ReadOnly(c.command)
      BY <3>1 DEF CommandDenied, ProtectedPathDenied
    <3>4. ReadOnly(c.command) =>
            ~c.command.syntax /\ Prog(c.command.tokens[1]) \notin MutatingPrograms
      BY DEF ReadOnly, Plain, ReadOnlyPrograms, MutatingPrograms
    <3> QED
      BY <3>2, <3>3, <3>4
  <2>4. c.tool \in EditTools /\ c.argument \in Paths =>
          Place[c.argument].resolves /\ ~Place[c.argument].data
    BY <2>1 DEF HardDenied, OwnData
  <2> QED
    BY <2>3, <2>4
<1> QED
  BY <1>1, GateInvAlways, PTL

\* A call that runs unasked is covered by the mode its message had read and by the rules and
\* lists configured when the file it was decided by was written, whatever changes in between
\* (gate_config.py build, _decide and review.py classify).
THEOREM SilentRunsAlways == Spec => []SilentRunsFitTheirMessage
<1>1. GateInv => SilentRunsFitTheirMessage
  <2> SUFFICES ASSUME GateInv, call.pc = "ran", ~call.consent
               PROVE  Covered(call.charter.read, call.charter)
    BY DEF SilentRunsFitTheirMessage
  <2> DEFINE c == call.call
             u == call.charter
             names == {c.tool} \cup (IF HasCommand(c) THEN {c.match} ELSE {})
  <2>1. /\ c \in Calls /\ Passed(c, call.config) /\ Configures(call.config, u)
        /\ ByRule(c, call.config) \/ ByReview(c, call.config)
    BY DEF GateInv, CallInv
  <2>2. u.read # "chat"
    BY <2>1 DEF Passed, Configures
  <2>3. Granted(c, u.lists)
    <3>1. NoTools \notin {c.tool, c.server}
      BY <2>1, RuleGateAssumption
    <3>2. ToolAllowed(c, Allowlist(u.lists))
      BY <2>1 DEF Passed, Configures
    <3> QED
      BY <3>1, <3>2, AllowlistGrants
  <2>4. names \cap Merged(u.perms).deny = {}
    BY <2>1 DEF Passed, Configures, RuleVerdict
  <2>5. CASE ByRule(c, call.config)
    <3>1. c.tool \notin TerminalLike /\ u.perms.broken = {}
      BY <2>1, <2>5 DEF ByRule, Configures
    <3>2. ~HasCommand(c)
      BY <3>1 DEF HasCommand, TerminalLike
    <3>3. c.tool \in Merged(u.perms).allow \cup u.extra
      BY <2>1, <2>5, <3>2 DEF ByRule, RuleVerdict, Configures
    <3> QED
      BY <2>2, <2>3, <2>4, <3>1, <3>3 DEF Covered
  <2>6. CASE ByReview(c, call.config)
    <3>1. call.config.mode = u.read
      BY <2>1 DEF Configures
    <3> QED
      BY <2>2, <2>3, <2>4, <2>6, <3>1 DEF ByReview, Covered
  <2> QED
    BY <2>1, <2>5, <2>6
<1> QED
  BY <1>1, GateInvAlways, PTL

\* While a Turn runs, no step - of the user, of a message queued behind it, of a fault -
\* changes the mode its calls are judged by: the file is written only for a new Turn
\* (service.py _refresh_gate_config, _turn_mode_snapshot).
THEOREM ModeKeptAlways == Spec => TurnKeepsItsMode
<1>1. GateInv /\ [Next]_vars =>
        [turn.runs /\ turn'.runs /\ turn'.n = turn.n => file'.config.mode = file.config.mode]_vars
  <2> SUFFICES ASSUME GateInv, Next, turn.runs, turn'.n = turn.n
               PROVE  file'.config.mode = file.config.mode
    BY DEF TurnKeepsItsMode
  <2>1. CASE \E cwd \in Workspaces : Refresh(cwd)
    <3>1. turn'.n = turn.n + 1
      BY <2>1 DEF Refresh, GateInv, SendInv
    <3> QED
      BY <3>1 DEF GateInv, SendInv
  <2>2. CASE FileBreaks
    BY <2>2 DEF FileBreaks, GateInv, FileInv
  <2>4. CASE \E cwd \in Workspaces : SendCut(cwd)
    <3>1. sender.pc = "refresh" => ~turn.runs
      BY DEF GateInv, SendInv
    <3> QED
      BY <2>4, <3>1 DEF SendCut, gate
  <2>3. CASE ~FileBreaks /\ ~ \E cwd \in Workspaces : Refresh(cwd) \/ SendCut(cwd)
    <3>1. UNCHANGED file
      BY <2>3 DEF Next, SetMode, EditRules, EditAgent, SendReads, SendQueues, SendStarts,
           RefreshFails, TurnEnds, QueueResume, Restart, Asks, Reviews, Classifies, UserDenies,
           UserAllows, gate
    <3> QED
      BY <3>1
  <2> QED
    BY <2>1, <2>2, <2>3, <2>4
<1> QED
  BY <1>1, GateInvAlways, PTL DEF Spec, TurnKeepsItsMode

\* Whatever command the daemon has reviewed, the same command with one more word of any kind
\* would not have been found less risky (review.py _classify_terminal).
THEOREM NeverSaferAlways == Spec => []MoreIsNeverSafer
<1>1. GateInv => MoreIsNeverSafer
  <2> SUFFICES ASSUME GateInv, NEW w \in Words, call.pc \in {"user", "ran"}, NEW cwd \in Workspaces
               PROVE  NeverSaferWith(call.call.command, w, cwd)
    BY DEF MoreIsNeverSafer
  <2>1. call.call \in Calls
    BY DEF GateInv, CallInv
  <2>2. call.call.command \in Lines /\ w \in STRING
    BY <2>1, RuleGateAssumption
  <2> QED
    BY <2>2, NeverSafer
<1> QED
  BY <1>1, GateInvAlways, PTL
=============================================================================
