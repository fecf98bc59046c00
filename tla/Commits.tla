------------------------------- MODULE Commits -------------------------------
(* The gates that judge a `git commit` before it runs.  They must foresee what *)
(* the command line will have staged by the time git commits, from its text,   *)
(* which need not name the files as git finds them; and an editor or another   *)
(* agent may change files between judgement and commit.  An agent whose commit *)
(* was denied splits it, repairs it or marks it as the denials say, until its  *)
(* work is committed.                                                          *)
EXTENDS Integers, FiniteSets

CONSTANTS
  Files,       \* the project's files
  Nature,      \* what atomic-commit's patterns say of each file
  Uncounted,   \* the natures that do not count
  Lintable,    \* the files whose extension is linted
  MaxNatures,  \* the gate's maxNatures
  MaxFiles,    \* the gate's maxFiles
  Trees,       \* how the project may stand at first: its HEAD, index and working tree
  Commands,    \* the command lines an agent may try first
  EnabledSets, \* the configurations: which gates are on
  FailingSets, \* the gates that may throw, or whose lint may time out, on one call
  MaxEdits     \* bound: edits and stagings by others

-----------------------------------------------------------------------------
(* Vocabulary.                                                                *)

LintGates == {"lint-commit", "staged-lint"}
Gates     == LintGates \cup {"atomic-commit", "no-coauthor"}

\* The versions of a file; only "bad" fails lint.
Contents == {"none", "old", "new", "bad"}

Versions == [Files -> Contents]

Marks == {"[wip]", "[skip-lint]", "[allow-coauthor]"}

\* An argument of `git add`: the files git takes it for, those whose path from the root its
\* text is or leads, and whether it is an option for all of them or a dot.  `a.js` given in src
\* takes src/a.js and reads as a.js; `./a.js` and `*.js` read as no file.
Argument == [takes : SUBSET Files, names : SUBSET Files, everything : BOOLEAN]

\* `git rm -f <removes> && git add <adds> && git commit [-a] [--amend] [--dry-run] [<only>]`.
CommandLines == [removes : SUBSET Files, adds : SUBSET Argument, all : BOOLEAN,
                 only : SUBSET Files, amend : BOOLEAN,
                 rehearses : BOOLEAN, credits : BOOLEAN, marks : SUBSET Marks]

\* A file by its path from the root; `-A`.
Plain(f) == [takes |-> {f}, names |-> {f}, everything |-> FALSE]
All      == [takes |-> Files, names |-> {}, everything |-> TRUE]

ASSUME InputsAssumption ==
  /\ IsFiniteSet(Files) /\ Lintable \subseteq Files
  /\ DOMAIN Nature = Files
  /\ MaxNatures \in Nat \ {0} /\ MaxFiles \in Nat \ {0} /\ MaxEdits \in Nat
  /\ Commands \subseteq CommandLines
  /\ Trees \subseteq [head : Versions, index : Versions, work : Versions]
  /\ \A gates \in EnabledSets : gates \subseteq Gates

-----------------------------------------------------------------------------
VARIABLES
  enabled, \* the gates that are on
  head,    \* the last commit
  index,   \* what is staged
  work,    \* the working tree
  command, \* the agent's command line as it stands
  stage,   \* "sent", "allowed", "denied", "over"
  denied,  \* the gates whose denial it still has to answer
  known,   \* while the call is allowed: whether git could be queried when it was judged
  raced,   \* others changed a file since
  edits,   \* how often others did
  last     \* the commit just made: its files, those `unlinted` and `unread` (see Commit), and whether
           \* it could be foretold at all: git answered and nobody interfered

vars == <<enabled, head, index, work, command, stage, denied, known, raced, edits, last>>

-----------------------------------------------------------------------------
(* git, as the gates use it.                                                  *)

\* The tree once the line's `git rm` has run.
TreeAfter(c) == [f \in Files |-> IF f \in c.removes /\ index[f] # "none" THEN "none" ELSE work[f]]

\* The index once its `git rm` and `git add`s and the `-a` have run.
IndexAfter(c) ==
  LET added == [f \in Files |-> IF \E a \in c.adds : f \in a.takes THEN TreeAfter(c)[f]
                                ELSE IF f \in c.removes THEN "none" ELSE index[f]]
  IN  [f \in Files |-> IF c.all /\ added[f] # "none" THEN TreeAfter(c)[f] ELSE added[f]]

\* The commit's content: with a pathspec, those files as they are in the tree and no other.
Content(c) ==
  IF c.only = {} THEN IndexAfter(c)
  ELSE [f \in Files |->
          IF f \in c.only /\ (IndexAfter(c)[f] # "none" \/ head[f] # "none")
          THEN TreeAfter(c)[f] ELSE head[f]]

Carried(c) == {f \in Files : Content(c)[f] # head[f]}

-----------------------------------------------------------------------------
(* What the gates foresee.                                                    *)

\* git diff --cached, deletions left out, and the deletions alone.
StagedFiles     == {f \in Files : index[f] # head[f] /\ index[f] # "none"}
StagedDeletions == {f \in Files : index[f] # head[f] /\ index[f] = "none"}

\* git status: "??" or a letter in the second column.
Changed == {f \in Files : work[f] # index[f]}

TrackedModified == {f \in Changed : index[f] # "none"}

\* The union of what is staged, the changed files that an argument of the line's `git add`s
\* names, as a path from the root, and what `-a` does.
EffectiveCommitFiles(c) ==
  StagedFiles \cup (IF c.all THEN TrackedModified ELSE {})
    \cup {f \in Changed : \E a \in c.adds : a.everything \/ f \in a.names}

\* The part of a command line that the gates read: no `git rm`, no pathspec of the commit, and
\* of what an argument takes only what its text names.
ReadPart(c) ==
  LET read == {[a EXCEPT !.takes = IF a.everything THEN @ ELSE @ \cap a.names] : a \in c.adds}
  IN  [c EXCEPT !.removes = {}, !.adds = read, !.only = {}]

\* Nothing is known of a repository that cannot be queried.
Foreseen(c, answers) == IF answers THEN EffectiveCommitFiles(c) ELSE {}

Counted(files) == {f \in files : Nature[f] \notin Uncounted}

IsBroad(files) ==
  \/ Cardinality({Nature[f] : f \in Counted(files)}) > MaxNatures
  \/ Cardinality(Counted(files)) > MaxFiles

\* Mutant: staged deletions are forgotten.
AtomicDeniesKept(c, answers) ==
  /\ ~c.rehearses /\ ~c.amend /\ "[wip]" \notin c.marks
  /\ answers /\ IsBroad(EffectiveCommitFiles(c))

AtomicDenies(c, answers) ==
  /\ ~c.rehearses /\ ~c.amend /\ "[wip]" \notin c.marks
  /\ answers /\ IsBroad(EffectiveCommitFiles(c) \cup StagedDeletions)

\* Mutant: no way around the linter.
StagedLintDeniesMarked(c, answers) ==
  ~c.rehearses /\ \E f \in Foreseen(c, answers) \cap Lintable : work[f] \in {"bad", "none"}

\* Mutant: only what is staged when the hook runs is linted.
StagedLintDeniesNow(c, answers) ==
  /\ ~c.rehearses /\ "[skip-lint]" \notin c.marks
  /\ answers /\ \E f \in StagedFiles \cap Lintable : work[f] \in {"bad", "none"}

\* The linter reads the files of the tree, and fails on one that is not there.
StagedLintDenies(c, answers) ==
  /\ ~c.rehearses /\ "[skip-lint]" \notin c.marks
  /\ \E f \in Foreseen(c, answers) \cap Lintable : work[f] \in {"bad", "none"}

LintDenies(c) == ~c.rehearses /\ \E f \in Lintable : work[f] = "bad"

CreditDenies(c) == ~c.rehearses /\ c.credits /\ "[allow-coauthor]" \notin c.marks

Denies(g, c, answers) ==
  \/ g = "atomic-commit" /\ AtomicDenies(c, answers)
  \/ g = "staged-lint"   /\ StagedLintDenies(c, answers)
  \/ g = "lint-commit"   /\ LintDenies(c)
  \/ g = "no-coauthor"   /\ CreditDenies(c)

-----------------------------------------------------------------------------

NoCommit == [files |-> {}, unlinted |-> {}, unread |-> {}, amend |-> FALSE, marks |-> {}, foretold |-> TRUE]

Init ==
  /\ enabled \in EnabledSets
  /\ \E t \in Trees : head = t.head /\ index = t.index /\ work = t.work
  /\ command \in Commands /\ stage = "sent" /\ denied = {}
  /\ known = TRUE /\ raced = FALSE /\ edits = 0
  /\ last = NoCommit

\* Mutant: gates that are off judge too.
JudgeUnderAll(failing, answers) ==
  LET denials == {g \in Gates \ failing : Denies(g, command, answers)}
  IN  /\ stage = "sent"
      /\ stage' = IF denials \cup (failing \cap enabled) = {} THEN "allowed" ELSE "denied"
      /\ denied' = denials
      /\ known' = TRUE /\ raced' = FALSE
      /\ UNCHANGED <<enabled, head, index, work, command, edits, last>>

\* The hooks run; a gate that throws, or whose linter does not end in time, denies too.
Judge(failing, answers) ==
  LET throws  == failing \cap enabled
      denials == {g \in enabled \ throws : Denies(g, command, answers)}
  IN  /\ stage = "sent"
      /\ stage' = IF denials \cup throws = {} THEN "allowed" ELSE "denied"
      /\ denied' = denials
      /\ known' = (answers \/ denials \cup throws # {}) /\ raced' = FALSE
      /\ UNCHANGED <<enabled, head, index, work, command, edits, last>>

\* The command runs.  `unlinted` are the files committed in another version than the tree's,
\* `unread` those it commits otherwise than the part of it that the gates read would.
Commit ==
  /\ stage = "allowed" /\ stage' = "over"
  /\ known' = TRUE /\ raced' = FALSE
  /\ work' = TreeAfter(command)
  /\ IF command.rehearses
     THEN /\ index' = IndexAfter([command EXCEPT !.all = FALSE])
          /\ UNCHANGED <<head, last>>
     ELSE /\ head' = Content(command)
          /\ index' = [f \in Files |-> IF f \in command.only THEN head'[f] ELSE IndexAfter(command)[f]]
          /\ last' = [files    |-> Carried(command),
                      unlinted |-> {f \in Carried(command) : head'[f] # work'[f]},
                      unread   |-> {f \in Carried(command) : head'[f] # Content(ReadPart(command))[f]},
                      amend    |-> command.amend,
                      marks    |-> command.marks,
                      foretold |-> known /\ ~raced]
  /\ UNCHANGED <<enabled, command, denied, edits>>

-----------------------------------------------------------------------------
(* The agent.                                                                 *)

\* What is left to commit.
Uncommitted == {f \in Files : work[f] # head[f] \/ index[f] # head[f]}

\* It tries a command line, or stages and commits all that is left.
Propose(c) ==
  /\ stage = "over" /\ Uncommitted # {}
  /\ command' = c /\ stage' = "sent"
  /\ last' = NoCommit
  /\ UNCHANGED <<enabled, head, index, work, denied, known, raced, edits>>

Everything == [removes |-> {}, adds |-> {All}, all |-> FALSE, only |-> {}, amend |-> FALSE,
               rehearses |-> FALSE, credits |-> FALSE, marks |-> {}]

Answers(g) ==
  /\ stage = "denied" /\ g \in denied
  /\ stage' = "sent" /\ denied' = {}
  /\ UNCHANGED <<enabled, head, known, raced, edits, last>>

Mark(mark) ==
  /\ command' = [command EXCEPT !.marks = @ \cup {mark}]
  /\ UNCHANGED <<index, work>>

\* "Stage and commit one nature at a time": the rest is unstaged.
Split ==
  /\ Answers("atomic-commit")
  /\ \E part \in SUBSET {f \in Files : work[f] # head[f]} :
       /\ ~IsBroad(part)
       /\ part = {} => work = head
       /\ \A f, g \in part : Nature[f] = Nature[g]
       /\ command' = [command EXCEPT !.removes = {}, !.adds = {Plain(f) : f \in part},
                                     !.all = FALSE, !.only = {}]
  /\ index' = head
  /\ UNCHANGED work

\* One deliberately broad commit.
Broaden == Answers("atomic-commit") /\ Mark("[wip]")

Repaired(files) == [f \in Files |-> IF f \in files /\ work[f] = "bad" THEN "new" ELSE work[f]]

\* "Fix them": the repaired files are staged again.
Repair ==
  /\ \E g \in LintGates : Answers(g)
  /\ LET bad == {f \in Lintable : work[f] = "bad"}
     IN  /\ bad # {} \/ "staged-lint" \notin denied
         /\ work' = Repaired(bad)
         /\ command' = [command EXCEPT !.adds = @ \cup {Plain(f) : f \in bad \cap EffectiveCommitFiles(command)}]
  /\ UNCHANGED index

\* Nothing is left to repair: a deleted file fails as one that cannot be found.
SkipLint ==
  /\ Answers("staged-lint") /\ Repaired(Lintable) = work
  /\ Mark("[skip-lint]")

DropCredits ==
  /\ Answers("no-coauthor")
  /\ \/ /\ command' = [command EXCEPT !.credits = FALSE]
        /\ UNCHANGED <<index, work>>
     \/ Mark("[allow-coauthor]")

\* Only a gate that failed denied it.
TryAgain ==
  /\ stage = "denied" /\ denied = {} /\ stage' = "sent"
  /\ UNCHANGED <<enabled, head, index, work, command, denied, known, raced, edits, last>>

Obey == Split \/ Broaden \/ Repair \/ SkipLint \/ DropCredits \/ TryAgain

-----------------------------------------------------------------------------
(* Others: an editor, a formatter, another agent.                             *)

Interferes ==
  /\ edits < MaxEdits /\ edits' = edits + 1
  /\ raced' = (stage = "allowed")
  /\ UNCHANGED <<enabled, head, command, stage, denied, known, last>>

Edit(f) ==
  /\ Interferes
  /\ \E content \in Contents \ {"old"} : work' = [work EXCEPT ![f] = content]
  /\ UNCHANGED index

Stage(f) ==
  /\ Interferes
  /\ index' = [index EXCEPT ![f] = work[f]]
  /\ UNCHANGED work

Next ==
  \/ \E failing \in FailingSets, answers \in BOOLEAN : Judge(failing, answers)
  \/ Commit \/ Obey
  \/ \E c \in Commands \cup {Everything} : Propose(c)
  \/ \E f \in Files : Edit(f) \/ Stage(f)

Spec == Init /\ [][Next]_vars

\* Hooks and commands run, a denied agent answers, it stages all that is left now and then,
\* and neither gates nor git fail for ever.
FairSpec ==
  /\ Spec
  /\ SF_vars(Judge({}, TRUE)) /\ WF_vars(Commit)
  /\ SF_vars(Propose(Everything))
  /\ WF_vars(Obey) /\ SF_vars(Repair) /\ SF_vars(SkipLint)

-----------------------------------------------------------------------------
(* Properties.                                                                *)

TypeOK ==
  /\ enabled \subseteq Gates /\ denied \subseteq enabled
  /\ head \in Versions /\ index \in Versions /\ work \in Versions
  /\ command \in CommandLines
  /\ stage \in {"sent", "allowed", "denied", "over"}
  /\ known \in BOOLEAN /\ raced \in BOOLEAN /\ edits \in 0 .. MaxEdits
  /\ last \in [files : SUBSET Files, unlinted : SUBSET Files, unread : SUBSET Files, amend : BOOLEAN,
               marks : SUBSET Marks, foretold : BOOLEAN]

\* "The files a commit command WILL have staged by the time it runs" (git.mjs:167-174): a
\* commit that atomic-commit let through, whatever was staged, deleted or half staged before
\* and whatever `-a` and the adds it reads take in, is no broader than it allows.  Files that
\* the line commits by words the gates do not read (`./a.js`, a glob, a path from a directory
\* below the root, `git rm`, a pathspec: `unread`) are in no forecast and do not count here.
CommitsAreAtomic ==
  "atomic-commit" \in enabled /\ last.foretold /\ ~last.amend /\ "[wip]" \notin last.marks
  => ~IsBroad(last.files \ last.unread)

\* "denies a commit when the files THIS commit carries fail lint" (staged-lint:1): what it
\* let through is clean, but for the unread files and those staged in another version than
\* the tree's, which is the one the linter reads.
CommitsAreClean ==
  "staged-lint" \in enabled /\ last.foretold /\ "[skip-lint]" \notin last.marks
  => \A f \in (last.files \cap Lintable) \ (last.unlinted \cup last.unread) : head[f] # "bad"

\* However the gates deny its commits, an agent that does as they say gets its work committed
\* once others leave the tree alone: what atomic-commit has it split the linters let through.
WorkGetsCommitted == Uncommitted # {} ~> Uncommitted = {}

=============================================================================
