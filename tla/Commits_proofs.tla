--------------------------- MODULE Commits_proofs ---------------------------
(* Proofs about Commits, for every set of files, every trees, command lines,   *)
(* configurations and failing gates, and any number of edits by others.        *)
EXTENDS Commits, FiniteSetTheorems, TLAPS

-----------------------------------------------------------------------------
(* What git will commit, and what the gates foresee of it.                    *)

\* What git commits of the part of a line that the gates read: the files its adds name and take,
\* and with `-a` those in the index, as they are in the tree, and the others as they are staged.
LEMMA ReadContent ==
  ASSUME NEW c \in CommandLines, NEW f \in Files
  PROVE  Content(ReadPart(c))[f] =
           IF \/ \E a \in c.adds : f \in a.takes /\ (a.everything \/ f \in a.names)
              \/ c.all /\ index[f] # "none"
           THEN work[f] ELSE index[f]
<1> DEFINE Read(a) == [a EXCEPT !.takes = IF a.everything THEN @ ELSE @ \cap a.names]
           read    == {Read(a) : a \in c.adds}
           r       == ReadPart(c)
<1>1. c.adds \subseteq Argument /\ c.all \in BOOLEAN
  BY DEF CommandLines
<1>2. r.removes = {} /\ r.adds = read /\ r.all = c.all /\ r.only = {}
  BY DEF ReadPart, CommandLines
<1>3. (\E a \in read : f \in a.takes) <=> \E a \in c.adds : f \in a.takes /\ (a.everything \/ f \in a.names)
  <2>1. ASSUME NEW a \in Argument
        PROVE  Read(a).takes = IF a.everything THEN a.takes ELSE a.takes \cap a.names
    BY DEF Argument
  <2> HIDE DEF Read
  <2> QED
    BY <1>1, <2>1
<1> HIDE DEF Read, read, r
<1>4. TreeAfter(r)[f] = work[f]
  BY <1>2 DEF TreeAfter
<1>5. IndexAfter(r)[f] = IF \/ \E a \in read : f \in a.takes
                            \/ c.all /\ index[f] # "none"
                         THEN work[f] ELSE index[f]
  BY <1>1, <1>2, <1>4 DEF IndexAfter
<1>6. Content(r) = IndexAfter(r)
  BY <1>2 DEF Content
<1> QED
  BY <1>3, <1>5, <1>6 DEF r

\* Whatever the line's `git add`s and its `-a` stage by words that the gates read, and whatever
\* was staged or half staged before, a file that this changes is one the gates looked at.
LEMMA NothingUnforeseen ==
  ASSUME NEW c \in CommandLines, NEW f \in Files, Content(ReadPart(c))[f] # head[f]
  PROVE  f \in EffectiveCommitFiles(c) \cup StagedDeletions
<1>1. CASE index[f] # head[f]
  BY <1>1 DEF EffectiveCommitFiles, StagedFiles, StagedDeletions
<1>2. CASE index[f] = head[f]
  <2>1. /\ work[f] # index[f]
        /\ \/ \E a \in c.adds : f \in a.takes /\ (a.everything \/ f \in a.names)
           \/ c.all /\ index[f] # "none"
    BY <1>2, ReadContent
  <2> QED
    BY <2>1 DEF EffectiveCommitFiles, Changed, TrackedModified
<1> QED
  BY <1>1, <1>2

\* A deletion is the only change the linters do not look at, and nothing bad is left by it.
LEMMA BadIsForeseen ==
  ASSUME NEW c \in CommandLines, NEW f \in Files, Content(ReadPart(c))[f] # head[f],
         Content(ReadPart(c))[f] = "bad", work[f] = "bad"
  PROVE  f \in EffectiveCommitFiles(c)
<1>1. CASE f \in StagedDeletions
  <2>1. index[f] = "none"
    BY <1>1 DEF StagedDeletions
  <2>2. \E a \in c.adds : f \in a.takes /\ (a.everything \/ f \in a.names)
    BY <2>1, ReadContent
  <2> QED
    BY <2>1, <2>2 DEF EffectiveCommitFiles, Changed
<1> QED
  BY <1>1, NothingUnforeseen

\* The natures of finitely many files are finitely many, and fewer files have no more.
LEMMA FewerNatures ==
  ASSUME NEW S \in SUBSET Files, NEW T \in SUBSET S
  PROVE  /\ Cardinality({Nature[f] : f \in T}) \in Nat
         /\ Cardinality({Nature[f] : f \in S}) \in Nat
         /\ Cardinality({Nature[f] : f \in T}) <= Cardinality({Nature[f] : f \in S})
<1> DEFINE all   == {Nature[f] : f \in S}
           fewer == {Nature[f] : f \in T}
           of    == [f \in S |-> Nature[f]]
<1>1. IsFiniteSet(S)
  BY InputsAssumption, FS_Subset
<1>2. of \in Surjection(S, all)
  BY DEF Surjection
<1>3. IsFiniteSet(all)
  <2> HIDE DEF all, of
  <2> QED
    BY <1>1, <1>2, FS_Surjection
<1>4. fewer \subseteq all
  OBVIOUS
<1>5. IsFiniteSet(fewer) /\ Cardinality(fewer) <= Cardinality(all)
  <2> HIDE DEF all, fewer
  <2> QED
    BY <1>3, <1>4, FS_Subset
<1> QED
  BY <1>3, <1>5, FS_CardinalityType

\* Part of what is not broad is not broad.
LEMMA PartsAreNarrow ==
  ASSUME NEW files \in SUBSET Files, ~IsBroad(files), NEW part \in SUBSET files
  PROVE  ~IsBroad(part)
<1>1. Counted(files) \subseteq Files /\ Counted(part) \subseteq Counted(files)
  BY DEF Counted
<1>2. IsFiniteSet(Counted(files))
  BY <1>1, InputsAssumption, FS_Subset
<1>3. /\ IsFiniteSet(Counted(part))
      /\ Cardinality(Counted(part)) <= Cardinality(Counted(files))
  BY <1>1, <1>2, FS_Subset
<1>4. Cardinality(Counted(part)) \in Nat /\ Cardinality(Counted(files)) \in Nat
  BY <1>2, <1>3, FS_CardinalityType
<1>5. /\ Cardinality({Nature[f] : f \in Counted(part)}) \in Nat
      /\ Cardinality({Nature[f] : f \in Counted(files)}) \in Nat
      /\ Cardinality({Nature[f] : f \in Counted(part)}) <= Cardinality({Nature[f] : f \in Counted(files)})
  BY <1>1, FewerNatures
<1>6. MaxNatures \in Nat /\ MaxFiles \in Nat
  BY InputsAssumption
<1>7. /\ ~(Cardinality({Nature[f] : f \in Counted(files)}) > MaxNatures)
      /\ ~(Cardinality(Counted(files)) > MaxFiles)
  BY DEF IsBroad
<1> HIDE DEF Counted
<1>8. /\ ~(Cardinality({Nature[f] : f \in Counted(part)}) > MaxNatures)
      /\ ~(Cardinality(Counted(part)) > MaxFiles)
  BY <1>3, <1>4, <1>5, <1>6, <1>7
<1> QED
  BY <1>8 DEF IsBroad

-----------------------------------------------------------------------------
(* Type correctness.                                                          *)

\* No commit is recorded as one of no files.
LEMMA NoCommitTypes ==
  NoCommit \in [files : SUBSET Files, unlinted : SUBSET Files, unread : SUBSET Files,
                amend : BOOLEAN, marks : SUBSET Marks, foretold : BOOLEAN]
BY DEF NoCommit

\* The types hold at first.
LEMMA InitTypes == Init => TypeOK
<1> SUFFICES ASSUME Init PROVE TypeOK
  OBVIOUS
<1>1. head \in Versions /\ index \in Versions /\ work \in Versions
  BY InputsAssumption DEF Init
<1>2. enabled \subseteq Gates /\ command \in CommandLines /\ 0 \in 0 .. MaxEdits
  BY InputsAssumption DEF Init
<1> QED
  BY <1>1, <1>2, NoCommitTypes DEF Init, TypeOK

\* A file by its path and `-A` are arguments.
LEMMA ArgumentTypes == All \in Argument /\ \A f \in Files : Plain(f) \in Argument
BY DEF All, Plain, Argument

\* The line that stages and commits everything is one.
LEMMA LinesAreLines == Commands \cup {Everything} \subseteq CommandLines
<1>1. Everything \in CommandLines
  BY ArgumentTypes DEF Everything, CommandLines
<1> QED
  BY <1>1, InputsAssumption

\* A version of the files after the line's `git rm`, adds and `-a`, and as the commit records it.
LEMMA VersionTypes ==
  ASSUME TypeOK, NEW c
  PROVE  TreeAfter(c) \in Versions /\ IndexAfter(c) \in Versions /\ Content(c) \in Versions
<1>1. \A f \in Files : index[f] \in Contents /\ work[f] \in Contents /\ head[f] \in Contents
  BY DEF TypeOK, Versions
<1>2. TreeAfter(c) \in Versions
  BY <1>1 DEF TreeAfter, Versions, Contents
<1>3. \A f \in Files : TreeAfter(c)[f] \in Contents
  BY <1>2 DEF Versions
<1> HIDE DEF TreeAfter
<1>4. IndexAfter(c) \in Versions
  BY <1>1, <1>3 DEF IndexAfter, Versions, Contents
<1>5. \A f \in Files : IndexAfter(c)[f] \in Contents
  BY <1>4 DEF Versions
<1>6. Content(c) \in Versions
  BY <1>1, <1>3, <1>4, <1>5 DEF Content, Versions
<1> QED
  BY <1>2, <1>4, <1>6

\* A commit, whatever it takes in, keeps the types.
LEMMA CommitTypes == TypeOK /\ Commit => TypeOK'
<1> SUFFICES ASSUME TypeOK, Commit PROVE TypeOK'
  OBVIOUS
<1>1. command \in CommandLines /\ \A f \in Files : index[f] \in Contents /\ work[f] \in Contents
  BY DEF TypeOK, Versions
<1>2. /\ IndexAfter(command) \in Versions /\ Content(command) \in Versions
      /\ work' \in Versions
  BY VersionTypes DEF Commit
<1>3. CASE command.rehearses
  <2>1. index' \in Versions
    BY <1>3, VersionTypes DEF Commit
  <2> QED
    BY <1>2, <1>3, <2>1 DEF Commit, TypeOK
<1>4. CASE ~command.rehearses
  <2>1. head' = Content(command) /\ head' \in Versions
    BY <1>2, <1>4 DEF Commit
  <2>2. index' \in Versions
    BY <1>2, <1>4, <2>1 DEF Commit, Versions
  <2>3. last' \in [files : SUBSET Files, unlinted : SUBSET Files, unread : SUBSET Files,
                   amend : BOOLEAN, marks : SUBSET Marks, foretold : BOOLEAN]
    <3>1. Carried(command) \subseteq Files
      BY DEF Carried
    <3>2. command.amend \in BOOLEAN /\ command.marks \in SUBSET Marks
      BY <1>1 DEF CommandLines
    <3>3. PICK foretold \in BOOLEAN : foretold = (known /\ ~raced)
      OBVIOUS
    <3>4. last' = [files    |-> Carried(command),
                   unlinted |-> {f \in Carried(command) : head'[f] # work'[f]},
                   unread   |-> {f \in Carried(command) : head'[f] # Content(ReadPart(command))[f]},
                   amend    |-> command.amend,
                   marks    |-> command.marks,
                   foretold |-> foretold]
      BY <1>4, <3>3 DEF Commit
    <3> QED
      BY <3>1, <3>2, <3>4
  <2> QED
    BY <1>2, <2>1, <2>2, <2>3 DEF Commit, TypeOK
<1> QED
  BY <1>3, <1>4

\* What an agent answers is a command line again, and a tree.
LEMMA AnswerTypes == TypeOK /\ Obey => TypeOK'
<1> SUFFICES ASSUME TypeOK, Obey PROVE TypeOK'
  OBVIOUS
<1>1. command \in CommandLines /\ head \in Versions /\ index \in Versions /\ work \in Versions
  BY DEF TypeOK
<1>2. ASSUME NEW mark \in Marks, NEW g, Answers(g), Mark(mark)
      PROVE  TypeOK'
  <2>1. command' \in CommandLines
    BY <1>1, <1>2 DEF Mark, CommandLines
  <2> QED
    BY <1>2, <2>1 DEF Mark, Answers, TypeOK
<1>3. CASE Split
  <2>1. PICK part \in SUBSET Files :
          command' = [command EXCEPT !.removes = {}, !.adds = {Plain(f) : f \in part},
                                     !.all = FALSE, !.only = {}]
    BY <1>3 DEF Split
  <2> DEFINE adds == {Plain(f) : f \in part}
  <2>2. adds \subseteq Argument
    BY ArgumentTypes
  <2> HIDE DEF adds
  <2>3. command' \in CommandLines
    BY <1>1, <2>1, <2>2 DEF CommandLines, adds
  <2> QED
    BY <1>1, <1>3, <2>3 DEF Split, Answers, TypeOK
<1>4. CASE Broaden
  BY <1>2, <1>4 DEF Broaden, Marks
<1>5. CASE Repair
  <2> DEFINE bad  == {f \in Lintable : work[f] = "bad"}
             adds == {Plain(f) : f \in bad \cap EffectiveCommitFiles(command)}
  <2>1. /\ work' = Repaired(bad)
        /\ command' = [command EXCEPT !.adds = @ \cup adds]
        /\ UNCHANGED <<index, enabled, head, known, raced, edits, last>>
        /\ stage' = "sent" /\ denied' = {}
    BY <1>5 DEF Repair, Answers
  <2>2. work' \in Versions
    BY <1>1, <2>1 DEF Repaired, Versions, Contents
  <2>3. adds \subseteq Argument
    BY ArgumentTypes, InputsAssumption
  <2> HIDE DEF bad, adds
  <2>4. command' \in CommandLines
    BY <1>1, <2>1, <2>3 DEF CommandLines
  <2> QED
    BY <2>1, <2>2, <2>4 DEF TypeOK
<1>6. CASE SkipLint
  BY <1>2, <1>6 DEF SkipLint, Marks
<1>7. CASE DropCredits
  <2>1. CASE Mark("[allow-coauthor]")
    BY <1>2, <1>7, <2>1 DEF DropCredits, Marks
  <2>2. CASE command' = [command EXCEPT !.credits = FALSE] /\ UNCHANGED <<index, work>>
    <3>1. command' \in CommandLines
      BY <1>1, <2>2 DEF CommandLines
    <3> QED
      BY <1>7, <2>2, <3>1 DEF DropCredits, Answers, TypeOK
  <2> QED
    BY <1>7, <2>1, <2>2 DEF DropCredits
<1>8. CASE TryAgain
  BY <1>8 DEF TryAgain, TypeOK
<1> QED
  BY <1>3, <1>4, <1>5, <1>6, <1>7, <1>8 DEF Obey

\* Judgements, proposals and interferences keep the types.
LEMMA NextTypes == TypeOK /\ [Next]_vars => TypeOK'
<1> SUFFICES ASSUME TypeOK, [Next]_vars PROVE TypeOK'
  OBVIOUS
<1>1. ASSUME NEW failing \in FailingSets, NEW answers \in BOOLEAN, Judge(failing, answers)
      PROVE  TypeOK'
  <2>1. denied' \subseteq enabled /\ stage' \in {"allowed", "denied"} /\ known' \in BOOLEAN
    BY <1>1 DEF Judge
  <2> QED
    BY <1>1, <2>1 DEF Judge, TypeOK
<1>2. ASSUME NEW c \in Commands \cup {Everything}, Propose(c)
      PROVE  TypeOK'
  BY <1>2, LinesAreLines, NoCommitTypes DEF Propose, TypeOK
<1>3. ASSUME NEW f \in Files, Edit(f) \/ Stage(f)
      PROVE  TypeOK'
  <2>1. edits' \in 0 .. MaxEdits
    BY <1>3, InputsAssumption DEF Edit, Stage, Interferes, TypeOK
  <2>0. raced' \in BOOLEAN
    BY <1>3 DEF Edit, Stage, Interferes
  <2>2. index' \in Versions /\ work' \in Versions
    BY <1>3 DEF Edit, Stage, TypeOK, Versions
  <2> QED
    BY <1>3, <2>0, <2>1, <2>2 DEF Edit, Stage, Interferes, TypeOK
<1>4. CASE UNCHANGED vars
  BY <1>4 DEF vars, TypeOK
<1> QED
  BY <1>1, <1>2, <1>3, <1>4, CommitTypes, AnswerTypes DEF Next

\* The index, the tree and the last commit are versions of the files, and every command
\* line is one.
THEOREM TypeCorrect == Spec => []TypeOK
BY InitTypes, NextTypes, PTL DEF Spec

-----------------------------------------------------------------------------
(* What an allowed command may do.                                            *)

\* As long as nobody interferes, a judgement made with git's answers holds of the tree the
\* command will run in.
JudgementHolds ==
  stage = "allowed" /\ known /\ ~raced /\ ~command.rehearses =>
    /\ "atomic-commit" \in enabled => ~AtomicDenies(command, TRUE)
    /\ "staged-lint" \in enabled => ~StagedLintDenies(command, TRUE)

CommitInv == TypeOK /\ JudgementHolds /\ CommitsAreAtomic /\ CommitsAreClean

\* No commit is broad, and none is unclean.
LEMMA NothingIsWrong == last = NoCommit => CommitsAreAtomic /\ CommitsAreClean
<1> SUFFICES ASSUME last = NoCommit PROVE CommitsAreAtomic /\ CommitsAreClean
  OBVIOUS
<1>1. Counted({}) = {} /\ {Nature[f] : f \in Counted({})} = {} /\ Cardinality({}) = 0
  BY FS_EmptySet DEF Counted
<1>2. ~IsBroad({})
  <2>1. ~(0 > MaxNatures) /\ ~(0 > MaxFiles)
    BY InputsAssumption
  <2> QED
    BY <1>1, <2>1 DEF IsBroad
<1>3. last.files = {} /\ last.files \ last.unread = {}
  BY DEF NoCommit
<1> QED
  BY <1>2, <1>3 DEF CommitsAreAtomic, CommitsAreClean

\* Nothing is judged and nothing is committed at first.
LEMMA InitCommits == Init => CommitInv
BY InitTypes, NothingIsWrong DEF Init, CommitInv, JudgementHolds

\* The commit itself.
LEMMA CommitStep == CommitInv /\ Commit => CommitInv'
<1> SUFFICES ASSUME CommitInv, Commit PROVE CommitInv'
  OBVIOUS
<1>1. TypeOK' /\ JudgementHolds'
  BY CommitTypes DEF CommitInv, Commit, JudgementHolds
<1>2. CASE command.rehearses
  BY <1>1, <1>2 DEF CommitInv, Commit, CommitsAreAtomic, CommitsAreClean
<1>3. CASE ~command.rehearses /\ ~last'.foretold
  BY <1>1, <1>3 DEF CommitInv, CommitsAreAtomic, CommitsAreClean
<1>4. CASE ~command.rehearses /\ last'.foretold
  <2>1. /\ last'.files = Carried(command) /\ last'.amend = command.amend
        /\ last'.unlinted = {f \in Carried(command) : Content(command)[f] # TreeAfter(command)[f]}
        /\ last'.unread = {f \in Carried(command) : Content(command)[f] # Content(ReadPart(command))[f]}
        /\ last'.marks = command.marks
        /\ head' = Content(command) /\ enabled' = enabled
        /\ known /\ ~raced /\ stage = "allowed"
        /\ command \in CommandLines
    <3>1. /\ head' = Content(command) /\ work' = TreeAfter(command)
          /\ enabled' = enabled /\ stage = "allowed"
          /\ command \in CommandLines
          /\ last' = [files    |-> Carried(command),
                      unlinted |-> {f \in Carried(command) : head'[f] # work'[f]},
                      unread   |-> {f \in Carried(command) : head'[f] # Content(ReadPart(command))[f]},
                      amend    |-> command.amend,
                      marks    |-> command.marks,
                      foretold |-> known /\ ~raced]
      BY <1>4 DEF Commit, CommitInv, TypeOK
    <3>2. known /\ ~raced
      BY <1>4, <3>1
    <3> QED
      BY <3>1, <3>2
  <2>2. /\ "atomic-commit" \in enabled => ~AtomicDenies(command, TRUE)
        /\ "staged-lint" \in enabled => ~StagedLintDenies(command, TRUE)
    BY <1>4, <2>1 DEF CommitInv, JudgementHolds
  <2>3. CommitsAreAtomic'
    <3> SUFFICES ASSUME "atomic-commit" \in enabled, ~command.amend, "[wip]" \notin command.marks
                 PROVE  ~IsBroad(Carried(command) \ last'.unread)
      BY <2>1 DEF CommitsAreAtomic
    <3>1. ~IsBroad(EffectiveCommitFiles(command) \cup StagedDeletions)
      BY <1>4, <2>2 DEF AtomicDenies
    <3>2. EffectiveCommitFiles(command) \cup StagedDeletions \subseteq Files
      BY DEF EffectiveCommitFiles, StagedFiles, StagedDeletions, TrackedModified, Changed
    <3>3. Carried(command) \ last'.unread \subseteq EffectiveCommitFiles(command) \cup StagedDeletions
      <4> SUFFICES ASSUME NEW f \in Carried(command) \ last'.unread
                   PROVE  f \in EffectiveCommitFiles(command) \cup StagedDeletions
        OBVIOUS
      <4>1. f \in Files /\ Content(ReadPart(command))[f] # head[f]
        BY <2>1 DEF Carried
      <4> QED
        BY <2>1, <4>1, NothingUnforeseen
    <3> QED
      BY <3>1, <3>2, <3>3, PartsAreNarrow
  <2>4. CommitsAreClean'
    <3> SUFFICES ASSUME "staged-lint" \in enabled, "[skip-lint]" \notin command.marks,
                        NEW f \in (Carried(command) \cap Lintable) \ (last'.unlinted \cup last'.unread),
                        Content(command)[f] = "bad"
                 PROVE  FALSE
      BY <2>1 DEF CommitsAreClean
    <3>0. f \in Files /\ Content(ReadPart(command))[f] = "bad" /\ head[f] # "bad"
      BY <2>1 DEF Carried
    <3>1. work[f] = "bad"
      <4>1. TreeAfter(command)[f] = "bad"
        BY <2>1
      <4> QED
        BY <3>0, <4>1 DEF TreeAfter
    <3>2. f \in EffectiveCommitFiles(command) \cap Lintable
      BY <2>1, <3>0, <3>1, BadIsForeseen
    <3> QED
      BY <1>4, <2>2, <3>1, <3>2 DEF StagedLintDenies, Foreseen
  <2> QED
    BY <1>1, <2>3, <2>4 DEF CommitInv
<1> QED
  BY <1>2, <1>3, <1>4

\* Everything else leaves the last commit as it is or forgets it: a judgement judges the tree as it is,
\* and whoever changes the tree afterwards races with the command.
LEMMA CommitInvStep == CommitInv /\ [Next]_vars => CommitInv'
<1> SUFFICES ASSUME CommitInv, [Next]_vars PROVE CommitInv'
  OBVIOUS
<1>0. TypeOK'
  BY NextTypes DEF CommitInv
<1>1. ASSUME UNCHANGED <<enabled, head, last>>, JudgementHolds'
      PROVE  CommitInv'
  BY <1>0, <1>1 DEF CommitInv, CommitsAreAtomic, CommitsAreClean, IsBroad, Counted
<1>2. ASSUME NEW failing \in FailingSets, NEW answers \in BOOLEAN, Judge(failing, answers)
      PROVE  CommitInv'
  <2>1. UNCHANGED <<enabled, head, index, work, command, last>>
    BY <1>2 DEF Judge
  <2>2. ASSUME stage' = "allowed", known'
        PROVE  answers /\ \A g \in enabled : ~Denies(g, command, answers)
    BY <1>2, <2>2 DEF Judge
  <2>3. ASSUME stage' = "allowed", known'
        PROVE  /\ "atomic-commit" \in enabled => ~AtomicDenies(command, TRUE)
               /\ "staged-lint" \in enabled => ~StagedLintDenies(command, TRUE)
    BY <2>2, <2>3 DEF Denies
  <2>4. (AtomicDenies(command, TRUE))' = AtomicDenies(command, TRUE)
    BY <2>1 DEF AtomicDenies, IsBroad, Counted, EffectiveCommitFiles, StagedFiles, StagedDeletions,
                TrackedModified, Changed
  <2>5. (StagedLintDenies(command, TRUE))' = StagedLintDenies(command, TRUE)
    BY <2>1 DEF StagedLintDenies, Foreseen, EffectiveCommitFiles, StagedFiles, TrackedModified, Changed
  <2>6. JudgementHolds'
    BY <2>1, <2>3, <2>4, <2>5 DEF JudgementHolds
  <2> QED
    BY <1>1, <2>1, <2>6
<1>3. CASE Obey
  <2>1. UNCHANGED <<enabled, head, last>> /\ stage' = "sent"
    BY <1>3 DEF Obey, Split, Broaden, Repair, SkipLint, DropCredits, TryAgain, Answers
  <2> QED
    BY <1>1, <2>1 DEF JudgementHolds
<1>4. ASSUME NEW c, Propose(c)
      PROVE  CommitInv'
  <2>1. last' = NoCommit /\ JudgementHolds'
    BY <1>4 DEF Propose, JudgementHolds, NoCommit
  <2>2. (last = NoCommit => CommitsAreAtomic /\ CommitsAreClean)'
    BY NothingIsWrong, PTL
  <2>3. (CommitsAreAtomic /\ CommitsAreClean)'
    BY <2>1, <2>2 DEF NoCommit
  <2> QED
    BY <1>0, <2>1, <2>3 DEF CommitInv
<1>5. ASSUME NEW f \in Files, Edit(f) \/ Stage(f)
      PROVE  CommitInv'
  <2>1. UNCHANGED <<enabled, head, last, stage>> /\ raced' = (stage = "allowed")
    BY <1>5 DEF Edit, Stage, Interferes
  <2> QED
    BY <1>1, <2>1 DEF JudgementHolds
<1>6. CASE UNCHANGED vars
  <2>1. UNCHANGED <<enabled, head, index, work, command, stage, known, raced, last>>
    BY <1>6 DEF vars
  <2>2. JudgementHolds'
    BY <2>1 DEF CommitInv, JudgementHolds, AtomicDenies, StagedLintDenies, Foreseen, IsBroad, Counted,
                EffectiveCommitFiles, StagedFiles, StagedDeletions, TrackedModified, Changed
  <2> QED
    BY <1>1, <2>1, <2>2
<1> QED
  BY <1>2, <1>3, <1>4, <1>5, <1>6, CommitStep DEF Next

\* The invariant holds of every behavior.
LEMMA CommitInvariant == Spec => []CommitInv
BY InitCommits, CommitInvStep, PTL DEF Spec

\* For any files, natures, limits, trees and command lines, if git answered and nobody interfered:
\* what the atomic-commit gate let through is no broader than it allows, whatever was staged,
\* deleted or half staged before, whatever `-a` takes in, and whatever the adds take that they name
\* by paths from the root; files added in other words, removed or named by a pathspec are not counted.
THEOREM AtomicityIsKept == Spec => []CommitsAreAtomic
<1>1. CommitInv => CommitsAreAtomic
  BY DEF CommitInv
<1> QED
  BY CommitInvariant, <1>1, PTL

\* Likewise what the staged-lint gate let through holds no file that fails lint, but for those
\* staged in another version than the tree's and those the line commits in words that it does
\* not read.
THEOREM CleanlinessIsKept == Spec => []CommitsAreClean
<1>1. CommitInv => CommitsAreClean
  BY DEF CommitInv
<1> QED
  BY CommitInvariant, <1>1, PTL

-----------------------------------------------------------------------------
(* The gates accept the remedies they ask for.                                *)

\* "EVERY DENIAL MUST BE ACTIONABLE" (gate-invariants.test:19): a part of what is left can be
\* committed alone, as long as anything is left.
SplitIsOpen ==
  \E part \in SUBSET {f \in Files : work[f] # head[f]} :
    /\ ~IsBroad(part)
    /\ part = {} => work = head
    /\ \A f, g \in part : Nature[f] = Nature[g]

\* "NO GATE MAY DENY THIS TOOLKIT'S OWN REMEDY" (gate-invariants.test:16): once an agent has done
\* as a denial says, the gate that spoke it has nothing more to say of the command line as it
\* stands now; staged-lint may still miss a file that was deleted.
RemediesAreAccepted ==
  [][/\ Split \/ Broaden => \A answers \in BOOLEAN : ~AtomicDenies(command, answers)'
     /\ Repair => /\ ~LintDenies(command)'
                  /\ \A f \in EffectiveCommitFiles(command)' \cap Lintable : work'[f] # "bad"
     /\ SkipLint => \A answers \in BOOLEAN : ~StagedLintDenies(command, answers)'
     /\ DropCredits => ~CreditDenies(command)']_vars

\* And no later answer takes a mark back, or brings a credit back.
RemediesStay ==
  [][(\A c : ~Propose(c)) => /\ command.marks \subseteq command'.marks
                             /\ command'.credits => command.credits]_vars

\* One file has one nature, and every limit allows one; nothing at all is no broader.
LEMMA OneFileIsNarrow == ~IsBroad({}) /\ \A f \in Files : ~IsBroad({f})
<1>0. MaxNatures \in Nat /\ MaxNatures >= 1 /\ MaxFiles \in Nat /\ MaxFiles >= 1
  BY InputsAssumption
<1>1. ASSUME NEW files, Cardinality(Counted(files)) \in {0, 1},
             Cardinality({Nature[g] : g \in Counted(files)}) \in {0, 1}
      PROVE  ~IsBroad(files)
  <2> DEFINE natures == Cardinality({Nature[g] : g \in Counted(files)})
             counted == Cardinality(Counted(files))
  <2>1. natures \in {0, 1} /\ counted \in {0, 1}
    BY <1>1
  <2> HIDE DEF natures, counted
  <2>2. ~(natures > MaxNatures) /\ ~(counted > MaxFiles)
    BY <1>0, <2>1
  <2> QED
    BY <2>2 DEF IsBroad, natures, counted
<1>2. ASSUME NEW files, Counted(files) = {} PROVE ~IsBroad(files)
  <2>1. {Nature[g] : g \in Counted(files)} = {}
    BY <1>2
  <2> QED
    BY <1>1, <1>2, <2>1, FS_EmptySet
<1>3. ASSUME NEW files, NEW f, Counted(files) = {f} PROVE ~IsBroad(files)
  <2>1. {Nature[g] : g \in Counted(files)} = {Nature[f]}
    BY <1>3
  <2>2. Cardinality({f}) = 1 /\ Cardinality({Nature[f]}) = 1
    BY FS_Singleton
  <2> QED
    BY <1>1, <1>3, <2>1, <2>2
<1>4. Counted({}) = {} /\ \A f : Counted({f}) \in {{}, {f}}
  BY DEF Counted
<1> QED
  BY <1>2, <1>3, <1>4

\* Wherever HEAD and the tree differ there is a file to commit alone.
LEMMA SplitOpens == TypeOK => SplitIsOpen
<1> SUFFICES ASSUME TypeOK PROVE SplitIsOpen
  OBVIOUS
<1>1. CASE work = head
  BY <1>1, OneFileIsNarrow DEF SplitIsOpen
<1>2. CASE work # head
  <2>1. PICK f \in Files : work[f] # head[f]
    BY <1>2 DEF TypeOK, Versions
  <2>2. {f} \in SUBSET {g \in Files : work[g] # head[g]} /\ ~IsBroad({f})
    BY <2>1, OneFileIsNarrow
  <2> QED
    BY <2>2 DEF SplitIsOpen
<1> QED
  BY <1>1, <1>2

\* After a split nothing is staged but what the line stages, which the agent chose.
LEMMA SplitIsAccepted ==
  ASSUME TypeOK, Split, NEW answers \in BOOLEAN
  PROVE  ~AtomicDenies(command, answers)'
<1>1. PICK part \in SUBSET {f \in Files : work[f] # head[f]} :
        /\ ~IsBroad(part)
        /\ command' = [command EXCEPT !.removes = {}, !.adds = {Plain(f) : f \in part},
                                      !.all = FALSE, !.only = {}]
  BY DEF Split
<1>2. command'.adds = {Plain(f) : f \in part} /\ command'.all = FALSE
  BY <1>1 DEF TypeOK, CommandLines
<1>3. index' = head /\ head' = head /\ work' = work
  BY DEF Split, Answers
<1>4. StagedFiles' = {} /\ StagedDeletions' = {}
  BY <1>3 DEF StagedFiles, StagedDeletions
<1>5. EffectiveCommitFiles(command)' = part \cap {f \in Files : work[f] # head[f]}
  <2>1. ASSUME NEW f
        PROVE  (\E a \in command'.adds : a.everything \/ f \in a.names) <=> f \in part
    <3>1. \A g : Plain(g).names = {g} /\ Plain(g).everything = FALSE
      BY DEF Plain
    <3> HIDE DEF Plain
    <3> QED
      BY <1>2, <3>1
  <2> QED
    BY <1>2, <1>3, <1>4, <2>1 DEF EffectiveCommitFiles, Changed
<1>6. (EffectiveCommitFiles(command) \cup StagedDeletions)' = part
  BY <1>4, <1>5
<1>7. ~IsBroad(EffectiveCommitFiles(command)' \cup StagedDeletions')
  BY <1>1, <1>6
<1> QED
  BY <1>7 DEF AtomicDenies

\* A mark a gate reads takes its denial back.
LEMMA MarksAreAccepted ==
  ASSUME TypeOK, NEW mark, Mark(mark), NEW answers \in BOOLEAN
  PROVE  /\ mark = "[wip]" => ~AtomicDenies(command, answers)'
         /\ mark = "[skip-lint]" => ~StagedLintDenies(command, answers)'
         /\ mark = "[allow-coauthor]" => ~CreditDenies(command)'
<1>1. mark \in command'.marks
  BY DEF Mark, TypeOK, CommandLines
<1> QED
  BY <1>1 DEF AtomicDenies, StagedLintDenies, CreditDenies

\* A repair leaves nothing that fails, whether the line carries it or not.
LEMMA RepairIsAccepted ==
  ASSUME TypeOK, Repair
  PROVE  \A f \in Lintable : work'[f] # "bad"
<1>1. work' = Repaired({f \in Lintable : work[f] = "bad"}) /\ Lintable \subseteq Files
  BY InputsAssumption DEF Repair
<1> QED
  BY <1>1 DEF Repaired

\* For any files, natures, limits, command lines and edits by others: the way out of atomic-commit
\* is open, and each gate accepts the remedies it asks for, whichever others were applied before.
THEOREM RemediesWork == Spec => []SplitIsOpen /\ RemediesAreAccepted
<1> DEFINE Accepted ==
      /\ Split \/ Broaden => \A answers \in BOOLEAN : ~AtomicDenies(command, answers)'
      /\ Repair => /\ ~LintDenies(command)'
                   /\ \A f \in EffectiveCommitFiles(command)' \cap Lintable : work'[f] # "bad"
      /\ SkipLint => \A answers \in BOOLEAN : ~StagedLintDenies(command, answers)'
      /\ DropCredits => ~CreditDenies(command)'
<1>1. ASSUME TypeOK PROVE Accepted
  <2>1. Split \/ Broaden => \A answers \in BOOLEAN : ~AtomicDenies(command, answers)'
    BY <1>1, SplitIsAccepted, MarksAreAccepted DEF Broaden
  <2>2. Repair => /\ ~LintDenies(command)'
                  /\ \A f \in EffectiveCommitFiles(command)' \cap Lintable : work'[f] # "bad"
    BY <1>1, RepairIsAccepted DEF LintDenies
  <2>3. SkipLint => \A answers \in BOOLEAN : ~StagedLintDenies(command, answers)'
    BY <1>1, MarksAreAccepted DEF SkipLint
  <2>4. DropCredits => ~CreditDenies(command)'
    <3>1. command' = [command EXCEPT !.credits = FALSE] => ~CreditDenies(command)'
      BY <1>1 DEF CreditDenies, TypeOK, CommandLines
    <3>2. Mark("[allow-coauthor]") => ~CreditDenies(command)'
      BY <1>1, MarksAreAccepted
    <3> QED
      BY <3>1, <3>2 DEF DropCredits
  <2> QED
    BY <2>1, <2>2, <2>3, <2>4
<1>2. TypeOK => [Accepted]_vars
  BY <1>1
<1> HIDE DEF Accepted
<1>3. Spec => []SplitIsOpen /\ [][Accepted]_vars
  BY <1>2, TypeCorrect, SplitOpens, PTL
<1> QED
  BY <1>3 DEF RemediesAreAccepted, Accepted

\* For any files and command lines: until it proposes another line an agent drops no mark and adds
\* no credit, so a gate that a mark silenced stays silent.
THEOREM RemediesAreKept == Spec => RemediesStay
<1> DEFINE Stay == (\A c : ~Propose(c)) => /\ command.marks \subseteq command'.marks
                                           /\ command'.credits => command.credits
<1>1. ASSUME TypeOK, Next PROVE Stay
  <2>1. ASSUME command' = command PROVE Stay
    BY <2>1
  <2>2. ASSUME NEW mark, Mark(mark) PROVE Stay
    BY <1>1, <2>2 DEF Mark, TypeOK, CommandLines
  <2>3. CASE Obey
    <3>1. Split \/ Repair => command'.marks = command.marks /\ command'.credits = command.credits
      BY <1>1 DEF Split, Repair, TypeOK, CommandLines
    <3>2. DropCredits => Stay
      BY <1>1, <2>2 DEF DropCredits, TypeOK, CommandLines
    <3>3. TryAgain => command' = command
      BY DEF TryAgain
    <3> QED
      BY <2>1, <2>2, <2>3, <3>1, <3>2, <3>3 DEF Obey, Broaden, SkipLint
  <2>4. ASSUME NEW failing \in FailingSets, NEW answers \in BOOLEAN, Judge(failing, answers) PROVE Stay
    BY <2>1, <2>4 DEF Judge
  <2>5. Commit => command' = command
    BY DEF Commit
  <2>6. ASSUME NEW f \in Files, Edit(f) \/ Stage(f) PROVE Stay
    BY <2>1, <2>6 DEF Edit, Stage, Interferes
  <2> QED
    BY <1>1, <2>1, <2>3, <2>4, <2>5, <2>6 DEF Next
<1>2. TypeOK /\ [Next]_vars => [Stay]_vars
  BY <1>1
<1> HIDE DEF Stay
<1>3. Spec => [][Stay]_vars
  BY <1>2, TypeCorrect, PTL DEF Spec
<1> QED
  BY <1>3 DEF RemediesStay, Stay

=============================================================================
