------------------------------- MODULE Research -------------------------------
(* The gates that order an agent's research: engram-first (memory is asked     *)
(* before the web, and told before the turn ends), library-docs (a package's   *)
(* first use needs a lookup) and skill-first.  They judge by session files     *)
(* that trackers write after each call, while the calls of other agents of the *)
(* session are judged and tracked.  An agent does what the denials say.        *)
EXTENDS Integers, FiniteSets, Sequences

CONSTANTS
  Actors,        \* the agents of the session
  Main,          \* the one whose turn ends with the Stop hook
  Packages,      \* the libraries
  Goals,         \* what an agent may set out to do
  InstalledSets, \* which of engram and context7 are declared
  EnabledSets,   \* the configurations: which gates are on
  MaxEntries,    \* library-docs' MAX_ENTRIES
  MaxGoals,      \* bound: goals of each agent
  MaxFailures    \* bound: lookups that fail

-----------------------------------------------------------------------------
Gates == {"engram-first", "library-docs", "skill-first"}

Lookups == {"search", "docs", "save", "web", "skill"}

\* A call: what it is, the packages it names or introduces, and what the gates find in it:
\* "opaque": a redirection into a code file; "relevant": a skill covers it and the text says
\* nothing of skills; "hit": the memory answered.
Calls == [kind : Lookups \cup {"write", "stop"}, about : SUBSET Packages,
          finds : SUBSET {"opaque", "relevant", "hit"}]

CallOf(kind, about) == [kind |-> kind, about |-> about, finds |-> {}]

Researches(c) == c.kind \in {"web", "docs"}

ASSUME InputsAssumption ==
  /\ Main \in Actors /\ MaxEntries \in Nat \ {0} /\ MaxGoals \in [Actors -> Nat] /\ MaxFailures \in Nat
  /\ \A goal \in Goals : goal \in Calls /\ goal.kind \in {"web", "write", "stop"}
  /\ \A servers \in InstalledSets : servers \subseteq {"engram", "context7"}
  /\ \A gates \in EnabledSets : gates \subseteq Gates

VARIABLES
  installed, \* the servers that are declared
  enabled,   \* the gates that are on
  used,      \* the packages the project's code imports
  engram,    \* engram-first's file: whether memory was searched, and research came after the last save
  library,   \* library-docs' file: the last hits, documentation lookups and saves
  invoked,   \* skill-first's: whether the skill that is relevant was loaded
  plan,      \* what each agent will call, in order
  ran,       \* its last lookup
  tracking,  \* the trackers of that lookup which have not ended
  reading,   \* whether they have read their files
  sawEngram, sawLibrary, \* what they read
  again,     \* stop_hook_active
  goals,     \* how many each agent had
  failures,
  owed,      \* history: research was done, and no save was since
  crossed    \* history: it was done or saved while another call was being tracked

session == <<engram, library, invoked>>
hooks   == <<ran, tracking, reading, sawEngram, sawLibrary>>
history == <<owed, crossed>>
researchVars == <<installed, enabled, used, session, plan, hooks, again, goals, failures, history>>

NothingSearched == [searched |-> FALSE, due |-> FALSE]
NothingKnown    == [hits |-> <<>>, docs |-> <<>>, saves |-> <<>>]

ResearchInit ==
  /\ installed \in InstalledSets /\ enabled \in EnabledSets
  /\ used = {} /\ engram = NothingSearched /\ library = NothingKnown /\ invoked = FALSE
  /\ plan = [a \in Actors |-> <<>>] /\ ran = [a \in Actors |-> CallOf("web", {})]
  /\ tracking = [a \in Actors |-> {}] /\ reading = [a \in Actors |-> FALSE]
  /\ sawEngram = [a \in Actors |-> NothingSearched]
  /\ sawLibrary = [a \in Actors |-> NothingKnown]
  /\ again = FALSE /\ goals = [a \in Actors |-> 0] /\ failures = 0 /\ owed = FALSE /\ crossed = FALSE

-----------------------------------------------------------------------------
(* The verdicts.                                                              *)

EngramDenies(c) ==
  /\ "engram-first" \in enabled /\ "engram" \in installed
  /\ Researches(c) /\ ~engram.searched

Mentions(list, p) == \E i \in DOMAIN list : p \in list[i]

\* What counts as known narrows to the servers that exist.
IsKnown(p) ==
  IF "engram" \in installed
  THEN \/ Mentions(library.hits, p)
       \/ "context7" \in installed /\ Mentions(library.docs, p) /\ Mentions(library.saves, p)
  ELSE Mentions(library.docs, p)

Unknown(c) == {p \in c.about \ used : ~IsKnown(p)}

LibraryDenies(c) ==
  /\ "library-docs" \in enabled /\ installed # {} /\ c.kind = "write"
  /\ "opaque" \in c.finds \/ Unknown(c) # {}

SkillDenies(c) ==
  "skill-first" \in enabled /\ c.kind = "write" /\ "relevant" \in c.finds /\ ~invoked

StopBlocks == "engram-first" \in enabled /\ engram.due /\ "engram" \in installed /\ ~again

\* What library-docs tells the agent to do about a package.
RemedyFor(p) ==
  LET documented == Mentions(library.docs, p)
      If(step, call) == IF step THEN <<call>> ELSE <<>>
  IN  If("engram" \in installed /\ ~Mentions(library.hits, p) /\ ~documented, CallOf("search", {p}))
      \o If("context7" \in installed /\ ~documented, CallOf("docs", {p}))
      \o If("engram" \in installed /\ documented /\ ~Mentions(library.saves, p), CallOf("save", {p}))

\* What an agent may do first: an opaque write is only written again; of the packages the
\* denial names it looks one up, and the next denial names the others.
LibraryRemedies(c) ==
  IF "opaque" \in c.finds THEN {<<>>} ELSE {RemedyFor(p) : p \in Unknown(c)}

-----------------------------------------------------------------------------
(* An agent's calls.                                                          *)

Wish(a) ==
  /\ plan[a] = <<>> /\ tracking[a] = {}
  /\ goals[a] < MaxGoals[a] /\ goals' = [goals EXCEPT ![a] = @ + 1]
  /\ \E goal \in Goals : /\ goal.kind = "stop" => a = Main
                         /\ plan' = [plan EXCEPT ![a] = <<goal>>]
  /\ UNCHANGED <<installed, enabled, used, session, hooks, again, failures, history>>

\* Its next call is judged, once the trackers of the one before have ended.
IsNext(a, c) == tracking[a] = {} /\ plan[a] # <<>> /\ c = Head(plan[a])

\* It makes other calls before it tries c again, rewritten or not.
DoFirst(a, calls, c) ==
  /\ plan' = [plan EXCEPT ![a] = calls \o <<c>> \o Tail(@)]
  /\ UNCHANGED <<installed, enabled, used, session, hooks, goals, failures, history>>

ResearchDenied(a, c) ==
  /\ IsNext(a, c) /\ EngramDenies(c)
  /\ DoFirst(a, <<CallOf("search", c.about)>>, c)
  /\ UNCHANGED again

\* The write is rewritten for the Write tool, the packages are looked up, the skill is loaded
\* or dismissed in a line.
WriteDenied(a, c) ==
  /\ IsNext(a, c)
  /\ LibraryDenies(c) \/ SkillDenies(c)
  /\ \E calls \in IF LibraryDenies(c) THEN LibraryRemedies(c) ELSE {<<>>},
        loads \in IF SkillDenies(c) THEN BOOLEAN ELSE {FALSE} :
       DoFirst(a,
               calls \o (IF loads THEN <<CallOf("skill", {})>> ELSE <<>>),
               [c EXCEPT !.finds = @ \ ((IF LibraryDenies(c) THEN {"opaque"} ELSE {})
                                        \cup (IF SkillDenies(c) /\ ~loads THEN {"relevant"} ELSE {}))])
  /\ UNCHANGED again

StopBlocked(a, c) ==
  /\ IsNext(a, c) /\ c.kind = "stop" /\ StopBlocks
  /\ DoFirst(a, <<CallOf("save", {})>>, c)
  /\ again' = TRUE

WriteGoes(a, c) ==
  /\ IsNext(a, c) /\ c.kind = "write" /\ ~LibraryDenies(c) /\ ~SkillDenies(c)
  /\ used' = used \cup c.about
  /\ plan' = [plan EXCEPT ![a] = Tail(@)]
  /\ UNCHANGED <<installed, enabled, session, hooks, again, goals, failures, history>>

EndTurn(a, c) ==
  /\ IsNext(a, c) /\ c.kind = "stop" /\ ~StopBlocks
  /\ again' = FALSE
  /\ plan' = [plan EXCEPT ![a] = Tail(@)]
  /\ UNCHANGED <<installed, enabled, used, session, hooks, goals, failures, history>>

\* The trackers a lookup starts; engram-first's asks whether its gate is on.
TrackersOf(c) ==
  (IF c.kind # "skill" /\ "engram-first" \in enabled THEN {"engram-first"} ELSE {})
  \cup (IF c.kind \in {"search", "docs", "save"} THEN {"library-docs"} ELSE {})
  \cup (IF c.kind = "skill" THEN {"skill-first"} ELSE {})

IsTracked(a) == "engram-first" \in tracking[a]

\* A lookup runs; "if engram has nothing" the documentation is looked up as well.
LookUp(a, c) ==
  /\ IsNext(a, c) /\ c.kind \in Lookups /\ ~EngramDenies(c)
  /\ \E finds \in IF c.kind = "search" THEN {{}, {"hit"}} ELSE {{}} :
       LET rest == Tail(plan[a])
       IN  /\ ran' = [ran EXCEPT ![a] = [kind |-> c.kind, about |-> c.about, finds |-> finds]]
           /\ plan' = [plan EXCEPT ![a] =
                         IF finds = {"hit"} /\ rest # <<>> /\ Head(rest) = CallOf("docs", c.about)
                            /\ Len(rest) > 1
                         THEN Tail(rest) ELSE rest]
  /\ tracking' = [tracking EXCEPT ![a] = TrackersOf(c)]
  /\ owed' = (Researches(c) \/ (owed /\ c.kind # "save"))
  /\ crossed' = \/ \E b \in Actors : IsTracked(b)
                \/ (crossed /\ ~Researches(c) /\ c.kind # "save")
  /\ UNCHANGED <<installed, enabled, used, session, reading, sawEngram, sawLibrary, again,
                 goals, failures>>

\* A call that fails is not tracked; the agent goes on.
Fail(a, c) ==
  /\ IsNext(a, c) /\ c.kind \in Lookups /\ ~EngramDenies(c)
  /\ failures < MaxFailures /\ failures' = failures + 1
  /\ plan' = [plan EXCEPT ![a] = Tail(@)]
  /\ UNCHANGED <<installed, enabled, used, session, hooks, again, goals, history>>

-----------------------------------------------------------------------------
(* The trackers.                                                              *)

\* Those of one call read their files together; each writes when it is done.
ReadFiles(a) ==
  /\ tracking[a] # {} /\ reading[a] = FALSE
  /\ reading' = [reading EXCEPT ![a] = TRUE]
  /\ sawEngram' = [sawEngram EXCEPT ![a] = IF IsTracked(a) THEN engram ELSE NothingSearched]
  /\ sawLibrary' = [sawLibrary EXCEPT ![a] = IF "library-docs" \in tracking[a] THEN library ELSE NothingKnown]
  /\ UNCHANGED <<installed, enabled, used, session, plan, ran, tracking, again, goals, failures,
                 history>>

\* Mutant: only a search that found something counts.
EngramAfterHits(c, file) ==
  [searched |-> file.searched \/ (c.kind = "search" /\ "hit" \in c.finds),
   due      |-> Researches(c) \/ (file.due /\ c.kind # "save")]

\* Mutant: a search after the research pays for it too.
EngramAfterAny(c, file) ==
  [searched |-> file.searched \/ c.kind = "search", due |-> Researches(c)]

\* No two stamps are taken in the same millisecond.
EngramAfter(c, file) ==
  [searched |-> file.searched \/ c.kind = "search",
   due      |-> Researches(c) \/ (file.due /\ c.kind # "save")]

\* Mutant: the lists grow for ever.
RememberAll(list, about) == Append(list, about)

Remember(list, about) ==
  IF Len(list) < MaxEntries THEN Append(list, about) ELSE Append(Tail(list), about)

\* A search that found nothing writes back what it read.
LibraryAfter(c, file) ==
  CASE c.kind = "search" -> IF "hit" \in c.finds THEN [file EXCEPT !.hits = Remember(@, c.about)]
                            ELSE file
    [] c.kind = "save"   -> [file EXCEPT !.saves = Remember(@, c.about)]
    [] c.kind = "docs"   -> [file EXCEPT !.docs = Remember(@, c.about)]

Track(a, tracker) ==
  /\ reading[a] /\ tracker \in tracking[a]
  /\ tracking' = [tracking EXCEPT ![a] = @ \ {tracker}]
  /\ reading' = [reading EXCEPT ![a] = tracking'[a] # {}]
  /\ IF tracker = "engram-first"
     THEN /\ engram' = EngramAfter(ran[a], sawEngram[a])
          /\ sawEngram' = [sawEngram EXCEPT ![a] = NothingSearched]
     ELSE UNCHANGED <<engram, sawEngram>>
  /\ IF tracker = "library-docs"
     THEN /\ library' = LibraryAfter(ran[a], sawLibrary[a])
          /\ sawLibrary' = [sawLibrary EXCEPT ![a] = NothingKnown]
     ELSE UNCHANGED <<library, sawLibrary>>
  /\ invoked' = (invoked \/ tracker = "skill-first")
  /\ ran' = [ran EXCEPT ![a] = IF tracking'[a] = {} THEN CallOf("web", {}) ELSE @]
  /\ UNCHANGED <<installed, enabled, used, plan, again, goals, failures, history>>

-----------------------------------------------------------------------------
Proceed(a) ==
  \/ LET c == Head(plan[a])
     IN \/ ResearchDenied(a, c) \/ WriteDenied(a, c) \/ StopBlocked(a, c)
        \/ WriteGoes(a, c) \/ EndTurn(a, c) \/ LookUp(a, c)
  \/ ReadFiles(a)
  \/ \E tracker \in Gates : Track(a, tracker)

ResearchNext ==
  \E a \in Actors : Wish(a) \/ Proceed(a) \/ Fail(a, Head(plan[a]))

ResearchSpec == ResearchInit /\ [][ResearchNext]_researchVars

\* Every agent goes on with its plan, and hooks run.
FairResearchSpec == ResearchSpec /\ \A a \in Actors : WF_researchVars(Proceed(a))

-----------------------------------------------------------------------------
(* Properties.                                                                *)

Entries      == UNION {[1 .. n -> SUBSET Packages] : n \in 0 .. MaxEntries}
EngramFiles  == [searched : BOOLEAN, due : BOOLEAN]
LibraryFiles == [hits : Entries, docs : Entries, saves : Entries]

\* The lists of library-docs' file stay within MAX_ENTRIES (track.mjs:22), and what an agent
\* is going to call, its gates' remedies included, is a call.
ResearchTypeOK ==
  /\ installed \subseteq {"engram", "context7"} /\ enabled \subseteq Gates
  /\ used \subseteq Packages
  /\ engram \in EngramFiles /\ library \in LibraryFiles
  /\ invoked \in BOOLEAN /\ again \in BOOLEAN
  /\ plan \in [Actors -> Seq(Calls)] /\ ran \in [Actors -> Calls]
  /\ tracking \in [Actors -> SUBSET Gates] /\ reading \in [Actors -> BOOLEAN]
  /\ sawEngram \in [Actors -> EngramFiles] /\ sawLibrary \in [Actors -> LibraryFiles]
  /\ goals \in [Actors -> Nat] /\ \A a \in Actors : goals[a] <= MaxGoals[a]
  /\ failures \in 0 .. MaxFailures
  /\ owed \in BOOLEAN /\ crossed \in BOOLEAN

\* "Blocks Stop while research happened with no later mem_save" (registry.json:939): a turn
\* does not end at the first try with research nobody saved, whichever agent did it, unless
\* calls whose trackers wrote over each other, or are still to write, hide it.
ResearchIsSaved ==
  [][EndTurn(Main, Head(plan[Main])) /\ "engram-first" \in enabled /\ "engram" \in installed
     => again \/ crossed \/ ~owed \/ \E a \in Actors : IsTracked(a)]_researchVars

\* A tracker writes back over news it had not read.
Overwrites ==
  \E a \in Actors :
    \/ Track(a, "engram-first") /\ sawEngram[a] # engram
    \/ Track(a, "library-docs") /\ sawLibrary[a] # library

\* "A gate whose precondition cannot be satisfied must not block" (engram-first/shared:64): an
\* agent that does as the three gates say, each of whose remedies another may deny, gets its
\* write done and its turn ended, unless trackers overwrite each other's news for ever.  With
\* engram and no context7 library-docs offers nothing but another search.
NobodyIsStuck ==
  \/ installed = {"engram"} /\ "library-docs" \in enabled
  \/ \A a \in Actors : plan[a] # <<>> ~> plan[a] = <<>>
  \/ []<><<Overwrites>>_researchVars

=============================================================================
