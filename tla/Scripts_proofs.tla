----------------------------- MODULE Scripts_proofs -----------------------------
(* The board-server row of a preflight, for any number of preflights, hosts and *)
(* restarts; what staging leaves in the play directory, for any install, mod    *)
(* and links; which runs the reaper stops, for any runs and anything they do;   *)
(* what a met ladder goal rests on, for any seeds, arms, profiles and games; in *)
(* how many clicks the driver is rid of a dialog, for any dialogs; what stands  *)
(* under an offset of a metric's history, for any logs and offsets.             *)
EXTENDS Preflight, GameFixture, RunReaper, WinLadder, RunDriver, Arms, FiniteSetTheorems,
        SequenceTheorems, WellFoundedInduction, TLAPS

(*---------------------------------------------------------------------------*)
(* Preflight.                                                                 *)

AtSet == {"orchestrator", "queue", "settings", "yupana", "first", "second", "third", "done"}
RowSet == [status : {"ok", "warn", "fail"}, blocking : BOOLEAN,
           what : {"orchestrator", "grounding", "telemetry", "agent queue", "mcp config",
                   "llm_timeout_ms", "quipu", "yupana", "yupana replace"}]
CheckSet == [at : AtSet, rows : SUBSET RowSet, session : Nat]
Honoured == Row("ok", FALSE, "yupana replace")

StateTypes == /\ host \in HostShape
              /\ life \in Nat /\ life # 0
              /\ moved \in Nat
              /\ board \subseteq Scratch
              /\ check \in [Checkers -> CheckSet]
              /\ spokeTo \in [Checkers -> {"nothing"} \cup Builds]

\* A session between its first write and its count belongs to a life no later than
\* the server's; while the server that answered it still runs, it is the build the
\* preflight spoke to, and if that build merges, both scratch entities are there.
SessionKnown(c) ==
    check[c].at \in {"second", "third"} =>
        /\ check[c].session # 0
        /\ check[c].session = life =>
             /\ spokeTo[c] = host.yupana
             /\ host.yupana = "merges" => board = Scratch

Supported(c) == /\ check[c].session <= life
                /\ check[c].at \in {"first", "second", "third"} => host.yupana # "unset"
                /\ SessionKnown(c)
                /\ Honoured \in check[c].rows => check[c].at = "done" /\ spokeTo[c] = "replaces"

PreflightInv == StateTypes /\ \A c \in Checkers : Supported(c)

LEMMA PreflightBegins == PreflightInit => PreflightInv
<1> SUFFICES ASSUME PreflightInit PROVE PreflightInv
  OBVIOUS
<1>1. StateTypes
  BY HostShapes DEF PreflightInit, StateTypes, Fresh, CheckSet, AtSet
<1>2. ASSUME NEW c \in Checkers PROVE Supported(c)
  BY DEF PreflightInit, Fresh, Supported, SessionKnown
<1> QED
  BY <1>1, <1>2 DEF PreflightInv

\* A row other than the one on replace leaves every conclusion about that one alone.
LEMMA RowsGiven ==
    ASSUME NEW status \in {"ok", "warn", "fail"}, NEW blocking \in BOOLEAN,
           NEW what \in {"orchestrator", "grounding", "telemetry", "agent queue", "mcp config",
                         "llm_timeout_ms", "quipu", "yupana", "yupana replace"}
    PROVE  /\ Row(status, blocking, what) \in RowSet
           /\ Row(status, blocking, what) = Honoured => status = "ok" /\ what = "yupana replace"
  BY DEF Row, RowSet, Honoured

\* A step of one preflight to a place that is neither of its writes, with rows that
\* do not report replace honoured, keeps the invariant.
LEMMA QuietStep ==
    ASSUME PreflightInv, NEW c \in Checkers, NEW at \in AtSet \ {"second", "third"},
           NEW found \in SUBSET RowSet, Honoured \notin found,
           Honoured \in check[c].rows => at = "done",
           at = "first" => host.yupana # "unset",
           Goes(c, at, found), HostKept, UNCHANGED spokeTo
    PROVE  PreflightInv'
<1>1. StateTypes'
  BY DEF PreflightInv, StateTypes, Goes, HostKept, CheckSet
<1>2. ASSUME NEW d \in Checkers PROVE Supported(d)'
  <2>1. CASE d = c
    BY <2>1 DEF PreflightInv, StateTypes, Goes, HostKept, CheckSet, AtSet, Supported, SessionKnown
  <2>2. CASE d # c
    BY <2>2 DEF PreflightInv, StateTypes, Goes, HostKept, CheckSet, AtSet, Supported, SessionKnown
  <2> QED
    BY <2>1, <2>2
<1> QED
  BY <1>1, <1>2 DEF PreflightInv

LEMMA TwoEntities == Cardinality(Scratch) # 1
<1>1. ASSUME NEW x, Scratch = {x} PROVE FALSE
  BY <1>1 DEF Scratch
<1>2. IsFiniteSet(Scratch)
  <2>1. Scratch = {"a"} \cup {"b"}
    BY DEF Scratch
  <2> QED
    BY <2>1, FS_Singleton, FS_Union
<1> QED
  BY <1>1, <1>2, FS_Singleton

LEMMA PreflightSteps == PreflightInv /\ [PreflightNext]_preflightVars => PreflightInv'
<1> SUFFICES ASSUME PreflightInv, [PreflightNext]_preflightVars PROVE PreflightInv'
  OBVIOUS
<1>0. CASE UNCHANGED preflightVars
  BY <1>0 DEF preflightVars, PreflightInv, StateTypes, Supported, SessionKnown
<1>1. ASSUME NEW brain \in {"agent", "model", "down"}, OrchestratorRestarts(brain)
      PROVE  PreflightInv'
  <2>1. host' \in HostShape /\ host'.yupana = host.yupana
    BY <1>1 DEF OrchestratorRestarts, PreflightInv, StateTypes, HostShape
  <2>2. StateTypes'
    BY <1>1, <2>1 DEF OrchestratorRestarts, PreflightInv, StateTypes
  <2>3. ASSUME NEW c \in Checkers PROVE Supported(c)'
    BY <1>1, <2>1 DEF OrchestratorRestarts, PreflightInv, StateTypes, Supported, SessionKnown
  <2> QED
    BY <2>2, <2>3 DEF PreflightInv
<1>2. ASSUME NEW build \in {"down", "merges", "replaces"}, YupanaRestarts(build)
      PROVE  PreflightInv'
  <2>1. host' \in HostShape /\ host'.yupana # "unset"
    BY <1>2 DEF YupanaRestarts, PreflightInv, StateTypes, HostShape, Builds
  <2>2. StateTypes'
    BY <1>2, <2>1 DEF YupanaRestarts, PreflightInv, StateTypes
  <2>3. ASSUME NEW c \in Checkers PROVE Supported(c)'
    BY <1>2, <2>1 DEF YupanaRestarts, PreflightInv, StateTypes, CheckSet, Supported, SessionKnown
  <2> QED
    BY <2>2, <2>3 DEF PreflightInv
<1>3. ASSUME NEW c \in Checkers, CheckOrchestrator(c) PROVE PreflightInv'
  <2> DEFINE some == {Row("fail", TRUE, "orchestrator")}
             more == {Row("ok", TRUE, "orchestrator"), GroundingRow}
                     \cup (IF host.telemetry THEN {} ELSE {Row("warn", FALSE, "telemetry")})
  <2>1. GroundingRow \in RowSet /\ GroundingRow # Honoured
    BY DEF GroundingRow, Row, RowSet, Honoured
  <2>a. \A r \in {Row("fail", TRUE, "orchestrator"), Row("ok", TRUE, "orchestrator"),
                  Row("warn", FALSE, "telemetry")} : r \in RowSet /\ r # Honoured
    BY RowsGiven
  <2>2. /\ some \in SUBSET RowSet /\ Honoured \notin some
        /\ more \in SUBSET RowSet /\ Honoured \notin more
    <3>1. CASE host.telemetry
      BY <2>1, <2>a, <3>1
    <3>2. CASE ~host.telemetry
      BY <2>1, <2>a, <3>2
    <3> QED
      BY <3>1, <3>2
  <2>3. Honoured \notin check[c].rows
    BY <1>3 DEF CheckOrchestrator, PreflightInv, Supported
  <2> HIDE DEF some, more
  <2>4. CASE Goes(c, "settings", some)
    BY <1>3, <2>2, <2>3, <2>4, QuietStep DEF CheckOrchestrator, AtSet
  <2>5. CASE Goes(c, "settings", more)
    BY <1>3, <2>2, <2>3, <2>5, QuietStep DEF CheckOrchestrator, AtSet
  <2>6. CASE Goes(c, "queue", more)
    BY <1>3, <2>2, <2>3, <2>6, QuietStep DEF CheckOrchestrator, AtSet
  <2> QED
    BY <1>3, <2>4, <2>5, <2>6 DEF CheckOrchestrator, some, more
<1>4. ASSUME NEW c \in Checkers, CheckAgentQueue(c) PROVE PreflightInv'
  <2> DEFINE some == {Row(IF host.brain = "agent" THEN "ok" ELSE "fail", TRUE, "agent queue")}
  <2>a. \A status \in {"ok", "fail"} :
          Row(status, TRUE, "agent queue") \in RowSet /\ Row(status, TRUE, "agent queue") # Honoured
    BY RowsGiven
  <2>1. some \in SUBSET RowSet /\ Honoured \notin some
    BY <2>a
  <2>2. Honoured \notin check[c].rows
    BY <1>4 DEF CheckAgentQueue, PreflightInv, Supported
  <2> HIDE DEF some
  <2>3. Goes(c, "settings", some)
    BY <1>4 DEF CheckAgentQueue, some
  <2> QED
    BY <1>4, <2>1, <2>2, <2>3, QuietStep DEF CheckAgentQueue, AtSet
<1>5. ASSUME NEW c \in Checkers, CheckSettings(c) PROVE PreflightInv'
  <2> DEFINE some == {McpRow, TimeoutRow, QuipuRow}
  <2>1. McpRow \in RowSet /\ McpRow # Honoured
    BY DEF McpRow, Row, RowSet, Honoured
  <2>2. TimeoutRow \in RowSet /\ TimeoutRow # Honoured
    BY DEF TimeoutRow, Row, RowSet, Honoured
  <2>3. QuipuRow \in RowSet /\ QuipuRow # Honoured
    BY DEF QuipuRow, Row, RowSet, Honoured
  <2>4. some \in SUBSET RowSet /\ Honoured \notin some
    BY <2>1, <2>2, <2>3
  <2>5. Honoured \notin check[c].rows
    BY <1>5 DEF CheckSettings, PreflightInv, Supported
  <2> HIDE DEF some
  <2>6. Goes(c, "yupana", some)
    BY <1>5 DEF CheckSettings, some
  <2> QED
    BY <1>5, <2>4, <2>5, <2>6, QuietStep DEF CheckSettings, AtSet
<1>6. ASSUME NEW c \in Checkers, CheckYupana(c) PROVE PreflightInv'
  <2> DEFINE silent == {Row("warn", FALSE, "yupana")}
             answered == {Row("ok", FALSE, "yupana")}
  <2>a. \A r \in {Row("warn", FALSE, "yupana"), Row("ok", FALSE, "yupana")} :
          r \in RowSet /\ r # Honoured
    BY RowsGiven
  <2>1. /\ silent \in SUBSET RowSet /\ Honoured \notin silent
        /\ answered \in SUBSET RowSet /\ Honoured \notin answered
    BY <2>a
  <2>2. Honoured \notin check[c].rows
    BY <1>6 DEF CheckYupana, PreflightInv, Supported
  <2> HIDE DEF silent, answered
  <2>3. CASE Goes(c, "done", silent)
    BY <1>6, <2>1, <2>2, <2>3, QuietStep DEF CheckYupana, AtSet
  <2>4. CASE host.yupana # "unset" /\ Goes(c, "first", answered)
    BY <1>6, <2>1, <2>2, <2>4, QuietStep DEF CheckYupana, AtSet
  <2> QED
    BY <1>6, <2>3, <2>4 DEF CheckYupana, silent, answered
<1>7. ASSUME NEW c \in Checkers, Refused(c) PROVE PreflightInv'
  <2> DEFINE some == {Row("warn", FALSE, "yupana replace")}
  <2>a. Row("warn", FALSE, "yupana replace") \in RowSet
        /\ Row("warn", FALSE, "yupana replace") # Honoured
    BY RowsGiven
  <2>1. some \in SUBSET RowSet /\ Honoured \notin some
    BY <2>a
  <2>2. Honoured \notin check[c].rows
    BY <1>7 DEF Refused, PreflightInv, Supported
  <2> HIDE DEF some
  <2>3. Goes(c, "done", some)
    BY <1>7 DEF Refused, some
  <2> QED
    BY <1>7, <2>1, <2>2, <2>3, QuietStep DEF Refused, AtSet
<1>8. ASSUME NEW c \in Checkers, FirstWrite(c) PROVE PreflightInv'
  <2>1. board' = Scratch
    BY <1>8 DEF FirstWrite, Ingested, PreflightInv, StateTypes
  <2>2. /\ check'[c].at = "second" /\ check'[c].session = life
        /\ check'[c].rows = check[c].rows
        /\ check'[c] \in CheckSet
    BY <1>8 DEF FirstWrite, PreflightInv, StateTypes, CheckSet, AtSet
  <2>3. \A d \in Checkers : d # c => check'[d] = check[d] /\ spokeTo'[d] = spokeTo[d]
    BY <1>8 DEF FirstWrite, PreflightInv, StateTypes
  <2>4. StateTypes'
    <3>1. check' \in [Checkers -> CheckSet]
      BY <1>8, <2>2, <2>3 DEF FirstWrite, PreflightInv, StateTypes
    <3>2. spokeTo' \in [Checkers -> {"nothing"} \cup Builds]
      BY <1>8 DEF FirstWrite, PreflightInv, StateTypes, HostShape
    <3> QED
      BY <1>8, <2>1, <3>1, <3>2 DEF FirstWrite, PreflightInv, StateTypes
  <2>5. Honoured \notin check[c].rows
    BY <1>8 DEF FirstWrite, Answered, PreflightInv, Supported
  <2>6. host.yupana # "unset" /\ spokeTo'[c] = host.yupana /\ life # 0
    BY <1>8 DEF FirstWrite, Answered, PreflightInv, StateTypes, Supported
  <2>7. Supported(c)'
    <3>1. check'[c].session <= life' /\ life' = life /\ host' = host
      BY <1>8, <2>2 DEF FirstWrite, PreflightInv, StateTypes
    <3>2. SessionKnown(c)'
      BY <2>1, <2>2, <2>6, <3>1 DEF SessionKnown
    <3>3. Honoured \notin check'[c].rows
      BY <2>2, <2>5
    <3> QED
      BY <2>6, <3>1, <3>2, <3>3 DEF Supported
  <2>8. ASSUME NEW d \in Checkers, d # c PROVE Supported(d)'
    BY <1>8, <2>1, <2>3, <2>8 DEF FirstWrite, PreflightInv, Supported, SessionKnown
  <2> QED
    BY <2>4, <2>7, <2>8 DEF PreflightInv
<1>9. ASSUME NEW c \in Checkers, SecondWrite(c) PROVE PreflightInv'
  <2>1. board' \subseteq Scratch /\ (host.yupana = "merges" => board \subseteq board')
    BY <1>9 DEF SecondWrite, Ingested, Scratch, PreflightInv, StateTypes
  <2>2. /\ check'[c].at = "third" /\ check'[c].session = check[c].session
        /\ check'[c].rows = check[c].rows
        /\ check'[c] \in CheckSet
    BY <1>9 DEF SecondWrite, Goes, PreflightInv, StateTypes, CheckSet, AtSet
  <2>3. \A d \in Checkers : d # c => check'[d] = check[d]
    BY <1>9 DEF SecondWrite, Goes, PreflightInv, StateTypes
  <2>4. StateTypes'
    <3>1. check' \in [Checkers -> CheckSet]
      BY <1>9, <2>2, <2>3 DEF SecondWrite, Goes, PreflightInv, StateTypes
    <3> QED
      BY <1>9, <2>1, <3>1 DEF SecondWrite, PreflightInv, StateTypes
  <2>5. check[c].at = "second"
    BY <1>9 DEF SecondWrite, Answered
  <2>6. Supported(c)'
    BY <1>9, <2>1, <2>2, <2>5 DEF SecondWrite, PreflightInv, StateTypes, Supported, SessionKnown
  <2>7. ASSUME NEW d \in Checkers, d # c PROVE Supported(d)'
    BY <1>9, <2>1, <2>3, <2>7 DEF SecondWrite, PreflightInv, StateTypes, Supported, SessionKnown
  <2> QED
    BY <2>4, <2>6, <2>7 DEF PreflightInv
<1>10. ASSUME NEW c \in Checkers, ThirdWrite(c) PROVE PreflightInv'
  <2>1. board \subseteq board' /\ board' \subseteq Scratch
    BY <1>10 DEF ThirdWrite, Ingested, Scratch, PreflightInv, StateTypes
  <2> DEFINE row == Row(IF Cardinality(board') = 1 THEN "ok" ELSE "warn", FALSE, "yupana replace")
  <2>2. row \in RowSet /\ (row = Honoured => Cardinality(board') = 1)
    BY DEF Row, RowSet, Honoured
  <2>3. check[c].at = "third" /\ check[c].session = life
    BY <1>10 DEF ThirdWrite, Answered, PreflightInv, Supported, SessionKnown
  <2>4. /\ spokeTo[c] = host.yupana /\ host.yupana \in {"merges", "replaces"}
        /\ host.yupana = "merges" => board' = Scratch
    BY <1>10, <2>1, <2>3 DEF ThirdWrite, Answered, PreflightInv, StateTypes, HostShape, Builds,
                             Supported, SessionKnown
  <2>5. row = Honoured => spokeTo[c] = "replaces"
    <3>1. board' = Scratch => Cardinality(board') # 1
      BY TwoEntities, Zenon
    <3> QED
      BY <2>2, <2>4, <3>1
  <2> HIDE DEF row
  <2>6. Goes(c, "done", {row})
    BY <1>10 DEF ThirdWrite, row
  <2>7. /\ check'[c].at = "done" /\ check'[c].session = check[c].session
        /\ check'[c].rows = check[c].rows \cup {row}
        /\ check'[c] \in CheckSet
    BY <2>2, <2>6 DEF Goes, PreflightInv, StateTypes, CheckSet, AtSet
  <2>8. \A d \in Checkers : d # c => check'[d] = check[d]
    BY <2>6 DEF Goes, PreflightInv, StateTypes
  <2>9. StateTypes'
    <3>1. check' \in [Checkers -> CheckSet]
      BY <2>6, <2>7, <2>8 DEF Goes, PreflightInv, StateTypes
    <3> QED
      BY <1>10, <2>1, <3>1 DEF ThirdWrite, PreflightInv, StateTypes
  <2>10. Supported(c)'
    BY <1>10, <2>3, <2>5, <2>7 DEF ThirdWrite, PreflightInv, Supported, SessionKnown
  <2>11. ASSUME NEW d \in Checkers, d # c PROVE Supported(d)'
    BY <1>10, <2>1, <2>8, <2>11 DEF ThirdWrite, PreflightInv, StateTypes, Supported, SessionKnown
  <2> QED
    BY <2>9, <2>10, <2>11 DEF PreflightInv
<1> QED
  BY <1>0, <1>1, <1>2, <1>3, <1>4, <1>5, <1>6, <1>7, <1>8, <1>9, <1>10 DEF PreflightNext

\* check_replace: no preflight reports that replace is honoured unless the build it
\* opened its session on honours it, whatever it shares the scratch tenant with.
THEOREM ReplaceRowEarned == PreflightSpec => []IgnoredIsSaid
<1>1. PreflightInv => IgnoredIsSaid
  BY DEF PreflightInv, Supported, IgnoredIsSaid, ReportedHonoured, Honoured
<1> QED
  BY <1>1, PreflightBegins, PreflightSteps, PTL DEF PreflightSpec

(*---------------------------------------------------------------------------*)
(* Game fixture.                                                              *)

\* No path is recorded with a known mod's bytes, whatever a scan was allowed.
ManifestClean ==
    manifest # NoManifest => /\ DOMAIN manifest \subseteq Paths
                             /\ \A p \in DOMAIN manifest : manifest[p] # "mod"

LEMMA FixtureBegins == FixtureInit => ManifestClean
  BY DEF FixtureInit, ManifestClean

LEMMA FixtureSteps == ManifestClean /\ [FixtureNext]_fixtureVars => ManifestClean'
<1> SUFFICES ASSUME ManifestClean, [FixtureNext]_fixtureVars PROVE ManifestClean'
  OBVIOUS
<1>1. CASE UNCHANGED manifest
  BY <1>1 DEF ManifestClean
<1>2. ASSUME NEW allow \in BOOLEAN, Scan(allow), manifest' # manifest PROVE ManifestClean'
  <2>1. manifest' = [p \in Recorded(Walk(source), {p \in Walk(source) : Read(source, p) = "mod"})
                         |-> Read(source, p)]
    BY <1>2 DEF Scan
  <2> QED
    BY <2>1 DEF ManifestClean, Recorded, Walk
<1> QED
  BY <1>1, <1>2 DEF FixtureNext, fixtureVars, ModInstalled, Repaired, Altered, Verify, Kept, Stage

LEMMA StagedFromClean ==
    ASSUME ManifestClean, FixtureNext, Staged
    PROVE  /\ \A p \in Expected \ DOMAIN Links :
                 play'[p] = "mod" => said'.withMod /\ p \in ModTop
           /\ source[Rules] # "absent" => source'[Rules] = source[Rules]
<1>1. PICK where \in {"beside", "same", "inside"}, force \in BOOLEAN, withMod \in {"none", "mod", "missing"} :
        Stage(where, force, withMod)
  <2>1. ~ModInstalled /\ ~Repaired /\ \A p \in Paths : ~Altered(p)
    BY DEF Staged, ModInstalled, Repaired, Altered, Answer
  <2>2. \A allow \in BOOLEAN : ~Scan(allow)
    BY DEF Staged, Scan, Answer
  <2>3. \A tree, strict : ~Verify(tree, strict)
    BY DEF Staged, Verify
  <2> QED
    BY <2>1, <2>2, <2>3 DEF FixtureNext
<1>2. /\ ~StageRefused(where, force)
      /\ CopyAnd(withMod = "mod")
      /\ said' = [command |-> "stage", withMod |-> withMod = "mod",
                  ok |-> withMod # "missing"
                         /\ (source[Rules] # "absent" => source'[Rules] = source[Rules])]
  <2>1. ~Answer("stage", FALSE)
    <3>1. ASSUME said' = [command |-> "stage", ok |-> FALSE] PROVE FALSE
      <4>1. said'.ok = FALSE
        BY <3>1
      <4> QED
        BY <4>1 DEF Staged
    <3> QED
      BY <3>1, Zenon DEF Answer
  <2> QED
    BY <1>1, <2>1, Zenon DEF Stage
<1>3. source[Rules] # "absent" => source'[Rules] = source[Rules]
  BY <1>2 DEF Staged
<1>4. ASSUME NEW p \in Expected \ DOMAIN Links, play'[p] = "mod"
      PROVE  said'.withMod /\ p \in ModTop
  <2>1. p \in Paths
    BY <1>4 DEF Expected, ManifestClean
  <2>2. source[p] # "mod"
    BY <1>2, <1>4 DEF StageRefused, Contaminated, Missing, Expected, Read, ManifestClean
  <2>3. p \in Overlaid(withMod = "mod")
    BY <1>2, <1>4, <2>1, <2>2 DEF CopyAnd
  <2>4. withMod = "mod" /\ p \in ModTop
    BY <2>3 DEF Overlaid
  <2> QED
    BY <1>2, <2>4, Zenon
<1> QED
  BY <1>3, <1>4

\* cmd_stage: whatever was scanned and done to the install before, a play directory
\* reported staged holds a known mod's bytes on a path of the manifest only where
\* this staging overlaid them, and the install's rules are as they were.
THEOREM StagingIsClean == FixtureSpec => StagedIsClean
<1>1. ManifestClean /\ [FixtureNext]_fixtureVars
        => [Staged => /\ \A p \in Expected \ DOMAIN Links :
                           play'[p] = "mod" => said'.withMod /\ p \in ModTop
                      /\ source[Rules] # "absent" => source'[Rules] = source[Rules]]_fixtureVars
  BY StagedFromClean
<1> QED
  BY <1>1, FixtureBegins, FixtureSteps, PTL DEF FixtureSpec, StagedIsClean

(*---------------------------------------------------------------------------*)
(* Reaper.                                                                    *)

\* What the reaper counts on: a run in `kept` has its log, and once the logs were
\* read, it had it then.
KeptHasLog ==
    /\ log \in [Runs -> {"none", "recent", "old", "removed"}]
    /\ pass \in [at : {"idle", "orchestrators", "logs", "acting"}, games : SUBSET Runs,
                 pids : [Runs -> SUBSET Processes],
                 logs : [Runs -> {"none", "recent", "old", "removed"}]]
    /\ procs \in [Runs -> SUBSET Processes] /\ playing \subseteq Runs /\ kept \subseteq Runs
    /\ \A r \in kept : /\ Exists(r)
                       /\ pass.at = "acting" => pass.logs[r] \in {"recent", "old"}

LEMMA ReaperBegins == ReaperInit => KeptHasLog
BY DEF ReaperInit, KeptHasLog, NotReading, Processes

LEMMA ReaperSteps == KeptHasLog /\ [ReaperNext]_reaperVars => KeptHasLog'
<1> SUFFICES ASSUME KeptHasLog, [ReaperNext]_reaperVars PROVE KeptHasLog'
  OBVIOUS
<1> USE DEF KeptHasLog, Exists, Moves, Host, Said
<1>1. CASE UNCHANGED reaperVars
  BY <1>1 DEF reaperVars
<1>2. CASE ReadGames
  BY <1>2 DEF ReadGames, NotReading, Processes
<1>3. CASE ReadOrchestrators
  BY <1>3 DEF ReadOrchestrators
<1>4. CASE ReadLogs
  BY <1>4 DEF ReadLogs
<1>5. CASE EndPass
  BY <1>5 DEF EndPass, NotReading
<1>6. ASSUME NEW r \in Runs, Serve(r) \/ Exit(r)
      PROVE  KeptHasLog'
  BY <1>6 DEF Serve, Exit, Processes
<1>7. ASSUME NEW r \in Runs, StartGame(r) \/ EndGame(r)
      PROVE  KeptHasLog'
  BY <1>7 DEF StartGame, EndGame
<1>8. ASSUME NEW r \in Runs, WriteDecision(r) \/ Idle(r)
      PROVE  KeptHasLog'
  BY <1>8 DEF WriteDecision, Idle
<1>9. ASSUME NEW r \in Runs, RemoveData(r)
      PROVE  KeptHasLog'
  BY <1>9 DEF RemoveData
<1>10. ASSUME NEW r \in Runs, Reap(r)
       PROVE  KeptHasLog'
  BY <1>10 DEF Reap, Processes
<1> QED
  BY <1>1, <1>2, <1>3, <1>4, <1>5, <1>6, <1>7, <1>8, <1>9, <1>10 DEF ReaperNext

LEMMA ReapSpares ==
    ASSUME KeptHasLog, [ReaperNext]_reaperVars,
           NEW r \in Runs, r \in signalled' \ signalled
    PROVE  r \notin pass.games /\ r \notin kept
<1>1. PICK s \in Runs : Reap(s)
  BY DEF ReaperNext, reaperVars, ReadGames, ReadOrchestrators, ReadLogs, EndPass, Serve, Exit,
     StartGame, EndGame, WriteDecision, Idle, RemoveData, Moves, Said
<1>2. r = s
  BY <1>1 DEF Reap
<1>3. pass.at = "acting" /\ Verdict(r, pass) = "orphan-data-gone"
  BY <1>1, <1>2 DEF Reap, Reapable
<1>4. r \notin pass.games /\ pass.logs[r] \in {"none", "removed"}
  BY <1>3 DEF Verdict
<1> QED
  BY <1>3, <1>4 DEF KeptHasLog

\* reap-orphan-runs.py: no run whose game the pass saw, and none whose log was there
\* when the pass began and was not removed since, is ever signalled.
THEOREM ReaperSpares == ReaperSpec => WorkSurvives
<1>1. KeptHasLog /\ [ReaperNext]_reaperVars
        => [\A r \in Runs : r \in signalled' \ signalled
              => /\ r \notin pass.games
                 /\ r \notin kept]_reaperVars
  BY ReapSpares
<1> QED
  BY <1>1, ReaperBegins, ReaperSteps, PTL DEF ReaperSpec, WorkSurvives

(*---------------------------------------------------------------------------*)
(* Ladder.                                                                    *)

OneProfile == \A k1, k2 \in DOMAIN rows : rows[k1].profile = rows[k2].profile

\* A recorded win is ours, and a goal is met by the rows there are.
LadderTruth ==
    /\ IsFiniteSet(DOMAIN rows)
    /\ \A k \in DOMAIN rows : rows[k].outcome = "win" => rows[k].winner = "ours"
    /\ \A arm \in report.met : Met(arm) /\ OneProfile

\* verdict: a victory while we hold bases and no rival does is ours.
LEMMA WinIsOurs ==
    ASSUME NEW r \in Results, r.outcome = "win"
    PROVE  r.winner = "ours"
<1>1. PICK g \in Games, answered \in BOOLEAN, early \in [Sides -> {1, 2}] :
         r = [outcome |-> IF Viable(early) THEN Outcome(g, answered) ELSE "unplayable",
              winner |-> IF Viable(early) THEN g.winner ELSE Nobody]
  BY DEF Results
<1>2. Viable(early) /\ Outcome(g, answered) = "win" /\ r.winner = g.winner
  BY <1>1
<1>3. g.done /\ g.victory # "none" /\ Rivals(g) = {}
  BY <1>2 DEF Outcome
<1>4. g.winner \in Sides /\ g.bases[g.winner] > 0
  BY <1>3 DEF Games
<1>5. g.winner # "rival"
  BY <1>3, <1>4 DEF Rivals
<1> QED
  BY <1>2, <1>4, <1>5 DEF Sides

LEMMA LadderBegins == LadderInit => LadderTruth
<1>1. DOMAIN <<>> = {}
  OBVIOUS
<1> QED
  BY <1>1, FS_EmptySet DEF LadderInit, LadderTruth, NoReport

\* A report that is not refused is over rows of one profile.
LEMMA UnmixedIsOne ==
    ASSUME IsFiniteSet(DOMAIN rows), ~(Cardinality({rows[k].profile : k \in DOMAIN rows}) > 1)
    PROVE  OneProfile
<1> DEFINE S == {rows[k].profile : k \in DOMAIN rows}
<1> SUFFICES ASSUME NEW k1 \in DOMAIN rows, NEW k2 \in DOMAIN rows,
                    rows[k1].profile # rows[k2].profile
             PROVE  FALSE
  BY DEF OneProfile
<1> DEFINE f == [k \in DOMAIN rows |-> rows[k].profile]
<1>1. f \in Surjection(DOMAIN rows, S)
  BY DEF Surjection
<1> HIDE DEF f
<1>2. rows[k1].profile \in S /\ rows[k2].profile \in S
  OBVIOUS
<1>3. ~(Cardinality(S) > 1)
  OBVIOUS
<1> HIDE DEF S
<1>4. IsFiniteSet(S)
  BY <1>1, FS_Surjection
<1>5. S # {} /\ ~\E x : S = {x}
  BY <1>2
<1>6. Cardinality(S) \in Nat /\ Cardinality(S) # 0 /\ Cardinality(S) # 1
  BY <1>4, <1>5, FS_CardinalityType, FS_EmptySet, FS_Singleton
<1> QED
  BY <1>3, <1>6

LEMMA LadderSteps == LadderTruth /\ [LadderNext]_ladderVars => LadderTruth'
<1> SUFFICES ASSUME LadderTruth, [LadderNext]_ladderVars PROVE LadderTruth'
  OBVIOUS
<1>1. CASE UNCHANGED ladderVars
  BY <1>1 DEF ladderVars, LadderTruth, Met, Playable, Wins, OneProfile
<1>2. CASE Report
  <2>1. UNCHANGED rows
    BY <1>2 DEF Report
  <2>2. ASSUME NEW arm \in report'.met
        PROVE  Met(arm) /\ OneProfile
    BY <1>2, UnmixedIsOne DEF Report, LadderTruth
  <2> QED
    BY <2>1, <2>2 DEF LadderTruth, Met, Playable, Wins, OneProfile
<1>3. ASSUME NEW seed \in Seeds, NEW arm \in LadderArms, NEW profile \in Profiles,
             Record(seed, arm, profile)
      PROVE  LadderTruth'
  <2> DEFINE key == <<seed, arm>>
  <2>1. PICK r \in Results :
           rows' = [k \in DOMAIN rows \cup {key} |->
                      IF k = key
                      THEN [outcome |-> r.outcome, winner |-> r.winner, profile |-> profile]
                      ELSE rows[k]]
    BY <1>3 DEF Record
  <2>2. DOMAIN rows' = DOMAIN rows \cup {key}
    BY <2>1
  <2>3. rows'[key].outcome = r.outcome /\ rows'[key].winner = r.winner
    BY <2>1
  <2>4. \A k \in DOMAIN rows : k # key => rows'[k] = rows[k]
    BY <2>1
  <2>5. IsFiniteSet(DOMAIN rows')
    BY <2>2, FS_AddElement DEF LadderTruth
  <2>6. \A k \in DOMAIN rows' : rows'[k].outcome = "win" => rows'[k].winner = "ours"
    BY <2>2, <2>3, <2>4, WinIsOurs DEF LadderTruth
  <2>7. report'.met = {}
    BY <1>3 DEF Record, NoReport
  <2> QED
    BY <2>5, <2>6, <2>7 DEF LadderTruth
<1> QED
  BY <1>1, <1>2, <1>3 DEF LadderNext

\* win_ladder.py: an arm reported to have met the goal won at least two of at least three
\* games that share a fairness profile, for any number of seeds, arms and recordings.
THEOREM GoalIsEarned == LadderSpec => []MetIsEarned
<1>1. LadderTruth => MetIsEarned
  <2> SUFFICES ASSUME LadderTruth, NEW arm \in report.met
               PROVE  LET games == {k \in DOMAIN rows : k[2] = arm}
                      IN  /\ Cardinality({k \in games : rows[k].winner = "ours"}) >= 2
                          /\ Cardinality(games) >= 3
                          /\ OneProfile
    BY DEF MetIsEarned, OneProfile
  <2> DEFINE games == {k \in DOMAIN rows : k[2] = arm}
             ours == {k \in games : rows[k].winner = "ours"}
  <2>1. IsFiniteSet(games) /\ IsFiniteSet(ours)
    BY FS_Subset DEF LadderTruth
  <2>2. Playable(arm) \subseteq games /\ Wins(arm) \subseteq ours
    BY DEF Playable, Wins, LadderTruth
  <2>3. /\ IsFiniteSet(Playable(arm)) /\ Cardinality(Playable(arm)) <= Cardinality(games)
        /\ IsFiniteSet(Wins(arm)) /\ Cardinality(Wins(arm)) <= Cardinality(ours)
    BY <2>1, <2>2, FS_Subset
  <2>4. Cardinality(Playable(arm)) >= 3 /\ Cardinality(Wins(arm)) >= 2 /\ OneProfile
    BY DEF LadderTruth, Met
  <2>5. /\ Cardinality(games) \in Nat /\ Cardinality(ours) \in Nat
        /\ Cardinality(Playable(arm)) \in Nat /\ Cardinality(Wins(arm)) \in Nat
    BY <2>1, <2>3, FS_CardinalityType
  <2> QED
    BY <2>3, <2>4, <2>5
<1> QED
  BY <1>1, LadderBegins, LadderSteps, PTL DEF LadderSpec

(*---------------------------------------------------------------------------*)
(* The unattended driver.                                                     *)

\* What is left of a division is what is below a multiple.
LEMMA Remainder ==
    ASSUME NEW R \in Nat \ {0}, NEW k \in Nat, NEW m \in Nat, m < R
    PROVE  (R * k + m) % R = m
<1> DEFINE x == R * k + m
           q == x \div R
           r == x % R
<1>1. x \in Nat /\ R * k \in Nat
  OBVIOUS
<1> HIDE DEF x
<1>2. q \in Int /\ r \in Nat /\ r < R /\ x = R * q + r
  BY <1>1
<1> HIDE DEF q, r
<1>3. \A a, b \in Int : a > b => R * a >= R * b + R
  <2> TAKE a, b \in Int
  <2> HAVE a > b
  <2>1. a - b - 1 \in Nat /\ R \in Nat
    OBVIOUS
  <2>2. R * (a - b - 1) >= 0
    BY <2>1
  <2>3. R * (a - b - 1) = R * a - R * b - R
    OBVIOUS
  <2>4. R * a \in Int /\ R * b \in Int
    OBVIOUS
  <2> QED
    BY <2>2, <2>3, <2>4
<1>4. R * q \in Int
  BY <1>2
<1>5. x = R * k + m
  BY DEF x
<1>6. ~(q > k) /\ ~(k > q)
  BY <1>1, <1>2, <1>3, <1>4, <1>5
<1>7. q = k
  BY <1>2, <1>6
<1>8. r = m
  BY <1>1, <1>2, <1>5, <1>7
<1> QED
  BY <1>8 DEF r, x

\* From any place, some place of the next R leaves a given remainder.
LEMMA EveryRemainder ==
    ASSUME NEW R \in Nat \ {0}, NEW q \in Nat, NEW m \in Nat, m < R
    PROVE  \E j \in Nat : j < R /\ (q + j) % R = m
<1> DEFINE k == q \div R
           r == q % R
<1>1. k \in Nat /\ r \in Nat /\ r < R /\ q = R * k + r
  OBVIOUS
<1> HIDE DEF k, r
<1>2. CASE r <= m
  <2>1. m - r \in Nat /\ m - r < R /\ q + (m - r) = R * k + m
    BY <1>1, <1>2
  <2>2. (q + (m - r)) % R = m
    BY <1>1, <2>1, Remainder
  <2> QED
    BY <2>1, <2>2
<1>3. CASE r > m
  <2> DEFINE j == R + m - r
  <2>1. j \in Nat /\ j < R
    BY <1>1, <1>3
  <2>2. R * (k + 1) = R * k + R /\ k + 1 \in Nat /\ R * k \in Nat
    BY <1>1
  <2>3. q + j = R * (k + 1) + m
    BY <1>1, <2>2
  <2>4. (q + j) % R = m
    BY <2>2, <2>3, Remainder
  <2> QED
    BY <2>1, <2>4
<1> QED
  BY <1>1, <1>2, <1>3

\* Clicks already made on what looks to the driver like this dialog.
Tries(d, q) == IF d.shape = q.seen THEN q.tries ELSE 0

\* From wherever the rotation stands, the right row comes within one round.
LEMMA EveryRowComes ==
    ASSUME NEW d \in Dialogs, NEW e \in Nat
    PROVE  \E n \in Nat : n <= 3 * d.rows + 2 /\ RowFor(d, e + n) = d.dismiss
<1> DEFINE R == d.rows
           m == d.dismiss - 1
           first == IF e < 3 THEN 3 ELSE e
           q == first \div 3
<1>1. R \in Nat \ {0} /\ m \in Nat /\ m < R /\ d.dismiss = m + 1
  BY DriverBoundsOK
<1>2. first \in Nat /\ first >= 3 /\ first >= e /\ first - e <= 3
  OBVIOUS
<1> HIDE DEF first
<1>3. q \in Nat /\ 3 * q <= first /\ first < 3 * q + 3
  BY <1>2
<1> HIDE DEF q, m
<1>4. PICK j \in Nat : j < R /\ (q + j) % R = m
  <2> HIDE DEF R
  <2> QED
    BY <1>1, <1>3, EveryRemainder
<1>5. ASSUME NEW x \in Nat, x >= 3, x \div 3 = q + j PROVE RowFor(d, x) = d.dismiss
  BY <1>1, <1>4, <1>5 DEF RowFor
<1>6. CASE j = 0
  <2>1. first \div 3 = q + j
    BY <1>3, <1>6 DEF q
  <2>2. first - e \in Nat /\ e + (first - e) = first /\ first - e <= 3 * R + 2
    BY <1>1, <1>2
  <2> QED
    BY <1>2, <1>5, <2>1, <2>2
<1>7. CASE j # 0
  <2> DEFINE x == 3 * (q + j)
  <2>1. x \in Nat /\ x >= first /\ x <= first + 3 * (R - 1) /\ x >= 3 /\ x \div 3 = q + j
    BY <1>1, <1>2, <1>3, <1>4, <1>7
  <2>2. x - e \in Nat /\ e + (x - e) = x /\ x - e <= 3 * R + 2
    BY <1>1, <1>2, <2>1
  <2> HIDE DEF x
  <2> QED
    BY <1>5, <2>1, <2>2
<1> QED
  BY <1>6, <1>7

\* A round further on, the rotation is where it was.
LEMMA RoundRepeats ==
    ASSUME NEW d \in Dialogs, NEW n \in Nat
    PROVE  RowFor(d, 3 + n) = RowFor(d, 3 + 3 * d.rows + n)
<1> DEFINE R == d.rows
           q == (3 + n) \div 3
           k == q \div R
           m == q % R
<1>1. R \in Nat \ {0}
  BY DriverBoundsOK
<1> HIDE DEF R
<1>2. q \in Nat /\ (3 + 3 * R + n) \div 3 = q + R
  BY <1>1
<1> HIDE DEF q
<1>3. k \in Nat /\ m \in Nat /\ m < R /\ q = R * k + m
  BY <1>1, <1>2
<1> HIDE DEF k, m
<1>4. R * (k + 1) = R * k + R /\ k + 1 \in Nat
  BY <1>1, <1>3
<1>5. q + R = R * (k + 1) + m
  BY <1>1, <1>2, <1>3, <1>4
<1>6. (q + R) % R = m /\ q % R = m
  BY <1>1, <1>3, <1>4, <1>5, Remainder DEF m
<1> QED
  BY <1>1, <1>2, <1>6 DEF RowFor, q, R

\* The driver's locals are a record, and the dialog shown is gone within one round.
DriverFields == {"best", "idle", "silent", "busy", "known", "playing", "viable", "seen", "tries"}
IsDriver(q) == q = [f \in DriverFields |-> q[f]] /\ q.tries \in Nat

DueIn(d, done, e, n) == done + n <= 3 * d.rows + 2 /\ RowFor(d, e + n) = d.dismiss
RoundInv ==
    /\ IsDriver(driver) /\ clicks \in Nat
    /\ dialog # NoDialog => /\ dialog \in Dialogs
                            /\ \E n \in Nat : DueIn(dialog, clicks, Tries(dialog, driver), n)

LEMMA TriesIsNumber == ASSUME NEW d, NEW q, IsDriver(q) PROVE Tries(d, q) \in Nat
  BY DEF Tries, IsDriver

LEMMA NotedKeepsCount ==
    ASSUME IsDriver(driver)
    PROVE  IsDriver(Noted) /\ Noted.seen = driver.seen /\ Noted.tries = driver.tries
<1> DEFINE advanced == turn > driver.best
           known == driver.known \/ ticked
           best == IF advanced THEN turn ELSE driver.best
           idle == IF advanced THEN 0 ELSE Count(driver.idle, NoProgress)
           viable == driver.viable \/ turn >= ViableByTurn
           inPlay == driver.playing \/ turn > 0
           q == [driver EXCEPT !.silent = 0, !.busy = 0, !.known = known, !.best = best,
                               !.idle = idle, !.viable = viable, !.playing = inPlay]
<1>1. Noted = q
  BY DEF Noted, IsDriver, DriverFields
<1> HIDE DEF known, best, idle, viable, inPlay
<1>2. IsDriver(q) /\ q.seen = driver.seen /\ q.tries = driver.tries
  BY DEF IsDriver, DriverFields
<1> QED
  BY <1>1, <1>2

\* A step of the driver that clicks nothing.
LEMMA RoundWaits ==
    ASSUME RoundInv, IsDriver(driver'), driver'.seen = driver.seen, driver'.tries = driver.tries,
           UNCHANGED <<dialog, clicks>>
    PROVE  RoundInv'
<1>1. Tries(dialog, driver') = Tries(dialog, driver)
  BY DEF Tries
<1> QED
  BY <1>1 DEF RoundInv

LEMMA RoundOfClick == ASSUME RoundInv, Click PROVE RoundInv'
<1> DEFINE e == Tries(dialog, driver)
           R == dialog.rows
           more == IF e + 1 = 3 + 3 * R THEN 3 ELSE e + 1
<1>1. IsDriver(driver) /\ clicks \in Nat /\ dialog # NoDialog /\ dialog \in Dialogs
  BY DEF RoundInv, Click
<1>2. /\ driver' = [Noted EXCEPT !.seen = dialog.shape, !.tries = more]
      /\ dialog' = IF RowFor(dialog, e) = dialog.dismiss THEN NoDialog ELSE dialog
      /\ clicks' = clicks + 1
  BY DEF Click, Tries
<1>3. R \in Nat \ {0} /\ e \in Nat /\ more \in Nat
  BY <1>1, DriverBoundsOK, TriesIsNumber
<1> HIDE DEF e, more
<1>4. IsDriver(driver') /\ driver'.seen = dialog.shape /\ driver'.tries = more
  <2> DEFINE q == Noted
  <2>1. IsDriver(q)
    BY <1>1, NotedKeepsCount
  <2> HIDE DEF q
  <2>2. driver' = [q EXCEPT !.seen = dialog.shape, !.tries = more]
    BY <1>2 DEF q
  <2> QED
    BY <1>3, <2>1, <2>2 DEF IsDriver, DriverFields
<1>5. ASSUME dialog' # NoDialog
      PROVE  dialog' \in Dialogs /\ \E n \in Nat : DueIn(dialog', clicks', Tries(dialog', driver'), n)
  <2>1. dialog' = dialog /\ RowFor(dialog, e) # dialog.dismiss
    BY <1>2, <1>5
  <2>2. PICK n \in Nat : clicks + n <= 3 * R + 2 /\ RowFor(dialog, e + n) = dialog.dismiss
    BY <1>1 DEF RoundInv, DueIn, e
  <2>3. n # 0 /\ n - 1 \in Nat
    <3>1. n = 0 => e + n = e
      BY <1>3
    <3> QED
      BY <2>1, <2>2, <3>1
  <2>4. clicks' + (n - 1) <= 3 * R + 2
    BY <1>1, <1>2, <1>3, <2>2, <2>3
  <2>5. RowFor(dialog, more + (n - 1)) = dialog.dismiss
    <3>1. CASE e + 1 = 3 + 3 * R
      <4>1. more = 3 /\ 3 + 3 * R + (n - 1) = e + n
        BY <1>3, <3>1, <2>3 DEF more
      <4>2. RowFor(dialog, 3 + (n - 1)) = RowFor(dialog, 3 + 3 * R + (n - 1))
        BY <1>1, <2>3, RoundRepeats
      <4> QED
        BY <2>2, <4>1, <4>2
    <3>2. CASE e + 1 # 3 + 3 * R
      <4>1. more + (n - 1) = e + n
        BY <1>3, <2>3, <3>2 DEF more
      <4> QED
        BY <2>2, <4>1
    <3> QED
      BY <3>1, <3>2
  <2>6. Tries(dialog', driver') = more
    BY <1>4, <2>1 DEF Tries
  <2> QED
    BY <1>1, <2>1, <2>3, <2>4, <2>5, <2>6 DEF DueIn
<1> QED
  BY <1>1, <1>2, <1>4, <1>5 DEF RoundInv

LEMMA RoundOfGame == ASSUME RoundInv, Game PROVE RoundInv'
<1>1. driver' = driver
  BY DEF Game, Tick, EndTurn, Reload, Recover, Show, Silence, SameDriver
<1>2. CASE UNCHANGED <<dialog, clicks>>
  BY <1>1, <1>2, RoundWaits DEF RoundInv
<1>3. ASSUME NEW d \in Dialogs, Show(d) PROVE RoundInv'
  <2>1. dialog' = d /\ clicks' = 0 /\ IsDriver(driver)
    BY <1>3 DEF Show, RoundInv
  <2>2. Tries(d, driver) \in Nat
    BY <2>1, TriesIsNumber
  <2>3. PICK n \in Nat : n <= 3 * d.rows + 2 /\ RowFor(d, Tries(d, driver) + n) = d.dismiss
    BY <2>2, EveryRowComes
  <2>4. 0 + n = n
    OBVIOUS
  <2>5. DueIn(d, 0, Tries(d, driver), n)
    BY <2>3, <2>4 DEF DueIn
  <2> QED
    BY <1>1, <2>1, <2>5 DEF RoundInv
<1> QED
  BY <1>2, <1>3 DEF Game, Tick, EndTurn, Reload, Recover, Silence

LEMMA RoundSteps == ASSUME RoundInv, [DriverNext]_driverVars PROVE RoundInv'
<1>1. CASE Game
  BY <1>1, RoundOfGame
<1>2. CASE Unanswered
  <2> DEFINE heard == ticked /\ driver.known
             idle == Count(driver.idle, NoProgress)
             known == driver.known \/ ticked
             busy == IF heard THEN driver.busy + 1 ELSE driver.busy
             silent == IF heard THEN driver.silent ELSE driver.silent + 1
             q == [driver EXCEPT !.idle = idle, !.known = known, !.busy = busy, !.silent = silent]
  <2>0. IsDriver(driver)
    BY DEF RoundInv
  <2>1. driver' = q /\ UNCHANGED <<dialog, clicks>>
    BY <1>2, <2>0 DEF Unanswered, IsDriver, DriverFields
  <2> HIDE DEF idle, known, busy, silent
  <2>2. IsDriver(q) /\ q.seen = driver.seen /\ q.tries = driver.tries
    BY <2>0 DEF IsDriver, DriverFields
  <2> HIDE DEF q
  <2> QED
    BY <2>1, <2>2, RoundWaits
<1>3. CASE Refuse \/ NoClick
  <2>1. driver' = Noted /\ UNCHANGED <<dialog, clicks>>
    BY <1>3 DEF Refuse, NoClick
  <2>2. IsDriver(driver)
    BY DEF RoundInv
  <2> QED
    BY <2>1, <2>2, NotedKeepsCount, RoundWaits
<1>4. CASE Click
  BY <1>4, RoundOfClick
<1>5. CASE UNCHANGED <<dialog, clicks, driver>>
  BY <1>5, RoundWaits DEF RoundInv
<1> QED
  BY <1>1, <1>2, <1>3, <1>4, <1>5 DEF DriverNext, Cycle, driverVars

\* Whatever the rotation was left at, a dialog that can be dismissed is gone after a round
\* (drive-unattended.py: the click rotation of main).
THEOREM OneRoundClears == DriverSpec => []ClearedInOneRound
<1>1. DriverInit => RoundInv
  <2>1. Start = [f \in DriverFields |-> Start[f]] /\ Start.tries = 0
    BY DEF Start, DriverFields
  <2>2. IsDriver(Start)
    BY <2>1 DEF IsDriver
  <2> QED
    <3> SUFFICES ASSUME DriverInit PROVE RoundInv
      OBVIOUS
    <3>1. driver = Start /\ dialog = NoDialog /\ clicks = 0
      BY DEF DriverInit
    <3>2. IsDriver(driver)
      BY <2>2, <3>1
    <3> QED
      BY <3>1, <3>2 DEF RoundInv
<1>2. RoundInv => ClearedInOneRound
  <2> SUFFICES ASSUME RoundInv, dialog # NoDialog PROVE clicks < 3 + 3 * dialog.rows
    BY DEF ClearedInOneRound
  <2>1. PICK n \in Nat : clicks + n <= 3 * dialog.rows + 2
    BY DEF RoundInv, DueIn
  <2>2. clicks \in Nat /\ dialog.rows \in Nat
    BY DriverBoundsOK DEF RoundInv
  <2> QED
    BY <2>1, <2>2
<1> QED
  BY <1>1, <1>2, RoundSteps, PTL DEF DriverSpec

(*---------------------------------------------------------------------------*)
(* The history of a metric.                                                   *)

LEMMA LeastNumber ==
    ASSUME NEW T, T \subseteq Nat, T # {}
    PROVE  \E x \in T : \A y \in T : x <= y
<1> DEFINE R == OpToRel(<, Nat)
<1>1. \A x, y \in Nat : <<x, y>> \in R <=> x < y
  BY DEF OpToRel
<1>2. IsWellFoundedOn(R, Nat)
  BY NatLessThanWellFounded
<1> HIDE DEF R
<1>3. PICK x \in T : \A y \in T : ~(<<y, x>> \in R)
  BY <1>2, WFMin
<1>4. ASSUME NEW y \in T PROVE x <= y
  <2>1. x \in Nat /\ y \in Nat /\ ~(y < x)
    BY <1>1, <1>3
  <2> QED
    BY <2>1
<1> QED
  BY <1>4

Blocks == {Stamp(s) : s \in Setups} \cup {Stamp([s EXCEPT !.slot = "ai"]) : s \in Setups}
ArmRecords == [turn : 1..LastTurn, faction : Factions, tier : {"llm", "deterministic"},
               metric : Nat, block : Blocks]
ArmsInv == setup \in [ArmNames -> Setups] /\ lines \in [ArmNames -> Seq(ArmRecords)]

LEMMA ArmsSteps == ASSUME ArmsInv, [ArmsNext]_armVars PROVE ArmsInv'
<1>1. ASSUME NEW a \in ArmNames, NEW f \in Factions, NEW t \in 1..LastTurn,
             NEW tier \in {"llm", "deterministic"}, Observed(a, f, t, tier)
      PROVE  ArmsInv'
  <2> DEFINE block == IF f = Ours THEN Stamp(setup[a]) ELSE Stamp([setup[a] EXCEPT !.slot = "ai"])
             r == [turn |-> t, faction |-> f, tier |-> tier, metric |-> Total + 1, block |-> block]
  <2>1. setup' = setup /\ lines' = [lines EXCEPT ![a] = Append(@, r)]
    BY <1>1 DEF Observed
  <2>2. block \in Blocks
    BY DEF ArmsInv, Blocks
  <2>3. Total + 1 \in Nat
    <3>1. lines["baseline"] \in Seq(ArmRecords) /\ lines["brain"] \in Seq(ArmRecords)
      BY DEF ArmsInv, ArmNames
    <3> DEFINE x == Len(lines["baseline"])
               y == Len(lines["brain"])
    <3>2. x \in Nat /\ y \in Nat /\ Total = x + y
      BY <3>1 DEF Total
    <3> HIDE DEF x, y
    <3> QED
      BY <3>2
  <2> HIDE DEF block
  <2>4. r \in ArmRecords
    BY <2>2, <2>3 DEF ArmRecords
  <2> HIDE DEF r
  <2>5. Append(lines[a], r) \in Seq(ArmRecords)
    BY <2>4 DEF ArmsInv
  <2> QED
    BY <2>1, <2>5 DEF ArmsInv
<1> QED
  BY <1>1 DEF ArmsNext, armVars, ArmsInv

\* What is taken of a window: a record of it, and none of a later turn was passed over.
LEMMA NearestIs ==
    ASSUME NEW book \in Seq(ArmRecords), NEW history, history \subseteq DOMAIN book, NEW window,
           NEW near, near = Nearest(book, history, window), near # None
    PROVE  \E i \in history : /\ near = <<book[i].turn, book[i].metric>>
                             /\ book[i].turn \in window
                             /\ \A j \in history : book[j].turn \in window
                                                  => book[j].turn <= book[i].turn
<1> DEFINE held == {i \in history : book[i].turn \in window}
           Best(i) == \A j \in held :
               book[j].turn < book[i].turn \/ (book[j].turn = book[i].turn /\ i <= j)
           best == CHOOSE i \in held : Best(i)
<1>1. held # {} /\ near = <<book[best].turn, book[best].metric>>
  <2>1. near = IF held = {} THEN None ELSE <<book[best].turn, book[best].metric>>
    BY DEF Nearest
  <2> HIDE DEF held, best
  <2> QED
    BY <2>1
<1>2. \A i \in held : /\ i \in Nat /\ book[i].turn \in Nat /\ book[i].turn <= LastTurn
                    /\ LastTurn \in Nat
  <2>1. \A i \in held : book[i] \in ArmRecords /\ i \in Nat
    OBVIOUS
  <2>2. \A r \in ArmRecords : r.turn \in 1..LastTurn
    BY DEF ArmRecords
  <2> HIDE DEF held
  <2>3. \A i \in held : book[i].turn \in 1..LastTurn
    BY <2>1, <2>2
  <2> QED
    BY <2>1, <2>3, ArmsBoundsOK
<1>3. PICK latest \in held : \A j \in held : book[j].turn <= book[latest].turn
  <2> DEFINE Back == {LastTurn - book[i].turn : i \in held}
  <2> HIDE DEF held
  <2>1. Back \subseteq Nat /\ Back # {}
    <3>1. \A i \in held : LastTurn - book[i].turn \in Nat
      BY <1>2
    <3> QED
      BY <1>1, <3>1
  <2>2. PICK x \in Back : \A y \in Back : x <= y
    <3> HIDE DEF Back
    <3> QED
      BY <2>1, LeastNumber
  <2>3. PICK i \in held : x = LastTurn - book[i].turn
    BY <2>2
  <2>4. \A j \in held : LastTurn - book[i].turn <= LastTurn - book[j].turn
    BY <2>2, <2>3
  <2> HIDE DEF Back
  <2>5. \A j \in held : book[j].turn <= book[i].turn
    BY <1>2, <2>3, <2>4
  <2> QED
    BY <2>3, <2>5
<1>4. PICK first \in held : Best(first)
  <2> DEFINE AsLate == {i \in held : book[i].turn = book[latest].turn}
  <2>1. AsLate \subseteq Nat /\ AsLate # {}
    BY <1>2, <1>3
  <2>2. PICK i \in AsLate : \A j \in AsLate : i <= j
    <3> HIDE DEF AsLate
    <3> QED
      BY <2>1, LeastNumber
  <2>3. i \in held /\ book[i].turn = book[latest].turn
    BY <2>2
  <2>4. ASSUME NEW j \in held
        PROVE  book[j].turn < book[i].turn \/ (book[j].turn = book[i].turn /\ i <= j)
    <3>1. book[j].turn <= book[i].turn /\ book[j].turn \in Nat /\ book[i].turn \in Nat
      BY <1>2, <1>3, <2>3
    <3>2. CASE book[j].turn = book[i].turn
      <4>1. j \in AsLate
        BY <2>3, <3>2
      <4> QED
        BY <2>2, <3>2, <4>1
    <3>3. CASE book[j].turn # book[i].turn
      BY <3>1, <3>3
    <3> QED
      BY <3>2, <3>3
  <2> HIDE DEF held
  <2> QED
    BY <2>3, <2>4
<1>5. best \in held /\ Best(best)
  BY <1>4
<1> HIDE DEF best
<1>6. \A j \in held : book[j].turn <= book[best].turn
  BY <1>2, <1>5
<1> QED
  BY <1>1, <1>5, <1>6

\* Under an offset stands what was observed about then, and nothing nearer was passed over
\* (trajectory.py: derive).
THEOREM HistoryIsHonest == ArmsSpec => []SeriesIsHonest
<1>1. ArmsInit => ArmsInv
  BY DEF ArmsInit, ArmsInv, ArmNames
<1>2. ArmsInv => SeriesIsHonest
  <2> SUFFICES ASSUME ArmsInv, NEW a \in ArmNames, NEW t \in 1..LastTurn,
                      Series(lines[a], HistoryOf(lines[a], Ours), t) # None
               PROVE  LET s == Series(lines[a], HistoryOf(lines[a], Ours), t)
                          seen == {r \in ToSet(lines[a]) : r.faction = Ours}
                      IN /\ \E r \in seen : r.turn = t /\ r.metric = s.current
                         /\ \A k \in DOMAIN s.at : \E r \in seen :
                               /\ r.metric = s.at[k] /\ r.turn \in (t - 2 * k)..(t - k)
                               /\ ~\E q \in seen : q.turn > r.turn /\ q.turn <= t - k
    BY DEF SeriesIsHonest
  <2> DEFINE book == lines[a]
             history == HistoryOf(book, Ours)
             s == Series(book, history, t)
             seen == {r \in ToSet(book) : r.faction = Ours}
             current == Nearest(book, history, {t})
             Past(k) == Nearest(book, history, Window(t, k))
  <2>1. book \in Seq(ArmRecords) /\ history \subseteq DOMAIN book
    BY DEF ArmsInv, HistoryOf
  <2>2. /\ \A i \in history : book[i] \in seen
        /\ \A q \in seen : \E i \in history : q = book[i]
    BY DEF HistoryOf, ToSet
  <2>3. \A i \in history : book[i].turn \in Nat
    <3>1. \A i \in history : book[i] \in ArmRecords
      BY <2>1
    <3>2. \A r \in ArmRecords : r.turn \in Nat
      BY DEF ArmRecords
    <3> HIDE DEF book, history
    <3> QED
      BY <3>1, <3>2
  <2> HIDE DEF book, history, seen
  <2>4. /\ current # None /\ s.current = current[2]
        /\ \A k \in DOMAIN s.at : k \in Offsets /\ Past(k) # None /\ s.at[k] = Past(k)[2]
    BY DEF Series, book, history
  <2> HIDE DEF s, current, Past
  <2>5. \E r \in seen : r.turn = t /\ r.metric = s.current
    <3>1. PICK i \in history : current = <<book[i].turn, book[i].metric>> /\ book[i].turn \in {t}
      BY <2>1, <2>4, NearestIs DEF current
    <3> QED
      BY <2>2, <2>4, <3>1
  <2>6. ASSUME NEW k \in DOMAIN s.at
        PROVE  \E r \in seen : /\ r.metric = s.at[k] /\ r.turn \in (t - 2 * k)..(t - k)
                              /\ ~\E q \in seen : q.turn > r.turn /\ q.turn <= t - k
    <3>1. k \in Nat /\ Past(k) # None /\ s.at[k] = Past(k)[2]
      BY <2>4, ArmsBoundsOK
    <3>2. PICK i \in history :
             /\ Past(k) = <<book[i].turn, book[i].metric>> /\ book[i].turn \in Window(t, k)
             /\ \A j \in history : book[j].turn \in Window(t, k) => book[j].turn <= book[i].turn
      BY <2>1, <3>1, NearestIs DEF Past
    <3>3. book[i].turn \in (t - 2 * k)..(t - k)
      BY <3>2 DEF Window
    <3>4. ASSUME NEW j \in history, book[j].turn > book[i].turn, book[j].turn <= t - k
          PROVE  FALSE
      <4>1. book[j].turn \in Nat /\ book[i].turn \in Nat
        BY <2>3
      <4>2. book[j].turn \in Window(t, k)
        BY <3>1, <3>3, <3>4, <4>1 DEF Window
      <4> QED
        BY <3>2, <3>4, <4>1, <4>2
    <3> QED
      BY <2>2, <3>1, <3>2, <3>3, <3>4
  <2> QED
    BY <2>5, <2>6 DEF book, history, s, seen
<1> QED
  BY <1>1, <1>2, ArmsSteps, PTL DEF ArmsSpec
================================================================================
