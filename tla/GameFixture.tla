------------------------------ MODULE GameFixture ------------------------------
(* scripts/game_fixture.py: the pristine install, the play directory staged     *)
(* from it, and the manifest of what the game's bytes are.  Of a file's bytes   *)
(* only their origin matters: the game's own, a known mod's (a line of          *)
(* overlays.tsv), or neither.                                                   *)
EXTENDS Naturals

CONSTANTS Paths,
          Rules,       \* alphax.txt
          Excluded,    \* paths is_excluded skips
          ModTop,      \* the mod's files at the top of its directory
          ModNested,   \* the mod's files below a directory of it
          Links,       \* symbolic links of the install: each path |-> the file of it it leads to
          MaxCommands  \* bound: commands run, and things that happen to the install

ASSUME FixtureShapes == /\ Rules \in Paths /\ ModTop \cup ModNested \subseteq Paths
                        /\ Excluded \subseteq Paths /\ MaxCommands \in Nat
                        /\ DOMAIN Links \subseteq Paths
                        /\ \A p \in DOMAIN Links : Links[p] \in Paths \ DOMAIN Links

VARIABLES source,    \* $SMAC_DIR: where each path's bytes come from
          play,      \* the play directory, NoTree before it is staged
          manifest,  \* the recorded hashes, NoManifest before a scan
          said,      \* the last command and its answer
          commands

fixtureVars == <<source, play, manifest, said, commands>>

NoTree == <<>>
NoManifest == [none |-> "none"]
Bytes == {"game", "mod", "other", "absent"}
Pristine == [p \in Paths |-> "game"]

FixtureInit == /\ source = Pristine /\ play = NoTree
               /\ manifest = NoManifest
               /\ said = [command |-> "none", ok |-> TRUE]
               /\ commands = 0

\* Reading a link reads the file of the install it leads to, from either tree.
Read(tree, p) == IF p \in DOMAIN Links THEN source[Links[p]] ELSE tree[p]
Walk(tree) == {p \in Paths \ Excluded : tree[p] # "absent"}
Step == commands < MaxCommands /\ commands' = commands + 1
Answer(command, ok) == said' = [command |-> command, ok |-> ok]
Kept == UNCHANGED <<source, play, manifest>>

(*---------------------------------------------------------------------------*)
(* The install, external: the mod unpacked over it, a file edited or gone,    *)
(* and the store's own repair.                                                *)

ModInstalled == /\ Step /\ Answer("world", TRUE)
                /\ source' = [p \in Paths |-> IF p \in ModTop \cup ModNested THEN "mod" ELSE source[p]]
                /\ UNCHANGED <<play, manifest>>
Altered(p) == /\ Step /\ Answer("world", TRUE)
              /\ \E bytes \in {"other", "absent"} : source' = [source EXCEPT ![p] = bytes]
              /\ UNCHANGED <<play, manifest>>
Repaired == /\ Step /\ Answer("world", TRUE)
            /\ source' = Pristine
            /\ UNCHANGED <<play, manifest>>

(*---------------------------------------------------------------------------*)
(* The commands.                                                              *)

\* Mutant: the paths that hold a mod's bytes are recorded with the others.
AllRecorded(hashed, dirty) == hashed
\* A path that holds a known mod's bytes is listed as unresolved, not recorded.
Recorded(hashed, dirty) == hashed \ dirty

Scan(allowContaminated) ==
    LET hashed == Walk(source)
        dirty == {p \in hashed : Read(source, p) = "mod"}
    IN  /\ Step
        /\ \/ /\ dirty # {} /\ ~allowContaminated
              /\ Answer("scan", FALSE) /\ UNCHANGED manifest
           \/ /\ dirty = {} \/ allowContaminated
              /\ manifest' = [p \in Recorded(hashed, dirty) |-> Read(source, p)]
              /\ Answer("scan", TRUE)
        /\ UNCHANGED <<source, play>>

Expected == IF manifest = NoManifest THEN {} ELSE DOMAIN manifest
Missing(tree) == {p \in Expected : Read(tree, p) = "absent"}
Contaminated(tree) == {p \in Expected \ Missing(tree) : Read(tree, p) # manifest[p] /\ Read(tree, p) = "mod"}
Wrong(tree) == {p \in Expected \ (Missing(tree) \cup Contaminated(tree)) : Read(tree, p) # manifest[p]}
Extra(tree, strict) == IF strict THEN Walk(tree) \ Expected ELSE {}

Verify(tree, strict) ==
    /\ Step /\ manifest # NoManifest
    /\ said' = [command |-> "verify", strict |-> strict, of |-> tree,
                ok |-> Missing(tree) \cup Contaminated(tree) \cup Wrong(tree) \cup Extra(tree, strict) = {}]
    /\ Kept

\* copytree keeps links as links; copy2 onto one writes the file it leads to, and
\* only the top of the mod's directory is overlaid.
Overlaid(withMod) == IF withMod THEN ModTop ELSE {}
WrittenThrough(withMod) == {Links[p] : p \in DOMAIN Links \cap Overlaid(withMod)}
CopyAnd(withMod) ==
    /\ play' = [p \in Paths |-> IF p \in Overlaid(withMod) THEN "mod" ELSE source[p]]
    /\ source' = [p \in Paths |-> IF p \in WrittenThrough(withMod) THEN "mod" ELSE source[p]]

StageRefused(where, force) == \/ Contaminated(source) # {}
                              \/ where # "beside"
                              \/ play # NoTree /\ ~force

\* withMod "missing": a mod directory that is not there, found once the play
\* directory has been replaced.
Stage(where, force, withMod) ==
    /\ Step /\ UNCHANGED manifest
    /\ \/ StageRefused(where, force) /\ Answer("stage", FALSE) /\ UNCHANGED <<source, play>>
       \/ /\ ~StageRefused(where, force)
          /\ CopyAnd(withMod = "mod")
          /\ said' = [command |-> "stage", withMod |-> withMod = "mod",
                      ok |-> withMod # "missing"
                             /\ (source[Rules] # "absent" => source'[Rules] = source[Rules])]

FixtureNext ==
    \/ ModInstalled \/ Repaired \/ \E p \in Paths : Altered(p)
    \/ \E allow \in BOOLEAN : Scan(allow)
    \/ \E strict \in BOOLEAN : Verify(source, strict) \/ (play # NoTree /\ Verify(play, strict))
    \/ \E where \in {"beside", "same", "inside"}, force \in BOOLEAN, withMod \in {"none", "mod", "missing"} :
          Stage(where, force, withMod)

FixtureSpec == FixtureInit /\ [][FixtureNext]_fixtureVars

(*---------------------------------------------------------------------------*)
(* Properties.                                                                *)

Trees == [Paths -> Bytes]
FixtureTypeOK == /\ source \in Trees /\ play \in Trees \cup {NoTree}
                 /\ manifest = NoManifest
                    \/ (DOMAIN manifest \subseteq Paths /\ \A p \in DOMAIN manifest : manifest[p] \in Bytes)
                 /\ commands \in 0..MaxCommands

Staged == said'.command = "stage" /\ said'.ok

\* Whatever was scanned before, and whatever has happened to the install since: a
\* play directory reported staged holds a known mod's bytes, on a path the manifest
\* lists, only where this staging put them ("refuse to stage FROM a contaminated
\* tree", cmd_stage), and the install's rules are as they were.
StagedIsClean ==
    [][Staged => /\ \A p \in Expected \ DOMAIN Links :
                      play'[p] = "mod" => said'.withMod /\ p \in ModTop
                 /\ source[Rules] # "absent" => source'[Rules] = source[Rules]]_fixtureVars

\* "THE SOURCE IS NEVER WRITTEN" (cmd_stage's docstring).
SourceNeverWritten == [][Staged => source' = source]_fixtureVars

\* A verified tree holds none of a known mod's bytes.
VerifiedIsPristine == said.command = "verify" /\ said.ok
                         => \A p \in Paths \ (Excluded \cup DOMAIN Links) : said.of[p] # "mod"

\* "Copy a pristine install to a play directory and overlay the mod there."
ModIsOverlaid ==
    [][Staged /\ said'.withMod => \A p \in ModTop \cup ModNested : play'[p] = "mod"]_fixtureVars
================================================================================
