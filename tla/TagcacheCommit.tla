--------------------------- MODULE TagcacheCommit ---------------------------
(***************************************************************************)
(* How the library database publishes a new generation (library/tagcache.c)*)
(* and what a start finds after a crash or a damaged file.                 *)
(*                                                                         *)
(* A generation g is its head (the master file, the references file and    *)
(* the indexes, all named after g) and one tag file, which may be borrowed *)
(* from an older generation: the references name the generation it comes   *)
(* from.  tagcache.gen, renamed into place, names the current generation.  *)
(*                                                                         *)
(* tcSeen is the directory as the program sees it; tcSolid is what is sure *)
(* to be on the card.  A crash keeps any combination of the changes not    *)
(* yet synced: the card's file systems promise no order among them.        *)
(***************************************************************************)
EXTENDS Naturals, FiniteSetsExt

CONSTANTS MaxGenerations, \* generation numbers
          MaxCommits,     \* updates tried
          MaxCardFaults,  \* failing calls
          MaxTcCrashes,   \* power cuts
          MaxDamage       \* heads damaged on the card

ASSUME TagcacheBounds ==
    /\ MaxGenerations \in Nat \ {0}
    /\ {MaxCommits, MaxCardFaults, MaxTcCrashes, MaxDamage} \subseteq Nat

VARIABLES
    tcSeen,    \* what each generation's files look like, and the pointer
    tcSolid,   \* the same, on the card for sure
    diskGen,   \* disk_gen: the loaded generation, 0 for none
    preserve,  \* rebuild_preserve_generations
    commit,    \* where write_all() is, its generation, the one it replaces
    acked,     \* the last generation whose update returned success, and the one it replaced
    tcUp,      \* the database is open
    commits, cardFaults, tcCrashes, damage

tagcacheVars == <<tcSeen, tcSolid, diskGen, preserve, commit, acked, tcUp,
                  commits, cardFaults, tcCrashes, damage>>

Gens == 1..MaxGenerations
NoGen == [head |-> "none", tag |-> "none", src |-> 0]
FileStates == {"none", "part", "whole"}
Directories == [gen : [Gens -> [head : FileStates, tag : FileStates, src : 0..MaxGenerations]],
                ptr : 0..MaxGenerations]
NoCommit == [pc |-> "idle", gen |-> 0, prev |-> 0, had |-> FALSE]

TagcacheTypeOK ==
    /\ tcSeen \in Directories /\ tcSolid \in Directories
    /\ {diskGen, acked.gen, acked.before} \subseteq 0..MaxGenerations
    /\ preserve \in BOOLEAN /\ tcUp \in BOOLEAN
    /\ commit \in [pc : {"idle", "tag", "head", "syncdir", "pointer", "syncptr", "collect", "undo"},
                   gen : 0..MaxGenerations, prev : 0..MaxGenerations, had : BOOLEAN]
    /\ commits \in 0..MaxCommits /\ cardFaults \in 0..MaxCardFaults
    /\ tcCrashes \in 0..MaxTcCrashes /\ damage \in 0..MaxDamage

TagcacheInit ==
    /\ tcSeen = [gen |-> [g \in Gens |-> NoGen], ptr |-> 0]
    /\ tcSolid = tcSeen
    /\ diskGen = 0 /\ preserve = FALSE /\ commit = NoCommit
    /\ acked = [gen |-> 0, before |-> 0] /\ tcUp = FALSE
    /\ commits = 0 /\ cardFaults = 0 /\ tcCrashes = 0 /\ damage = 0

CardFault == cardFaults < MaxCardFaults /\ cardFaults' = cardFaults + 1

----------------------------------------------------------------------------
\* Loading

\* resolve_tag_generation(), of a generation whose references can be read.
TagSource(d, g) == d.gen[g].src

\* load_generation(): the head and the tag file it refers to are sound.
GenLoadable(d, g) ==
    /\ d.gen[g].head = "whole"
    /\ TagSource(d, g) # 0 /\ d.gen[TagSource(d, g)].tag = "whole"

\* load_all(): the pointed generation, or else the newest that can be loaded.
LoadedFrom(d) ==
    IF d.ptr # 0 /\ GenLoadable(d, d.ptr) THEN d.ptr
    ELSE Max({0} \cup {g \in Gens : GenLoadable(d, g)})

Saved(d) == d.ptr # 0 \/ \E g \in Gens : d.gen[g].head # "none" \/ d.gen[g].tag # "none"

\* tagcache_open(), or tagcache_open_for_rebuild() when nothing can be loaded.
Open ==
    /\ ~tcUp
    /\ tcUp' = TRUE
    /\ diskGen' = LoadedFrom(tcSeen)
    /\ preserve' = (diskGen' = 0 /\ Saved(tcSeen))
    /\ commit' = NoCommit
    /\ UNCHANGED <<tcSeen, tcSolid, acked, commits, cardFaults, tcCrashes, damage>>

----------------------------------------------------------------------------
\* write_all(), one step for each point a crash can fall between

CommitLeaves == UNCHANGED <<diskGen, preserve, tcUp, commits, tcCrashes, damage>>
SetGen(g, field, value) == tcSeen' = [tcSeen EXCEPT !.gen[g][field] = value]
At(pc) == tcUp /\ commit.pc = pc
CommitGoesTo(pc) == commit' = [commit EXCEPT !.pc = pc]
Undo == CardFault /\ CommitGoesTo("undo")

Highest == Max({0, tcSeen.ptr, diskGen} \cup
               {g \in Gens : tcSeen.gen[g].head # "none" \/ tcSeen.gen[g].tag # "none"})

\* A number never used before; the generation to fall back on is the pointed
\* one or, without a pointer, the one that was loaded.
BeginUpdate ==
    /\ At("idle") /\ commits < MaxCommits /\ Highest < MaxGenerations
    /\ commit' = [pc |-> "tag", gen |-> Highest + 1,
                  prev |-> IF tcSeen.ptr # 0 THEN tcSeen.ptr ELSE diskGen,
                  had |-> tcSeen.ptr # 0 \/ diskGen # 0]
    /\ SetGen(Highest + 1, "head", "part")
    /\ commits' = commits + 1
    /\ UNCHANGED <<tcSolid, diskGen, preserve, acked, tcUp, cardFaults, tcCrashes, damage>>

\* write_commit_tag(): a changed tag is written and synced under the new
\* number, an unchanged one is borrowed from where the loaded one comes from.
WriteTag ==
    /\ At("tag")
    /\ \/ /\ SetGen(commit.gen, "tag", "whole") /\ CommitGoesTo("head")
          /\ UNCHANGED cardFaults
       \/ /\ diskGen # 0
          /\ UNCHANGED <<tcSeen, cardFaults>> /\ CommitGoesTo("head")
       \/ Undo /\ UNCHANGED tcSeen
    /\ CommitLeaves /\ UNCHANGED <<tcSolid, acked>>

\* The references, the indexes and the last sync of the master file.
WriteHead ==
    /\ At("head")
    /\ \/ /\ tcSeen' = [tcSeen EXCEPT !.gen[commit.gen].head = "whole",
                            !.gen[commit.gen].src =
                                IF tcSeen.gen[commit.gen].tag = "whole" THEN commit.gen
                                ELSE TagSource(tcSeen, diskGen)]
          /\ CommitGoesTo("syncdir") /\ UNCHANGED cardFaults
       \/ Undo /\ UNCHANGED tcSeen
    /\ CommitLeaves /\ UNCHANGED <<tcSolid, acked>>

\* Mutant: the pointer moves before the files it points to are sure.
SyncDirectorySkipped ==
    /\ At("syncdir")
    /\ IF preserve THEN CommitGoesTo("collect") ELSE CommitGoesTo("pointer")
    /\ CommitLeaves /\ UNCHANGED <<tcSeen, tcSolid, acked, cardFaults>>

\* The directory is synced before the pointer moves; a failure ends the update.
\* A rebuild leaves the pointer alone.
SyncDirectory ==
    /\ At("syncdir")
    /\ \/ /\ tcSolid' = tcSeen
          /\ IF preserve THEN CommitGoesTo("collect") ELSE CommitGoesTo("pointer")
          /\ UNCHANGED cardFaults
       \/ Undo /\ UNCHANGED tcSolid
    /\ CommitLeaves /\ UNCHANGED <<tcSeen, acked>>

WritePointer ==
    /\ At("pointer")
    /\ \/ /\ tcSeen' = [tcSeen EXCEPT !.ptr = commit.gen]
          /\ CommitGoesTo("syncptr") /\ UNCHANGED cardFaults
       \/ Undo /\ UNCHANGED tcSeen
    /\ CommitLeaves /\ UNCHANGED <<tcSolid, acked>>

\* The sync after the rename may fail: the update counts as done all the same.
SyncPointer ==
    /\ At("syncptr")
    /\ \/ tcSolid' = tcSeen /\ UNCHANGED cardFaults
       \/ CardFault /\ UNCHANGED tcSolid
    /\ CommitGoesTo("collect")
    /\ CommitLeaves /\ UNCHANGED <<tcSeen, acked>>

\* Mutant: the tag files of other generations that these two refer to go too.
KeptOwnTags(d, keep, previous) ==
    [g \in Gens |-> IF g \in {keep, previous} THEN d.gen[g] ELSE NoGen]

\* unlink_other_generations(): all but the new generation, the one before it,
\* and the tag files these two refer to.
Kept(d, keep, previous) ==
    LET both == {keep, previous} \ {0}
        from == {TagSource(d, g) : g \in both}
    IN [g \in Gens |-> [head |-> IF g \in both THEN d.gen[g].head ELSE "none",
                        tag |-> IF g \in both \cup from THEN d.gen[g].tag ELSE "none",
                        src |-> IF g \in both THEN d.gen[g].src ELSE 0]]

\* Nothing is removed by a rebuild, nor by the first update of all.  Either way
\* the database is loaded again from the directory.
Collect ==
    /\ At("collect")
    /\ tcSeen' = IF preserve \/ ~commit.had THEN tcSeen
                 ELSE [tcSeen EXCEPT !.gen = Kept(tcSeen, commit.gen, commit.prev)]
    /\ acked' = [gen |-> commit.gen, before |-> diskGen]
    /\ diskGen' = LoadedFrom(tcSeen') /\ preserve' = FALSE
    /\ commit' = NoCommit
    /\ UNCHANGED <<tcSolid, tcUp, commits, cardFaults, tcCrashes, damage>>

\* A failed update removes its own files and loads what was there before; when
\* nothing can be loaded the database is closed.
UndoCommit ==
    /\ At("undo")
    /\ tcSeen' = [tcSeen EXCEPT !.gen[commit.gen] = NoGen]
    /\ diskGen' = LoadedFrom(tcSeen') /\ preserve' = FALSE
    /\ tcUp' = (diskGen' # 0 \/ ~Saved(tcSeen'))
    /\ commit' = NoCommit
    /\ UNCHANGED <<tcSolid, acked, commits, cardFaults, tcCrashes, damage>>

----------------------------------------------------------------------------
\* The world

\* The names whose last change is not yet sure, and the directories a crash
\* could leave: for each such name either the change or what was before it.
Unsure == {n \in Gens \X {"head", "tag"} : tcSeen.gen[n[1]][n[2]] # tcSolid.gen[n[1]][n[2]]}
Survivor(lost, p) ==
    [gen |-> [g \in Gens |->
         LET h == IF <<g, "head">> \in lost THEN tcSolid ELSE tcSeen
             t == IF <<g, "tag">> \in lost THEN tcSolid ELSE tcSeen
         IN [head |-> h.gen[g].head, tag |-> t.gen[g].tag, src |-> h.gen[g].src]],
     ptr |-> p]
Survivors == {Survivor(lost, p) : lost \in SUBSET Unsure, p \in {tcSeen.ptr, tcSolid.ptr}}

PowerLost ==
    /\ tcUp /\ tcCrashes < MaxTcCrashes
    /\ tcCrashes' = tcCrashes + 1
    /\ tcSeen' \in Survivors /\ tcSolid' = tcSeen'
    /\ tcUp' = FALSE /\ diskGen' = 0 /\ preserve' = FALSE /\ commit' = NoCommit
    /\ UNCHANGED <<acked, commits, cardFaults, damage>>

\* The master file of the pointed generation cannot be read any more.
HeadDamaged ==
    /\ ~tcUp /\ damage < MaxDamage /\ tcSeen.ptr # 0
    /\ tcSeen.gen[tcSeen.ptr].head = "whole"
    /\ damage' = damage + 1
    /\ tcSeen' = [tcSeen EXCEPT !.gen[tcSeen.ptr].head = "part"]
    /\ tcSolid' = [tcSolid EXCEPT !.gen[tcSeen.ptr].head = "part"]
    /\ UNCHANGED <<diskGen, preserve, commit, acked, tcUp, commits, cardFaults, tcCrashes>>

TagcacheNext ==
    \/ Open \/ BeginUpdate \/ WriteTag \/ WriteHead \/ SyncDirectory \/ WritePointer \/ SyncPointer
    \/ Collect \/ UndoCommit \/ PowerLost \/ HeadDamaged

TagcacheSpec == TagcacheInit /\ [][TagcacheNext]_tagcacheVars

----------------------------------------------------------------------------
\* Properties

\* The generation an update replaced stays loadable beside the new one, across
\* crashes in the middle of the next update and of the removal of old files:
\* borrowed tag files of both are spared.
ReplacedOneKept == damage = 0 /\ acked.before # 0 => GenLoadable(tcSeen, acked.before)

\* The value of the database: the pointed generation.
ValueOf(d) == IF d.ptr = 0 THEN 0 ELSE LoadedFrom(d)
Cell == INSTANCE DurableCell WITH CellValues <- 0..MaxGenerations,
                                  now <- ValueOf(tcSeen),
                                  maybe <- {ValueOf(d) : d \in Survivors}

\* The database is a crash-safe cell: readers and crashes only ever see whole
\* generations, in order, and a crash loses at most the last unsettled one.
ImplementsCell ==
    /\ Cell!CellInit
    /\ [][damage' = 0 => Cell!CellNext]_<<ValueOf(tcSeen), {ValueOf(d) : d \in Survivors}>>
=============================================================================
