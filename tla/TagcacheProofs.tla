--------------------------- MODULE TagcacheProofs ---------------------------
(***************************************************************************)
(* What the commit protocol of the library database guarantees for any     *)
(* number of generations, updates, failing calls and power cuts.           *)
(***************************************************************************)
EXTENDS TagcacheCommit, WellFoundedInduction, TLAPS

\* The generations something refers to: the pointer, as it is seen and as it
\* is on the card, the loaded one, and the one an update has replaced.
Needed == {tcSeen.ptr, tcSolid.ptr, diskGen, acked.before} \ {0}

\* On the card for sure what it is in the directory.
Firm(g) == GenLoadable(tcSolid, g) /\ tcSolid.gen[g].src = tcSeen.gen[g].src

BeforePointer == {"tag", "head", "syncdir", "undo", "pointer"}
NotSynced(g) == commit.pc \in {"syncdir", "undo"} /\ g = commit.gen

CommitTypes ==
    /\ commit.pc # "idle" => commit.gen \in Gens /\ tcUp /\ diskGen < commit.gen
    /\ diskGen # 0 => tcUp
    /\ commit.pc = "head" => tcSeen.gen[commit.gen].tag = "whole" \/ diskGen # 0
    /\ \A g \in Gens : tcSeen.gen[g].src <= g /\ tcSolid.gen[g].src <= g

\* Whatever is referred to can be loaded, and whatever can be loaded, except
\* what is being written, survives a crash.
Safe ==
    /\ \A g \in Needed : GenLoadable(tcSeen, g)
    /\ \A g \in Gens : GenLoadable(tcSeen, g) /\ ~NotSynced(g) => Firm(g)

\* The new generation is newer than all that is referred to, and none of the
\* others borrows its tag file.
NewIsApart ==
    commit.pc \in BeforePointer =>
        /\ \A g \in Needed : g < commit.gen
        /\ \A g \in Gens \ {commit.gen} :
               tcSeen.gen[g].head = "whole" => tcSeen.gen[g].src # commit.gen

\* What is loaded is what is pointed to, until the pointer moves.
LoadedIsPointed ==
    /\ tcUp /\ preserve => diskGen = 0 /\ tcSeen.ptr = 0
    /\ tcUp /\ tcSeen.ptr # 0 /\ commit.pc \notin {"syncptr", "collect"} => diskGen = tcSeen.ptr

CommitFits ==
    /\ commit.pc # "idle" => commit.prev = diskGen /\ (commit.had <=> diskGen # 0)
    /\ commit.pc \in {"tag", "head"} => tcSeen.gen[commit.gen].head # "whole"
    /\ commit.pc \in {"syncdir", "pointer", "syncptr", "collect"} => GenLoadable(tcSeen, commit.gen)
    /\ commit.pc = "pointer" => tcSolid.ptr = tcSeen.ptr
    /\ commit.pc \in {"pointer", "syncptr"} => ~preserve
    /\ commit.pc \in {"syncptr", "collect"} /\ ~preserve =>
           tcSeen.ptr = commit.gen /\ tcSolid.ptr \in {0, diskGen, commit.gen}

Undamaged == Safe /\ NewIsApart /\ LoadedIsPointed /\ CommitFits

TagcacheInv == TagcacheTypeOK /\ CommitTypes /\ (damage = 0 => Undamaged)

-----------------------------------------------------------------------------
\* A set of numbers has a least one.
LEMMA LeastNatural ==
    ASSUME NEW T, T \subseteq Nat, T # {}
    PROVE  \E x \in T : \A y \in T : x <= y
<1> DEFINE R == OpToRel(<, Nat)
<1>1. IsWellFoundedOn(R, Nat)
  BY NatLessThanWellFounded
<1>2. \A x, y \in Nat : y < x => <<y, x>> \in R
  BY DEF OpToRel
<1> HIDE DEF R
<1>3. PICK x \in T : \A y \in T : ~(<<y, x>> \in R)
  BY <1>1, WFMin
<1>4. ASSUME NEW y \in T PROVE x <= y
  <2>1. x \in Nat /\ y \in Nat /\ ~(y < x)
    BY <1>2, <1>3
  <2> QED
    BY <2>1
<1> QED
  BY <1>4

\* What Max returns of a bounded set: one of its members, and the greatest.
LEMMA MaxIsGreatest ==
    ASSUME NEW N \in Nat, NEW S, S \subseteq 0 .. N, S # {}
    PROVE  Max(S) \in S /\ \A y \in S : y <= Max(S)
<1> DEFINE T == {n \in Nat : N - n \in S}
<1>1. T # {}
  <2>1. PICK s \in S : s \in 0 .. N
    OBVIOUS
  <2>2. N - s \in Nat /\ N - (N - s) = s
    BY <2>1
  <2> QED
    BY <2>2
<1>2. PICK x \in T : \A y \in T : x <= y
  BY <1>1, LeastNatural
<1>3. ASSUME NEW y \in S PROVE N - x >= y
  <2>1. y \in 0 .. N /\ N - (N - y) = y
    OBVIOUS
  <2>2. N - y \in T
    BY <2>1
  <2> QED
    BY <1>2, <2>1, <2>2
<1>4. \E z \in S : \A y \in S : z >= y
  BY <1>2, <1>3
<1>5. Max(S) \in S /\ \A y \in S : Max(S) >= y
  BY <1>4, Zenon DEF Max
<1>6. \A y \in S : y \in Int
  OBVIOUS
<1> QED
  BY <1>5, <1>6

\* What a directory consists of.
LEMMA DirectoryFacts ==
    ASSUME NEW d \in Directories
    PROVE  /\ d.ptr \in 0 .. MaxGenerations
           /\ \A g \in Gens : /\ d.gen[g].head \in FileStates /\ d.gen[g].tag \in FileStates
                              /\ d.gen[g].src \in 0 .. MaxGenerations
           /\ \A g \in Gens : GenLoadable(d, g) =>
                                  d.gen[g].src \in Gens /\ d.gen[d.gen[g].src].tag = "whole"
           /\ \A n \in 0 .. MaxGenerations : n # 0 => n \in Gens
<1>1. \A n \in 0 .. MaxGenerations : n # 0 => n \in Gens
  BY TagcacheBounds DEF Gens
<1>2. /\ d.ptr \in 0 .. MaxGenerations
      /\ \A g \in Gens : /\ d.gen[g].head \in FileStates /\ d.gen[g].tag \in FileStates
                         /\ d.gen[g].src \in 0 .. MaxGenerations
  BY DEF Directories
<1> QED
  BY <1>1, <1>2 DEF GenLoadable, TagSource

\* load_all(): what is loaded can be loaded, and it is the pointed generation
\* whenever that one can be.
LEMMA LoadFacts ==
    ASSUME NEW d \in Directories
    PROVE  /\ LoadedFrom(d) \in 0 .. MaxGenerations
           /\ LoadedFrom(d) # 0 => LoadedFrom(d) \in Gens /\ GenLoadable(d, LoadedFrom(d))
           /\ d.ptr # 0 /\ GenLoadable(d, d.ptr) => LoadedFrom(d) = d.ptr
<1> DEFINE S == {0} \cup {g \in Gens : GenLoadable(d, g)}
<1>1. S \subseteq 0 .. MaxGenerations /\ S # {} /\ MaxGenerations \in Nat
  BY TagcacheBounds DEF Gens
<1>2. Max(S) \in S
  BY <1>1, MaxIsGreatest
<1>3. LoadedFrom(d) = IF d.ptr # 0 /\ GenLoadable(d, d.ptr) THEN d.ptr ELSE Max(S)
  BY DEF LoadedFrom
<1> HIDE DEF S
<1>4. Max(S) \in 0 .. MaxGenerations /\ (Max(S) # 0 => Max(S) \in Gens /\ GenLoadable(d, Max(S)))
  BY <1>1, <1>2 DEF S
<1> QED
  BY <1>3, <1>4, DirectoryFacts

\* The number of a new generation is above every number in use.
LEMMA HighestFacts ==
    ASSUME TagcacheTypeOK
    PROVE  /\ Highest \in 0 .. MaxGenerations /\ tcSeen.ptr <= Highest /\ diskGen <= Highest
           /\ \A g \in Gens : tcSeen.gen[g].head # "none" \/ tcSeen.gen[g].tag # "none" => g <= Highest
<1> DEFINE S == {0, tcSeen.ptr, diskGen} \cup
                {g \in Gens : tcSeen.gen[g].head # "none" \/ tcSeen.gen[g].tag # "none"}
<1>1. S \subseteq 0 .. MaxGenerations /\ S # {} /\ MaxGenerations \in Nat
  BY TagcacheBounds, DirectoryFacts DEF Gens, TagcacheTypeOK
<1>2. Max(S) \in S /\ \A y \in S : y <= Max(S)
  BY <1>1, MaxIsGreatest
<1>3. Highest = Max(S)
  BY DEF Highest
<1> QED
  BY <1>1, <1>2, <1>3

\* What a crash leaves of the directory: every file as it was seen or as it
\* was on the card, and a generation that is firm can still be loaded.
LEMMA SurvivorFacts ==
    ASSUME TagcacheTypeOK, NEW d \in Survivors
    PROVE  /\ d \in Directories
           /\ d.ptr \in {tcSeen.ptr, tcSolid.ptr}
           /\ \A g \in Gens : d.gen[g].src \in {tcSeen.gen[g].src, tcSolid.gen[g].src}
           /\ \A g \in Gens : GenLoadable(tcSeen, g) /\ Firm(g) => GenLoadable(d, g)
<1>1. PICK lost \in SUBSET Unsure, p \in {tcSeen.ptr, tcSolid.ptr} : d = Survivor(lost, p)
  BY DEF Survivors
<1>2. /\ d.ptr = p
      /\ \A g \in Gens :
           /\ \/ d.gen[g].head = tcSeen.gen[g].head /\ d.gen[g].src = tcSeen.gen[g].src
              \/ d.gen[g].head = tcSolid.gen[g].head /\ d.gen[g].src = tcSolid.gen[g].src
           /\ d.gen[g].tag \in {tcSeen.gen[g].tag, tcSolid.gen[g].tag}
  BY <1>1 DEF Survivor
<1>3. tcSeen \in Directories /\ tcSolid \in Directories
  BY DEF TagcacheTypeOK
<1>4. d \in Directories
  <2>1. d.gen \in [Gens -> [head : FileStates, tag : FileStates, src : 0 .. MaxGenerations]]
    BY <1>1, <1>3, DirectoryFacts DEF Survivor
  <2> QED
    BY <1>1, <1>2, <1>3, <2>1, DirectoryFacts DEF Directories, Survivor
<1>5. ASSUME NEW g \in Gens, GenLoadable(tcSeen, g), Firm(g) PROVE GenLoadable(d, g)
  <2>1. /\ d.gen[g].head = "whole" /\ d.gen[g].src = tcSeen.gen[g].src
        /\ tcSeen.gen[g].src \in Gens
    BY <1>2, <1>3, <1>5, DirectoryFacts DEF GenLoadable, Firm
  <2>2. d.gen[tcSeen.gen[g].src].tag = "whole"
    BY <1>2, <1>5, <2>1 DEF GenLoadable, Firm, TagSource
  <2> QED
    BY <2>1, <2>2, TagcacheBounds DEF GenLoadable, TagSource, Gens
<1> QED
  BY <1>2, <1>4, <1>5

\* A change of one generation's files leaves the others as loadable as they
\* were, when none of them borrows its tag file.
LEMMA OthersUntouched ==
    ASSUME NEW d \in Directories, NEW e \in Directories, NEW c \in Gens,
           \A h \in Gens \ {c} : e.gen[h] = d.gen[h],
           \A h \in Gens \ {c} : d.gen[h].head = "whole" => d.gen[h].src # c
    PROVE  \A h \in Gens \ {c} : GenLoadable(e, h) <=> GenLoadable(d, h)
<1> SUFFICES ASSUME NEW h \in Gens \ {c} PROVE GenLoadable(e, h) <=> GenLoadable(d, h)
  OBVIOUS
<1>1. e.gen[h] = d.gen[h] /\ d.gen[h].src \in 0 .. MaxGenerations
  BY DirectoryFacts
<1>2. CASE d.gen[h].head = "whole" /\ d.gen[h].src # 0
  <2>1. d.gen[h].src \in Gens \ {c}
    BY <1>1, <1>2, DirectoryFacts
  <2> QED
    BY <1>1, <2>1 DEF GenLoadable, TagSource
<1>3. CASE ~(d.gen[h].head = "whole" /\ d.gen[h].src # 0)
  BY <1>1, <1>3 DEF GenLoadable, TagSource
<1> QED
  BY <1>2, <1>3

\* The steps of write_all() that touch the files of the new generation only:
\* what becomes of the directory.
LEMMA BeginEffect ==
    ASSUME TagcacheTypeOK, BeginUpdate
    PROVE  /\ Highest + 1 \in Gens
           /\ tcSeen' \in Directories /\ tcSeen'.ptr = tcSeen.ptr
           /\ \A h \in Gens \ {Highest + 1} : tcSeen'.gen[h] = tcSeen.gen[h]
           /\ tcSeen'.gen[Highest + 1].head = "part"
           /\ tcSeen'.gen[Highest + 1].src = tcSeen.gen[Highest + 1].src
<1> DEFINE c == Highest + 1
<1>1. c \in Gens
  BY HighestFacts, TagcacheBounds DEF BeginUpdate, Gens
<1>2. tcSeen \in Directories /\ tcSeen' = [tcSeen EXCEPT !.gen[c]["head"] = "part"]
  BY DEF TagcacheTypeOK, BeginUpdate, SetGen
<1> HIDE DEF c
<1>3. tcSeen' \in Directories
  BY <1>1, <1>2 DEF Directories, FileStates
<1>4. /\ tcSeen'.ptr = tcSeen.ptr
      /\ \A h \in Gens \ {c} : tcSeen'.gen[h] = tcSeen.gen[h]
      /\ tcSeen'.gen[c].head = "part" /\ tcSeen'.gen[c].src = tcSeen.gen[c].src
  BY <1>1, <1>2 DEF Directories
<1> QED
  BY <1>1, <1>3, <1>4 DEF c

LEMMA TagEffect ==
    ASSUME TagcacheTypeOK, CommitTypes, WriteTag
    PROVE  LET c == commit.gen IN
           /\ tcSeen' \in Directories /\ tcSeen'.ptr = tcSeen.ptr
           /\ \A h \in Gens \ {c} : tcSeen'.gen[h] = tcSeen.gen[h]
           /\ tcSeen'.gen[c].head = tcSeen.gen[c].head /\ tcSeen'.gen[c].src = tcSeen.gen[c].src
           /\ \/ tcSeen'.gen[c].tag = "whole" \/ tcSeen' = tcSeen
<1> DEFINE c == commit.gen
<1>1. c \in Gens /\ tcSeen \in Directories
  BY DEF WriteTag, At, CommitTypes, TagcacheTypeOK
<1>2. tcSeen' = tcSeen \/ tcSeen' = [tcSeen EXCEPT !.gen[c]["tag"] = "whole"]
  BY DEF WriteTag, SetGen
<1>3. CASE tcSeen' = [tcSeen EXCEPT !.gen[c]["tag"] = "whole"]
  <2> HIDE DEF c
  <2>1. tcSeen' \in Directories
    BY <1>1, <1>3 DEF Directories, FileStates
  <2>2. /\ tcSeen'.ptr = tcSeen.ptr
        /\ \A h \in Gens \ {c} : tcSeen'.gen[h] = tcSeen.gen[h]
        /\ tcSeen'.gen[c].tag = "whole"
        /\ tcSeen'.gen[c].head = tcSeen.gen[c].head /\ tcSeen'.gen[c].src = tcSeen.gen[c].src
    BY <1>1, <1>3 DEF Directories
  <2> QED
    BY <2>1, <2>2 DEF c
<1> QED
  BY <1>1, <1>2, <1>3

LEMMA HeadEffect ==
    ASSUME TagcacheTypeOK, CommitTypes, WriteHead, tcSeen' # tcSeen
    PROVE  LET c == commit.gen IN
           /\ tcSeen' \in Directories /\ tcSeen'.ptr = tcSeen.ptr
           /\ \A h \in Gens \ {c} : tcSeen'.gen[h] = tcSeen.gen[h]
           /\ tcSeen'.gen[c].head = "whole" /\ tcSeen'.gen[c].tag = tcSeen.gen[c].tag
           /\ \/ tcSeen.gen[c].tag = "whole" /\ tcSeen'.gen[c].src = c
              \/ diskGen # 0 /\ tcSeen'.gen[c].src = tcSeen.gen[diskGen].src
<1> DEFINE c == commit.gen
           s == IF tcSeen.gen[c].tag = "whole" THEN c ELSE TagSource(tcSeen, diskGen)
<1>1. c \in Gens /\ tcSeen \in Directories /\ (tcSeen.gen[c].tag = "whole" \/ diskGen # 0)
  BY DEF WriteHead, At, CommitTypes, TagcacheTypeOK
<1>2. tcSeen' = [tcSeen EXCEPT !.gen[c].head = "whole", !.gen[c].src = s]
  BY DEF WriteHead
<1>3. /\ s \in 0 .. MaxGenerations
      /\ \/ tcSeen.gen[c].tag = "whole" /\ s = c
         \/ diskGen # 0 /\ s = tcSeen.gen[diskGen].src
  <2>1. diskGen # 0 => diskGen \in Gens
    BY DirectoryFacts, <1>1 DEF TagcacheTypeOK
  <2>2. \A g \in Gens : g \in 0 .. MaxGenerations
    BY TagcacheBounds DEF Gens
  <2> QED
    BY <1>1, <2>1, <2>2, DirectoryFacts DEF TagSource
<1> HIDE DEF c, s
<1>4. tcSeen' \in Directories
  <2> DEFINE r == [tcSeen.gen[c] EXCEPT !.head = "whole", !.src = s]
             Files == [head : FileStates, tag : FileStates, src : 0 .. MaxGenerations]
  <2>1. tcSeen.gen \in [Gens -> Files] /\ tcSeen.gen[c] \in Files /\ tcSeen.ptr \in 0 .. MaxGenerations
    BY <1>1 DEF Directories
  <2>2. r \in Files
    BY <1>3, <2>1 DEF FileStates
  <2>3. tcSeen' = [gen |-> [tcSeen.gen EXCEPT ![c] = r], ptr |-> tcSeen.ptr]
    BY <1>1, <1>2 DEF Directories
  <2> HIDE DEF r, Files
  <2>4. [tcSeen.gen EXCEPT ![c] = r] \in [Gens -> Files]
    BY <2>1, <2>2
  <2> QED
    BY <2>1, <2>3, <2>4 DEF Directories, Files
<1>5. /\ tcSeen'.ptr = tcSeen.ptr
      /\ \A h \in Gens \ {c} : tcSeen'.gen[h] = tcSeen.gen[h]
      /\ tcSeen'.gen[c].head = "whole" /\ tcSeen'.gen[c].src = s
      /\ tcSeen'.gen[c].tag = tcSeen.gen[c].tag
  BY <1>1, <1>2 DEF Directories
<1> QED
  BY <1>3, <1>4, <1>5 DEF c

LEMMA UndoEffect ==
    ASSUME TagcacheTypeOK, CommitTypes, UndoCommit
    PROVE  LET c == commit.gen IN
           /\ tcSeen' \in Directories /\ tcSeen'.ptr = tcSeen.ptr
           /\ \A h \in Gens \ {c} : tcSeen'.gen[h] = tcSeen.gen[h]
           /\ tcSeen'.gen[c].head = "none" /\ tcSeen'.gen[c].src = 0
<1> DEFINE c == commit.gen
<1>1. c \in Gens /\ tcSeen \in Directories /\ tcSeen' = [tcSeen EXCEPT !.gen[c] = NoGen]
  BY DEF UndoCommit, At, CommitTypes, TagcacheTypeOK
<1> HIDE DEF c
<1>2. tcSeen' \in Directories
  BY <1>1, TagcacheBounds DEF Directories, FileStates, NoGen
<1>3. /\ tcSeen'.ptr = tcSeen.ptr
      /\ \A h \in Gens \ {c} : tcSeen'.gen[h] = tcSeen.gen[h]
      /\ tcSeen'.gen[c].head = "none" /\ tcSeen'.gen[c].src = 0
  BY <1>1 DEF Directories, NoGen
<1> QED
  BY <1>2, <1>3 DEF c

\* unlink_other_generations(): the new generation and the one before it lose
\* nothing they need, and nothing becomes loadable.
LEMMA KeepsBoth ==
    ASSUME NEW d \in Directories, NEW k \in Gens, NEW p \in 0 .. MaxGenerations,
           NEW e, e = [gen |-> Kept(d, k, p), ptr |-> d.ptr]
    PROVE  /\ e \in Directories /\ e.ptr = d.ptr
           /\ \A g \in {k, p} \ {0} : GenLoadable(d, g) => GenLoadable(e, g)
           /\ \A g \in Gens : GenLoadable(e, g) => GenLoadable(d, g) /\ e.gen[g].src = d.gen[g].src
           /\ \A g \in Gens : e.gen[g].src \in {0, d.gen[g].src}
<1> DEFINE both == {k, p} \ {0}
           from == {TagSource(d, g) : g \in both}
<1>1. both \subseteq Gens
  BY DirectoryFacts
<1>2. Kept(d, k, p) = [g \in Gens |->
          [head |-> IF g \in both THEN d.gen[g].head ELSE "none",
           tag |-> IF g \in both \cup from THEN d.gen[g].tag ELSE "none",
           src |-> IF g \in both THEN d.gen[g].src ELSE 0]]
  BY DEF Kept
<1> HIDE DEF both, from
<1>3. /\ e.ptr = d.ptr
      /\ \A g \in Gens : /\ e.gen[g].head = IF g \in both THEN d.gen[g].head ELSE "none"
                         /\ e.gen[g].tag = IF g \in both \cup from THEN d.gen[g].tag ELSE "none"
                         /\ e.gen[g].src = IF g \in both THEN d.gen[g].src ELSE 0
  BY <1>2 DEF Directories
<1>4. e \in Directories
  <2>1. Kept(d, k, p) \in [Gens -> [head : FileStates, tag : FileStates, src : 0 .. MaxGenerations]]
    BY <1>2, DirectoryFacts, TagcacheBounds DEF FileStates
  <2> QED
    BY <2>1 DEF Directories
<1>5. ASSUME NEW g \in both, GenLoadable(d, g) PROVE GenLoadable(e, g)
  <2>1. d.gen[g].src \in Gens /\ d.gen[g].src \in from /\ g \in Gens
    BY <1>1, <1>5, DirectoryFacts DEF from, TagSource
  <2> QED
    BY <1>3, <1>5, <2>1 DEF GenLoadable, TagSource
<1>6. ASSUME NEW g \in Gens, GenLoadable(e, g)
      PROVE  GenLoadable(d, g) /\ e.gen[g].src = d.gen[g].src
  <2>1. g \in both /\ e.gen[g].src = d.gen[g].src /\ d.gen[g].head = "whole"
    BY <1>3, <1>6 DEF GenLoadable
  <2>2. e.gen[g].src \in Gens /\ e.gen[e.gen[g].src].tag = "whole"
    BY <1>4, <1>6, DirectoryFacts
  <2>3. d.gen[d.gen[g].src].tag = "whole"
    BY <1>3, <2>1, <2>2
  <2> QED
    BY <2>1, <2>2, <2>3, TagcacheBounds DEF GenLoadable, TagSource, Gens
<1> QED
  BY <1>3, <1>4, <1>5, <1>6 DEF both

-----------------------------------------------------------------------------
Commits == [pc : {"idle", "tag", "head", "syncdir", "pointer", "syncptr", "collect", "undo"},
            gen : 0..MaxGenerations, prev : 0..MaxGenerations, had : BOOLEAN]

SourcesInOrder == \A g \in Gens : tcSeen.gen[g].src <= g /\ tcSolid.gen[g].src <= g

LEMMA NoCommitFacts == NoCommit \in Commits /\ NoCommit.pc = "idle"
BY TagcacheBounds DEF Commits, NoCommit

\* A step of write_all() other than its first and last ones moves on, counts
\* a failing call or not, and leaves alone what is loaded.
LEMMA CommitMoves ==
    ASSUME TagcacheTypeOK, CommitTypes,
           WriteTag \/ WriteHead \/ SyncDirectory \/ WritePointer \/ SyncPointer
    PROVE  /\ commit' \in Commits /\ commit'.gen = commit.gen /\ commit'.prev = commit.prev
           /\ commit'.had = commit.had
           /\ commit.gen \in Gens /\ tcUp /\ commit.pc # "idle"
           /\ cardFaults' \in 0..MaxCardFaults
           /\ UNCHANGED <<diskGen, preserve, tcUp, acked, commits, tcCrashes, damage>>
<1>1. PICK p \in {"head", "syncdir", "pointer", "syncptr", "collect", "undo"} : CommitGoesTo(p)
  BY DEF WriteTag, WriteHead, SyncDirectory, WritePointer, SyncPointer, Undo
<1>2. commit' \in Commits /\ commit'.gen = commit.gen /\ commit'.prev = commit.prev
      /\ commit'.had = commit.had
  BY <1>1 DEF TagcacheTypeOK, Commits, CommitGoesTo
<1>3. UNCHANGED <<diskGen, preserve, tcUp, acked, commits, tcCrashes, damage>>
  BY DEF WriteTag, WriteHead, SyncDirectory, WritePointer, SyncPointer, CommitLeaves
<1>4. CardFault \/ UNCHANGED cardFaults
  BY DEF WriteTag, WriteHead, SyncDirectory, WritePointer, SyncPointer, Undo
<1>5. cardFaults' \in 0..MaxCardFaults
  BY <1>4, TagcacheBounds DEF CardFault, TagcacheTypeOK
<1>6. commit.gen \in Gens /\ tcUp /\ commit.pc # "idle"
  BY DEF WriteTag, WriteHead, SyncDirectory, WritePointer, SyncPointer, At, CommitTypes
<1> QED
  BY <1>2, <1>3, <1>5, <1>6

LEMMA StepTypes ==
    TagcacheTypeOK /\ CommitTypes /\ [TagcacheNext]_tagcacheVars => TagcacheTypeOK' /\ CommitTypes'
<1> SUFFICES ASSUME TagcacheTypeOK, CommitTypes, [TagcacheNext]_tagcacheVars
             PROVE  TagcacheTypeOK' /\ CommitTypes'
  OBVIOUS
<1> USE TagcacheBounds
<1>0. /\ tcSeen \in Directories /\ tcSolid \in Directories /\ SourcesInOrder /\ commit \in Commits
      /\ diskGen \in 0..MaxGenerations /\ Gens \subseteq 0..MaxGenerations /\ 0 \in 0..MaxGenerations
      /\ \A n \in 0..MaxGenerations : n # 0 => n \in Gens
  BY DirectoryFacts DEF TagcacheTypeOK, CommitTypes, SourcesInOrder, Gens, Commits
<1>1. CASE UNCHANGED tagcacheVars
  BY <1>1 DEF tagcacheVars, TagcacheTypeOK, CommitTypes
<1>2. CASE Open
  <2>1. diskGen' \in 0..MaxGenerations /\ preserve' \in BOOLEAN /\ commit' = NoCommit /\ tcUp'
        /\ UNCHANGED <<tcSeen, tcSolid, acked, commits, cardFaults, tcCrashes, damage>>
    BY <1>0, <1>2, LoadFacts DEF Open
  <2> QED
    BY <2>1, NoCommitFacts DEF TagcacheTypeOK, CommitTypes, Commits
<1>3. CASE BeginUpdate
  <2> DEFINE c == Highest + 1
  <2>1. c \in Gens /\ tcSeen' \in Directories /\ \A g \in Gens : tcSeen'.gen[g].src = tcSeen.gen[g].src
    BY <1>3, BeginEffect
  <2>2. diskGen < c
    BY <1>0, HighestFacts
  <2> HIDE DEF c
  <2>3. /\ commit' = [pc |-> "tag", gen |-> c, prev |-> IF tcSeen.ptr # 0 THEN tcSeen.ptr ELSE diskGen,
                      had |-> tcSeen.ptr # 0 \/ diskGen # 0]
        /\ tcUp /\ commits' \in 0..MaxCommits
        /\ UNCHANGED <<tcSolid, diskGen, preserve, acked, tcUp, cardFaults, tcCrashes, damage>>
    BY <1>3 DEF BeginUpdate, At, c, TagcacheTypeOK
  <2>4. commit' \in Commits /\ commit'.pc = "tag" /\ commit'.gen = c
    BY <1>0, <2>1, <2>3, DirectoryFacts DEF Commits
  <2>5. TagcacheTypeOK'
    BY <2>1, <2>3, <2>4 DEF TagcacheTypeOK, Commits
  <2>6. CommitTypes'
    BY <1>0, <2>1, <2>2, <2>3, <2>4 DEF CommitTypes, SourcesInOrder
  <2> QED
    BY <2>5, <2>6
<1>4. CASE WriteTag \/ WriteHead \/ SyncDirectory \/ WritePointer \/ SyncPointer
  <2>1. /\ commit' \in Commits /\ commit'.gen = commit.gen /\ cardFaults' \in 0..MaxCardFaults
        /\ commit.gen \in Gens /\ tcUp /\ commit.pc # "idle"
        /\ UNCHANGED <<diskGen, preserve, tcUp, acked, commits, tcCrashes, damage>>
    BY <1>4, CommitMoves
  <2>2. tcSeen' \in Directories /\ tcSolid' \in Directories /\ SourcesInOrder'
        /\ (commit'.pc = "head" => tcSeen'.gen[commit.gen].tag = "whole" \/ diskGen # 0)
    <3>1. CASE WriteTag
      <4>1. tcSeen' \in Directories /\ tcSolid' = tcSolid
            /\ \A g \in Gens : tcSeen'.gen[g].src = tcSeen.gen[g].src
        BY <2>1, <3>1, TagEffect DEF WriteTag
      <4>2. \/ diskGen # 0 \/ CommitGoesTo("undo")
            \/ SetGen(commit.gen, "tag", "whole")
        BY <3>1 DEF WriteTag, Undo
      <4>3. SetGen(commit.gen, "tag", "whole") => tcSeen'.gen[commit.gen].tag = "whole"
        BY <1>0, <2>1 DEF SetGen, Directories
      <4>4. CommitGoesTo("undo") => commit'.pc = "undo"
        BY <1>0 DEF CommitGoesTo, Commits
      <4> QED
        BY <1>0, <4>1, <4>2, <4>3, <4>4 DEF SourcesInOrder
    <3>2. CASE WriteHead
      <4>1. commit'.pc \in {"syncdir", "undo"} /\ tcSolid' = tcSolid
        BY <1>0, <3>2 DEF WriteHead, CommitGoesTo, Undo, Commits
      <4>2. CASE tcSeen' = tcSeen
        BY <1>0, <4>1, <4>2 DEF SourcesInOrder
      <4>3. CASE tcSeen' # tcSeen
        <5>1. /\ tcSeen' \in Directories
              /\ \A h \in Gens \ {commit.gen} : tcSeen'.gen[h] = tcSeen.gen[h]
              /\ \/ tcSeen'.gen[commit.gen].src = commit.gen
                 \/ diskGen # 0 /\ tcSeen'.gen[commit.gen].src = tcSeen.gen[diskGen].src
          BY <3>2, <4>3, HeadEffect
        <5>2. tcSeen'.gen[commit.gen].src <= commit.gen
          <6>1. commit.gen \in Nat /\ diskGen < commit.gen /\ diskGen \in Nat
            BY <1>0, <2>1 DEF CommitTypes, Gens
          <6>2. diskGen # 0 => tcSeen.gen[diskGen].src <= diskGen /\ tcSeen.gen[diskGen].src \in Nat
            BY <1>0, DirectoryFacts DEF SourcesInOrder
          <6> QED
            BY <5>1, <6>1, <6>2
        <5> QED
          BY <1>0, <4>1, <5>1, <5>2 DEF SourcesInOrder
      <4> QED
        BY <4>2, <4>3
    <3>3. CASE SyncDirectory
      BY <1>0, <3>3 DEF SyncDirectory, CommitGoesTo, Undo, Commits, SourcesInOrder
    <3>4. CASE WritePointer
      <4>1. commit'.pc \in {"syncptr", "undo"} /\ tcSolid' = tcSolid
        BY <1>0, <3>4 DEF WritePointer, CommitGoesTo, Undo, Commits
      <4>2. tcSeen' \in Directories /\ tcSeen'.gen = tcSeen.gen
        BY <1>0, <2>1, <3>4 DEF WritePointer, Directories
      <4> QED
        BY <1>0, <4>1, <4>2 DEF SourcesInOrder
    <3>5. CASE SyncPointer
      BY <1>0, <3>5 DEF SyncPointer, CommitGoesTo, Commits, SourcesInOrder
    <3> QED
      BY <1>4, <3>1, <3>2, <3>3, <3>4, <3>5
  <2>3. TagcacheTypeOK'
    BY <2>1, <2>2 DEF TagcacheTypeOK, Commits
  <2>4. CommitTypes'
    BY <2>1, <2>2 DEF CommitTypes, SourcesInOrder
  <2> QED
    BY <2>3, <2>4
<1>5. CASE Collect
  <2>1. commit.gen \in Gens /\ tcUp /\ commit.prev \in 0..MaxGenerations /\ commit.gen \in 0..MaxGenerations
    BY <1>0, <1>5 DEF Collect, At, CommitTypes, Commits
  <2>2. tcSeen' \in Directories /\ \A g \in Gens : tcSeen'.gen[g].src \in {0, tcSeen.gen[g].src}
    <3>1. CASE tcSeen' = tcSeen
      BY <1>0, <3>1
    <3>2. CASE tcSeen' = [tcSeen EXCEPT !.gen = Kept(tcSeen, commit.gen, commit.prev)]
      <4>1. tcSeen' = [gen |-> Kept(tcSeen, commit.gen, commit.prev), ptr |-> tcSeen.ptr]
        BY <1>0, <3>2 DEF Directories
      <4> QED
        BY <1>0, <2>1, <4>1, KeepsBoth
    <3> QED
      BY <1>5, <3>1, <3>2 DEF Collect
  <2>3. /\ diskGen' \in 0..MaxGenerations /\ preserve' = FALSE /\ commit' = NoCommit
        /\ acked' = [gen |-> commit.gen, before |-> diskGen]
        /\ UNCHANGED <<tcSolid, tcUp, commits, cardFaults, tcCrashes, damage>>
    BY <1>5, <2>2, LoadFacts DEF Collect
  <2>4. SourcesInOrder'
    BY <1>0, <2>2, <2>3 DEF SourcesInOrder, Gens
  <2>5. TagcacheTypeOK'
    BY <1>0, <2>1, <2>2, <2>3, NoCommitFacts DEF TagcacheTypeOK, Commits
  <2> QED
    BY <2>1, <2>3, <2>4, <2>5, NoCommitFacts DEF CommitTypes, SourcesInOrder
<1>6. CASE UndoCommit
  <2>1. /\ tcSeen' \in Directories /\ tcSeen'.gen[commit.gen].src = 0
        /\ \A h \in Gens \ {commit.gen} : tcSeen'.gen[h] = tcSeen.gen[h]
    BY <1>6, UndoEffect
  <2>2. /\ diskGen' \in 0..MaxGenerations /\ preserve' = FALSE /\ commit' = NoCommit
        /\ tcUp' \in BOOLEAN /\ (diskGen' # 0 => tcUp')
        /\ UNCHANGED <<tcSolid, acked, commits, cardFaults, tcCrashes, damage>>
    BY <1>6, <2>1, LoadFacts DEF UndoCommit
  <2>3. SourcesInOrder'
    BY <1>0, <2>1, <2>2 DEF SourcesInOrder, Gens
  <2>4. TagcacheTypeOK'
    BY <2>1, <2>2, NoCommitFacts DEF TagcacheTypeOK, Commits
  <2> QED
    BY <2>2, <2>3, <2>4, NoCommitFacts DEF CommitTypes, SourcesInOrder
<1>7. CASE PowerLost
  <2>1. /\ tcSeen' \in Survivors /\ tcSolid' = tcSeen' /\ tcUp' = FALSE /\ diskGen' = 0
        /\ preserve' = FALSE /\ commit' = NoCommit /\ tcCrashes' \in 0..MaxTcCrashes
        /\ UNCHANGED <<acked, commits, cardFaults, damage>>
    BY <1>7 DEF PowerLost, TagcacheTypeOK
  <2>2. tcSeen' \in Directories /\ SourcesInOrder'
    BY <1>0, <2>1, SurvivorFacts DEF SourcesInOrder
  <2>3. TagcacheTypeOK'
    BY <1>0, <2>1, <2>2, NoCommitFacts DEF TagcacheTypeOK, Commits
  <2> QED
    BY <2>1, <2>2, <2>3, NoCommitFacts DEF CommitTypes, SourcesInOrder
<1>8. CASE HeadDamaged
  <2>1. /\ tcSeen.ptr \in Gens /\ damage' \in 0..MaxDamage /\ ~tcUp
        /\ tcSeen' = [tcSeen EXCEPT !.gen[tcSeen.ptr].head = "part"]
        /\ tcSolid' = [tcSolid EXCEPT !.gen[tcSeen.ptr].head = "part"]
        /\ UNCHANGED <<diskGen, preserve, commit, acked, tcUp, commits, cardFaults, tcCrashes>>
    BY <1>0, <1>8, DirectoryFacts DEF HeadDamaged, TagcacheTypeOK
  <2> DEFINE c == tcSeen.ptr
  <2>a. c \in Gens /\ tcSeen \in Directories /\ tcSeen' = [tcSeen EXCEPT !.gen[c].head = "part"]
    BY <1>0, <2>1
  <2>b. c \in Gens /\ tcSolid \in Directories /\ tcSolid' = [tcSolid EXCEPT !.gen[c].head = "part"]
    BY <1>0, <2>1
  <2> HIDE DEF c
  <2>2. tcSeen' \in Directories
    BY <2>a DEF Directories, FileStates
  <2>3. tcSolid' \in Directories
    BY <2>b DEF Directories, FileStates
  <2>4. \A g \in Gens : tcSeen'.gen[g].src = tcSeen.gen[g].src /\ tcSolid'.gen[g].src = tcSolid.gen[g].src
    BY <1>0, <2>1 DEF Directories
  <2>5. TagcacheTypeOK'
    BY <2>1, <2>2, <2>3 DEF TagcacheTypeOK
  <2>6. commit.pc = "idle"
    BY <2>1 DEF CommitTypes
  <2> QED
    BY <1>0, <2>1, <2>4, <2>5, <2>6 DEF CommitTypes, SourcesInOrder
<1> QED
  BY <1>1, <1>2, <1>3, <1>4, <1>5, <1>6, <1>7, <1>8 DEF TagcacheNext

-----------------------------------------------------------------------------
\* What holds before each step of a history without damage.
LEMMA NeededFacts ==
    ASSUME TagcacheTypeOK, CommitTypes, Undamaged
    PROVE  /\ tcSeen \in Directories /\ tcSolid \in Directories /\ Needed \subseteq Gens
           /\ tcSeen.ptr # 0 => tcSeen.ptr \in Needed /\ GenLoadable(tcSeen, tcSeen.ptr)
           /\ tcSolid.ptr # 0 => tcSolid.ptr \in Needed
           /\ \A g \in Needed : GenLoadable(tcSeen, g) /\ Firm(g)
<1>1. tcSeen \in Directories /\ tcSolid \in Directories /\ Needed \subseteq Gens
  BY DirectoryFacts DEF TagcacheTypeOK, Needed
<1>2. \A g \in Needed : GenLoadable(tcSeen, g) /\ ~NotSynced(g)
  <2> SUFFICES ASSUME NEW g \in Needed PROVE GenLoadable(tcSeen, g) /\ ~NotSynced(g)
    OBVIOUS
  <2>1. g \in Nat
    BY <1>1 DEF Gens
  <2> QED
    BY <2>1 DEF Undamaged, Safe, NewIsApart, NotSynced, BeforePointer
<1> QED
  BY <1>1, <1>2 DEF Undamaged, Safe, Needed

\* tagcache_open() and the power: what a start finds is what was firm.
LEMMA StepStart ==
    ASSUME TagcacheTypeOK, CommitTypes, Undamaged, TagcacheTypeOK', CommitTypes', Open \/ PowerLost
    PROVE  Undamaged'
<1>1. CASE Open
  <2>1. /\ UNCHANGED <<tcSeen, tcSolid, acked>> /\ commit'.pc = "idle" /\ commit.pc = "idle"
        /\ diskGen = 0 /\ diskGen' = LoadedFrom(tcSeen)
        /\ preserve' = (diskGen' = 0 /\ Saved(tcSeen))
    BY <1>1, NoCommitFacts DEF Open, CommitTypes
  <2>2. /\ diskGen' # 0 => GenLoadable(tcSeen, diskGen')
        /\ tcSeen.ptr # 0 => diskGen' = tcSeen.ptr
    BY <2>1, NeededFacts, LoadFacts
  <2>3. Needed' \subseteq Needed \cup ({diskGen'} \ {0})
    BY <2>1 DEF Needed
  <2>4. Safe'
    <3>1. \A g \in Needed' : GenLoadable(tcSeen, g)
      BY <2>2, <2>3, NeededFacts
    <3>2. \A g \in Gens : GenLoadable(tcSeen, g) => Firm(g)
      BY <2>1 DEF Undamaged, Safe, NotSynced
    <3> QED
      BY <2>1, <3>1, <3>2 DEF Safe, Firm
  <2> QED
    BY <2>1, <2>2, <2>4 DEF Undamaged, NewIsApart, BeforePointer, LoadedIsPointed, CommitFits
<1>2. CASE PowerLost
  <2>1. /\ tcSeen' \in Survivors /\ tcSolid' = tcSeen' /\ tcUp' = FALSE /\ diskGen' = 0
        /\ commit'.pc = "idle" /\ acked' = acked
    BY <1>2, NoCommitFacts DEF PowerLost
  <2>2. /\ tcSeen'.ptr \in {tcSeen.ptr, tcSolid.ptr}
        /\ \A g \in Needed : GenLoadable(tcSeen', g)
    BY <2>1, SurvivorFacts, NeededFacts
  <2>3. Needed' \subseteq Needed
    BY <2>1, <2>2 DEF Needed
  <2>4. Safe'
    BY <2>1, <2>2, <2>3 DEF Safe, Firm
  <2> QED
    BY <2>1, <2>4 DEF Undamaged, NewIsApart, BeforePointer, LoadedIsPointed, CommitFits
<1> QED
  BY <1>1, <1>2

\* The first step of write_all(): the new number is used by nobody.
LEMMA StepBegin ==
    ASSUME TagcacheTypeOK, CommitTypes, Undamaged, TagcacheTypeOK', CommitTypes', BeginUpdate
    PROVE  Undamaged'
<1> DEFINE c == Highest + 1
<1>1. /\ c \in Gens /\ tcSeen' \in Directories /\ tcSeen'.ptr = tcSeen.ptr
      /\ \A h \in Gens \ {c} : tcSeen'.gen[h] = tcSeen.gen[h]
      /\ tcSeen'.gen[c].head = "part" /\ tcSeen'.gen[c].src = tcSeen.gen[c].src
  BY BeginEffect
<1>2. ASSUME NEW g \in Gens, tcSeen.gen[g].head = "whole"
      PROVE  g < c /\ tcSeen.gen[g].src < c
  <2>1. g <= Highest /\ Highest \in Nat /\ g \in Nat
    BY <1>2, HighestFacts, TagcacheBounds DEF Gens
  <2>2. tcSeen.gen[g].src <= g /\ tcSeen.gen[g].src \in Nat
    BY DirectoryFacts, NeededFacts DEF CommitTypes
  <2> QED
    BY <2>1, <2>2
<1> HIDE DEF c
<1>3. /\ commit.pc = "idle" /\ commit'.pc = "tag" /\ commit'.gen = c
      /\ commit'.prev = IF tcSeen.ptr # 0 THEN tcSeen.ptr ELSE diskGen
      /\ commit'.had = (tcSeen.ptr # 0 \/ diskGen # 0)
      /\ UNCHANGED <<tcSolid, diskGen, preserve, acked, tcUp>> /\ tcUp
  BY DEF BeginUpdate, At, c
<1>4. \A h \in Gens \ {c} : GenLoadable(tcSeen', h) <=> GenLoadable(tcSeen, h)
  <2>1. \A h \in Gens \ {c} : tcSeen.gen[h].head = "whole" => tcSeen.gen[h].src # c
    <3> SUFFICES ASSUME NEW h \in Gens, tcSeen.gen[h].head = "whole" PROVE tcSeen.gen[h].src # c
      OBVIOUS
    <3>1. tcSeen.gen[h].src < c /\ tcSeen.gen[h].src \in Nat
      BY <1>2, DirectoryFacts, NeededFacts
    <3> QED
      BY <3>1
  <2> QED
    BY <1>1, <2>1, OthersUntouched, NeededFacts
<1>5. Needed' = Needed /\ Needed \subseteq Gens /\ \A g \in Needed : g < c /\ g # c
  <2>1. Needed' = Needed
    BY <1>1, <1>3 DEF Needed
  <2>2. ASSUME NEW g \in Needed PROVE g < c /\ g # c
    <3>1. g \in Gens /\ tcSeen.gen[g].head = "whole"
      BY NeededFacts DEF GenLoadable
    <3>2. g < c /\ g \in Nat
      BY <1>2, <3>1 DEF Gens
    <3> QED
      BY <3>2
  <2> QED
    BY <2>1, <2>2, NeededFacts
<1>6. Safe'
  <2>1. \A g \in Needed' : GenLoadable(tcSeen', g)
    BY <1>4, <1>5, NeededFacts
  <2>2. ASSUME NEW g \in Gens, GenLoadable(tcSeen', g) PROVE Firm(g)'
    <3>1. g # c
      BY <1>1, <2>2 DEF GenLoadable
    <3>2. Firm(g)
      BY <1>3, <1>4, <2>2, <3>1 DEF Undamaged, Safe, NotSynced
    <3> QED
      BY <1>1, <1>3, <3>1, <3>2 DEF Firm
  <2> QED
    BY <2>1, <2>2 DEF Safe
<1>7. NewIsApart'
  <2>1. ASSUME NEW g \in Gens \ {c}, tcSeen'.gen[g].head = "whole" PROVE tcSeen'.gen[g].src # c
    <3>1. tcSeen.gen[g].src < c /\ tcSeen.gen[g].src \in Nat /\ tcSeen'.gen[g] = tcSeen.gen[g]
      BY <1>1, <1>2, <2>1, DirectoryFacts, NeededFacts
    <3> QED
      BY <3>1
  <2> QED
    BY <1>3, <1>5, <2>1 DEF NewIsApart
<1>8. LoadedIsPointed'
  BY <1>1, <1>3 DEF Undamaged, LoadedIsPointed
<1>9. CommitFits'
  <2>1. tcSeen.ptr # 0 => diskGen = tcSeen.ptr
    BY <1>3 DEF Undamaged, LoadedIsPointed
  <2> QED
    BY <1>1, <1>3, <2>1 DEF CommitFits
<1> QED
  BY <1>6, <1>7, <1>8, <1>9 DEF Undamaged

\* A step before the pointer moves that changes the new generation's files
\* only: all the others are what they were, and none of them borrows from it.
LEMMA OnlyNewChanges ==
    ASSUME TagcacheTypeOK, CommitTypes, Undamaged,
           commit.pc \in BeforePointer, tcSeen' \in Directories, tcSeen'.ptr = tcSeen.ptr,
           \A h \in Gens \ {commit.gen} : tcSeen'.gen[h] = tcSeen.gen[h]
    PROVE  /\ commit.gen \in Gens
           /\ \A h \in Gens \ {commit.gen} :
                /\ GenLoadable(tcSeen', h) <=> GenLoadable(tcSeen, h)
                /\ GenLoadable(tcSeen, h) => Firm(h)
           /\ Needed \subseteq Gens \ {commit.gen}
           /\ \A g \in Needed : GenLoadable(tcSeen', g)
           /\ \A h \in Gens \ {commit.gen} :
                tcSeen'.gen[h].head = "whole" => tcSeen'.gen[h].src # commit.gen
<1>1. commit.gen \in Gens /\ tcSeen \in Directories
  BY DEF CommitTypes, BeforePointer, TagcacheTypeOK
<1>2. \A h \in Gens \ {commit.gen} : GenLoadable(tcSeen', h) <=> GenLoadable(tcSeen, h)
  BY <1>1, OthersUntouched DEF Undamaged, NewIsApart
<1>3. ASSUME NEW g \in Needed PROVE g \in Gens \ {commit.gen}
  <2>1. g \in Gens /\ g < commit.gen /\ g \in Nat
    BY NeededFacts DEF Undamaged, NewIsApart, Gens
  <2> QED
    BY <2>1
<1>4. \A h \in Gens \ {commit.gen} : GenLoadable(tcSeen, h) => Firm(h)
  BY DEF Undamaged, Safe, NotSynced
<1> QED
  BY <1>1, <1>2, <1>3, <1>4, NeededFacts DEF Undamaged, NewIsApart

\* write_commit_tag() and the rest of the files.
LEMMA StepWrite ==
    ASSUME TagcacheTypeOK, CommitTypes, Undamaged, TagcacheTypeOK', CommitTypes',
           WriteTag \/ WriteHead
    PROVE  Undamaged'
<1> DEFINE c == commit.gen
<1>1. /\ commit'.gen = c /\ commit'.prev = commit.prev /\ commit'.had = commit.had
      /\ UNCHANGED <<diskGen, preserve, tcUp, acked, tcSolid>>
      /\ tcUp /\ commit.pc # "idle"
  BY CommitMoves DEF WriteTag, WriteHead
<1>2. commit.pc \in {"tag", "head"} /\ tcSeen.gen[c].head # "whole"
  BY DEF WriteTag, WriteHead, At, Undamaged, CommitFits
<1>3. /\ tcSeen' \in Directories /\ tcSeen'.ptr = tcSeen.ptr
      /\ \A h \in Gens \ {c} : tcSeen'.gen[h] = tcSeen.gen[h]
  <2>1. CASE WriteTag
    BY <2>1, TagEffect
  <2>2. CASE WriteHead
    BY <2>2, HeadEffect, NeededFacts
  <2> QED
    BY <2>1, <2>2
<1>4. /\ c \in Gens
      /\ \A h \in Gens \ {c} : /\ GenLoadable(tcSeen', h) <=> GenLoadable(tcSeen, h)
                               /\ GenLoadable(tcSeen, h) => Firm(h)
      /\ Needed \subseteq Gens \ {c} /\ \A g \in Needed : GenLoadable(tcSeen', g)
      /\ \A h \in Gens \ {c} : tcSeen'.gen[h].head = "whole" => tcSeen'.gen[h].src # c
  BY <1>2, <1>3, OnlyNewChanges DEF BeforePointer
<1>5. \/ commit'.pc \in {"head", "undo"} /\ tcSeen'.gen[c].head # "whole"
      \/ commit'.pc = "syncdir" /\ GenLoadable(tcSeen', c)
  <2>1. CASE WriteTag
    <3>1. commit'.pc \in {"head", "undo"}
      BY <2>1 DEF WriteTag, CommitGoesTo, Undo, TagcacheTypeOK
    <3> QED
      BY <1>2, <2>1, <3>1, TagEffect
  <2>2. CASE WriteHead /\ tcSeen' = tcSeen /\ CommitGoesTo("undo")
    <3>1. commit'.pc = "undo"
      BY <2>2 DEF CommitGoesTo, TagcacheTypeOK
    <3> QED
      BY <1>2, <2>2, <3>1
  <2>3. CASE /\ WriteHead /\ CommitGoesTo("syncdir")
             /\ tcSeen' = [tcSeen EXCEPT !.gen[commit.gen].head = "whole",
                               !.gen[commit.gen].src =
                                   IF tcSeen.gen[commit.gen].tag = "whole" THEN commit.gen
                                   ELSE TagSource(tcSeen, diskGen)]
    <3>1. commit'.pc = "syncdir"
      BY <2>3 DEF CommitGoesTo, TagcacheTypeOK
    <3>2. tcSeen'.gen[c].head = "whole"
      BY <1>4, <2>3, NeededFacts DEF Directories
    <3>3. /\ tcSeen'.gen[c].tag = tcSeen.gen[c].tag
          /\ \/ tcSeen.gen[c].tag = "whole" /\ tcSeen'.gen[c].src = c
             \/ diskGen # 0 /\ tcSeen'.gen[c].src = tcSeen.gen[diskGen].src
      BY <1>2, <2>3, <3>2, HeadEffect
    <3>4. CASE tcSeen.gen[c].tag = "whole" /\ tcSeen'.gen[c].src = c
      BY <1>4, <3>1, <3>2, <3>3, <3>4, TagcacheBounds DEF GenLoadable, TagSource, Gens
    <3>5. CASE diskGen # 0 /\ tcSeen'.gen[c].src = tcSeen.gen[diskGen].src
      <4>1. diskGen \in Needed /\ diskGen \in Gens \ {c}
        BY <1>4, <3>5 DEF Needed
      <4>2. GenLoadable(tcSeen', diskGen) /\ tcSeen'.gen[diskGen] = tcSeen.gen[diskGen]
        BY <1>3, <1>4, <4>1
      <4> QED
        BY <3>1, <3>2, <3>5, <4>2 DEF GenLoadable, TagSource
    <3> QED
      BY <3>3, <3>4, <3>5
  <2> QED
    BY <2>1, <2>2, <2>3 DEF WriteTag, WriteHead, Undo
<1>6. Needed' = Needed
  BY <1>1, <1>3 DEF Needed
<1> HIDE DEF c
<1>7. Safe'
  <2>1. ASSUME NEW g \in Gens, GenLoadable(tcSeen', g), ~NotSynced(g)' PROVE Firm(g)'
    <3>1. g # c
      BY <1>1, <1>5, <2>1 DEF NotSynced, GenLoadable
    <3> QED
      BY <1>1, <1>3, <1>4, <2>1, <3>1 DEF Firm
  <2> QED
    BY <1>4, <1>6, <2>1 DEF Safe
<1>8. NewIsApart'
  BY <1>1, <1>2, <1>4, <1>6 DEF NewIsApart, Undamaged, BeforePointer, c
<1>9. LoadedIsPointed'
  BY <1>1, <1>2, <1>3, <1>5 DEF Undamaged, LoadedIsPointed
<1>10. CommitFits'
  BY <1>1, <1>5 DEF Undamaged, CommitFits
<1> QED
  BY <1>7, <1>8, <1>9, <1>10 DEF Undamaged

\* The two syncs and the rename between them.
LEMMA StepPublish ==
    ASSUME TagcacheTypeOK, CommitTypes, Undamaged, TagcacheTypeOK', CommitTypes',
           SyncDirectory \/ WritePointer \/ SyncPointer
    PROVE  Undamaged'
<1> DEFINE c == commit.gen
<1>1. /\ commit'.gen = c /\ commit'.prev = commit.prev /\ commit'.had = commit.had
      /\ UNCHANGED <<diskGen, preserve, tcUp, acked>>
      /\ tcUp /\ commit.pc # "idle" /\ c \in Gens
  BY CommitMoves
<1>2. CASE SyncDirectory
  <2>1. tcSeen' = tcSeen /\ commit.pc = "syncdir" /\ GenLoadable(tcSeen, c)
    BY <1>2 DEF SyncDirectory, At, Undamaged, CommitFits
  <2>2. CASE tcSolid' = tcSeen /\ CommitGoesTo(IF preserve THEN "collect" ELSE "pointer")
    <3>1. commit'.pc = IF preserve THEN "collect" ELSE "pointer"
      BY <2>2 DEF CommitGoesTo, TagcacheTypeOK
    <3>2. Needed' \subseteq Needed
      BY <1>1, <2>1, <2>2 DEF Needed
    <3>3. Safe'
      BY <2>1, <2>2, <3>2, NeededFacts DEF Safe, Firm
    <3>4. NewIsApart'
      BY <1>1, <2>1, <3>2 DEF NewIsApart, Undamaged, BeforePointer
    <3> QED
      BY <1>1, <2>1, <2>2, <3>1, <3>3, <3>4 DEF Undamaged, LoadedIsPointed, CommitFits
  <2>3. CASE tcSolid' = tcSolid /\ CommitGoesTo("undo")
    <3>1. commit'.pc = "undo"
      BY <2>3 DEF CommitGoesTo, TagcacheTypeOK
    <3>2. Needed' = Needed
      BY <1>1, <2>1, <2>3 DEF Needed
    <3>3. Safe'
      BY <1>1, <2>1, <2>3, <3>1, <3>2 DEF Undamaged, Safe, Firm, NotSynced
    <3> QED
      BY <1>1, <2>1, <2>3, <3>1, <3>2, <3>3
         DEF Undamaged, NewIsApart, BeforePointer, LoadedIsPointed, CommitFits
  <2> QED
    BY <1>2, <2>2, <2>3 DEF SyncDirectory, Undo
<1>3. CASE WritePointer
  <2>1. /\ tcSolid' = tcSolid /\ commit.pc = "pointer" /\ GenLoadable(tcSeen, c)
        /\ tcSolid.ptr = tcSeen.ptr /\ ~preserve
    BY <1>3 DEF WritePointer, At, Undamaged, CommitFits
  <2>2. CASE tcSeen' = [tcSeen EXCEPT !.ptr = commit.gen] /\ CommitGoesTo("syncptr")
    <3>1. commit'.pc = "syncptr"
      BY <2>2 DEF CommitGoesTo, TagcacheTypeOK
    <3>2. tcSeen'.gen = tcSeen.gen /\ tcSeen'.ptr = c
      BY <2>2, NeededFacts DEF Directories
    <3>3. Needed' \subseteq Needed \cup {c}
      BY <1>1, <2>1, <3>2 DEF Needed
    <3>4. \A g : GenLoadable(tcSeen', g) <=> GenLoadable(tcSeen, g)
      BY <3>2 DEF GenLoadable, TagSource
    <3>5. Safe'
      <4>1. \A g \in Needed' : GenLoadable(tcSeen', g)
        BY <2>1, <3>3, <3>4, NeededFacts
      <4>2. ASSUME NEW g \in Gens, GenLoadable(tcSeen', g) PROVE Firm(g)'
        BY <2>1, <3>2, <3>4, <4>2 DEF Undamaged, Safe, Firm, NotSynced
      <4> QED
        BY <4>1, <4>2 DEF Safe
    <3>6. tcSeen.ptr # 0 => tcSeen.ptr = diskGen
      BY <1>1, <2>1 DEF Undamaged, LoadedIsPointed
    <3>7. CommitFits'
      BY <1>1, <2>1, <3>1, <3>2, <3>4, <3>6 DEF Undamaged, CommitFits
    <3> QED
      BY <1>1, <2>1, <3>1, <3>5, <3>7 DEF Undamaged, NewIsApart, BeforePointer, LoadedIsPointed
  <2>3. CASE tcSeen' = tcSeen /\ CommitGoesTo("undo")
    <3>1. commit'.pc = "undo"
      BY <2>3 DEF CommitGoesTo, TagcacheTypeOK
    <3>2. Needed' = Needed
      BY <1>1, <2>1, <2>3 DEF Needed
    <3>3. Safe'
      BY <1>1, <2>1, <2>3, <3>1, <3>2 DEF Undamaged, Safe, Firm, NotSynced
    <3> QED
      BY <1>1, <2>1, <2>3, <3>1, <3>2, <3>3
         DEF Undamaged, NewIsApart, BeforePointer, LoadedIsPointed, CommitFits
  <2> QED
    BY <1>3, <2>2, <2>3 DEF WritePointer, Undo
<1>4. CASE SyncPointer
  <2>1. /\ tcSeen' = tcSeen /\ commit.pc = "syncptr" /\ GenLoadable(tcSeen, c) /\ ~preserve
        /\ tcSeen.ptr = c /\ tcSolid.ptr \in {0, diskGen, c}
    BY <1>4 DEF SyncPointer, At, Undamaged, CommitFits
  <2>2. commit'.pc = "collect" /\ (tcSolid' = tcSeen \/ tcSolid' = tcSolid)
    BY <1>4 DEF SyncPointer, CommitGoesTo, TagcacheTypeOK
  <2>3. Needed' \subseteq Needed
    BY <1>1, <2>1, <2>2 DEF Needed
  <2>4. Safe'
    BY <2>1, <2>2, <2>3, NeededFacts DEF Undamaged, Safe, Firm, NotSynced
  <2> QED
    BY <1>1, <2>1, <2>2, <2>4 DEF Undamaged, NewIsApart, BeforePointer, LoadedIsPointed, CommitFits
<1> QED
  BY <1>2, <1>3, <1>4

\* The end of an update, and of one that failed.
LEMMA StepEnd ==
    ASSUME TagcacheTypeOK, CommitTypes, Undamaged, TagcacheTypeOK', CommitTypes',
           Collect \/ UndoCommit
    PROVE  Undamaged'
<1> DEFINE c == commit.gen
<1>0. tcSeen' \in Directories
  BY DEF TagcacheTypeOK
<1>1. CASE Collect
  <2>1. /\ commit.pc = "collect" /\ tcUp /\ commit'.pc = "idle" /\ tcSolid' = tcSolid /\ preserve' = FALSE
        /\ acked'.before = diskGen /\ diskGen' = LoadedFrom(tcSeen')
        /\ c \in Gens /\ GenLoadable(tcSeen, c) /\ commit.prev = diskGen
        /\ commit.had <=> diskGen # 0
    BY <1>1, NoCommitFacts DEF Collect, At, CommitTypes, Undamaged, CommitFits
  <2>2. /\ tcSeen'.ptr = tcSeen.ptr
        /\ \A g \in {c, diskGen} \ {0} : GenLoadable(tcSeen, g) => GenLoadable(tcSeen', g)
        /\ \A g \in Gens : GenLoadable(tcSeen', g) =>
                               GenLoadable(tcSeen, g) /\ tcSeen'.gen[g].src = tcSeen.gen[g].src
        /\ preserve \/ diskGen = 0 => tcSeen' = tcSeen
    <3>1. CASE preserve \/ ~commit.had
      BY <1>1, <2>1, <3>1 DEF Collect
    <3>2. CASE ~(preserve \/ ~commit.had)
      <4>1. tcSeen' = [tcSeen EXCEPT !.gen = Kept(tcSeen, c, diskGen)]
        BY <1>1, <2>1, <3>2 DEF Collect
      <4>2. tcSeen' = [gen |-> Kept(tcSeen, c, diskGen), ptr |-> tcSeen.ptr]
        BY <4>1, NeededFacts DEF Directories
      <4>3. diskGen \in 0 .. MaxGenerations
        BY DEF TagcacheTypeOK
      <4> QED
        BY <2>1, <3>2, <4>2, <4>3, KeepsBoth, NeededFacts
    <3> QED
      BY <3>1, <3>2
  <2>3. diskGen # 0 => GenLoadable(tcSeen, diskGen)
    BY NeededFacts DEF Needed
  <2>4. diskGen' # 0 => GenLoadable(tcSeen', diskGen')
    BY <1>0, <2>1, LoadFacts
  <2>5. \A g \in Needed' : GenLoadable(tcSeen', g)
    <3>1. CASE preserve
      <4>1. diskGen = 0 /\ tcSeen' = tcSeen
        BY <2>1, <2>2, <3>1 DEF Undamaged, LoadedIsPointed
      <4>2. Needed' \subseteq Needed \cup ({diskGen'} \ {0})
        BY <2>1, <4>1 DEF Needed
      <4> QED
        BY <2>4, <4>1, <4>2, NeededFacts
    <3>2. CASE ~preserve
      <4>1. tcSeen.ptr = c /\ tcSolid.ptr \in {0, diskGen, c}
        BY <2>1, <3>2 DEF Undamaged, CommitFits
      <4>2. Needed' \subseteq ({c, diskGen} \ {0}) \cup ({diskGen'} \ {0})
        BY <2>1, <2>2, <4>1 DEF Needed
      <4> QED
        BY <2>1, <2>2, <2>3, <2>4, <4>2
    <3> QED
      BY <3>1, <3>2
  <2>6. Safe'
    <3>1. ASSUME NEW g \in Gens, GenLoadable(tcSeen', g) PROVE Firm(g)'
      BY <2>1, <2>2, <3>1 DEF Undamaged, Safe, Firm, NotSynced
    <3> QED
      BY <2>5, <3>1 DEF Safe
  <2>7. tcSeen'.ptr # 0 => GenLoadable(tcSeen', tcSeen'.ptr)
    BY <2>5 DEF Needed
  <2>8. tcSeen'.ptr # 0 => diskGen' = tcSeen'.ptr
    BY <1>0, <2>1, <2>7, LoadFacts
  <2> QED
    BY <2>1, <2>6, <2>8 DEF Undamaged, NewIsApart, BeforePointer, LoadedIsPointed, CommitFits
<1>2. CASE UndoCommit
  <2>1. /\ commit.pc = "undo" /\ commit'.pc = "idle" /\ UNCHANGED <<tcSolid, acked>>
        /\ preserve' = FALSE /\ diskGen' = LoadedFrom(tcSeen')
    BY <1>2, NoCommitFacts DEF UndoCommit, At
  <2>2. /\ tcSeen'.ptr = tcSeen.ptr /\ tcSeen'.gen[c].head = "none"
        /\ \A h \in Gens \ {c} : tcSeen'.gen[h] = tcSeen.gen[h]
    BY <1>2, UndoEffect
  <2>3. /\ \A h \in Gens \ {c} : /\ GenLoadable(tcSeen', h) <=> GenLoadable(tcSeen, h)
                                 /\ GenLoadable(tcSeen, h) => Firm(h)
        /\ \A g \in Needed : GenLoadable(tcSeen', g)
    BY <1>0, <2>1, <2>2, OnlyNewChanges DEF BeforePointer
  <2>4. diskGen' # 0 => GenLoadable(tcSeen', diskGen')
    BY <1>0, <2>1, LoadFacts
  <2>5. \A g \in Needed' : GenLoadable(tcSeen', g)
    <3>1. Needed' \subseteq Needed \cup ({diskGen'} \ {0})
      BY <2>1, <2>2 DEF Needed
    <3> QED
      BY <2>3, <2>4, <3>1
  <2>6. Safe'
    <3>1. ASSUME NEW g \in Gens, GenLoadable(tcSeen', g) PROVE Firm(g)'
      <4>1. g # c
        BY <2>2, <3>1 DEF GenLoadable
      <4> QED
        BY <2>1, <2>2, <2>3, <3>1, <4>1 DEF Firm
    <3> QED
      BY <2>5, <3>1 DEF Safe
  <2>7. tcSeen'.ptr # 0 => diskGen' = tcSeen'.ptr
    <3>1. tcSeen'.ptr # 0 => GenLoadable(tcSeen', tcSeen'.ptr)
      BY <2>5 DEF Needed
    <3> QED
      BY <1>0, <2>1, <3>1, LoadFacts
  <2> QED
    BY <2>1, <2>6, <2>7 DEF Undamaged, NewIsApart, BeforePointer, LoadedIsPointed, CommitFits
<1> QED
  BY <1>1, <1>2

-----------------------------------------------------------------------------
LEMMA InitTagcache == TagcacheInit => TagcacheInv
<1> SUFFICES ASSUME TagcacheInit PROVE TagcacheInv
  OBVIOUS
<1>1. /\ tcSeen \in Directories /\ tcSolid = tcSeen /\ tcSeen.ptr = 0
      /\ \A g \in Gens : tcSeen.gen[g].head = "none" /\ tcSeen.gen[g].src = 0
  <2>1. tcSeen = [gen |-> [g \in Gens |-> NoGen], ptr |-> 0] /\ tcSolid = tcSeen
    BY DEF TagcacheInit
  <2>2. NoGen \in [head : FileStates, tag : FileStates, src : 0..MaxGenerations]
    BY TagcacheBounds DEF NoGen, FileStates
  <2>3. tcSeen \in Directories
    BY <2>1, <2>2, TagcacheBounds DEF Directories
  <2>4. NoGen.head = "none" /\ NoGen.src = 0
    BY DEF NoGen
  <2> QED
    BY <2>1, <2>3, <2>4
<1>2. /\ diskGen = 0 /\ preserve = FALSE /\ commit = NoCommit /\ tcUp = FALSE
      /\ acked.gen = 0 /\ acked.before = 0
      /\ commits = 0 /\ cardFaults = 0 /\ tcCrashes = 0 /\ damage = 0
  BY DEF TagcacheInit
<1>3. TagcacheTypeOK
  <2>1. /\ 0 \in 0..MaxGenerations /\ 0 \in 0..MaxCommits /\ 0 \in 0..MaxCardFaults
        /\ 0 \in 0..MaxTcCrashes /\ 0 \in 0..MaxDamage
    BY TagcacheBounds
  <2>2. commit \in Commits
    BY <1>2, NoCommitFacts
  <2> QED
    BY <1>1, <1>2, <2>1, <2>2 DEF TagcacheTypeOK, Commits
<1>4. CommitTypes
  BY <1>1, <1>2, NoCommitFacts DEF CommitTypes, Gens
<1>5. Needed = {} /\ \A g \in Gens : ~GenLoadable(tcSeen, g)
  BY <1>1, <1>2 DEF Needed, GenLoadable
<1>6. Undamaged
  BY <1>1, <1>2, <1>5, NoCommitFacts
     DEF Undamaged, Safe, NewIsApart, BeforePointer, LoadedIsPointed, CommitFits
<1> QED
  BY <1>3, <1>4, <1>6 DEF TagcacheInv

\* Damage is never undone, so a history without damage had none before.
LEMMA StepTagcache == TagcacheInv /\ [TagcacheNext]_tagcacheVars => TagcacheInv'
<1> SUFFICES ASSUME TagcacheInv, [TagcacheNext]_tagcacheVars PROVE TagcacheInv'
  OBVIOUS
<1>1. TagcacheTypeOK' /\ CommitTypes' /\ TagcacheTypeOK /\ CommitTypes
  BY StepTypes DEF TagcacheInv
<1>2. ASSUME damage' = 0 PROVE Undamaged'
  <2>1. ~HeadDamaged
    BY <1>1, <1>2 DEF HeadDamaged, TagcacheTypeOK
  <2>2. damage = 0
    BY <1>1, <1>2, <2>1, CommitMoves
       DEF TagcacheNext, tagcacheVars, Open, BeginUpdate, Collect, UndoCommit, PowerLost
  <2>3. Undamaged
    BY <2>2 DEF TagcacheInv
  <2>4. CASE UNCHANGED tagcacheVars
    BY <2>3, <2>4 DEF tagcacheVars, Undamaged, Safe, Needed, Firm, NotSynced, NewIsApart,
                      LoadedIsPointed, CommitFits
  <2> QED
    BY <1>1, <2>1, <2>3, <2>4, StepStart, StepBegin, StepWrite, StepPublish, StepEnd
       DEF TagcacheNext
<1> QED
  BY <1>1, <1>2 DEF TagcacheInv

LEMMA TagcacheInvariant == TagcacheSpec => []TagcacheInv
BY InitTagcache, StepTagcache, PTL DEF TagcacheSpec

\* tagcache.c: for any number of generations, updates, failing calls and power
\* cuts, the generation an update replaced can still be loaded: neither the
\* removal of old files nor a crash between two steps takes a tag file from it.
THEOREM ReplacedIsKept == TagcacheSpec => []ReplacedOneKept
<1>1. TagcacheInv => ReplacedOneKept
  BY DEF TagcacheInv, Undamaged, Safe, Needed, ReplacedOneKept
<1> QED
  BY <1>1, TagcacheInvariant, PTL

-----------------------------------------------------------------------------
\* Without damage the cell's value is the pointer as it is seen, and what a
\* crash could leave is that or the pointer on the card.
LEMMA CellIsPointer ==
    TagcacheTypeOK /\ CommitTypes /\ Undamaged =>
        /\ ValueOf(tcSeen) = tcSeen.ptr
        /\ {ValueOf(d) : d \in Survivors} = {tcSeen.ptr, tcSolid.ptr}
<1> SUFFICES ASSUME TagcacheTypeOK, CommitTypes, Undamaged
             PROVE  /\ ValueOf(tcSeen) = tcSeen.ptr
                    /\ {ValueOf(d) : d \in Survivors} = {tcSeen.ptr, tcSolid.ptr}
  OBVIOUS
<1>1. ASSUME NEW d \in Directories, d.ptr # 0 => GenLoadable(d, d.ptr) PROVE ValueOf(d) = d.ptr
  BY <1>1, LoadFacts DEF ValueOf
<1>2. ValueOf(tcSeen) = tcSeen.ptr
  BY <1>1, NeededFacts
<1>3. ASSUME NEW d \in Survivors
      PROVE  ValueOf(d) = d.ptr /\ d.ptr \in {tcSeen.ptr, tcSolid.ptr}
  <2>1. /\ d \in Directories /\ d.ptr \in {tcSeen.ptr, tcSolid.ptr}
        /\ \A g \in Gens : GenLoadable(tcSeen, g) /\ Firm(g) => GenLoadable(d, g)
    BY SurvivorFacts
  <2>2. d.ptr # 0 => GenLoadable(d, d.ptr)
    BY <2>1, NeededFacts
  <2> QED
    BY <1>1, <2>1, <2>2
<1>4. ASSUME NEW p \in {tcSeen.ptr, tcSolid.ptr} PROVE \E d \in Survivors : d.ptr = p
  <2>1. Survivor({}, p) \in Survivors
    BY DEF Survivors
  <2>2. Survivor({}, p).ptr = p
    BY DEF Survivor
  <2> QED
    BY <2>1, <2>2
<1> QED
  BY <1>2, <1>3, <1>4

\* tagcache.c: the database is a crash-safe cell.  Readers and crashes only ever
\* see whole generations, each newer than the one before, and a crash loses at
\* most the last one, if its sync had failed or not yet been made.
THEOREM DatabaseIsCell == TagcacheSpec => ImplementsCell
<1> DEFINE now == ValueOf(tcSeen)
           maybe == {ValueOf(d) : d \in Survivors}
<1>1. TagcacheInit => Cell!CellInit
  <2> SUFFICES ASSUME TagcacheInit PROVE Cell!CellInit
    OBVIOUS
  <2>1. TagcacheTypeOK /\ CommitTypes /\ Undamaged
    BY InitTagcache DEF TagcacheInv, TagcacheInit
  <2>2. tcSeen.ptr = 0 /\ tcSolid.ptr = 0
    BY DEF TagcacheInit
  <2> QED
    BY <2>1, <2>2, CellIsPointer, TagcacheBounds DEF Cell!CellInit
<1>2. ASSUME TagcacheInv, TagcacheInv', [TagcacheNext]_tagcacheVars, damage' = 0
      PROVE  Cell!CellNext \/ UNCHANGED <<ValueOf(tcSeen), {ValueOf(d) : d \in Survivors}>>
  <2>1. ~HeadDamaged
    BY <1>2 DEF HeadDamaged, TagcacheInv, TagcacheTypeOK
  <2>2. damage = 0
    BY <1>2, <2>1, CommitMoves
       DEF TagcacheInv, TagcacheNext, tagcacheVars, Open, BeginUpdate, Collect, UndoCommit, PowerLost
  <2>3. /\ TagcacheTypeOK /\ CommitTypes /\ Undamaged
        /\ TagcacheTypeOK' /\ CommitTypes' /\ Undamaged'
    BY <1>2, <2>2 DEF TagcacheInv
  <2>4. now = tcSeen.ptr /\ maybe = {tcSeen.ptr, tcSolid.ptr}
    BY <2>3, CellIsPointer
  <2>5. now' = tcSeen'.ptr /\ maybe' = {tcSeen'.ptr, tcSolid'.ptr}
    <3>1. /\ (ValueOf(tcSeen) = tcSeen.ptr)'
          /\ ({ValueOf(d) : d \in Survivors} = {tcSeen.ptr, tcSolid.ptr})'
      BY <2>3, CellIsPointer, PTL
    <3> QED
      BY <3>1
  <2>6. \/ tcSeen'.ptr = tcSeen.ptr /\ tcSolid'.ptr \in {tcSeen.ptr, tcSolid.ptr}
        \/ tcSeen'.ptr \in {tcSeen.ptr, tcSolid.ptr} /\ tcSolid'.ptr = tcSeen'.ptr
        \/ /\ tcSolid.ptr = tcSeen.ptr /\ tcSolid'.ptr = tcSolid.ptr
           /\ tcSeen'.ptr \in 0..MaxGenerations /\ tcSeen.ptr < tcSeen'.ptr
    <3>0. tcSeen \in Directories /\ tcSolid \in Directories
      BY <2>3 DEF TagcacheTypeOK
    <3>1. CASE UNCHANGED tagcacheVars \/ Open
      BY <3>1 DEF tagcacheVars, Open
    <3>2. CASE BeginUpdate
      BY <2>3, <3>2, BeginEffect DEF BeginUpdate
    <3>3. CASE WriteTag \/ UndoCommit
      BY <2>3, <3>3, TagEffect, UndoEffect DEF WriteTag, UndoCommit
    <3>4. CASE WriteHead
      BY <2>3, <3>4, HeadEffect DEF WriteHead
    <3>5. CASE SyncDirectory \/ SyncPointer
      BY <3>5 DEF SyncDirectory, SyncPointer
    <3>6. CASE WritePointer
      <4>1. /\ tcSolid' = tcSolid /\ tcSolid.ptr = tcSeen.ptr /\ commit.pc = "pointer"
        BY <2>3, <3>6 DEF WritePointer, At, Undamaged, CommitFits
      <4>2. tcSeen' = tcSeen \/ tcSeen'.ptr = commit.gen
        BY <3>0, <3>6 DEF WritePointer, Directories
      <4>3. tcSeen.ptr < commit.gen /\ commit.gen \in 0..MaxGenerations
        <5>1. commit.gen \in Gens
          BY <2>3, <4>1 DEF CommitTypes
        <5>2. tcSeen.ptr # 0 => tcSeen.ptr < commit.gen
          BY <2>3, <4>1, NeededFacts DEF Undamaged, NewIsApart, BeforePointer
        <5> QED
          BY <5>1, <5>2, TagcacheBounds DEF Gens
      <4> QED
        BY <4>1, <4>2, <4>3
    <3>7. CASE Collect
      <4>1. tcSeen' = tcSeen \/ tcSeen'.ptr = tcSeen.ptr
        BY <3>0, <3>7 DEF Collect, Directories
      <4> QED
        BY <3>7, <4>1 DEF Collect
    <3>8. CASE PowerLost
      BY <2>3, <3>8, SurvivorFacts DEF PowerLost
    <3> QED
      BY <1>2, <2>1, <3>1, <3>2, <3>3, <3>4, <3>5, <3>6, <3>7, <3>8 DEF TagcacheNext
  <2> QED
    BY <2>4, <2>5, <2>6 DEF Cell!CellNext, Cell!Publish, Cell!Settle, Cell!CellCrash
<1> QED
  BY <1>1, <1>2, TagcacheInvariant, PTL DEF TagcacheSpec, ImplementsCell
=============================================================================
