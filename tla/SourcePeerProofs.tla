-------------------------- MODULE SourcePeerProofs ---------------------------
(***************************************************************************)
(* Proofs about SourceCache and about UpstreamPeer.  Any number of builds  *)
(* that share a cache directory and are killed at any point extract only   *)
(* whole archives, and only signed ones if all of them verify.  Any number *)
(* of upstream handlers that wrap one another release a selected peer      *)
(* once.                                                                   *)
(***************************************************************************)
EXTENDS Naturals, Sequences, TLAPS

CONSTANTS Builds, Verifying, MaxName, MaxFaults, FirstCache
VARIABLES cache, staging, left, output, build, faults

Source == INSTANCE SourceCache

DirType == [tree : {"none", "partial", "good", "bad"}, marked : BOOLEAN]

BuildType ==
    [at : Source!Places, file : Source!Files,
     staged : [Source!Files -> Source!Names \cup {Source!NoName}],
     next : 0..(MaxName + 1), tree : DirType]

Staged(B, f) == B.staged[f] # Source!NoName

\* What a build has staged and unpacked, by its place.
BuildOK(b, B) ==
    /\ B.at \in {"idle", "failed", "done", "check", "clear", "unpack", "mark", "rename"}
          => ~Staged(B, "archive") /\ ~Staged(B, "signature")
    /\ B.at \in {"lookup", "remove", "create"} => ~Staged(B, B.file)
    /\ B.at \in {"lookup", "remove", "create", "write"} =>
          /\ B.file = "archive" => ~Staged(B, "signature")
          /\ b \notin Verifying => B.file = "archive"
    /\ B.at = "write" => Staged(B, B.file)
    /\ B.at \in {"verify", "undo"} => b \in Verifying
    /\ B.at \in {"publish", "undo"} /\ B.file = "signature" => ~Staged(B, "archive")
    /\ B.at = "publish" /\ b \notin Verifying => ~Staged(B, "signature")
    /\ B.at \in {"mark", "rename"} => B.tree.tree \in {"good", "bad"}
    /\ B.at = "rename" => B.tree.marked
    /\ Staged(B, "archive") => B.staged["archive"] # B.staged["signature"]

\* What a build has staged is on disk, and complete unless it is being written.
HeldOK(B, S) ==
    \A f \in Source!Files : Staged(B, f) =>
        /\ S[B.staged[f]] # "none"
        /\ S[B.staged[f]] \in Source!Complete \/ (B.at = "write" /\ B.file = f)

\* If all builds verify: what a build that has verified is about to publish is
\* what was signed, and so is what is at the final path, unless it was removed.
TrustOK(B, S, C) ==
    Verifying = Builds =>
        /\ B.at \in {"mark", "rename"} => B.tree.tree = "good"
        /\ B.at = "publish" /\ B.file = "archive" /\ Staged(B, "archive") =>
              S[B.staged["archive"]] = "good"
        /\ B.at \in {"check", "clear", "unpack"} => C \in {"good", "none"}
        /\ B.at = "publish" /\ (B.file = "signature" \/ ~Staged(B, "archive")) =>
              C \in {"good", "none"}

\* An output directory with a marker holds a whole tree.
OutputOK(D) ==
    D.marked => D.tree \in {"good", "bad"} /\ (Verifying = Builds => D.tree = "good")

SourceInv ==
    /\ cache \in [Source!Files -> Source!Complete \cup {"none"}]
    /\ staging \in [Source!Names -> Source!Complete \cup {"none", "partial"}]
    /\ left \subseteq Source!Names /\ faults \in 0..MaxFaults
    /\ output \in [Builds -> DirType] /\ build \in [Builds -> BuildType]
    /\ \A b \in Builds :
          /\ BuildOK(b, build[b]) /\ HeldOK(build[b], staging)
          /\ TrustOK(build[b], staging, cache["archive"])
          /\ OutputOK(output[b]) /\ (build[b].at = "done" => output[b].marked)
          /\ \A f \in Source!Files : build[b].staged[f] \notin left
    /\ \A a, b \in Builds : \A f, g \in Source!Files :
          a # b /\ Staged(build[a], f) => build[a].staged[f] # build[b].staged[g]
    /\ \A n \in Source!Names : staging[n] # "none" =>
          n \in left \/ \E b \in Builds : \E f \in Source!Files : build[b].staged[f] = n
    /\ \A n \in left : staging[n] # "none"

\* A staged path is one of the names.
LEMMA NoNameIsNone == Source!NoName \notin Source!Names
BY DEF Source!NoName, Source!Names, Source!Files

\* The inductive invariant gives what is promised of the cache and the builds.
LEMMA SourceIsExact == SourceInv => Source!SourceExact
<1> SUFFICES ASSUME SourceInv PROVE Source!SourceExact
  OBVIOUS
<1>1. ASSUME NEW b \in Builds
      PROVE  /\ build[b] \in BuildType /\ output[b] \in DirType
             /\ \A f \in Source!Files :
                   build[b].staged[f] \in Source!Names \cup {Source!NoName}
             /\ \A n : n \in Source!Owned(b) <=>
                   \E f \in Source!Files : Staged(build[b], f) /\ n = build[b].staged[f]
  BY DEF SourceInv, BuildType, Source!Owned, Staged
<1>2. Source!TypeOK
  BY <1>1 DEF SourceInv, Source!TypeOK, BuildType
<1>3. Source!StagingIsExclusive
  <2>1. ASSUME NEW a \in Builds, NEW b \in Builds, a # b
        PROVE  Source!Owned(a) \cap Source!Owned(b) = {}
    BY <1>1, <2>1 DEF SourceInv
  <2>2. ASSUME NEW b \in Builds, NEW n \in Source!Owned(b) PROVE staging[n] # "none"
    BY <1>1 DEF SourceInv, HeldOK
  <2> QED
    BY <2>1, <2>2 DEF Source!StagingIsExclusive
<1>4. Source!StagingIsRemoved
  BY <1>1, NoNameIsNone DEF SourceInv, Source!StagingIsRemoved, Staged
<1>5. Source!MarkedIsWhole /\ Source!DoneIsExtracted /\ Source!ExtractsVerified
  BY DEF SourceInv, OutputOK, Source!MarkedIsWhole, Source!DoneIsExtracted,
     Source!ExtractsVerified
<1> QED
  BY <1>2, <1>3, <1>4, <1>5 DEF Source!SourceExact

\* A build that starts or has ended holds nothing.
LEMMA FreshIsEmpty ==
    ASSUME Source!SourceAssumption
    PROVE  /\ Source!Fresh \in BuildType /\ Source!Fresh.at = "idle"
           /\ Source!Fresh.file = "archive"
           /\ \A f \in Source!Files : Source!Fresh.staged[f] = Source!NoName
BY DEF Source!Fresh, BuildType, Source!Files, Source!Places, DirType,
   Source!Nothing, Source!Dir, Source!SourceAssumption

\* At first nothing is staged, nothing is extracted.
LEMMA SourceInitHolds == Source!SourceAssumption /\ Source!Init => SourceInv
<1> SUFFICES ASSUME Source!SourceAssumption, Source!Init PROVE SourceInv
  OBVIOUS
<1>1. /\ cache \in [Source!Files -> Source!Complete \cup {"none"}]
      /\ staging \in [Source!Names -> Source!Complete \cup {"none", "partial"}]
      /\ left \subseteq Source!Names /\ faults \in 0..MaxFaults
      /\ left = {} /\ \A n \in Source!Names : staging[n] = "none"
  <2>1. PICK a \in FirstCache, s \in {"none", "good"} :
            cache = [archive |-> a, signature |-> s]
    BY DEF Source!Init
  <2>2. a \in Source!Complete \cup {"none"} /\ s \in Source!Complete \cup {"none"}
    BY DEF Source!SourceAssumption, Source!Complete
  <2>3. cache \in [Source!Files -> Source!Complete \cup {"none"}]
    BY <2>1, <2>2 DEF Source!Files
  <2> QED
    BY <2>3 DEF Source!Init, Source!SourceAssumption
<1>2. /\ output \in [Builds -> DirType]
      /\ \A b \in Builds : output[b] \in DirType /\ output[b].marked = FALSE
  <2>1. /\ Source!Nothing \in DirType /\ Source!Nothing.marked = FALSE
        /\ Source!Dir("partial", FALSE) \in DirType
        /\ Source!Dir("partial", FALSE).marked = FALSE
    BY DEF Source!Nothing, Source!Dir, DirType
  <2>2. output \in [Builds -> {Source!Nothing, Source!Dir("partial", FALSE)}]
    BY DEF Source!Init, Source!Nothing, Source!Dir
  <2>3. \A b \in Builds : output[b] = Source!Nothing \/ output[b] = Source!Dir("partial", FALSE)
    BY Zenon, <2>2
  <2>4. output \in [Builds -> DirType]
    BY Zenon, <2>1, <2>2
  <2>5. \A b \in Builds : output[b] \in DirType /\ output[b].marked = FALSE
    BY Zenon, <2>1, <2>3
  <2> QED
    BY <2>4, <2>5
<1>3. Source!Fresh \in BuildType
  BY FreshIsEmpty
<1>4. /\ build = [b \in Builds |-> Source!Fresh] /\ Source!Fresh.at = "idle"
      /\ \A f \in Source!Files : Source!Fresh.staged[f] = Source!NoName
  BY FreshIsEmpty DEF Source!Init
<1>5. build \in [Builds -> BuildType] /\ \A b \in Builds : build[b] = Source!Fresh
  BY <1>3, <1>4
<1>6. \A b \in Builds : \A f \in Source!Files : ~Staged(build[b], f)
  BY <1>4, <1>5 DEF Staged
<1>7. ASSUME NEW b \in Builds
      PROVE  /\ BuildOK(b, build[b]) /\ HeldOK(build[b], staging)
             /\ TrustOK(build[b], staging, cache["archive"])
             /\ OutputOK(output[b]) /\ build[b].at # "done"
             /\ \A f \in Source!Files : build[b].staged[f] \notin left
  BY ZenonT(30), <1>1, <1>2, <1>4, <1>5, <1>6
  DEF BuildOK, HeldOK, TrustOK, OutputOK, Source!Files
<1> QED
  BY <1>1, <1>2, <1>5, <1>6, <1>7 DEF SourceInv

\* A step of one build keeps the invariant if it leaves the build in order,
\* touches no staging file of another, holds only what it held or what was
\* free, gives up only what it removed or left behind, and puts nothing but
\* what was signed at the final path of the archive (if all builds verify).
LEMMA OneBuild ==
    ASSUME SourceInv, NEW b \in Builds, NEW B \in BuildType,
           build' = [build EXCEPT ![b] = B],
           cache' \in [Source!Files -> Source!Complete \cup {"none"}],
           staging' \in [Source!Names -> Source!Complete \cup {"none", "partial"}],
           left' \subseteq Source!Names, faults' \in 0..MaxFaults,
           \A n \in Source!Names : staging'[n] = staging[n] \/
               \E f \in Source!Files : n = build[b].staged[f] \/ n = B.staged[f],
           \A f \in Source!Files : Staged(B, f) =>
               B.staged[f] = build[b].staged[f] \/ staging[B.staged[f]] = "none",
           left \subseteq left',
           \A n \in left' : n \in left \/
               (staging'[n] # "none" /\ \E f \in Source!Files : n = build[b].staged[f]),
           \A f \in Source!Files : B.staged[f] \notin left',
           \A f \in Source!Files : Staged(build[b], f) =>
               \/ B.staged[f] = build[b].staged[f]
               \/ build[b].staged[f] \in left'
               \/ staging'[build[b].staged[f]] = "none",
           Verifying = Builds => cache'["archive"] \in {cache["archive"], "good", "none"},
           BuildOK(b, B), HeldOK(B, staging'), TrustOK(B, staging', cache'["archive"]),
           output' \in [Builds -> DirType],
           \A a \in Builds \ {b} : output'[a] = output[a],
           OutputOK(output'[b]), B.at = "done" => output'[b].marked
    PROVE  SourceInv'
<1>1. /\ build' \in [Builds -> BuildType] /\ build'[b] = B
      /\ \A a \in Builds \ {b} : build'[a] = build[a]
  BY DEF SourceInv
<1>2. ASSUME NEW a \in Builds, NEW f \in Source!Files
      PROVE  build[a].staged[f] \in Source!Names \cup {Source!NoName}
  BY DEF SourceInv, BuildType
<1>3. \A f \in Source!Files : B.staged[f] \in Source!Names \cup {Source!NoName}
  BY DEF BuildType
<1>4. ASSUME NEW a \in Builds \ {b}, NEW f \in Source!Files, Staged(build[a], f)
      PROVE  /\ staging'[build[a].staged[f]] = staging[build[a].staged[f]]
             /\ build[a].staged[f] \notin left'
             /\ \A g \in Source!Files : B.staged[g] # build[a].staged[f]
  <2>1. build[a].staged[f] \in Source!Names /\ staging[build[a].staged[f]] # "none"
    BY <1>2, <1>4 DEF SourceInv, HeldOK, Staged
  <2>2. \A g \in Source!Files : build[b].staged[g] # build[a].staged[f]
    BY <1>4 DEF SourceInv
  <2>3. build[a].staged[f] \notin left
    BY ZenonT(30) DEF SourceInv
  <2>4. \A g \in Source!Files : B.staged[g] # build[a].staged[f]
    BY <2>1, <2>2, <1>4 DEF Staged
  <2> QED
    BY <2>1, <2>2, <2>3, <2>4
<1>5. ASSUME NEW a \in Builds \ {b}
      PROVE  /\ HeldOK(build[a], staging')
             /\ TrustOK(build[a], staging', cache'["archive"])
             /\ \A f \in Source!Files : build[a].staged[f] \notin left'
  <2>1. HeldOK(build[a], staging) /\ TrustOK(build[a], staging, cache["archive"])
    BY ZenonT(30) DEF SourceInv
  <2>2. HeldOK(build[a], staging')
    BY <1>4, <2>1 DEF HeldOK
  <2>3. TrustOK(build[a], staging', cache'["archive"])
    BY ZenonT(30), <1>4, <2>1 DEF TrustOK, Source!Files
  <2>4. \A f \in Source!Files : build[a].staged[f] \notin left'
    BY <1>4, NoNameIsNone DEF Staged
  <2> QED
    BY ZenonT(30), <2>2, <2>3, <2>4
<1>6. \A a \in Builds :
          /\ BuildOK(a, build'[a]) /\ HeldOK(build'[a], staging')
          /\ TrustOK(build'[a], staging', cache'["archive"])
          /\ OutputOK(output'[a]) /\ (build'[a].at = "done" => output'[a].marked)
          /\ \A f \in Source!Files : build'[a].staged[f] \notin left'
  BY <1>1, <1>5 DEF SourceInv
<1>7. ASSUME NEW a \in Builds, NEW c \in Builds, NEW f \in Source!Files,
             NEW g \in Source!Files, a # c, Staged(build'[a], f)
      PROVE  build'[a].staged[f] # build'[c].staged[g]
  <2>1. CASE a = b
    <3>1. Staged(build[c], g) => B.staged[f] # build[c].staged[g]
      BY <1>4, <1>7, <2>1
    <3> QED
      BY <1>1, <1>7, <2>1, <3>1 DEF Staged
  <2>2. CASE a # b
    BY <1>1, <1>4, <1>7, <2>2 DEF SourceInv
  <2> QED
    BY ZenonT(30), <2>1, <2>2
<1>8. ASSUME NEW n \in Source!Names, staging'[n] # "none"
      PROVE  n \in left' \/ \E a \in Builds : \E f \in Source!Files : build'[a].staged[f] = n
  <2>1. CASE \E f \in Source!Files : n = B.staged[f]
    BY <1>1, <2>1
  <2>2. CASE \E f \in Source!Files : n = build[b].staged[f]
    BY <1>1, <1>8, <2>2, NoNameIsNone DEF Staged
  <2>3. CASE ~\E f \in Source!Files : n = B.staged[f] \/ n = build[b].staged[f]
    <3>1. staging[n] # "none"
      BY <1>8, <2>3
    <3> QED
      BY <1>1, <2>3, <3>1 DEF SourceInv
  <2> QED
    BY ZenonT(30), <2>1, <2>2, <2>3
<1>9. \A n \in left' : staging'[n] # "none"
  <2>1. ASSUME NEW n \in left, staging'[n] # staging[n] PROVE FALSE
    BY SMTT(30), <2>1 DEF SourceInv
  <2> QED
    BY ZenonT(30), <2>1 DEF SourceInv
<1> QED
  BY <1>1, <1>6, <1>7, <1>8, <1>9 DEF SourceInv

\* So does a step that stages and removes nothing.
LEMMA OneBuildMoves ==
    ASSUME SourceInv, NEW b \in Builds, NEW B \in BuildType,
           build' = [build EXCEPT ![b] = B],
           cache' = cache, staging' = staging, left' = left, faults' \in 0..MaxFaults,
           \A f \in Source!Files : B.staged[f] = build[b].staged[f],
           BuildOK(b, B), HeldOK(B, staging), TrustOK(B, staging, cache["archive"]),
           output' \in [Builds -> DirType],
           \A a \in Builds \ {b} : output'[a] = output[a],
           OutputOK(output'[b]), B.at = "done" => output'[b].marked
    PROVE  SourceInv'
<1>1. /\ cache \in [Source!Files -> Source!Complete \cup {"none"}]
      /\ staging \in [Source!Names -> Source!Complete \cup {"none", "partial"}]
      /\ left \subseteq Source!Names
      /\ \A f \in Source!Files : build[b].staged[f] \notin left
  BY DEF SourceInv
<1> QED
  BY Zenon, <1>1, OneBuild

\* The entries of a build that fails remove what they staged.
LEMMA FailHolds ==
    ASSUME Source!SourceAssumption, SourceInv, NEW b \in Builds, Source!Fail(b),
           left' = left, output' = output, faults' \in 0..MaxFaults,
           cache' = cache \/ \E f \in Source!Files : cache' = [cache EXCEPT ![f] = "none"]
    PROVE  SourceInv'
<1> DEFINE B == [Source!Fresh EXCEPT !.at = "failed"]
<1>1. B \in BuildType /\ B.at = "failed"
      /\ \A f \in Source!Files : B.staged[f] = Source!NoName
  BY FreshIsEmpty DEF BuildType, Source!Places
<1>2. build' = [build EXCEPT ![b] = B]
  BY DEF Source!Fail
<1> HIDE DEF B
<1>3. /\ staging' \in [Source!Names -> Source!Complete \cup {"none", "partial"}]
      /\ \A n \in Source!Names : staging'[n] =
            IF \E f \in Source!Files : n = build[b].staged[f] THEN "none" ELSE staging[n]
  BY NoNameIsNone DEF Source!Fail, Source!DropStaged, Source!Owned, SourceInv
<1>4. /\ cache' \in [Source!Files -> Source!Complete \cup {"none"}]
      /\ cache'["archive"] \in {cache["archive"], "none"}
  BY DEF SourceInv, Source!Files
<1>5. BuildOK(b, B) /\ HeldOK(B, staging') /\ TrustOK(B, staging', cache'["archive"])
  BY <1>1 DEF BuildOK, HeldOK, TrustOK, Staged, Source!Files
<1>6. /\ output' \in [Builds -> DirType] /\ OutputOK(output'[b])
      /\ left' \subseteq Source!Names /\ Source!NoName \notin left'
      /\ \A f \in Source!Files : build[b].staged[f] \in Source!Names \cup {Source!NoName}
  BY NoNameIsNone DEF SourceInv, BuildType
<1>7. ASSUME NEW f \in Source!Files, Staged(build[b], f)
      PROVE  staging'[build[b].staged[f]] = "none"
  BY <1>3, <1>6, <1>7 DEF Staged
<1>8. \A n \in Source!Names : staging'[n] = staging[n] \/
          \E f \in Source!Files : n = build[b].staged[f] \/ n = B.staged[f]
  BY <1>3
<1>9. /\ \A f \in Source!Files : ~Staged(B, f) /\ B.staged[f] \notin left'
      /\ \A a \in Builds : output'[a] = output[a]
  BY <1>1, <1>6 DEF Staged
<1> QED
  BY Zenon, <1>1, <1>2, <1>3, <1>4, <1>5, <1>6, <1>7, <1>8, <1>9, OneBuild

\* The record of a build is one of a build in order.
LEMMA BuildIsOK ==
    ASSUME SourceInv, NEW b \in Builds
    PROVE  /\ build[b] \in BuildType /\ BuildOK(b, build[b])
           /\ HeldOK(build[b], staging) /\ TrustOK(build[b], staging, cache["archive"])
           /\ build[b].file \in Source!Files
           /\ \A f \in Source!Files :
                 /\ build[b].staged[f] \in Source!Names \cup {Source!NoName}
                 /\ build[b].staged[f] \notin left
           /\ output[b] \in DirType /\ OutputOK(output[b]) /\ faults \in 0..MaxFaults
           /\ output \in [Builds -> DirType]
BY DEF SourceInv, BuildType

\* A build that only goes to another place.
LEMMA GotoHolds ==
    ASSUME SourceInv, NEW b \in Builds, NEW at \in Source!Places, NEW file \in Source!Files,
           build' = [build EXCEPT ![b] = [build[b] EXCEPT !.at = at, !.file = file]],
           UNCHANGED <<cache, staging, left, output>>, faults' \in 0..MaxFaults,
           at = "done" => output[b].marked, build[b].at # "write",
           BuildOK(b, [build[b] EXCEPT !.at = at, !.file = file]),
           TrustOK([build[b] EXCEPT !.at = at, !.file = file], staging, cache["archive"])
    PROVE  SourceInv'
<1> DEFINE B == [build[b] EXCEPT !.at = at, !.file = file]
<1>1. B \in BuildType /\ B.staged = build[b].staged /\ B.at = at
  BY Zenon, BuildIsOK DEF BuildType
<1>2. build' = [build EXCEPT ![b] = B] /\ BuildOK(b, B) /\ TrustOK(B, staging, cache["archive"])
  OBVIOUS
<1> HIDE DEF B
<1>3. HeldOK(B, staging)
  BY ZenonT(30), <1>1, BuildIsOK DEF HeldOK, Staged
<1> QED
  BY Zenon, <1>1, <1>2, <1>3, BuildIsOK, OneBuildMoves

\* A build that has an entry: what its record is then.
LEMMA HasEntryGives ==
    ASSUME SourceInv, NEW b \in Builds, NEW n \in Source!Names \cup {Source!NoName},
           Source!HasEntry(b, n)
    PROVE  \E B \in BuildType :
              /\ build' = [build EXCEPT ![b] = B]
              /\ B.at = Source!AfterEntry(b, build[b].file)
              /\ B.file = IF b \in Verifying THEN "signature" ELSE build[b].file
              /\ \A f \in Source!Files : B.staged[f] =
                    IF f = build[b].file THEN n ELSE build[b].staged[f]
<1> DEFINE f == build[b].file
           at == Source!AfterEntry(b, f)
           file == IF b \in Verifying THEN "signature" ELSE f
           staged == [build[b].staged EXCEPT ![f] = n]
           B == [build[b] EXCEPT !.staged = staged, !.at = at, !.file = file]
<1>1. f \in Source!Files /\ build[b] \in BuildType
  BY BuildIsOK
<1>2. at \in Source!Places /\ file \in Source!Files
  BY <1>1 DEF Source!AfterEntry, Source!Places, Source!Files
<1>3. staged \in [Source!Files -> Source!Names \cup {Source!NoName}]
      /\ \A g \in Source!Files : staged[g] = IF g = f THEN n ELSE build[b].staged[g]
  BY <1>1 DEF BuildType
<1>4. build' = [build EXCEPT ![b] = B]
  BY Zenon, <1>1 DEF Source!HasEntry, BuildType
<1> HIDE DEF at, file, staged
<1>5. B \in BuildType /\ B.at = at /\ B.file = file /\ B.staged = staged
  BY Zenon, <1>1, <1>2, <1>3 DEF BuildType
<1> HIDE DEF B
<1>6. \A g \in Source!Files : B.staged[g] = IF g = f THEN n ELSE build[b].staged[g]
  BY <1>3, <1>5
<1> QED
  BY Zenon, <1>4, <1>5, <1>6 DEF at, file

\* ... which is in order, if it was when the entry was looked up or written.
LEMMA HasEntryIsOK ==
    ASSUME SourceInv, Source!SourceAssumption, NEW b \in Builds, NEW B \in BuildType,
           build[b].at \in {"lookup", "write"},
           build[b].at = "lookup" => ~Staged(B, build[b].file),
           B.at = Source!AfterEntry(b, build[b].file),
           B.file = IF b \in Verifying THEN "signature" ELSE build[b].file,
           \A f \in Source!Files : B.staged[f] = build[b].staged[f]
    PROVE  BuildOK(b, B) /\ (\A S, C : TrustOK(B, S, C))
<1>1. BuildOK(b, build[b]) /\ build[b].file \in {"archive", "signature"}
  BY BuildIsOK DEF Source!Files
<1>2. /\ B.staged["archive"] = build[b].staged["archive"]
      /\ B.staged["signature"] = build[b].staged["signature"]
  BY DEF Source!Files
<1>3. CASE b \notin Verifying
  <2>1. B.at = "publish" /\ B.file = "archive" /\ build[b].file = "archive"
    BY <1>1, <1>3 DEF BuildOK, Source!AfterEntry
  <2>2. ~Staged(B, "signature")
    BY ZenonT(30), <1>1, <1>2, <2>1 DEF BuildOK, Staged
  <2> QED
    BY <1>3, <2>1, <2>2 DEF BuildOK, TrustOK, Staged
<1>4. CASE b \in Verifying /\ build[b].file = "archive"
  <2>1. B.at = "lookup" /\ B.file = "signature"
    BY <1>4 DEF Source!AfterEntry
  <2>2. ~Staged(B, "signature")
    BY ZenonT(30), <1>1, <1>2, <1>4 DEF BuildOK, Staged
  <2> QED
    BY <1>4, <2>1, <2>2 DEF BuildOK, TrustOK, Staged
<1>5. CASE b \in Verifying /\ build[b].file = "signature"
  <2>1. B.at = "verify" /\ B.file = "signature"
    BY <1>5 DEF Source!AfterEntry
  <2>2. Staged(B, "archive") => B.staged["archive"] # B.staged["signature"]
    BY ZenonT(30), <1>1, <1>2 DEF BuildOK, Staged
  <2> QED
    BY <1>5, <2>1, <2>2 DEF BuildOK, TrustOK
<1> QED
  BY <1>1, <1>3, <1>4, <1>5

\* Every system call of a build keeps the invariant: looking up and staging ...
LEMMA DownloadStep ==
    ASSUME Source!SourceAssumption, SourceInv, NEW b \in Builds,
           \/ Source!Start(b) \/ Source!Lookup(b) \/ Source!RemoveEmpty(b)
           \/ Source!CreateStaging(b) \/ Source!Write(b) \/ Source!WriteFails(b)
           \/ Source!FilesFail(b)
    PROVE  SourceInv'
<1> DEFINE R == build[b]
           f == R.file
<1>1. /\ R \in BuildType /\ BuildOK(b, R) /\ HeldOK(R, staging)
      /\ TrustOK(R, staging, cache["archive"]) /\ f \in Source!Files
      /\ output[b] \in DirType /\ OutputOK(output[b]) /\ output \in [Builds -> DirType]
      /\ faults \in 0..MaxFaults
      /\ \A g \in Source!Files : /\ R.staged[g] \in Source!Names \cup {Source!NoName}
                                 /\ R.staged[g] \notin left
  BY BuildIsOK
<1>2. /\ cache \in [Source!Files -> Source!Complete \cup {"none"}]
      /\ staging \in [Source!Names -> Source!Complete \cup {"none", "partial"}]
      /\ left \subseteq Source!Names /\ MaxFaults \in Nat /\ MaxName \in Nat
      /\ \A n \in left : staging[n] # "none"
  BY DEF SourceInv, Source!SourceAssumption
<1>3. CASE Source!Start(b)
  <2> DEFINE B == [Source!Fresh EXCEPT !.at = "lookup"]
  <2>1. /\ B \in BuildType /\ B.at = "lookup" /\ B.file = "archive"
        /\ \A g \in Source!Files : B.staged[g] = Source!NoName
    BY FreshIsEmpty DEF BuildType, Source!Places
  <2>2. /\ build' = [build EXCEPT ![b] = B] /\ UNCHANGED <<cache, staging, left, output, faults>>
        /\ R.at = "idle"
    BY <1>3 DEF Source!Start
  <2> HIDE DEF B
  <2>3. \A g \in Source!Files : B.staged[g] = R.staged[g] /\ ~Staged(B, g)
    BY ZenonT(30), <1>1, <2>1, <2>2 DEF BuildOK, Staged, Source!Files
  <2>4. BuildOK(b, B) /\ HeldOK(B, staging) /\ TrustOK(B, staging, cache["archive"])
    BY <2>1, <2>3 DEF BuildOK, HeldOK, TrustOK, Source!Files
  <2> QED
    BY Zenon, <1>1, <2>1, <2>2, <2>3, <2>4, OneBuildMoves
<1>4. CASE Source!Lookup(b)
  <2>1. R.at = "lookup" /\ UNCHANGED <<cache, staging, left, output, faults>>
    BY <1>4 DEF Source!Lookup
  <2>2. ASSUME NEW at \in {"create", "remove"}, Source!Goto(b, at) PROVE SourceInv'
    <3> DEFINE B == [R EXCEPT !.at = at, !.file = f]
    <3>1. build' = [build EXCEPT ![b] = B]
      BY Zenon, <1>1, <2>2 DEF Source!Goto, BuildType
    <3>2. B.at = at /\ B.file = f /\ B.staged = R.staged /\ at \in Source!Places
      BY SMTT(30), <1>1 DEF BuildType, Source!Places
    <3>3. BuildOK(b, B) /\ TrustOK(B, staging, cache["archive"])
      <4> HIDE DEF B
      <4> QED
        BY ZenonT(30), <1>1, <2>1, <3>2 DEF BuildOK, TrustOK, Staged
    <3> QED
      BY Zenon, <1>1, <2>1, <3>1, <3>2, <3>3, GotoHolds
  <2>3. CASE Source!HasEntry(b, Source!NoName)
    <3>1. PICK B \in BuildType :
              /\ build' = [build EXCEPT ![b] = B]
              /\ B.at = Source!AfterEntry(b, f)
              /\ B.file = IF b \in Verifying THEN "signature" ELSE f
              /\ \A g \in Source!Files : B.staged[g] =
                    IF g = f THEN Source!NoName ELSE R.staged[g]
      BY SMTT(30), <2>3, HasEntryGives
    <3>2. ~Staged(R, f) /\ \A g \in Source!Files : B.staged[g] = R.staged[g]
      BY ZenonT(30), <1>1, <2>1, <3>1 DEF BuildOK, Staged
    <3>3. BuildOK(b, B) /\ TrustOK(B, staging, cache["archive"])
      BY ZenonT(30), <1>1, <2>1, <3>1, <3>2, HasEntryIsOK DEF Staged
    <3>4. HeldOK(B, staging) /\ B.at # "done"
      BY ZenonT(30), <1>1, <2>1, <3>1, <3>2 DEF HeldOK, Staged, Source!AfterEntry
    <3> QED
      BY ZenonT(30), <1>1, <2>1, <3>1, <3>2, <3>3, <3>4, OneBuildMoves
  <2> QED
    BY <1>4, <2>2, <2>3 DEF Source!Lookup
<1>5. CASE Source!RemoveEmpty(b)
  <2>1. R.at = "remove" /\ UNCHANGED <<left, output, faults>>
    BY <1>5 DEF Source!RemoveEmpty
  <2>2. CASE Source!Fail(b) /\ UNCHANGED cache
    BY <1>1, <2>1, <2>2, FailHolds
  <2>3. CASE /\ cache' = [cache EXCEPT ![f] = "none"]
             /\ Source!Goto(b, "create") /\ UNCHANGED staging
    <3> DEFINE B == [R EXCEPT !.at = "create"]
    <3>1. build' = [build EXCEPT ![b] = B]
      BY <1>1, <2>3 DEF Source!Goto
    <3>2. B \in BuildType /\ B.at = "create" /\ B.file = f /\ B.staged = R.staged
      BY <1>1 DEF BuildType, Source!Places
    <3>3. /\ cache' \in [Source!Files -> Source!Complete \cup {"none"}]
          /\ cache'["archive"] \in {cache["archive"], "none"}
      BY ZenonT(30), <1>1, <1>2, <2>3 DEF Source!Files
    <3> HIDE DEF B
    <3>4. BuildOK(b, B) /\ HeldOK(B, staging') /\ TrustOK(B, staging', cache'["archive"])
      BY ZenonT(30), <1>1, <2>1, <2>3, <3>2 DEF BuildOK, HeldOK, TrustOK, Staged
    <3> QED
      BY Zenon, <1>1, <1>2, <2>1, <2>3, <3>1, <3>2, <3>3, <3>4, OneBuild
  <2> QED
    BY <1>5, <2>2, <2>3 DEF Source!RemoveEmpty
<1>6. CASE Source!CreateStaging(b)
  <2> DEFINE n == <<f, R.next>>
  <2>1. R.at = "create" /\ UNCHANGED <<cache, left, output, faults>>
    BY ZenonT(30), <1>6 DEF Source!CreateStaging
  <2>2. CASE Source!Fail(b)
    BY <1>1, <2>1, <2>2, FailHolds
  <2>3. CASE ~(R.next > MaxName) /\ build' = [build EXCEPT ![b].next = @ + 1] /\ UNCHANGED staging
    <3> DEFINE B == [R EXCEPT !.next = R.next + 1]
    <3>1. R.next \in 0..(MaxName + 1) /\ R.next + 1 \in 0..(MaxName + 1)
      BY <1>1, <1>2, <2>3 DEF BuildType
    <3>2. build' = [build EXCEPT ![b] = B] /\ B \in BuildType
      BY <1>1, <2>3, <3>1 DEF BuildType
    <3>3. B.at = R.at /\ B.file = R.file /\ B.staged = R.staged /\ B.tree = R.tree
      BY SMTT(30), <1>1 DEF BuildType
    <3> HIDE DEF B
    <3>4. BuildOK(b, B) /\ HeldOK(B, staging) /\ TrustOK(B, staging, cache["archive"])
      <4>1. BuildOK(b, R) /\ HeldOK(R, staging) /\ TrustOK(R, staging, cache["archive"])
        BY <1>1
      <4> QED
        BY <3>3, <4>1 DEF BuildOK, HeldOK, TrustOK, Staged
    <3> QED
      BY Zenon, <1>1, <2>1, <2>3, <3>2, <3>3, <3>4, OneBuildMoves
  <2>4. CASE /\ ~(R.next > MaxName) /\ Source!Free(n)
             /\ staging' = [staging EXCEPT ![n] = "partial"]
             /\ build' = [build EXCEPT ![b].staged[f] = n, ![b].next = @ + 1,
                                       ![b].at = "write"]
    <3> DEFINE staged == [R.staged EXCEPT ![f] = n]
               B == [R EXCEPT !.staged = staged, !.next = R.next + 1, !.at = "write"]
    <3>1. R.next \in 0..MaxName /\ R.next + 1 \in 0..(MaxName + 1)
      BY <1>1, <1>2, <2>4 DEF BuildType
    <3>2. n \in Source!Names /\ n # Source!NoName /\ staging[n] = "none" /\ n \notin left
      BY ZenonT(30), <1>1, <1>2, <2>4, <3>1, NoNameIsNone DEF Source!Names, Source!Free
    <3>3. build' = [build EXCEPT ![b] = B]
      BY ZenonT(30), <1>1, <2>4 DEF BuildType
    <3> HIDE DEF n
    <3>4. /\ staged \in [Source!Files -> Source!Names \cup {Source!NoName}] /\ staged[f] = n
          /\ \A g \in Source!Files : g # f => staged[g] = R.staged[g]
      BY <1>1, <3>2 DEF BuildType
    <3> HIDE DEF staged
    <3>5. B \in BuildType /\ B.at = "write" /\ B.file = f /\ B.staged = staged
      BY ZenonT(30), <1>1, <3>1, <3>4 DEF BuildType, Source!Places
    <3> HIDE DEF B
    <3>6. /\ staging' \in [Source!Names -> Source!Complete \cup {"none", "partial"}]
          /\ staging'[n] = "partial"
          /\ \A m \in Source!Names : m # n => staging'[m] = staging[m]
      BY ZenonT(30), <1>2, <2>4, <3>2
    <3>7. \A g \in Source!Files : g # f /\ Staged(R, g) => R.staged[g] # n
      BY ZenonT(30), <1>1, <3>2 DEF HeldOK
    <3>8. BuildOK(b, B)
      BY ZenonT(30), <1>1, <2>1, <3>2, <3>4, <3>5, <3>7 DEF BuildOK, Staged, Source!Files
    <3>9. HeldOK(B, staging') /\ TrustOK(B, staging', cache'["archive"])
      BY SMTT(30), <1>1, <2>1, <3>2, <3>4, <3>5, <3>6, <3>7 DEF HeldOK, TrustOK, Staged
    <3>10. /\ \A m \in Source!Names : staging'[m] = staging[m] \/
                  \E g \in Source!Files : m = R.staged[g] \/ m = B.staged[g]
           /\ \A g \in Source!Files : Staged(B, g) =>
                  B.staged[g] = R.staged[g] \/ staging[B.staged[g]] = "none"
           /\ \A g \in Source!Files : B.staged[g] \notin left'
           /\ \A g \in Source!Files : Staged(R, g) => B.staged[g] = R.staged[g]
      BY ZenonT(30), <1>1, <2>1, <3>2, <3>4, <3>5, <3>6 DEF BuildOK, Staged
    <3> QED
      BY Zenon, <1>1, <1>2, <2>1, <3>3, <3>5, <3>6, <3>8, <3>9, <3>10, OneBuild
  <2> QED
    BY Zenon, <1>6, <2>2, <2>3, <2>4 DEF Source!CreateStaging
<1>7. CASE Source!Write(b)
  <2> DEFINE n == R.staged[f]
  <2>1. PICK c \in Source!Complete :
            /\ R.at = "write" /\ UNCHANGED <<cache, left, output>>
            /\ c = "good" \/ faults < MaxFaults
            /\ staging' = [staging EXCEPT ![n] = c]
            /\ faults' = IF c = "good" THEN faults ELSE faults + 1
            /\ Source!HasEntry(b, n)
    BY Zenon, <1>7 DEF Source!Write
  <2>2. n \in Source!Names /\ Staged(R, f)
    BY ZenonT(30), <1>1, <2>1 DEF BuildOK, Staged
  <2>3. PICK B \in BuildType :
            /\ build' = [build EXCEPT ![b] = B]
            /\ B.at = Source!AfterEntry(b, f)
            /\ B.file = IF b \in Verifying THEN "signature" ELSE f
            /\ \A g \in Source!Files : B.staged[g] = IF g = f THEN n ELSE R.staged[g]
    BY <2>1, <2>2, HasEntryGives
  <2>4. \A g \in Source!Files : B.staged[g] = R.staged[g]
    BY SMTT(30), <2>3
  <2>5. BuildOK(b, B) /\ TrustOK(B, staging', cache'["archive"])
    BY ZenonT(30), <2>1, <2>3, <2>4, HasEntryIsOK
  <2>6. /\ staging' \in [Source!Names -> Source!Complete \cup {"none", "partial"}]
        /\ staging'[n] = c /\ c # "none"
        /\ \A m \in Source!Names : m # n => staging'[m] = staging[m]
    BY ZenonT(30), <1>2, <2>1, <2>2 DEF Source!Complete
  <2>7. HeldOK(B, staging')
    <3>1. HeldOK(R, staging) /\ R.at = "write"
      BY Zenon, <1>1, <2>1
    <3>2. c \in Source!Complete /\ \A g \in Source!Files : Staged(R, g) => R.staged[g] \in Source!Names
      BY Zenon, <1>1, <2>1 DEF Staged
    <3> QED
      BY <2>4, <2>6, <3>1, <3>2 DEF HeldOK, Staged
  <2>8. faults' \in 0..MaxFaults /\ B.at # "done"
    <3>1. faults \in 0..MaxFaults /\ MaxFaults \in Nat
      BY <1>1, <1>2
    <3>2. c = "good" \/ faults < MaxFaults
      BY Zenon, <2>1
    <3>3. faults' = IF c = "good" THEN faults ELSE faults + 1
      BY Zenon, <2>1
    <3>4. B.at # "done"
      BY Zenon, <2>3 DEF Source!AfterEntry
    <3> QED
      BY <3>1, <3>2, <3>3, <3>4
  <2>9. \A m \in Source!Names : staging'[m] = staging[m] \/
            \E g \in Source!Files : m = R.staged[g] \/ m = B.staged[g]
    BY ZenonT(30), <1>1, <2>6
  <2> QED
    BY ZenonT(30), <1>1, <1>2, <2>1, <2>3, <2>4, <2>5, <2>6, <2>7, <2>8, <2>9, OneBuild
<1>8. CASE Source!WriteFails(b)
  <2>1. faults' \in 0..MaxFaults
    BY <1>1, <1>2, <1>8 DEF Source!WriteFails
  <2> QED
    BY <1>8, <2>1, FailHolds DEF Source!WriteFails, Source!Interrupted
<1>9. CASE Source!FilesFail(b)
  <2>1. faults' \in 0..MaxFaults
    BY <1>1, <1>2, <1>9 DEF Source!FilesFail
  <2> QED
    BY <1>9, <2>1, FailHolds DEF Source!FilesFail
<1> QED
  BY <1>3, <1>4, <1>5, <1>6, <1>7, <1>8, <1>9

\* ... verifying, publishing and removing ...
LEMMA PublishStep ==
    ASSUME Source!SourceAssumption, SourceInv, NEW b \in Builds,
           \/ Source!Verify(b) \/ Source!ImportFails(b)
           \/ Source!Undo(b) \/ Source!Publish(b)
    PROVE  SourceInv'
<1> DEFINE R == build[b]
           f == R.file
           n == R.staged[f]
<1>1. /\ R \in BuildType /\ BuildOK(b, R) /\ HeldOK(R, staging)
      /\ TrustOK(R, staging, cache["archive"]) /\ f \in Source!Files
      /\ output[b] \in DirType /\ OutputOK(output[b]) /\ output \in [Builds -> DirType]
      /\ faults \in 0..MaxFaults
      /\ \A g \in Source!Files : /\ R.staged[g] \in Source!Names \cup {Source!NoName}
                                 /\ R.staged[g] \notin left
  BY BuildIsOK
<1>2. /\ cache \in [Source!Files -> Source!Complete \cup {"none"}]
      /\ staging \in [Source!Names -> Source!Complete \cup {"none", "partial"}]
      /\ left \subseteq Source!Names /\ MaxFaults \in Nat /\ Source!NoName \notin left
  BY NoNameIsNone DEF SourceInv, Source!SourceAssumption
<1>3. CASE Source!Verify(b) \/ Source!ImportFails(b)
  <2>1. PICK at \in {"publish", "undo"} :
            /\ R.at = "verify" /\ UNCHANGED <<cache, staging, left, output>>
            /\ build' = [build EXCEPT ![b] = [R EXCEPT !.at = at, !.file = "archive"]]
            /\ at = "publish" => Source!Accepts(b)
            /\ faults' \in 0..MaxFaults
    <3>1. CASE Source!Verify(b)
      BY Zenon, <1>1, <3>1 DEF Source!Verify
    <3>2. CASE Source!ImportFails(b)
      <4>1. faults' \in 0..MaxFaults
        BY <1>1, <1>2, <3>2 DEF Source!ImportFails
      <4>2. /\ R.at = "verify" /\ UNCHANGED <<cache, staging, left, output>>
            /\ build' = [build EXCEPT ![b] = [R EXCEPT !.at = "undo", !.file = "archive"]]
        BY Zenon, <3>2 DEF Source!ImportFails
      <4> QED
        BY <4>1, <4>2
    <3> QED
      BY <1>3, <3>1, <3>2
  <2> DEFINE B == [R EXCEPT !.at = at, !.file = "archive"]
  <2>2. B.at = at /\ B.file = "archive" /\ B.staged = R.staged /\ at \in Source!Places
    BY <1>1 DEF BuildType, Source!Places
  <2>3. BuildOK(b, B)
    <3> HIDE DEF B
    <3> QED
      BY ZenonT(30), <1>1, <2>1, <2>2 DEF BuildOK, Staged
  <2>4. TrustOK(B, staging, cache["archive"])
    <3> HIDE DEF B
    <3> QED
      BY <2>1, <2>2 DEF TrustOK, Staged, Source!Accepts, Source!Content
  <2> QED
    BY Zenon, <1>1, <2>1, <2>2, <2>3, <2>4, GotoHolds DEF Source!Files
<1>4. CASE Source!Undo(b)
  <2>1. /\ R.at = "undo" /\ UNCHANGED <<left, output, faults>>
        /\ cache' = [cache EXCEPT ![f] = "none"]
    BY ZenonT(30), <1>4 DEF Source!Undo, Source!Undone
  <2>2. CASE f = "archive"
    <3> DEFINE staged == [R.staged EXCEPT !["archive"] = Source!NoName]
               B == [R EXCEPT !.file = "signature", !.staged = staged]
    <3>1. /\ staging' = [m \in Source!Names |-> IF m = n THEN "none" ELSE staging[m]]
          /\ build' = [build EXCEPT ![b] = B]
      BY Zenon, <1>1, <1>4, <2>2 DEF Source!Undo, BuildType
    <3>2. /\ staged \in [Source!Files -> Source!Names \cup {Source!NoName}]
          /\ staged["archive"] = Source!NoName /\ staged["signature"] = R.staged["signature"]
      BY <1>1 DEF BuildType, Source!Files
    <3> HIDE DEF staged
    <3>3. B \in BuildType /\ B.at = "undo" /\ B.file = "signature" /\ B.staged = staged
      BY ZenonT(30), <1>1, <2>1, <3>2 DEF BuildType, Source!Files
    <3> HIDE DEF B
    <3>4. /\ cache' \in [Source!Files -> Source!Complete \cup {"none"}]
          /\ cache'["archive"] = "none"
          /\ staging' \in [Source!Names -> Source!Complete \cup {"none", "partial"}]
          /\ \A m \in Source!Names : staging'[m] = IF m = n THEN "none" ELSE staging[m]
      BY <1>2, <2>1, <2>2, <3>1 DEF Source!Files
    <3>5. BuildOK(b, B) /\ TrustOK(B, staging', cache'["archive"])
      BY ZenonT(30), <1>1, <2>1, <3>2, <3>3 DEF BuildOK, TrustOK, Staged
    <3>6. HeldOK(B, staging')
      BY SMTT(30), <1>1, <2>1, <2>2, <3>2, <3>3, <3>4 DEF HeldOK, BuildOK, Staged, Source!Files
    <3>7. /\ \A m \in Source!Names : staging'[m] = staging[m] \/
                 \E g \in Source!Files : m = R.staged[g] \/ m = B.staged[g]
          /\ \A g \in Source!Files : Staged(B, g) => B.staged[g] = R.staged[g]
          /\ \A g \in Source!Files : B.staged[g] \notin left'
          /\ \A g \in Source!Files : Staged(R, g) =>
                 B.staged[g] = R.staged[g] \/ staging'[R.staged[g]] = "none"
      BY <1>1, <1>2, <2>1, <2>2, <3>2, <3>3, <3>4 DEF Staged, Source!Files
    <3> QED
      BY ZenonT(30), <1>1, <1>2, <2>1, <3>1, <3>3, <3>4, <3>5, <3>6, <3>7, OneBuild
  <2>3. CASE f # "archive"
    <3>1. Source!Fail(b)
      BY <1>4, <2>3 DEF Source!Undo
    <3> QED
      BY Zenon, <1>1, <2>1, <3>1, FailHolds
  <2> QED
    BY <2>2, <2>3
<1>5. CASE Source!Publish(b)
  <2> DEFINE last == f = "signature" \/ b \notin Verifying
             at == IF last THEN "check" ELSE "publish"
             staged == [R.staged EXCEPT ![f] = Source!NoName]
             B == [R EXCEPT !.staged = staged, !.file = "signature", !.at = at]
  <2>1. R.at = "publish" /\ UNCHANGED <<left, output, faults>>
    BY ZenonT(30), <1>5 DEF Source!Publish
  <2>2. build' = [build EXCEPT ![b] = B]
    BY ZenonT(30), <1>1, <1>5 DEF Source!Publish, BuildType
  <2>3. /\ staged \in [Source!Files -> Source!Names \cup {Source!NoName}]
        /\ \A g \in Source!Files : staged[g] = IF g = f THEN Source!NoName ELSE R.staged[g]
    BY Zenon, <1>1 DEF BuildType
  <2>4. at \in Source!Places /\ at \in {"check", "publish"}
    BY DEF Source!Places
  <2>5. at = "check" => f = "signature" \/ b \notin Verifying
    OBVIOUS
  <2>6. at = "publish" => f = "archive" /\ b \in Verifying
    BY <1>1 DEF Source!Files
  <2> HIDE DEF staged, at
  <2>7. B \in BuildType /\ B.at = at /\ B.file = "signature" /\ B.staged = staged
    BY Zenon, <1>1, <2>3, <2>4 DEF BuildType, Source!Files
  <2> HIDE DEF B
  <2>8. f \in {"archive", "signature"}
    BY SMTT(30), <1>1 DEF Source!Files
  <2>9. staged["archive"] = Source!NoName
    BY ZenonT(30), <1>1, <2>1, <2>3, <2>8 DEF BuildOK, Staged, Source!Files
  <2>10. at = "check" => staged["signature"] = Source!NoName
    BY ZenonT(30), <1>1, <2>1, <2>3, <2>5, <2>8 DEF BuildOK, Staged, Source!Files
  <2>11. BuildOK(b, B)
    BY SMTT(30), <2>4, <2>6, <2>7, <2>9, <2>10 DEF BuildOK, Staged
  <2>12. \A g \in Source!Files : /\ Staged(B, g) => B.staged[g] = R.staged[g]
                                 /\ B.staged[g] \notin left'
    BY <1>1, <1>2, <2>1, <2>3, <2>7 DEF Staged
  <2>13. CASE n = Source!NoName
    <3>1. UNCHANGED <<cache, staging>>
      BY <1>5, <2>13 DEF Source!Publish
    <3>2. \A g \in Source!Files : B.staged[g] = R.staged[g]
      BY SMTT(30), <2>3, <2>7, <2>13
    <3>3. HeldOK(B, staging)
      BY ZenonT(30), <1>1, <2>1, <3>2 DEF HeldOK, Staged
    <3>4. TrustOK(B, staging, cache["archive"])
      BY <1>1, <2>1, <2>4, <2>7, <2>8, <2>13 DEF TrustOK, Staged
    <3> QED
      BY ZenonT(30), <1>1, <2>1, <2>2, <2>4, <2>7, <2>11, <3>1, <3>2, <3>3, <3>4, OneBuildMoves
  <2>14. CASE n # Source!NoName
    <3>1. /\ cache' = [cache EXCEPT ![f] = staging[n]]
          /\ staging' = [staging EXCEPT ![n] = "none"]
      BY ZenonT(30), <1>5, <2>14 DEF Source!Publish
    <3>2. n \in Source!Names /\ staging[n] \in Source!Complete
      BY ZenonT(30), <1>1, <2>1, <2>14 DEF HeldOK, Staged
    <3>3. /\ cache' \in [Source!Files -> Source!Complete \cup {"none"}]
          /\ cache'["archive"] = IF f = "archive" THEN staging[n] ELSE cache["archive"]
          /\ staging' \in [Source!Names -> Source!Complete \cup {"none", "partial"}]
          /\ \A m \in Source!Names : staging'[m] = IF m = n THEN "none" ELSE staging[m]
      BY ZenonT(30), <1>1, <1>2, <3>1, <3>2 DEF Source!Files
    <3>4. Verifying = Builds => cache'["archive"] \in {"good", "none"}
      BY ZenonT(30), <1>1, <2>1, <2>8, <2>14, <3>3 DEF TrustOK, Staged
    <3>5. TrustOK(B, staging', cache'["archive"])
      BY SMTT(30), <2>4, <2>7, <3>4 DEF TrustOK
    <3>6. ASSUME NEW g \in Source!Files, Staged(B, g)
          PROVE  g # f /\ B.staged[g] = R.staged[g] /\ B.staged[g] # n
                 /\ B.staged[g] \in Source!Names
      BY ZenonT(30), <1>1, <2>3, <2>7, <2>8, <2>14, <3>6 DEF BuildOK, Staged, Source!Files
    <3>7. HeldOK(B, staging')
      <4>1. HeldOK(R, staging) /\ R.at # "write"
        BY Zenon, <1>1, <2>1
      <4>2. ASSUME NEW g \in Source!Files, Staged(B, g)
            PROVE  staging'[B.staged[g]] = staging[R.staged[g]] /\ Staged(R, g)
        BY Zenon, <3>3, <3>6, <4>2 DEF Staged
      <4> QED
        BY Zenon, <4>1, <4>2 DEF HeldOK
    <3>8. \A m \in Source!Names : staging'[m] = staging[m] \/
              \E g \in Source!Files : m = R.staged[g] \/ m = B.staged[g]
      BY ZenonT(30), <1>1, <3>3
    <3>9. \A g \in Source!Files : Staged(R, g) =>
              B.staged[g] = R.staged[g] \/ staging'[R.staged[g]] = "none"
      BY ZenonT(30), <2>3, <2>7, <3>2, <3>3
    <3> QED
      BY ZenonT(30), <1>1, <1>2, <2>1, <2>2, <2>4, <2>7, <2>11, <2>12, <3>3, <3>4, <3>5, <3>7,
         <3>8, <3>9, OneBuild
  <2> QED
    BY SMTT(30), <2>13, <2>14
<1> QED
  BY <1>3, <1>4, <1>5

\* ... extracting, and a crash.
LEMMA ExtractStep ==
    ASSUME Source!SourceAssumption, SourceInv, NEW b \in Builds,
           \/ Source!Check(b) \/ Source!Clear(b) \/ Source!Unpack(b) \/ Source!Mark(b)
           \/ Source!Rename(b) \/ Source!Again(b) \/ Source!Crash(b)
    PROVE  SourceInv'
<1> DEFINE R == build[b]
<1>1. /\ R \in BuildType /\ BuildOK(b, R) /\ HeldOK(R, staging)
      /\ TrustOK(R, staging, cache["archive"]) /\ R.file \in Source!Files
      /\ output[b] \in DirType /\ OutputOK(output[b]) /\ output \in [Builds -> DirType]
      /\ faults \in 0..MaxFaults /\ R.tree \in DirType
      /\ \A g \in Source!Files : /\ R.staged[g] \in Source!Names \cup {Source!NoName}
                                 /\ R.staged[g] \notin left
  BY SMTT(30), BuildIsOK DEF BuildType
<1>2. /\ cache \in [Source!Files -> Source!Complete \cup {"none"}]
      /\ staging \in [Source!Names -> Source!Complete \cup {"none", "partial"}]
      /\ left \subseteq Source!Names /\ MaxFaults \in Nat /\ Source!NoName \notin left
  BY NoNameIsNone DEF SourceInv, Source!SourceAssumption
\* A step of a build that has nothing staged.
<1>3. ASSUME NEW B \in BuildType, build' = [build EXCEPT ![b] = B],
             UNCHANGED <<cache, staging, left, faults>>,
             R.at \in {"failed", "done", "check", "clear", "unpack", "mark", "rename"},
             \A g \in Source!Files : B.staged[g] = R.staged[g],
             B.at \in {"idle", "done", "clear", "unpack", "mark", "rename"},
             B.at \in {"mark", "rename"} => B.tree.tree \in {"good", "bad"} /\
                 (Verifying = Builds => B.tree.tree = "good"),
             B.at = "rename" => B.tree.marked,
             B.at \in {"clear", "unpack"} => R.at \in {"check", "clear"},
             output' \in [Builds -> DirType],
             \A a \in Builds \ {b} : output'[a] = output[a],
             OutputOK(output'[b]), B.at = "done" => output'[b].marked
      PROVE  SourceInv'
  <2>1. \A g \in Source!Files : ~Staged(R, g) /\ ~Staged(B, g)
    BY ZenonT(30), <1>1, <1>3 DEF BuildOK, Staged, Source!Files
  <2>2. BuildOK(b, B) /\ HeldOK(B, staging)
    BY ZenonT(30), <1>3, <2>1 DEF BuildOK, HeldOK, Source!Files
  <2>3. TrustOK(B, staging, cache["archive"])
    BY ZenonT(30), <1>1, <1>3, <2>1 DEF TrustOK, Source!Files
  <2> QED
    BY ZenonT(30), <1>1, <1>3, <2>2, <2>3, OneBuildMoves
<1>4. CASE Source!Check(b)
  <2> DEFINE at == IF Source!CompletedExtraction(output[b]) THEN "done" ELSE "clear"
             B == [R EXCEPT !.at = at]
  <2>1. at \in {"done", "clear"} /\ at \in Source!Places /\ (at = "done" => output[b].marked)
    BY DEF Source!Places, Source!CompletedExtraction
  <2>2. /\ build' = [build EXCEPT ![b] = B] /\ R.at = "check"
        /\ UNCHANGED <<cache, staging, left, output, faults>>
    BY <1>4 DEF Source!Check, Source!Goto
  <2> HIDE DEF at
  <2>3. B \in BuildType /\ B.at = at /\ B.staged = R.staged
    BY <1>1, <2>1 DEF BuildType
  <2> HIDE DEF B
  <2> QED
    BY Zenon, <1>1, <1>3, <2>1, <2>2, <2>3
<1>5. CASE Source!Clear(b)
  <2> DEFINE D == Source!Dir("partial", FALSE)
             B == [R EXCEPT !.at = "unpack", !.tree = D]
  <2>1. /\ D \in DirType /\ Source!Nothing \in DirType /\ OutputOK(Source!Nothing)
    BY DEF DirType, Source!Dir, Source!Nothing, OutputOK
  <2>2. /\ build' = [build EXCEPT ![b] = B] /\ R.at = "clear"
        /\ output' = [output EXCEPT ![b] = Source!Nothing]
        /\ UNCHANGED <<cache, staging, left, faults>>
    BY Zenon, <1>5 DEF Source!Clear
  <2> HIDE DEF D
  <2>3. B \in BuildType /\ B.at = "unpack" /\ B.staged = R.staged
    BY ZenonT(30), <1>1, <2>1 DEF BuildType, Source!Places
  <2> HIDE DEF B
  <2>4. /\ output' \in [Builds -> DirType] /\ OutputOK(output'[b])
        /\ \A a \in Builds \ {b} : output'[a] = output[a]
    BY <1>1, <2>1, <2>2
  <2> QED
    BY Zenon, <1>1, <1>3, <2>2, <2>3, <2>4
<1>6. CASE Source!Unpack(b)
  <2>1. R.at = "unpack" /\ UNCHANGED <<cache, left, output, faults>>
    BY SMTT(30), <1>6 DEF Source!Unpack
  <2>2. CASE Source!Fail(b)
    BY <1>1, <2>1, <2>2, FailHolds
  <2>3. CASE /\ cache["archive"] \in {"good", "bad"} /\ UNCHANGED staging
             /\ build' = [build EXCEPT ![b].at = "mark", ![b].tree.tree = cache["archive"]]
    <3> DEFINE D == [R.tree EXCEPT !.tree = cache["archive"]]
               B == [R EXCEPT !.at = "mark", !.tree = D]
    <3>1. D \in DirType /\ D.tree = cache["archive"]
      BY <1>1, <2>3 DEF DirType
    <3>2. build' = [build EXCEPT ![b] = B]
      BY Zenon, <1>1, <2>3 DEF BuildType
    <3> HIDE DEF D
    <3>3. B \in BuildType /\ B.at = "mark" /\ B.staged = R.staged /\ B.tree = D
      BY Zenon, <1>1, <3>1 DEF BuildType, Source!Places
    <3> HIDE DEF B
    <3>4. Verifying = Builds => cache["archive"] = "good"
      BY <1>1, <2>1, <2>3 DEF TrustOK
    <3> QED
      BY Zenon, <1>1, <1>3, <2>1, <2>3, <3>1, <3>2, <3>3, <3>4
  <2> QED
    BY <1>6, <2>2, <2>3 DEF Source!Unpack
<1>7. CASE Source!Mark(b)
  <2> DEFINE D == [R.tree EXCEPT !.marked = TRUE]
             B == [R EXCEPT !.at = "rename", !.tree = D]
  <2>1. D \in DirType /\ D.tree = R.tree.tree /\ D.marked
    BY Zenon, <1>1 DEF DirType
  <2>2. /\ build' = [build EXCEPT ![b] = B] /\ R.at = "mark"
        /\ UNCHANGED <<cache, staging, left, output, faults>>
    BY ZenonT(30), <1>1, <1>7 DEF Source!Mark, BuildType
  <2> HIDE DEF D
  <2>3. B \in BuildType /\ B.at = "rename" /\ B.staged = R.staged /\ B.tree = D
    BY ZenonT(30), <1>1, <2>1 DEF BuildType, Source!Places
  <2> HIDE DEF B
  <2>4. R.tree.tree \in {"good", "bad"} /\ (Verifying = Builds => R.tree.tree = "good")
    BY ZenonT(30), <1>1, <2>2 DEF BuildOK, TrustOK
  <2> QED
    BY Zenon, <1>1, <1>3, <2>1, <2>2, <2>3, <2>4
<1>8. CASE Source!Rename(b)
  <2> DEFINE B == [Source!Fresh EXCEPT !.at = "done"]
  <2>1. /\ B \in BuildType /\ B.at = "done"
        /\ \A g \in Source!Files : B.staged[g] = Source!NoName
    BY FreshIsEmpty DEF BuildType, Source!Places
  <2>2. /\ build' = [build EXCEPT ![b] = B] /\ R.at = "rename"
        /\ output' = [output EXCEPT ![b] = R.tree]
        /\ UNCHANGED <<cache, staging, left, faults>>
    BY <1>8 DEF Source!Rename
  <2> HIDE DEF B
  <2>3. OutputOK(R.tree) /\ R.tree.marked
    BY ZenonT(30), <1>1, <2>2 DEF BuildOK, TrustOK, OutputOK
  <2>4. /\ output' \in [Builds -> DirType] /\ output'[b] = R.tree
        /\ \A a \in Builds \ {b} : output'[a] = output[a]
    BY ZenonT(30), <1>1, <2>2
  <2>5. \A g \in Source!Files : B.staged[g] = R.staged[g]
    BY ZenonT(30), <1>1, <2>1, <2>2 DEF BuildOK, Staged, Source!Files
  <2> QED
    BY Zenon, <1>3, <2>1, <2>2, <2>3, <2>4, <2>5
<1>9. CASE Source!Again(b)
  <2>1. /\ build' = [build EXCEPT ![b] = Source!Fresh] /\ R.at \in {"failed", "done"}
        /\ UNCHANGED <<cache, staging, left, output, faults>>
    BY <1>9 DEF Source!Again
  <2>2. \A g \in Source!Files : Source!Fresh.staged[g] = R.staged[g]
    BY ZenonT(30), <1>1, <2>1, FreshIsEmpty DEF BuildOK, Staged, Source!Files
  <2> QED
    BY Zenon, <1>1, <1>3, <2>1, <2>2, FreshIsEmpty
<1>10. CASE Source!Crash(b)
  <2> DEFINE B == Source!Fresh
  <2>1. /\ build' = [build EXCEPT ![b] = B] /\ left' = left \cup Source!Owned(b)
        /\ UNCHANGED <<cache, staging>> /\ faults' \in 0..MaxFaults
    BY <1>1, <1>2, <1>10 DEF Source!Crash
  <2>2. /\ B \in BuildType /\ B.at = "idle"
        /\ \A g \in Source!Files : B.staged[g] = Source!NoName
    BY FreshIsEmpty
  <2> HIDE DEF B
  <2>3. \A n : n \in Source!Owned(b) <=>
            \E g \in Source!Files : Staged(R, g) /\ n = R.staged[g]
    BY SMTT(30) DEF Source!Owned, Staged
  <2>4. /\ left' \subseteq Source!Names /\ left \subseteq left'
        /\ Source!NoName \notin left'
        /\ \A n \in left' : n \in left \/
              (staging'[n] # "none" /\ \E g \in Source!Files : n = R.staged[g])
        /\ \A g \in Source!Files : Staged(R, g) => R.staged[g] \in left'
    BY SMTT(30), <1>1, <1>2, <2>1, <2>3, NoNameIsNone DEF HeldOK, Staged
  <2>5. \A g \in Source!Files : ~Staged(B, g) /\ B.staged[g] \notin left'
    BY SMTT(30), <2>2, <2>4 DEF Staged
  <2>6. BuildOK(b, B) /\ HeldOK(B, staging') /\ TrustOK(B, staging', cache'["archive"])
    BY <2>2, <2>5 DEF BuildOK, HeldOK, TrustOK, Source!Files
  <2>7. /\ output' \in [Builds -> DirType] /\ OutputOK(output'[b])
        /\ \A a \in Builds \ {b} : output'[a] = output[a]
    <3>1. output' = output \/ output' = [output EXCEPT ![b] = Source!Dir("partial", FALSE)]
      BY Zenon, <1>10 DEF Source!Crash
    <3>2. /\ Source!Dir("partial", FALSE) \in DirType
          /\ OutputOK(Source!Dir("partial", FALSE))
      BY DEF Source!Dir, DirType, OutputOK
    <3> QED
      BY Zenon, <1>1, <3>1, <3>2
  <2> QED
    BY ZenonT(30), <1>2, <2>1, <2>2, <2>4, <2>5, <2>6, <2>7, OneBuild
<1> QED
  BY SMTT(30), <1>4, <1>5, <1>6, <1>7, <1>8, <1>9, <1>10

\* The inductive invariant holds in every state.
LEMMA SourceInvariant == Source!SourceAssumption => (Source!Spec => []SourceInv)
<1> SUFFICES ASSUME Source!SourceAssumption PROVE Source!Spec => []SourceInv
  OBVIOUS
<1>1. Source!Init => SourceInv
  BY SourceInitHolds
<1>2. SourceInv /\ [Source!Next]_Source!vars => SourceInv'
  <2> SUFFICES ASSUME SourceInv, [Source!Next]_Source!vars PROVE SourceInv'
    OBVIOUS
  <2>1. CASE UNCHANGED Source!vars
    BY <2>1 DEF Source!vars, SourceInv
  <2>2. CASE Source!Next
    BY <2>2, DownloadStep, PublishStep, ExtractStep DEF Source!Next, Source!Step
  <2> QED
    BY <2>1, <2>2
<1> QED
  BY <1>1, <1>2, PTL DEF Source!Spec

\* Any number of builds share the cache directory and any of them may be killed
\* between two system calls: a staging file is of one build at most, and only a
\* crash leaves it behind; a completed extraction is whole; and if all builds
\* verify, it is of the archive that was signed, although that is opened after
\* it was verified (nginx-src/src/download.rs).
THEOREM SourceAlwaysExact ==
    Source!SourceAssumption => (Source!Spec => []Source!SourceExact)
<1> SUFFICES ASSUME Source!SourceAssumption PROVE Source!Spec => []Source!SourceExact
  OBVIOUS
<1> QED
  BY SourceIsExact, SourceInvariant, PTL

(***************************************************************************)
(* UpstreamPeer.                                                           *)
(***************************************************************************)
CONSTANTS N, Provided, MaxGeneration
VARIABLES sel, frames, native, nginx

Peer == INSTANCE UpstreamPeer

\* PeerSelectionState, a running getter, and what the balancer holds.
Selection == [generation : 0..MaxGeneration, active : 0..MaxGeneration]
Frame == [handler : Peer!Handlers, outcome : {"not_called", "selected", "unselected"},
          token : 0..MaxGeneration]
Balancer == [held : BOOLEAN, overfreed : BOOLEAN, doubled : BOOLEAN,
             event : {"none", "notify", "set_session", "save_session"}]

\* From handler i inwards, every handler has an active selection and the balancer
\* holds a peer, or none has and it does not.
Agree(S, held, i, yes) ==
    (held <=> yes) /\ \A j \in i..N : S[j].active # 0 <=> yes

\* The state of the selections with the getters F running: a running handler has
\* no active selection, only the innermost has called its original, and what lies
\* inside of it agrees with what it was told.
Nested(S, F, held, selected) ==
    /\ S \in [Peer!Handlers -> Selection]
    /\ F \in Seq(Frame) /\ Len(F) <= N
    /\ \A i \in Peer!Handlers : S[i].active \in {0, S[i].generation}
    /\ \A i \in 1..Len(F) : /\ F[i].handler = i
                            /\ S[i].generation # 0 /\ S[i].active = 0
                            /\ i < Len(F) => F[i].outcome = "not_called"
    /\ IF Len(F) = 0 THEN Agree(S, held, 1, selected)
       ELSE /\ ~selected
            /\ Agree(S, held, Len(F) + 1, F[Len(F)].outcome = "selected")

\* The inductive invariant.
PeerInv ==
    /\ nginx \in [selected : BOOLEAN] /\ native \in Balancer
    /\ ~native.overfreed /\ ~native.doubled
    /\ Nested(sel, frames, native.held, nginx.selected)

\* The getters F wait for a call that has not returned.
Waiting(S, F) ==
    /\ S \in [Peer!Handlers -> Selection]
    /\ F \in Seq(Frame) /\ Len(F) <= N
    /\ \A i \in Peer!Handlers : S[i].active \in {0, S[i].generation}
    /\ \A i \in 1..Len(F) : /\ F[i].handler = i /\ F[i].outcome = "not_called"
                            /\ S[i].generation # 0 /\ S[i].active = 0

\* What Around returns: all but the innermost getter.
LEMMA AroundOf ==
    ASSUME NEW T, NEW s \in Seq(T), s # <<>>
    PROVE  /\ Peer!Around(s) \in Seq(T) /\ Len(Peer!Around(s)) = Len(s) - 1
           /\ \A i \in 1..(Len(s) - 1) : Peer!Around(s)[i] = s[i]
<1>1. Len(s) \in Nat \ {0} /\ DOMAIN s = 1..Len(s) /\ \A i \in 1..Len(s) : s[i] \in T
  OBVIOUS
<1>2. Len(Peer!Around(s)) = Len(s) - 1
  BY <1>1 DEF Peer!Around
<1>3. \A i \in 1..(Len(s) - 1) : Peer!Around(s)[i] = s[i]
  BY <1>1 DEF Peer!Around
<1>4. Peer!Around(s) \in Seq(T)
  BY <1>1, <1>2, <1>3 DEF Peer!Around
<1> QED
  BY <1>2, <1>3, <1>4

\* The getters around the innermost one wait for it.
LEMMA AroundWait ==
    ASSUME Peer!PeerAssumption, NEW S, NEW F, NEW held, NEW selected,
           Nested(S, F, held, selected), F # <<>>
    PROVE  Waiting(S, Peer!Around(F)) /\ Len(Peer!Around(F)) = Len(F) - 1
<1>1. F \in Seq(Frame) /\ Len(F) \in Nat \ {0}
  BY DEF Nested
<1>2. /\ Peer!Around(F) \in Seq(Frame) /\ Len(Peer!Around(F)) = Len(F) - 1
      /\ \A i \in 1..(Len(F) - 1) : Peer!Around(F)[i] = F[i]
  BY <1>1, AroundOf
<1> QED
  BY <1>1, <1>2 DEF Nested, Waiting, Peer!PeerAssumption

\* A call returns to nginx or to the innermost of the getters that wait: if what is
\* inside agrees with the status it is told, the whole is nested again.
LEMMA AnswerHolds ==
    ASSUME Peer!PeerAssumption, PeerInv, NEW F, NEW status, NEW valid,
           Peer!Answer(F, status, valid), Waiting(sel', F), native' \in Balancer,
           \A i \in Peer!Handlers : sel'[i].generation = sel[i].generation,
           ~nginx.selected,
           Agree(sel', native'.held, Len(F) + 1, status = "selected")
    PROVE  /\ nginx' \in [selected : BOOLEAN]
           /\ Nested(sel', frames', native'.held, nginx'.selected)
<1>1. CASE F = <<>>
  <2>1. frames' = <<>> /\ nginx' = [selected |-> status = "selected"]
    BY <1>1 DEF Peer!Answer, PeerInv
  <2>2. nginx' \in [selected : BOOLEAN] /\ (nginx'.selected <=> status = "selected")
    BY ZenonT(30), <2>1
  <2> QED
    BY <1>1, <2>1, <2>2 DEF Nested, Waiting, Agree
<1>2. CASE F # <<>>
  <2> DEFINE top == F[Len(F)]
             got == Peer!Reported(status, valid, sel[top.handler].generation)
             new == [top EXCEPT !.outcome = got.outcome, !.token = got.token]
  <2>1. Len(F) \in Nat \ {0} /\ F \in Seq(Frame) /\ top \in Frame /\ top.handler = Len(F)
        /\ Len(F) \in Peer!Handlers
    BY <1>2 DEF Waiting, Peer!Handlers, Peer!PeerAssumption
  <2>2. frames' = Append(Peer!Around(F), new) /\ nginx' = nginx
    BY <1>2 DEF Peer!Answer, Peer!Innermost
  <2>3. sel[top.handler].generation \in 0..MaxGeneration
    BY <2>1 DEF PeerInv, Nested, Selection
  <2>4. got.outcome \in {"selected", "unselected"} /\ got.token \in 0..MaxGeneration
        /\ (got.outcome = "selected" <=> status = "selected")
    BY <2>3 DEF Peer!Reported, Peer!None, Peer!PeerAssumption
  <2>5. new \in Frame /\ new.handler = Len(F) /\ (new.outcome = "selected" <=> status = "selected")
    BY ZenonT(30), <2>1, <2>4 DEF Frame
  <2> HIDE DEF new
  <2>6. /\ frames' \in Seq(Frame) /\ Len(frames') = Len(F) /\ frames'[Len(F)] = new
        /\ \A i \in 1..(Len(F) - 1) : frames'[i] = F[i]
    <3>1. /\ Peer!Around(F) \in Seq(Frame) /\ Len(Peer!Around(F)) = Len(F) - 1
          /\ \A i \in 1..(Len(F) - 1) : Peer!Around(F)[i] = F[i]
      BY <1>2, <2>1, AroundOf
    <3> QED
      BY <2>1, <2>2, <2>5, <3>1
  <2>7. \A i \in 1..Len(F) : /\ frames'[i].handler = i
                             /\ i < Len(F) => frames'[i].outcome = "not_called"
    BY <2>1, <2>5, <2>6 DEF Waiting
  <2>8. Nested(sel', frames', native'.held, FALSE)
    BY <2>1, <2>5, <2>6, <2>7 DEF Nested, Waiting, Agree
  <2> QED
    BY ZenonT(30), <2>2, <2>8 DEF PeerInv, Nested
<1> QED
  BY <1>1, <1>2

\* release_original_peer from handler i inwards clears what is active there, if all
\* or none of it is.
LEMMA ReleaseOriginal ==
    ASSUME Peer!PeerAssumption, NEW i \in 1..(N + 1), NEW yes \in BOOLEAN,
           sel \in [Peer!Handlers -> Selection], native \in Balancer, ~native.overfreed,
           ~native.doubled, Agree(sel, native.held, i, yes), yes \/ i = 1,
           sel' = Peer!Cleared(sel, Peer!Released(i)), native' = Peer!NativeFreed(i)
    PROVE  /\ sel' \in [Peer!Handlers -> Selection]
           /\ \A j \in Peer!Handlers :
                /\ sel'[j].generation = sel[j].generation
                /\ sel'[j].active \in {0, sel[j].active} /\ (j < i => sel'[j] = sel[j])
           /\ native' \in Balancer /\ ~native'.overfreed /\ ~native'.doubled
           /\ Agree(sel', native'.held, i, FALSE)
<1> USE DEF Peer!Handlers, Peer!None, Peer!PeerAssumption
<1>1. CASE yes
  <2>1. Peer!Stops(i) = {} /\ Peer!Released(i) = i..N
    BY <1>1 DEF Agree, Peer!Stops, Peer!Released
  <2>2. /\ native' = [native EXCEPT !.held = FALSE, !.overfreed = @ \/ ~native.held]
        /\ native.held
    BY <1>1, <2>1 DEF Peer!NativeFreed, Agree
  <2>3. native' \in Balancer /\ ~native'.held /\ ~native'.overfreed /\ ~native'.doubled
    <3>1. (native.overfreed \/ ~native.held) = FALSE
      BY <2>2 DEF Balancer
    <3>2. native' = [native EXCEPT !.held = FALSE, !.overfreed = FALSE]
      BY ZenonT(30), <2>2, <3>1
    <3> QED
      BY ZenonT(30), <3>2 DEF Balancer
  <2>4. sel' = [j \in 1..N |-> IF j \in i..N THEN [sel[j] EXCEPT !.active = 0] ELSE sel[j]]
    BY <2>1 DEF Peer!Cleared
  <2>5. ASSUME NEW j \in 1..N
        PROVE  /\ sel'[j] \in Selection /\ sel'[j].generation = sel[j].generation
               /\ sel'[j].active \in {0, sel[j].active}
               /\ IF j < i THEN sel'[j] = sel[j] ELSE sel'[j].active = 0
    <3>1. sel[j] \in Selection /\ 0 \in 0..MaxGeneration
      OBVIOUS
    <3>2. CASE j \in i..N
      <4>1. sel'[j] = [sel[j] EXCEPT !.active = 0]
        BY <2>4, <3>2
      <4> QED
        BY <3>1, <3>2, <4>1 DEF Selection
    <3>3. CASE j \notin i..N
      BY <2>4, <3>1, <3>3 DEF Selection
    <3> QED
      BY <3>2, <3>3
  <2>6. sel' \in [1..N -> Selection]
    BY <2>4, <2>5
  <2>7. Agree(sel', native'.held, i, FALSE)
    BY <2>3, <2>5 DEF Agree
  <2> QED
    BY ZenonT(30), <2>3, <2>5, <2>6, <2>7
<1>2. CASE ~yes
  <2>1. i = 1 /\ Peer!Stops(1) = 1..N
    <3>1. i = 1 /\ \A j \in 1..N : sel[j].active = 0
      BY <1>2 DEF Agree
    <3> QED
      BY <3>1 DEF Peer!Stops
  <2>2. Peer!Released(1) = {}
    BY <2>1 DEF Peer!Released
  <2>3. sel' = sel
    BY <2>1, <2>2 DEF Peer!Cleared
  <2>4. native' = native
    <3>1. 1 \in Peer!Stops(1)
      BY <2>1
    <3> QED
      BY <2>1, <3>1 DEF Peer!NativeFreed
  <2> QED
    BY <1>2, <2>3, <2>4 DEF Agree, Selection
<1> QED
  BY ZenonT(30), <1>1, <1>2

\* raw_get_peer starts, called by nginx or by the getter around it.
LEMMA EnterHolds ==
    ASSUME Peer!PeerAssumption, PeerInv, Len(frames) < N,
           Waiting(sel, frames), ~nginx.selected, Agree(sel, native.held, Len(frames) + 1, FALSE),
           Peer!Enter(Len(frames) + 1), native' = native, nginx' = nginx
    PROVE  PeerInv'
<1> DEFINE d == Len(frames) + 1
           g == Peer!NextGeneration(sel[d].generation)
           new == [handler |-> d, outcome |-> "not_called", token |-> 0]
<1>1. d \in 1..N /\ d \in Nat /\ frames \in Seq(Frame) /\ sel \in [1..N -> Selection]
  BY DEF Waiting, Peer!Handlers, Peer!PeerAssumption
<1>2. g \in 1..MaxGeneration
  <2>1. sel[d].generation \in 0..MaxGeneration
    BY <1>1 DEF Selection
  <2> QED
    BY <2>1 DEF Peer!NextGeneration, Peer!PeerAssumption
<1>3. sel' = [sel EXCEPT ![d].generation = g] /\ frames' = Append(frames, new)
  BY DEF Peer!Enter, Peer!None
<1>4. new \in Frame
  BY <1>1 DEF Frame, Peer!Handlers, Peer!PeerAssumption
<1> HIDE DEF g, new
<1>5. /\ frames' \in Seq(Frame) /\ Len(frames') = d /\ frames'[d] = new
      /\ \A i \in 1..(d - 1) : frames'[i] = frames[i]
  BY <1>1, <1>3, <1>4
<1>6. /\ sel' \in [1..N -> Selection] /\ sel'[d].generation = g /\ sel'[d].active = sel[d].active
      /\ \A i \in 1..N : i # d => sel'[i] = sel[i]
  <2>1. sel[d] \in Selection /\ g \in 0..MaxGeneration
    BY <1>1, <1>2
  <2>2. sel'[d] = [sel[d] EXCEPT !.generation = g] /\ DOMAIN sel' = 1..N
        /\ \A i \in 1..N : i # d => sel'[i] = sel[i]
    BY <1>1, <1>3
  <2>3. sel'[d] \in Selection /\ sel'[d].generation = g /\ sel'[d].active = sel[d].active
    BY <2>1, <2>2 DEF Selection
  <2>4. sel' = [i \in 1..N |-> sel'[i]]
    BY ZenonT(30), <1>1, <1>3
  <2> QED
    BY <1>1, <2>2, <2>3, <2>4
<1>7. sel[d].active = 0
  BY <1>1 DEF Agree
<1>8. new.handler = d /\ new.outcome = "not_called"
  BY DEF new
<1>9. ASSUME NEW i \in 1..d
      PROVE  /\ frames'[i].handler = i /\ frames'[i].outcome = "not_called"
             /\ sel'[i].generation # 0 /\ sel'[i].active = 0
  <2>1. CASE i = d
    BY <1>2, <1>5, <1>6, <1>7, <1>8, <2>1
  <2>2. CASE i # d
    <3>1. i \in 1..Len(frames) /\ i \in 1..N /\ i \in 1..(d - 1)
      <4>1. Len(frames) \in Nat
        BY <1>1
      <4> QED
        BY <1>1, <2>2, <4>1 DEF Peer!PeerAssumption
    <3>2. frames'[i] = frames[i] /\ sel'[i] = sel[i]
      BY <1>5, <1>6, <2>2, <3>1
    <3> QED
      BY <3>1, <3>2 DEF Waiting
  <2> QED
    BY <2>1, <2>2
<1>10. Agree(sel', native'.held, d + 1, FALSE)
  BY <1>1, <1>6 DEF Agree
<1>11. \A i \in 1..N : sel'[i].active \in {0, sel'[i].generation}
  BY <1>1, <1>6, <1>7 DEF Waiting, Peer!Handlers
<1>12. Nested(sel', frames', native'.held, nginx'.selected)
  BY <1>1, <1>5, <1>6, <1>9, <1>10, <1>11 DEF Nested, Agree, Peer!Handlers
<1> QED
  BY <1>12 DEF PeerInv

\* An innermost getter that has not called its original waits, with no peer held.
LEMMA InnermostWaits ==
    ASSUME Peer!PeerAssumption, PeerInv, frames # <<>>, Peer!Innermost(frames).outcome = "not_called"
    PROVE  /\ Waiting(sel, frames) /\ ~nginx.selected
           /\ Peer!Innermost(frames).handler = Len(frames) /\ Len(frames) \in 1..N
           /\ Agree(sel, native.held, Len(frames) + 1, FALSE)
<1>1. Len(frames) \in 1..N /\ frames[Len(frames)].outcome # "selected"
  BY DEF PeerInv, Nested, Peer!Innermost, Peer!PeerAssumption
<1>2. Waiting(sel, frames)
  BY <1>1 DEF PeerInv, Nested, Waiting, Peer!Innermost
<1> QED
  BY <1>1, <1>2 DEF PeerInv, Nested, Agree, Peer!Innermost

\* raw_get_peer called by nginx: it holds no peer, so no handler has one.
LEMMA GetPeerHolds == ASSUME Peer!PeerAssumption, PeerInv, Peer!GetPeer PROVE PeerInv'
<1>1. frames = <<>> /\ Len(frames) = 0 /\ sel[1].active = 0 /\ 1 \in 1..N
  BY DEF Peer!GetPeer, Peer!CanBegin, Peer!None, Peer!PeerAssumption
<1>2. ~nginx.selected /\ Agree(sel, native.held, 1, FALSE)
  BY <1>1 DEF PeerInv, Nested, Agree
<1>3. Waiting(sel, frames)
  BY <1>1 DEF PeerInv, Nested, Waiting
<1> QED
  BY <1>1, <1>2, <1>3, EnterHolds DEF Peer!GetPeer, Peer!PeerAssumption

\* The innermost handler calls the next: it is free to begin.
LEMMA CallHandlerHolds == ASSUME Peer!PeerAssumption, PeerInv, Peer!CallHandler PROVE PeerInv'
<1>1. frames # <<>> /\ Peer!Innermost(frames).outcome = "not_called" /\ Peer!Innermost(frames).handler < N
  BY DEF Peer!CallHandler
<1>2. /\ Waiting(sel, frames) /\ ~nginx.selected /\ Len(frames) < N
      /\ Peer!Innermost(frames).handler = Len(frames) /\ Len(frames) \in 1..N
      /\ Agree(sel, native.held, Len(frames) + 1, FALSE)
  BY ZenonT(30), <1>1, InnermostWaits
<1>3. Peer!CanBegin(Len(frames) + 1)
  BY <1>2 DEF Agree, Peer!CanBegin, Peer!None, Peer!PeerAssumption
<1>4. Peer!Enter(Len(frames) + 1) /\ native' = native /\ nginx' = nginx
  BY <1>2, <1>3 DEF Peer!CallHandler
<1> QED
  BY <1>2, <1>4, EnterHolds

\* The balancer answers the innermost handler.
LEMMA CallBalancerHolds ==
    ASSUME Peer!PeerAssumption, PeerInv, NEW status \in {"selected", "error"},
           NEW valid \in BOOLEAN, Peer!CallBalancer(status, valid)
    PROVE  PeerInv'
<1>1. /\ Waiting(sel, frames) /\ ~nginx.selected /\ Len(frames) = N
      /\ Agree(sel, native.held, Len(frames) + 1, FALSE)
  BY ZenonT(30), InnermostWaits DEF Peer!CallBalancer
<1>2. ~native.held /\ native \in Balancer /\ ~native.overfreed /\ ~native.doubled
  BY <1>1 DEF Agree, PeerInv
<1>3. /\ native' \in Balancer /\ ~native'.overfreed /\ ~native'.doubled
      /\ native'.held <=> status = "selected"
  <2>1. CASE status = "selected"
    <3>1. (native.doubled \/ native.held) = FALSE
      BY <1>2 DEF Balancer
    <3>2. native' = [native EXCEPT !.held = TRUE, !.doubled = FALSE]
      BY ZenonT(30), <2>1, <3>1 DEF Peer!CallBalancer
    <3> QED
      BY ZenonT(30), <1>2, <2>1, <3>2 DEF Balancer
  <2>2. CASE status # "selected"
    BY <1>2, <2>2 DEF Peer!CallBalancer
  <2> QED
    BY <2>1, <2>2
<1>4. sel' = sel /\ Peer!Answer(frames, status, valid)
  BY DEF Peer!CallBalancer
<1>5. Agree(sel', native'.held, Len(frames) + 1, status = "selected")
  BY <1>1, <1>3 DEF Agree, Peer!PeerAssumption
<1>6. Waiting(sel', frames)
  BY <1>1, <1>4
<1> QED
  BY <1>1, <1>3, <1>4, <1>5, <1>6, AnswerHolds DEF PeerInv

\* raw_free_peer: all that is held is released, and nothing if nothing is held.
LEMMA FreePeerHolds == ASSUME Peer!PeerAssumption, PeerInv, Peer!FreePeer PROVE PeerInv'
<1>1. /\ frames = <<>> /\ frames' = <<>> /\ Len(frames) = 0
      /\ sel' = Peer!Cleared(sel, Peer!Released(1)) /\ native' = Peer!NativeFreed(1)
      /\ nginx' = [nginx EXCEPT !.selected = FALSE]
  BY DEF Peer!FreePeer
<1>2. nginx.selected \in BOOLEAN /\ nginx' \in [selected : BOOLEAN] /\ ~nginx'.selected
  BY ZenonT(30), <1>1 DEF PeerInv
<1>3. Agree(sel, native.held, 1, nginx.selected) /\ sel \in [Peer!Handlers -> Selection]
  BY <1>1 DEF PeerInv, Nested
<1>4. /\ 1 \in 1..(N + 1) /\ native \in Balancer /\ ~native.overfreed /\ ~native.doubled
      /\ nginx.selected \/ 1 = 1
  BY DEF PeerInv, Peer!PeerAssumption
<1>5. /\ sel' \in [Peer!Handlers -> Selection]
      /\ \A j \in Peer!Handlers : /\ sel'[j].generation = sel[j].generation
                                  /\ sel'[j].active \in {0, sel[j].active}
      /\ native' \in Balancer /\ ~native'.overfreed /\ ~native'.doubled
      /\ Agree(sel', native'.held, 1, FALSE)
  BY ZenonT(30), <1>1, <1>2, <1>3, <1>4, ReleaseOriginal
<1>6. \A i \in Peer!Handlers : sel[i].active \in {0, sel[i].generation}
  BY DEF PeerInv, Nested
<1>7. Nested(sel', frames', native'.held, nginx'.selected)
  BY <1>1, <1>2, <1>3, <1>5, <1>6 DEF Nested, Agree, Peer!PeerAssumption
<1> QED
  BY <1>2, <1>5, <1>7 DEF PeerInv

\* A handler returns: it keeps the peer its original selected, or what is inside
\* of it is released.
LEMMA ReturnHolds ==
    ASSUME Peer!PeerAssumption, PeerInv,
           NEW answer \in {"token", "foreign", "unselected", "error"},
           Peer!ReturnSelection(answer)
    PROVE  PeerInv'
<1> DEFINE d == Len(frames)
           top == frames[d]
           rest == Peer!Around(frames)
           status == IF Peer!Accepted(top, answer) THEN "selected" ELSE "error"
<1>1. frames # <<>> /\ frames \in Seq(Frame) /\ d \in 1..N /\ top.handler = d
  BY DEF Peer!ReturnSelection, PeerInv, Nested, Peer!PeerAssumption
<1>2. /\ sel \in [1..N -> Selection] /\ native \in Balancer
      /\ ~native.overfreed /\ ~native.doubled /\ ~nginx.selected
      /\ sel[d].generation # 0 /\ sel[d].active = 0
      /\ Agree(sel, native.held, d + 1, top.outcome = "selected")
      /\ \A i \in 1..N : sel[i].active \in {0, sel[i].generation}
  BY <1>1 DEF PeerInv, Nested, Peer!Handlers
<1>3. Waiting(sel, rest) /\ Len(rest) = d - 1
  BY <1>1, AroundWait DEF PeerInv
<1>4. /\ Peer!Answer(rest, status, TRUE)
      /\ IF Peer!Accepted(top, answer)
         THEN sel' = [sel EXCEPT ![d].active = sel[d].generation] /\ native' = native
         ELSE IF Peer!MustRelease(top, answer)
         THEN sel' = Peer!Cleared(sel, Peer!Released(d + 1)) /\ native' = Peer!NativeFreed(d + 1)
         ELSE sel' = sel /\ native' = native
  BY ZenonT(30), <1>1 DEF Peer!ReturnSelection, Peer!Innermost
<1> HIDE DEF rest, top, d
<1>5. SUFFICES /\ sel' \in [1..N -> Selection] /\ native' \in Balancer
               /\ ~native'.overfreed /\ ~native'.doubled
               /\ \A i \in 1..N : /\ sel'[i].generation = sel[i].generation
                                  /\ sel'[i].active \in {0, sel[i].generation}
                                  /\ i < d => sel'[i] = sel[i]
               /\ Agree(sel', native'.held, d, status = "selected")
  <2>1. Waiting(sel', rest)
    <3>1. \A i \in 1..Len(rest) : i \in 1..N /\ i < d /\ sel'[i] = sel[i]
      BY <1>1, <1>3, <1>5 DEF Peer!PeerAssumption
    <3>2. \A i \in 1..N : sel'[i].active \in {0, sel'[i].generation}
      BY <1>5
    <3> QED
      BY <1>3, <1>5, <3>1, <3>2 DEF Waiting, Peer!Handlers
  <2>2. /\ nginx' \in [selected : BOOLEAN]
        /\ Nested(sel', frames', native'.held, nginx'.selected)
    <3>1. Len(rest) + 1 = d
      BY <1>1, <1>3
    <3> HIDE DEF status
    <3> QED
      BY ZenonT(30), <1>2, <1>4, <1>5, <2>1, <3>1, AnswerHolds DEF Peer!Handlers
  <2> QED
    BY <1>5, <2>2 DEF PeerInv
<1>6. CASE Peer!Accepted(top, answer)
  <2>1. top.outcome = "selected" /\ status = "selected"
    BY <1>6 DEF Peer!Accepted
  <2>2. /\ sel' \in [1..N -> Selection] /\ sel'[d].generation = sel[d].generation
        /\ sel'[d].active = sel[d].generation /\ \A i \in 1..N : i # d => sel'[i] = sel[i]
    <3>1. sel[d] \in Selection /\ sel[d].generation \in 0..MaxGeneration
      BY <1>1, <1>2 DEF Selection
    <3>2. sel' = [sel EXCEPT ![d] = [sel[d] EXCEPT !.active = sel[d].generation]]
      BY <1>4, <1>6
    <3>3. [sel[d] EXCEPT !.active = sel[d].generation] \in Selection
      BY <3>1 DEF Selection
    <3>4. sel'[d] = [sel[d] EXCEPT !.active = sel[d].generation]
      BY <1>1, <1>2, <3>2
    <3>5. sel'[d].generation = sel[d].generation /\ sel'[d].active = sel[d].generation
      BY <3>1, <3>4 DEF Selection
    <3> QED
      BY <1>1, <1>2, <3>2, <3>3, <3>5
  <2>3. Agree(sel', native'.held, d, TRUE)
    BY <1>1, <1>2, <1>4, <1>6, <2>1, <2>2 DEF Agree, Peer!PeerAssumption
  <2> QED
    BY <1>2, <1>4, <1>6, <2>1, <2>2, <2>3 DEF Agree
<1>7. CASE Peer!MustRelease(top, answer)
  <2>1. top.outcome = "selected" /\ ~Peer!Accepted(top, answer) /\ status = "error"
    BY <1>7 DEF Peer!MustRelease
  <2>2. Agree(sel, native.held, d + 1, TRUE) /\ d + 1 \in 1..(N + 1)
    BY <1>1, <1>2, <2>1 DEF Agree, Peer!PeerAssumption
  <2>3. sel' = Peer!Cleared(sel, Peer!Released(d + 1)) /\ native' = Peer!NativeFreed(d + 1)
    BY <1>4, <1>7, <2>1
  <2>4. /\ sel' \in [1..N -> Selection]
        /\ \A j \in 1..N : /\ sel'[j].generation = sel[j].generation
                           /\ sel'[j].active \in {0, sel[j].active}
                           /\ j < d + 1 => sel'[j] = sel[j]
        /\ native' \in Balancer /\ ~native'.overfreed /\ ~native'.doubled
        /\ Agree(sel', native'.held, d + 1, FALSE)
    BY ZenonT(30), <1>2, <2>2, <2>3, ReleaseOriginal DEF Peer!Handlers
  <2>5. Agree(sel', native'.held, d, FALSE)
    BY <1>1, <1>2, <2>4 DEF Agree, Peer!PeerAssumption
  <2> QED
    BY <1>1, <1>2, <2>1, <2>4, <2>5 DEF Agree, Peer!PeerAssumption
<1>8. CASE ~Peer!Accepted(top, answer) /\ ~Peer!MustRelease(top, answer)
  <2>1. top.outcome # "selected" /\ status = "error" /\ sel' = sel /\ native' = native
    BY <1>4, <1>8 DEF Peer!MustRelease
  <2>2. Agree(sel', native'.held, d, FALSE)
    BY <1>1, <1>2, <2>1 DEF Agree, Peer!PeerAssumption
  <2> QED
    BY <1>2, <2>1, <2>2 DEF Agree
<1> QED
  BY <1>6, <1>7, <1>8 DEF Peer!MustRelease, Peer!Accepted

\* The inductive invariant holds in every state.
LEMMA PeerInvariant == Peer!PeerAssumption => (Peer!Spec => []PeerInv)
<1> SUFFICES ASSUME Peer!PeerAssumption PROVE Peer!Spec => []PeerInv
  OBVIOUS
<1>1. Peer!Init => PeerInv
  <2> SUFFICES ASSUME Peer!Init PROVE PeerInv
    OBVIOUS
  <2>1. nginx \in [selected : BOOLEAN] /\ ~nginx.selected
    BY Zenon DEF Peer!Init
  <2>2. native \in Balancer /\ ~native.held /\ ~native.overfreed /\ ~native.doubled
    BY DEF Peer!Init, Balancer
  <2>3. frames = <<>> /\ frames \in Seq(Frame) /\ Len(frames) = 0
    BY DEF Peer!Init
  <2>4. /\ sel \in [Peer!Handlers -> Selection]
        /\ \A i \in Peer!Handlers : sel[i].generation = 0 /\ sel[i].active = 0
    BY DEF Peer!Init, Selection, Peer!None, Peer!PeerAssumption
  <2> QED
    BY <2>1, <2>2, <2>3, <2>4
    DEF PeerInv, Nested, Agree, Peer!PeerAssumption, Peer!Handlers
<1>2. PeerInv /\ [Peer!Next]_(Peer!vars) => PeerInv'
  <2> SUFFICES ASSUME PeerInv, [Peer!Next]_(Peer!vars) PROVE PeerInv'
    OBVIOUS
  <2>1. ASSUME NEW kind \in {"notify", "set_session", "save_session"}, Peer!Forward(kind)
        PROVE  PeerInv'
    <3>1. native' = [native EXCEPT !.event = kind] /\ UNCHANGED <<sel, frames, nginx>>
      BY <2>1 DEF Peer!Forward
    <3>2. native \in Balancer
      BY DEF PeerInv
    <3>3. /\ native' \in Balancer /\ native'.held = native.held
          /\ native'.overfreed = native.overfreed /\ native'.doubled = native.doubled
      BY <3>1, <3>2 DEF Balancer
    <3> QED
      BY <3>1, <3>3 DEF PeerInv
  <2>2. CASE UNCHANGED Peer!vars
    BY <2>2 DEF Peer!vars, PeerInv
  <2> QED
    BY <2>1, <2>2, GetPeerHolds, FreePeerHolds, CallHandlerHolds, CallBalancerHolds,
       ReturnHolds
    DEF Peer!Next
<1> QED
  BY <1>1, <1>2, PTL DEF Peer!Spec

\* Selection and release of an upstream peer, for any number of handlers wrapped
\* around the balancer (raw_get_peer, raw_free_peer, release_original_peer): in
\* every state the getters nest and their generations are in range, between calls
\* nginx holds a peer exactly when every handler and the balancer do, and the
\* balancer is never asked to free a peer it does not hold, nor for a second one.
THEOREM PeerAlwaysExact == Peer!PeerAssumption => (Peer!Spec => []Peer!PeerExact)
<1> SUFFICES ASSUME Peer!PeerAssumption PROVE Peer!Spec => []Peer!PeerExact
  OBVIOUS
<1>1. PeerInv => Peer!PeerExact
  <2> SUFFICES ASSUME PeerInv PROVE Peer!PeerExact
    OBVIOUS
  <2>1. Peer!TypeOK
    <3>1. /\ sel \in [Peer!Handlers -> Selection]
          /\ \A i \in Peer!Handlers : sel[i].active \in {0, sel[i].generation}
          /\ frames \in Seq(Frame) /\ Len(frames) <= N
          /\ \A i \in 1..Len(frames) : frames[i].handler = i /\ sel[i].generation # 0
      BY ZenonT(30) DEF PeerInv, Nested
    <3>2. DOMAIN frames = 1..Len(frames) /\ Len(frames) \in Nat
      BY <3>1
    <3>3. \A i \in Peer!Handlers : /\ sel[i].generation \in 0..MaxGeneration
                                   /\ sel[i].active \in {0, sel[i].generation}
      BY ZenonT(30), <3>1 DEF Selection
    <3>4. \A i \in Peer!Handlers : i <= Len(frames) => i \in 1..Len(frames)
      BY <3>2 DEF Peer!Handlers, Peer!PeerAssumption
    <3> QED
      BY ZenonT(30), <3>1, <3>2, <3>3, <3>4 DEF Peer!TypeOK, Peer!None
  <2>2. Peer!HeldAgree
    <3> SUFFICES ASSUME frames = <<>>
                 PROVE  /\ native.held = nginx.selected
                        /\ \A i \in Peer!Handlers :
                              (sel[i].active # Peer!None) = nginx.selected
      BY DEF Peer!HeldAgree
    <3>1. Agree(sel, native.held, 1, nginx.selected)
      BY DEF PeerInv, Nested
    <3>2. native.held \in BOOLEAN /\ nginx.selected \in BOOLEAN
      BY DEF PeerInv, Balancer
    <3> QED
      BY Zenon, <3>1, <3>2 DEF Agree, Peer!Handlers, Peer!None
  <2> QED
    BY <2>1, <2>2 DEF PeerInv, Peer!PeerExact, Peer!NeverOverfreed, Peer!NeverDoubled
<1>2. Peer!Spec => []PeerInv
  BY PeerInvariant
<1> QED
  BY <1>1, <1>2, PTL
==============================================================================
