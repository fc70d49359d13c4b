----------------------------- MODULE SourceCache -----------------------------
(***************************************************************************)
(* Source archives of a build (src/nginx-src/src/download.rs): download,   *)
(* verification, the shared download cache, and extraction.                *)
(*                                                                         *)
(* Builds run as processes that share CACHE_DIR: an archive and its        *)
(* signature at fixed paths, and staging files at names made of the        *)
(* process id and a counter.  Ids are not unique among containers and are  *)
(* reused after a crash, so the builds here all have the same.  The        *)
(* directory a build extracts into is its own (cargo locks it), and keeps  *)
(* what an earlier, crashed attempt of the build left there.               *)
(*                                                                         *)
(* A step is one system call on a shared path.  Contents are abstract: a   *)
(* complete download is what upstream signed ("good"), something else      *)
(* ("bad"), or empty; a file being written is "partial".                   *)
(***************************************************************************)
EXTENDS Integers, FiniteSets

CONSTANTS
    Builds,         \* the build processes
    Verifying,      \* those whose gpg is usable (VERIFIER is Some)
    MaxName,        \* bound on the staging counters of one process
    MaxFaults,      \* bound on failed downloads, key imports, publications,
                    \* extractions and crashes
    FirstCache      \* contents an archive may have in the cache at first

SourceAssumption ==
    /\ Verifying \subseteq Builds /\ MaxName \in Nat /\ MaxFaults \in Nat
    /\ FirstCache \subseteq {"none", "good", "bad", "empty"}

VARIABLES
    cache,      \* the two final paths
    staging,    \* staging files on disk: contents by name
    left,       \* names that crashed attempts left behind (ghost)
    output,     \* the extraction directory of every build
    build,      \* every build: where it is, and what it holds
    faults      \* failures so far

vars == <<cache, staging, left, output, build, faults>>

Files == {"archive", "signature"}
Complete == {"good", "bad", "empty"}
Names == Files \X (0..MaxName)
NoName == <<"none", 0>>

\* An extraction directory: its tree, and whether the marker is in it.
Dir(tree, marked) == [tree |-> tree, marked |-> marked]
Nothing == Dir("none", FALSE)

\* A build: its place, the file it is at, the staged path of either entry
\* (NoName: the final path), its counter, and its staged tree.
Fresh == [at |-> "idle", file |-> "archive", staged |-> [f \in Files |-> NoName],
          next |-> 0, tree |-> Nothing]

Places == {"idle", "lookup", "remove", "create", "write", "verify", "undo",
           "publish", "check", "clear", "unpack", "mark", "rename", "done", "failed"}

\* The final paths never hold a partial file, although anything may be
\* interrupted: a download is published by a rename once it is complete.
TypeOK ==
    /\ cache \in [Files -> Complete \cup {"none"}]
    /\ staging \in [Names -> Complete \cup {"none", "partial"}]
    /\ left \subseteq Names
    /\ \A b \in Builds : /\ build[b].at \in Places
                         /\ build[b].next \in 0..(MaxName + 1)
    /\ faults \in 0..MaxFaults

Init ==
    /\ cache \in {[archive |-> a, signature |-> s] : a \in FirstCache, s \in {"none", "good"}}
    /\ staging = [n \in Names |-> "none"] /\ left = {}
    /\ output \in [Builds -> {Nothing, Dir("partial", FALSE)}]
    /\ build = [b \in Builds |-> Fresh]
    /\ faults = 0

-----------------------------------------------------------------------------
Goto(b, at) == build' = [build EXCEPT ![b].at = at]

\* The path an entry is read from: staged, or final.
Content(b, f) == IF build[b].staged[f] = NoName THEN cache[f] ELSE staging[build[b].staged[f]]

\* Dropping the entries of a build removes what they staged.
Owned(b) == {build[b].staged[f] : f \in Files} \ {NoName}

DropStaged(b) == [n \in Names |-> IF n \in Owned(b) THEN "none" ELSE staging[n]]

Fail(b) ==
    /\ staging' = DropStaged(b)
    /\ build' = [build EXCEPT ![b] = [Fresh EXCEPT !.at = "failed"]]

Start(b) ==
    /\ build[b].at = "idle"
    /\ build' = [build EXCEPT ![b] = [Fresh EXCEPT !.at = "lookup"]]
    /\ UNCHANGED <<cache, staging, left, output, faults>>

\* After the entry of a file is at hand: the signature, verification, or
\* publication.
AfterEntry(b, f) ==
    IF b \notin Verifying THEN "publish"
    ELSE IF f = "archive" THEN "lookup" ELSE "verify"

HasEntry(b, staged) ==
    LET f == build[b].file IN
    build' = [build EXCEPT ![b].staged[f] = staged, ![b].at = AfterEntry(b, f),
                           ![b].file = IF b \in Verifying THEN "signature" ELSE f]

\* download: symlink_metadata of the final path.
Lookup(b) ==
    /\ build[b].at = "lookup"
    /\ LET found == cache[build[b].file] IN
       \/ found = "none" /\ Goto(b, "create")
       \/ found = "empty" /\ Goto(b, "remove")
       \/ found \notin {"none", "empty"} /\ HasEntry(b, NoName)
    /\ UNCHANGED <<cache, staging, left, output, faults>>

\* An empty file is removed; the removal fails if it is gone meanwhile.
RemoveEmpty(b) ==
    /\ build[b].at = "remove"
    /\ IF cache[build[b].file] = "none"
       THEN Fail(b) /\ UNCHANGED cache
       ELSE /\ cache' = [cache EXCEPT ![build[b].file] = "none"]
            /\ Goto(b, "create") /\ UNCHANGED staging
    /\ UNCHANGED <<left, output, faults>>

\* create_new.
Free(name) == staging[name] = "none"

\* create_download_staging_file: the next name of the process, again while
\* it is taken.
CreateStaging(b) ==
    LET name == <<build[b].file, build[b].next>> IN
    /\ build[b].at = "create"
    /\ IF build[b].next > MaxName
       THEN Fail(b)
       ELSE IF Free(name)
       THEN /\ staging' = [staging EXCEPT ![name] = "partial"]
            /\ build' = [build EXCEPT ![b].staged[build[b].file] = name,
                                      ![b].next = @ + 1, ![b].at = "write"]
       ELSE build' = [build EXCEPT ![b].next = @ + 1] /\ UNCHANGED staging
    /\ UNCHANGED <<cache, left, output, faults>>

\* write_download: the body is copied to its end.  A body that is not the
\* signed one counts as a fault.
Write(b) ==
    LET name == build[b].staged[build[b].file] IN
    /\ build[b].at = "write"
    /\ \E c \in Complete :
        /\ c = "good" \/ faults < MaxFaults
        /\ staging' = [staging EXCEPT ![name] = c]
        /\ faults' = IF c = "good" THEN faults ELSE faults + 1
    /\ HasEntry(b, name)
    /\ UNCHANGED <<cache, left, output>>

Interrupted(b) == Fail(b)

WriteFails(b) ==
    /\ build[b].at = "write" /\ faults < MaxFaults
    /\ faults' = faults + 1
    /\ Interrupted(b)
    /\ UNCHANGED <<cache, left, output>>

\* gpg accepts what upstream signed, with its signature.
Accepts(b) == Content(b, "archive") = "good" /\ Content(b, "signature") = "good"

Verify(b) ==
    /\ build[b].at = "verify"
    /\ build' = [build EXCEPT ![b].at = IF Accepts(b) THEN "publish" ELSE "undo",
                              ![b].file = "archive"]
    /\ UNCHANGED <<cache, staging, left, output, faults>>

\* The keys cannot be imported: verification fails whatever the files are.
ImportFails(b) ==
    /\ build[b].at = "verify" /\ faults < MaxFaults
    /\ build' = [build EXCEPT ![b].at = "undo", ![b].file = "archive"]
    /\ faults' = faults + 1
    /\ UNCHANGED <<cache, staging, left, output>>

Undone(b) == [cache EXCEPT ![build[b].file] = "none"]

\* remove_download_pair: each entry's staged and final path, whoever put the
\* file at the final one.
Undo(b) ==
    LET n == build[b].staged[build[b].file] IN
    /\ build[b].at = "undo"
    /\ cache' = Undone(b)
    /\ IF build[b].file = "archive"
       THEN /\ staging' = [m \in Names |-> IF m = n THEN "none" ELSE staging[m]]
            /\ build' = [build EXCEPT ![b].file = "signature", ![b].staged["archive"] = NoName]
       ELSE Fail(b)
    /\ UNCHANGED <<left, output, faults>>

\* publish: the rename of a staged file; first the archive, then the
\* signature.
Publish(b) ==
    LET f == build[b].file
        n == build[b].staged[f]
        last == f = "signature" \/ b \notin Verifying
    IN
    /\ build[b].at = "publish"
    /\ IF n = NoName THEN UNCHANGED <<cache, staging>>
       ELSE /\ cache' = [cache EXCEPT ![f] = staging[n]]
            /\ staging' = [staging EXCEPT ![n] = "none"]
    /\ build' = [build EXCEPT ![b].staged[f] = NoName, ![b].file = "signature",
                              ![b].at = IF last THEN "check" ELSE "publish"]
    /\ UNCHANGED <<left, output, faults>>

-----------------------------------------------------------------------------
(* extract_archive *)

CompletedExtraction(dir) == dir.tree # "none" /\ dir.marked

Check(b) ==
    /\ build[b].at = "check"
    /\ Goto(b, IF CompletedExtraction(output[b]) THEN "done" ELSE "clear")
    /\ UNCHANGED <<cache, staging, left, output, faults>>

\* remove_unmarked_extraction, and an empty staging directory.
Clear(b) ==
    /\ build[b].at = "clear"
    /\ output' = [output EXCEPT ![b] = Nothing]
    /\ build' = [build EXCEPT ![b].at = "unpack", ![b].tree = Dir("partial", FALSE)]
    /\ UNCHANGED <<cache, staging, left, faults>>

\* The archive is opened and its entries are unpacked: one that is gone,
\* truncated or malformed is an error, and the staging directory is removed.
\* One that is not the signed one may be rejected or yield another tree.
Unpack(b) ==
    /\ build[b].at = "unpack"
    /\ \/ /\ cache["archive"] \in {"good", "bad"}
          /\ build' = [build EXCEPT ![b].at = "mark", ![b].tree.tree = cache["archive"]]
          /\ UNCHANGED staging
       \/ cache["archive"] # "good" /\ Fail(b)
    /\ UNCHANGED <<cache, left, output, faults>>

\* Mutation: the marker is put in the tree that is being replaced.
MarkOutput(b) ==
    /\ build[b].at = "mark"
    /\ output' = [output EXCEPT ![b] = Dir("partial", TRUE)]
    /\ build' = [build EXCEPT ![b].at = "rename", ![b].tree.marked = TRUE]
    /\ UNCHANGED <<cache, staging, left, faults>>

Mark(b) ==
    /\ build[b].at = "mark"
    /\ build' = [build EXCEPT ![b].at = "rename", ![b].tree.marked = TRUE]
    /\ UNCHANGED <<cache, staging, left, output, faults>>

Rename(b) ==
    /\ build[b].at = "rename"
    /\ output' = [output EXCEPT ![b] = build[b].tree]
    /\ build' = [build EXCEPT ![b] = [Fresh EXCEPT !.at = "done"]]
    /\ UNCHANGED <<cache, staging, left, faults>>

\* publish cannot rename, or extract_archive cannot create the marker or rename
\* the tree; this build removed the output before, so it is not complete.
FilesFail(b) ==
    /\ \/ build[b].at = "publish" /\ build[b].staged[build[b].file] # NoName
       \/ build[b].at \in {"mark", "rename"}
    /\ faults < MaxFaults
    /\ faults' = faults + 1
    /\ Fail(b)
    /\ UNCHANGED <<cache, left, output>>

-----------------------------------------------------------------------------
\* The process is killed: staging files and the staging tree stay on disk (no
\* later build looks at the tree), and a removal of the output may be half
\* done.
Crash(b) ==
    /\ build[b].at \notin {"idle", "done", "failed"} /\ faults < MaxFaults
    /\ faults' = faults + 1
    /\ left' = left \cup Owned(b)
    /\ output' \in {output} \cup
        (IF build[b].at = "clear" /\ output[b].tree # "none"
         THEN {[output EXCEPT ![b] = Dir("partial", FALSE)]} ELSE {})
    /\ build' = [build EXCEPT ![b] = Fresh]
    /\ UNCHANGED <<cache, staging>>

\* The build is run again, after a failure or to build anew.
Again(b) ==
    /\ build[b].at \in {"failed", "done"}
    /\ build' = [build EXCEPT ![b] = Fresh]
    /\ UNCHANGED <<cache, staging, left, output, faults>>

Step(b) ==
    \/ Start(b) \/ Lookup(b) \/ RemoveEmpty(b) \/ CreateStaging(b) \/ Write(b)
    \/ Verify(b) \/ Undo(b) \/ Publish(b)
    \/ Check(b) \/ Clear(b) \/ Unpack(b) \/ Mark(b) \/ Rename(b) \/ Again(b)

Next == \E b \in Builds : Step(b) \/ WriteFails(b) \/ ImportFails(b) \/ FilesFail(b) \/ Crash(b)

Spec == Init /\ [][Next]_vars

-----------------------------------------------------------------------------
\* A build never uses or publishes a file that another one is writing or has
\* abandoned: staged paths are held by one build, and none by a crashed one.
StagingIsExclusive ==
    /\ \A a, b \in Builds : a # b => Owned(a) \cap Owned(b) = {}
    /\ \A b \in Builds : \A n \in Owned(b) \ left : staging[n] # "none"

\* What a build that ended, well or not, had staged is gone from the cache
\* directory; only a crash leaves files behind.
StagingIsRemoved ==
    \A n \in Names : staging[n] # "none" =>
        n \in left \/ \E b \in Builds : n \in Owned(b)

\* A completed extraction is whole: it holds every entry of an archive, never
\* the rest of an interrupted extraction or removal, whenever a build of any
\* process is killed.
MarkedIsWhole == \A b \in Builds : output[b].marked => output[b].tree \in {"good", "bad"}

\* A build that ended well has a completed extraction.
DoneIsExtracted == \A b \in Builds : build[b].at = "done" => output[b].marked

\* When every build verifies, what any of them extracts is what upstream
\* signed, although the archive is opened after it was verified and other
\* builds publish to and remove from the same path meanwhile.
ExtractsVerified ==
    Verifying = Builds => \A b \in Builds : output[b].marked => output[b].tree = "good"

\* What holds of the cache and the builds in every state.
SourceExact ==
    /\ TypeOK /\ StagingIsExclusive /\ StagingIsRemoved
    /\ MarkedIsWhole /\ DoneIsExtracted /\ ExtractsVerified
=============================================================================
