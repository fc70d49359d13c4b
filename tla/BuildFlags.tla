----------------------------- MODULE BuildFlags ------------------------------
(***************************************************************************)
(* What the build of nginx-sys takes from nginx's Makefile                 *)
(* (src/nginx-sys/build: main.rs, link.rs, test_link.rs).                  *)
(*                                                                         *)
(* The compiler's words are read twice: parse_makefile takes the includes  *)
(* and definitions, ConfiguredCCompiler::from_makefile every other flag.   *)
(* The words of the link command are the inputs of the test library, less  *)
(* the objects that are rebuilt from their sources: those the rule of the  *)
(* nginx binary depends on.  The state is the two commands, grown word by  *)
(* word, and the dependencies of the rule; a list that a function of the   *)
(* source returns is a sequence of positions in its command.  Libraries,   *)
(* written -l, -lname or as a path, are archives; a word of no known kind, *)
(* which the source refuses, does not occur.                               *)
(***************************************************************************)
EXTENDS Integers, Sequences, SequencesExt, FiniteSets

CONSTANTS
    Bare,        \* "-I" and "-D", whose argument is the next word
    Joined,      \* "-Idir", "-Dname", "-Dname=value"
    Lto,         \* flags of link-time optimization
    Flags,       \* other compiler flags
    Names,       \* words that are the argument of another
    Objects,     \* the objects of the link command
    Rebuilt,     \* those whose source is in nginx's source or build directory
    Wrapped,     \* those among them whose source a wrapper includes
    Missing,     \* objects whose source is named by a relative path to nothing
    Archives,    \* archives and libraries of the link command
    RustArchives,\* those among them that auto/rust builds
    Ignored,     \* link flags without an input
    Dependencies,\* the sets that the rule of the binary may depend on
    MaxFlags,    \* bound on the words of CFLAGS
    MaxLink      \* bound on the words of the link command

VARIABLES cflags, link, deps

vars == <<cflags, link, deps>>

Begin == "--whole-archive"
End == "--no-whole-archive"

CWords == Bare \cup Joined \cup Lto \cup Flags \cup Names
LWords == Objects \cup Archives \cup Ignored \cup {Begin, End}

Init == cflags = <<>> /\ link = <<>> /\ deps \in Dependencies

\* A name stands only where it is the argument of the word before it.
AddFlag(w) ==
    /\ Len(cflags) < MaxFlags /\ link = <<>>
    /\ w \in Names => cflags # <<>> /\ Last(cflags) \in Bare
    /\ cflags' = Append(cflags, w)
    /\ UNCHANGED <<link, deps>>

\* The command names an object or an archive once.
AddInput(w) ==
    /\ Len(link) < MaxLink /\ cflags = <<>>
    /\ w \in Objects \cup Archives => ~Contains(link, w)
    /\ link' = Append(link, w)
    /\ UNCHANGED <<cflags, deps>>

Next == (\E w \in CWords : AddFlag(w)) \/ (\E w \in LWords : AddInput(w))

Spec == Init /\ [][Next]_vars

-----------------------------------------------------------------------------
\* A reader of words: whether the next word is an argument, whether it has
\* given up, and the positions it has taken.
Reader == [wait |-> FALSE, failed |-> FALSE, taken |-> <<>>]

\* parse_line reads a bare flag together with the word after it.
ParseWord(s, r, i) ==
    IF r.wait THEN [r EXCEPT !.wait = FALSE, !.taken = Append(@, i)]
    ELSE IF s[i] \in Bare THEN [r EXCEPT !.wait = TRUE]
    ELSE IF s[i] \in Joined THEN [r EXCEPT !.taken = Append(@, i)]
    ELSE r

\* from_makefile skips what parse_line takes, and link-time optimization.
CompilerWord(s, r, i) ==
    IF r.wait THEN [r EXCEPT !.wait = FALSE]
    ELSE IF s[i] \in Bare THEN [r EXCEPT !.wait = TRUE]
    ELSE IF s[i] \in Joined \cup Lto THEN r
    ELSE [r EXCEPT !.taken = Append(@, i)]

\* A bare flag at the end panics (expect).
Ended(r) == [r EXCEPT !.failed = r.wait]

parse_makefile(s) ==
    Ended(FoldLeft(LAMBDA r, i : ParseWord(s, r, i), Reader, [i \in DOMAIN s |-> i]))

from_makefile(s) ==
    Ended(FoldLeft(LAMBDA r, i : CompilerWord(s, r, i), Reader, [i \in DOMAIN s |-> i]))

-----------------------------------------------------------------------------
\* nginx_binary_objects: the objects the rule of the binary depends on.
BinaryObjects == deps \cap (Objects \cup Missing)

\* Those with a source in nginx's source or build directory are built again.
Sources == BinaryObjects \cap Rebuilt

\* resolve_makefile_path panics on a source that is not where the Makefile says.
Resolved == BinaryObjects \cap Missing = {}

\* nginx_rust_archives: the tests bring their own Rust code.
RustInputs == deps \cap RustArchives

\* Mutation: objects with a wrapper stay on the link command.
ReplacedCompiled == (Sources \ Wrapped) \cup RustInputs

\* What leaves the link command.
Replaced == Sources \cup RustInputs

\* What is compiled: the wrappers include the sources they stand for.
Compiled == (Sources \ Wrapped) \cup Wrapped

\* The build goes on if the sources that have a wrapper are there too: the
\* allocator's and the resolver's by assertion, nginx.c as every binary has it.
Complete == Resolved /\ Wrapped \subseteq Sources

Linker == [whole |-> FALSE, failed |-> FALSE, inputs |-> <<>>]

\* One word of nginx_native_link_inputs: an input is whole inside a region, and
\* regions do not nest.
LinkWord(s, r, i) ==
    IF r.failed \/ s[i] \in Replaced \cup Ignored THEN r
    ELSE IF s[i] = Begin THEN [r EXCEPT !.whole = TRUE, !.failed = r.whole]
    ELSE IF s[i] = End THEN [r EXCEPT !.whole = FALSE, !.failed = ~r.whole]
    ELSE [r EXCEPT !.inputs = Append(@, [at |-> i, whole |-> r.whole])]

nginx_native_link_inputs(s) ==
    LET r == FoldLeft(LAMBDA q, i : LinkWord(s, q, i), Linker, [i \in DOMAIN s |-> i])
    IN  [r EXCEPT !.failed = @ \/ r.whole]

\* emit_nginx_link_libraries: the word of every input that is emitted, and
\* whether all its members are linked; a single object always is.
Emitted(s) ==
    [k \in DOMAIN nginx_native_link_inputs(s).inputs |->
        LET x == nginx_native_link_inputs(s).inputs[k]
        IN  [word |-> s[x.at], whole |-> x.whole \/ s[x.at] \in Objects]]

-----------------------------------------------------------------------------
\* Whether the word at i is the argument of the word before it.
Argument[i \in 0..MaxFlags] ==
    i > 1 /\ cflags[i - 1] \in Bare /\ ~Argument[i - 1]

\* The two readers of CFLAGS agree on every word: what one takes as include or
\* definition the other leaves out, every other flag but those of link-time
\* optimization reaches the compiler, and no word is lost or used twice; they
\* refuse the same commands (parse_line and ConfiguredCCompiler::from_makefile).
FlagsSplit ==
    LET p == parse_makefile(cflags)
        c == from_makefile(cflags)
        Taken == {i \in DOMAIN cflags : Argument[i] \/ cflags[i] \in Joined}
        Rest == {i \in DOMAIN cflags : ~Argument[i] /\ cflags[i] \in Flags \cup Names}
    IN  /\ p.failed = c.failed
        /\ ~p.failed => /\ ToSet(p.taken) = Taken /\ Len(p.taken) = Cardinality(Taken)
                        /\ ToSet(c.taken) = Rest /\ Len(c.taken) = Cardinality(Rest)

\* Every object that nginx links or depends on is in the test library once: built
\* from its source, through a wrapper that includes it, or linked as it is; only
\* the Rust archives it depends on are left out (build_test_library).
ObjectsOnce ==
    ~nginx_native_link_inputs(link).failed /\ Complete =>
        LET linked == {x.word : x \in ToSet(Emitted(link))} IN
        /\ Len(Emitted(link)) = Cardinality(linked)
        /\ linked \cap Compiled = {}
        /\ linked \cup Compiled =
              Sources \cup ((ToSet(link) \cap (Objects \cup Archives)) \ RustInputs)

\* The regions of the link command in which archives are linked whole: those
\* whose nearest mark before them is a beginning.
Whole(i) == \E b \in 1..(i - 1) : link[b] = Begin /\ \A j \in b..(i - 1) : link[j] # End

\* An archive keeps the way it was linked, wherever words that leave the
\* command stood between it and the mark; only a command whose marks
\* alternate and are closed is accepted (nginx_native_link_inputs).
WholeRegions ==
    LET r == nginx_native_link_inputs(link)
        Marks == SelectSeq(link, LAMBDA w : w \in {Begin, End})
    IN  /\ ~r.failed <=> /\ \A k \in DOMAIN Marks : Marks[k] = (IF k % 2 = 1 THEN Begin ELSE End)
                         /\ Len(Marks) % 2 = 0
        /\ ~r.failed => \A k \in DOMAIN r.inputs : r.inputs[k].whole = Whole(r.inputs[k].at)
=============================================================================
