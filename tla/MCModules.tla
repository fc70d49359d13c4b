------------------------------ MODULE MCModules ------------------------------
(***************************************************************************)
(* What a module is built from and registers with nginx: the source cache  *)
(* and the flags of its build (SourceCache, BuildFlags), configuration     *)
(* values (ModuleConfiguration), variables of HTTP and stream sessions     *)
(* (HttpVariables, StreamSession), upstream initialisers (UpstreamInit)    *)
(* and PROXY protocol metadata (ProxyProtocol).  A behaviour is one of the *)
(* component `part'; the others stay in their initial state.               *)
(***************************************************************************)
EXTENDS Naturals

VARIABLES part,
    indexed, slots, cycle, active, living, lastConf,
    defs, prefixes, held, request, frames, lastVar, pending,
    session, frame, bytes, drops,
    conf, slot, initFrames, req, result,
    carrier, metadata, builder, want, answer,
    cache, staging, left, output, build, faults,
    cflags, link, deps

\* Two HTTP modules, the second one loaded only by the second cycle, and one
\* stream module.
Modules == {"h", "h2", "s"}
Conf == INSTANCE ModuleConfiguration WITH
    KindOf <- [m \in Modules |-> IF m = "s" THEN "stream" ELSE "http"],
    LoadedIn <- [c \in {1, 2} |-> IF c = 1 THEN {"h", "s"} ELSE Modules],
    Indices <- [m \in Modules |-> IF m = "h2" THEN 1 ELSE 0],
    last <- lastConf

Vars == INSTANCE HttpVariables WITH
    Names <- {"a", "B", "c"}, Weak <- {"B"}, Unhandled <- {"c"}, MaxHeld <- 2, MaxLen <- 1,
    Lengths <- {1, 2}, MaxDefs <- 2, MaxDepth <- 2, last <- lastVar

Stream == INSTANCE StreamSession WITH
    Sessions <- {1, 2}, Modules <- {"m", "n"}, MaxContexts <- 2, MaxBytes <- 1,
    MaxLen <- 1, Lengths <- {1, 2}

Upstream == INSTANCE UpstreamInit WITH
    Handlers <- {"h1", "h2"}, Upstreams <- {"u1", "u2"}, frames <- initFrames

\* TLVs a module attaches: none, one entry, two entries, and a truncated one.
Proxy == INSTANCE ProxyProtocol WITH
    Bytes <- {0, 1}, MaxBytes <- 6, Types <- {0, 1},
    Offered <- {<<>>, <<1, 0, 0>>, <<0, 0, 1, 1>>, <<1, 0>>, <<1, 0, 0, 0, 0, 1, 0>>},
    U16Max <- 9, MaxHeader <- 10, HeaderLen <- 2, Wire4 <- 1, Wire6 <- 4,
    Lengths <- {1, 3, 5}, FamilyEnd <- 2, Size4 <- 3, Size6 <- 5, PathOffset <- 2, SizeUn <- 5

\* Two builds that verify, over whatever an earlier build without gpg left.
Source == INSTANCE SourceCache WITH
    Builds <- {1, 2}, Verifying <- {1, 2}, MaxName <- 1, MaxFaults <- 1,
    FirstCache <- {"none", "good", "bad", "empty"}

ASSUME SourceAssumed == Source!SourceAssumption

Flags == INSTANCE BuildFlags WITH
    Bare <- {"-I", "-D"}, Joined <- {"-Idir", "-Dname"}, Lto <- {"-flto"}, Flags <- {"-O", "-W"},
    Names <- {"dir"}, Objects <- {"nginx.o", "core.o", "addon.o"},
    Rebuilt <- {"nginx.o", "core.o"}, Wrapped <- {"nginx.o"}, Missing <- {"gone.o"}, Archives <- {"lib.a", "rust.a"},
    RustArchives <- {"rust.a"}, Ignored <- {"-Wl,-E"}, MaxFlags <- 4, MaxLink <- 5,
    Dependencies <- {{"nginx.o", "core.o", "addon.o", "lib.a", "rust.a"}, {"nginx.o", "lib.a"},
                     {"nginx.o", "gone.o"}}

confVars     == <<indexed, slots, cycle, active, living, lastConf>>
varVars      == <<defs, prefixes, held, request, frames, lastVar, pending>>
streamVars   == <<session, frame, bytes, drops>>
upstreamVars == <<conf, slot, initFrames, req, result>>
proxyVars    == <<carrier, metadata, builder, want, answer>>
sourceVars   == <<cache, staging, left, output, build, faults>>
flagVars     == <<cflags, link, deps>>
allVars      == <<confVars, varVars, streamVars, upstreamVars, proxyVars, sourceVars, flagVars>>

Absent == "absent"

ModulesInit ==
    /\ part \in {"conf", "vars", "stream", "upstream", "proxy", "source", "flags"}
    /\ Conf!Init /\ Vars!Init /\ Stream!Init /\ Upstream!Init
    /\ IF part = "proxy" THEN Proxy!Init
       ELSE /\ carrier = Absent /\ metadata = Absent /\ builder = Absent
            /\ want = Absent /\ answer = Absent
    /\ IF part = "source" THEN Source!Init
       ELSE /\ cache = Absent /\ staging = Absent /\ left = Absent
            /\ output = Absent /\ build = Absent /\ faults = Absent
    /\ IF part = "flags" THEN Flags!Init ELSE cflags = Absent /\ link = Absent /\ deps = Absent

ModulesNext ==
    /\ UNCHANGED part
    /\ \/ /\ part = "conf" /\ Conf!Next
          /\ UNCHANGED <<varVars, streamVars, upstreamVars, proxyVars, sourceVars, flagVars>>
       \/ /\ part = "vars" /\ Vars!Next
          /\ UNCHANGED <<confVars, streamVars, upstreamVars, proxyVars, sourceVars, flagVars>>
       \/ /\ part = "stream" /\ Stream!Next
          /\ UNCHANGED <<confVars, varVars, upstreamVars, proxyVars, sourceVars, flagVars>>
       \/ /\ part = "upstream" /\ Upstream!Next
          /\ UNCHANGED <<confVars, varVars, streamVars, proxyVars, sourceVars, flagVars>>
       \/ /\ part = "proxy" /\ Proxy!Next
          /\ UNCHANGED <<confVars, varVars, streamVars, upstreamVars, sourceVars, flagVars>>
       \/ /\ part = "source" /\ Source!Next
          /\ UNCHANGED <<confVars, varVars, streamVars, upstreamVars, proxyVars, flagVars>>
       \/ /\ part = "flags" /\ Flags!Next
          /\ UNCHANGED <<confVars, varVars, streamVars, upstreamVars, proxyVars, sourceVars>>

ModulesSpec == ModulesInit /\ [][ModulesNext]_<<part, allVars>>

\* A configuration lookup finds the asked module's value of the asked cycle or
\* nothing; what serves was loaded completely, and what ended is dropped
\* (HttpModuleMainConf, StreamModuleMainConf, cycle_main_conf).
ReadsItsOwn == part = "conf" =>
    /\ Conf!TypeOK /\ Conf!ReadsItsOwn
    /\ Conf!ServingIsComplete /\ Conf!NothingOutlivesItsCycle

\* A variable is read through its own index, at its full length, and an
\* invalidation clears what it was prepared for (HttpVariableIndex).
ReadsWhatWasAsked ==
    /\ [](part = "vars" => /\ Vars!TypeOK /\ Vars!ReadsWhatWasAsked
                           /\ Vars!IndexResolvesAtHome /\ Vars!SlotExact)
    /\ [][part = "vars" => Vars!InvalidationExact]_varVars

\* Stream contexts and values live as long as what reaches them, and an evaluated
\* variable is found or absent (Session::get_or_insert_context).
OwnedUntilDropped ==
    /\ [](part = "stream" =>
            /\ Stream!TypeOK /\ Stream!ReachableContextsLive
            /\ Stream!OwnedUntilDropped /\ Stream!BytesOfNamedPool)
    /\ [][part = "stream" => Stream!EvaluatedIsSettled]_streamVars

\* Nested upstream initialisers end at nginx's own, act for the upstream they were
\* installed in, and report a peer only when it is ready (UpstreamCallbackSlot).
OwnersKept ==
    /\ [](part = "upstream" => /\ Upstream!TypeOK /\ Upstream!ChainsEnd /\ Upstream!OwnersKept
                               /\ Upstream!CleanupsOfRunningFrames /\ Upstream!DestroyedNotTouched)
    /\ [][part = "upstream" => Upstream!ReportedReady]_upstreamVars

\* PROXY protocol metadata reads as it was attached, fits its header, and a TLV
\* lookup finds the first entry (lookup_proxy_protocol_tlv).
LookupExact == part = "proxy" =>
    /\ Proxy!TypeOK /\ Proxy!ReadsWhatWasAttached /\ Proxy!HeaderFits
    /\ Proxy!LookupExact /\ Proxy!AddressWithinLength

\* A build extracts only whole, verified archives, though others publish to the
\* same cache and any of them may be killed (extract_archive).
SourceExact == part = "source" => Source!SourceExact

\* The test library is linked from every object and archive of nginx once, in the
\* way nginx links it, and compiled with its flags (nginx_native_link_inputs).
ObjectsOnce == part = "flags" => Flags!FlagsSplit /\ Flags!ObjectsOnce /\ Flags!WholeRegions
=============================================================================
