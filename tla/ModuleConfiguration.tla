------------------------ MODULE ModuleConfiguration -------------------------
(***************************************************************************)
(* Loading the configuration of HTTP and Stream modules, and the typed     *)
(* lookup of a module's configuration (src/http/conf.rs, src/http/module.rs*)
(* src/stream/conf.rs, src/stream/module.rs).                              *)
(*                                                                         *)
(* nginx loads a cycle, makes it active, and may load a second one, with   *)
(* other dynamic modules, while the first still serves.  The index of a    *)
(* module in the slot arrays, and the number of slots, are globals a load  *)
(* overwrites; the arrays themselves belong to a cycle.  A configuration   *)
(* value is named by the callback that made it: [cycle, block, module,     *)
(* level].                                                                 *)
(***************************************************************************)
EXTENDS Naturals, FiniteSets

CONSTANTS Modules,
          KindOf,       \* "http" or "stream", per module
          LoadedIn,     \* the modules of each cycle
          Indices       \* the index nginx gives each module among its kind

VARIABLES indexed,  \* modules whose indices nginx has assigned
          slots,    \* ngx_http_max_module and ngx_stream_max_module
          cycle,    \* the cycles
          active,   \* ngx_cycle, 0 before the first
          living,   \* configuration values not dropped
          last      \* the outcome of the last lookup

vars == <<indexed, slots, cycle, active, living, last>>

Cycles == DOMAIN LoadedIn
Kinds == {"http", "stream"}
Blocks == {"outer", "server"}
Levels(kind) == IF kind = "http" THEN {"main", "srv", "loc"} ELSE {"main", "srv"}

NoLookup == [asked |-> {}, got |-> {}]
Outside == {[cycle |-> 0, block |-> "", module |-> "", level |-> ""]}
Absent == [stage |-> "absent", size |-> [k \in Kinds |-> 0], confs |-> {}, cleanups |-> {},
           prepared |-> {}, merged |-> {}, configured |-> {}, handlers |-> {}, ready |-> {}]

Init ==
    /\ indexed = {} /\ slots = [k \in Kinds |-> 0]
    /\ cycle = [c \in Cycles |-> Absent]
    /\ active = 0 /\ living = {} /\ last = NoLookup

Loading(c) == cycle[c].stage = "loading"
Wanted(c) == {[cycle |-> c, block |-> b, module |-> m, level |-> l] :
                 b \in Blocks, m \in LoadedIn[c], l \in {"main", "srv", "loc"}}
Needed(c) == {x \in Wanted(c) : /\ x.level \in Levels(KindOf[x.module])
                                /\ x.level = "main" => x.block = "outer"}

\* ngx_count_modules: indices once given are kept, the slot counts grow.
StartCycle(c) ==
    /\ cycle[c] = Absent /\ \A d \in Cycles : ~Loading(d)
    /\ c > 1 => cycle[c - 1].stage # "absent"
    /\ indexed' = indexed \cup LoadedIn[c]
    /\ slots' = [k \in Kinds |-> Cardinality({m \in indexed' : KindOf[m] = k})]
    /\ cycle' = [cycle EXCEPT ![c].stage = "loading", ![c].size = slots']
    /\ last' = NoLookup
    /\ UNCHANGED <<active, living>>

\* A load that fails, or a cycle no longer used, gives its pool back.
Destroyed(c) == [Absent EXCEPT !.stage = "gone"]
Abort(c) ==
    /\ cycle' = [cycle EXCEPT ![c] = Destroyed(c)]
    /\ living' = living \ cycle[c].cleanups

(***************************************************************************)
(* The callbacks nginx runs while loading.                                 *)
(***************************************************************************)
\* allocate_configuration, in both subsystems: the value is owned by the
\* configuration pool; null when there is no pool or no memory, and nginx aborts.
Allocated(r, x) == [r EXCEPT !.confs = @ \cup {x}, !.cleanups = @ \cup {x}]
CreateConf(c, x) ==
    /\ Loading(c) /\ x \in Needed(c) \ cycle[c].confs
    /\ x.block = "server" => cycle[c].prepared = LoadedIn[c]
    /\ \A y \in Needed(c) \ cycle[c].confs : y.block = x.block => Indices[x.module] <= Indices[y.module]
    /\ \/ cycle' = [cycle EXCEPT ![c] = Allocated(@, x)] /\ living' = living \cup {x}
       \/ Abort(c)
    /\ last' = NoLookup
    /\ UNCHANGED <<indexed, slots, active>>

Created(c) == Loading(c) /\ cycle[c].confs = Needed(c)

\* The status of a preconfigure callback, through configuration_callback_status:
\* NGX_ERROR also for a parser that cannot be used.  The http or stream block has
\* its values by then, its servers do not.
HttpCallback(ok) == ok
StreamCallback(ok) == ok
Preconfigure(c, m, ok) ==
    /\ Loading(c) /\ \A x \in Needed(c) : x.block = "outer" => x \in cycle[c].confs
    /\ m \in LoadedIn[c] \ cycle[c].prepared
    /\ \A n \in LoadedIn[c] \ cycle[c].prepared : Indices[m] <= Indices[n]
    /\ IF IF KindOf[m] = "http" THEN HttpCallback(ok) ELSE StreamCallback(ok)
       THEN cycle' = [cycle EXCEPT ![c].prepared = @ \cup {m}] /\ UNCHANGED living
       ELSE Abort(c)
    /\ last' = NoLookup
    /\ UNCHANGED <<indexed, slots, active>>

\* init_main_conf: the HTTP adapter checks the parser as well as the value.
HttpInitMainConf(ok) == ok
StreamInitMainConf(ok) == ok
InitMainConf(c, m, ok) ==
    /\ Created(c) /\ m \in LoadedIn[c] \ cycle[c].ready
    /\ IF IF KindOf[m] = "http" THEN HttpInitMainConf(ok) ELSE StreamInitMainConf(ok)
       THEN cycle' = [cycle EXCEPT ![c].ready = @ \cup {m}] /\ UNCHANGED living
       ELSE Abort(c)
    /\ last' = NoLookup
    /\ UNCHANGED <<indexed, slots, active>>

\* merge_srv_conf, merge_loc_conf: refused for a null value or for a child that
\* is its own parent; the child's own merge may fail.
HttpMerges(parent, child, ok) == parent # child /\ ok
StreamMerges(parent, child, ok) == parent # child /\ ok
MergeConf(c, x, same, ok) ==
    /\ Created(c) /\ cycle[c].ready = LoadedIn[c]
    /\ x \in Needed(c) \ cycle[c].merged /\ x.block = "server"
    /\ LET parent == IF same THEN x ELSE [x EXCEPT !.block = "outer"]
       IN  IF IF KindOf[x.module] = "http" THEN HttpMerges(parent, x, ok) ELSE StreamMerges(parent, x, ok)
           THEN cycle' = [cycle EXCEPT ![c].merged = @ \cup {x}] /\ UNCHANGED living
           ELSE Abort(c)
    /\ last' = NoLookup
    /\ UNCHANGED <<indexed, slots, active>>

Merged(c) == Created(c) /\ \A x \in Needed(c) : x.block = "server" => x \in cycle[c].merged

\* postconfigure with add_phase_handler: a handler that cannot be pushed is
\* reported as NGX_ERROR, and nginx gives the load up.
HttpStatus(pushed) == IF pushed THEN "ok" ELSE "error"
StreamStatus(pushed) == IF pushed THEN "ok" ELSE "error"
Postconfigure(c, m, pushed) ==
    /\ Merged(c) /\ m \in LoadedIn[c] \ cycle[c].configured
    /\ IF (IF KindOf[m] = "http" THEN HttpStatus(pushed) ELSE StreamStatus(pushed)) = "error"
       THEN Abort(c)
       ELSE /\ cycle' = [cycle EXCEPT ![c].configured = @ \cup {m}, ![c].handlers = @ \cup IF pushed THEN {m} ELSE {}]
            /\ UNCHANGED living
    /\ last' = NoLookup
    /\ UNCHANGED <<indexed, slots, active>>

\* The new cycle replaces the old one, which lives on until its pool is destroyed.
Activate(c) ==
    /\ Merged(c) /\ cycle[c].configured = LoadedIn[c]
    /\ active' = c
    /\ cycle' = [cycle EXCEPT ![c].stage = "serving"]
    /\ last' = NoLookup
    /\ UNCHANGED <<indexed, slots, living>>

DestroyOld(c) ==
    /\ cycle[c].stage = "serving" /\ active # c
    /\ Abort(c)
    /\ last' = NoLookup
    /\ UNCHANGED <<indexed, slots, active>>

(***************************************************************************)
(* Lookups.                                                                *)
(***************************************************************************)
HttpIndexAnyType(m, count) == IF m \in indexed /\ Indices[m] < count THEN {Indices[m]} ELSE {}

\* module_indexes and its live form: the type, then the index against the count.
HttpIndexOf(m, count) == IF KindOf[m] = "http" /\ m \in indexed /\ Indices[m] < count THEN {Indices[m]} ELSE {}
StreamIndexOf(m, count) == IF KindOf[m] = "stream" /\ m \in indexed /\ Indices[m] < count THEN {Indices[m]} ELSE {}

\* conf_slot: what the slot array of that kind holds at an index.
Slot(c, kind, block, level, i) ==
    {x \in cycle[c].confs : /\ KindOf[x.module] = kind /\ Indices[x.module] = i /\ x.level = level
                            /\ x.block = IF level = "main" THEN "outer" ELSE block}

Read(c, kind, block, level, i) ==
    IF i >= cycle[c].size[kind] THEN Outside ELSE Slot(c, kind, block, level, i)

Answer(c, kind, block, level, m, found) ==
    last' = [asked |-> {[cycle |-> c, block |-> IF level = "main" THEN "outer" ELSE block, module |-> m, level |-> level]},
             got   |-> UNION {Read(c, kind, block, level, i) : i \in found}]

\* The parser of the cycle being loaded: main_conf, server_conf, location_conf
\* and their mutable forms, from a callback of a module of that cycle.
HttpParserLookup(c, m, block, level) ==
    /\ Loading(c) /\ level \in Levels("http")
    /\ Answer(c, "http", block, level, m, HttpIndexOf(m, slots["http"]))
    /\ UNCHANGED <<indexed, slots, cycle, active, living>>

StreamParserLookup(c, m, block, level) ==
    /\ Loading(c) /\ level \in Levels("stream")
    /\ Answer(c, "stream", block, level, m, StreamIndexOf(m, slots["stream"]))
    /\ UNCHANGED <<indexed, slots, cycle, active, living>>

\* A request, an upstream or a session of a serving cycle, asked by code of a
\* module of that cycle, which may name any other of its modules.
HttpRequestLookup(c, m, level) ==
    /\ cycle[c].stage = "serving" /\ level \in Levels("http")
    /\ Answer(c, "http", "server", level, m, HttpIndexOf(m, slots["http"]))
    /\ UNCHANGED <<indexed, slots, cycle, active, living>>

StreamSessionLookup(c, m, level) ==
    /\ cycle[c].stage = "serving" /\ level \in Levels("stream")
    /\ Answer(c, "stream", "server", level, m, StreamIndexOf(m, slots["stream"]))
    /\ UNCHANGED <<indexed, slots, cycle, active, living>>

\* main_conf_from_cycle with the slot count of that cycle.
HttpCycleLookup(c, m) ==
    /\ cycle[c].stage = "serving"
    /\ Answer(c, "http", "outer", "main", m, HttpIndexOf(m, cycle[c].size["http"]))
    /\ UNCHANGED <<indexed, slots, cycle, active, living>>

StreamCycleLookup(c, m) ==
    /\ cycle[c].stage = "serving"
    /\ Answer(c, "stream", "outer", "main", m, StreamIndexOf(m, cycle[c].size["stream"]))
    /\ UNCHANGED <<indexed, slots, cycle, active, living>>

\* ProcessCycle::main_conf and with_active_main_conf use the live slot count with
\* the active cycle: in a worker, where no load is under way and none failed since.
InWorker == active # 0 /\ slots = cycle[active].size /\ \A d \in Cycles : ~Loading(d)

ProcessLookup(m) ==
    /\ InWorker
    /\ Answer(active, "http", "outer", "main", m, HttpIndexOf(m, slots["http"]))
    /\ UNCHANGED <<indexed, slots, cycle, active, living>>

ActiveLookup(m) ==
    /\ InWorker
    /\ IF KindOf[m] = "http"
       THEN Answer(active, "http", "outer", "main", m, HttpIndexOf(m, slots["http"]))
       ELSE Answer(active, "stream", "outer", "main", m, StreamIndexOf(m, slots["stream"]))
    /\ UNCHANGED <<indexed, slots, cycle, active, living>>

Next ==
    \/ \E c \in Cycles :
        \/ StartCycle(c) \/ Activate(c) \/ DestroyOld(c)
        \/ \E x \in Needed(c) : CreateConf(c, x)
        \/ \E x \in Needed(c), same, ok \in BOOLEAN : MergeConf(c, x, same, ok)
        \/ \E m \in Modules, ok \in BOOLEAN : Preconfigure(c, m, ok) \/ InitMainConf(c, m, ok) \/ Postconfigure(c, m, ok)
        \/ \E m \in Modules, level \in {"main", "srv", "loc"}, block \in Blocks :
               HttpParserLookup(c, m, block, level) \/ StreamParserLookup(c, m, block, level)
        \/ \E m \in LoadedIn[c], level \in {"main", "srv", "loc"} : HttpRequestLookup(c, m, level) \/ StreamSessionLookup(c, m, level)
        \/ \E m \in Modules : HttpCycleLookup(c, m) \/ StreamCycleLookup(c, m)
    \/ \E m \in Modules : ProcessLookup(m) \/ ActiveLookup(m)

Spec == Init /\ [][Next]_vars

(***************************************************************************)
(* Properties.                                                             *)
(***************************************************************************)
\* The slots of a cycle name living values of that cycle's modules, each owned
\* by the cycle's pool.
TypeOK ==
    \A c \in Cycles : cycle[c].confs \subseteq (Needed(c) \cap living) /\ cycle[c].cleanups = cycle[c].confs

\* A lookup returns the asked module's own value at the asked level of the asked
\* cycle, or nothing: no other module's slot, no slot past the end of an array
\* that an older cycle made shorter.
ReadsItsOwn == last.got \subseteq last.asked

\* What serves was loaded completely: every value created, initialised and
\* merged, and every phase handler in place.
ServingIsComplete ==
    active # 0 =>
        /\ cycle[active].confs = Needed(active) /\ cycle[active].ready = LoadedIn[active]
        /\ cycle[active].handlers = LoadedIn[active]
        /\ \A x \in Needed(active) : x.block = "server" => x \in cycle[active].merged

\* A failed load, or the end of an old cycle, drops every value made for it.
NothingOutlivesItsCycle == \A x \in living : cycle[x.cycle].stage # "gone"
============================================================================
