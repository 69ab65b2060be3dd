---------------------------- MODULE McpRegistry ----------------------------
(***************************************************************************)
(* One MCP server: its row, the refreshes that discover its tools          *)
(* (src/backend/runtime/mcp.py), the registry of the web process they are  *)
(* installed into (src/backend/domain/tools.py) and the calls made to      *)
(* them.  The worker refreshes the row and never the registry.  Servers    *)
(* have a row each and do not interact.                                    *)
(***************************************************************************)
EXTENDS Naturals, FiniteSets

CONSTANTS
    Tools,         \* names of the server's tools
    Configs,       \* configurations of the server
    Reads,         \* the <<config, tool>> pairs overridden as safe or read
    Refreshers,    \* refreshes that may be under way at the same time
    Calls,         \* tool calls that may be under way at the same time
    MaxAttempts,   \* tool_policy.max_attempts (2 in the code)
    AdminBound,    \* bound: upserts and changes of the seed file
    TroubleBound,  \* bound: failures, timeouts and restarts
    RefreshBound,  \* bound: refreshes
    None

ASSUME McpAssumption == /\ Reads \subseteq Configs \X Tools
                        /\ MaxAttempts \in Nat \ {0}

VARIABLES
    row,       \* the server's row, or None
    seed,      \* the server's entry in the seed file
    web,       \* the web process: whether it serves, and its registry
    installed, \* what the last install read (history)
    ref,       \* the refreshes under way
    call,      \* the calls under way
    spent      \* what the bounds count

vars == <<row, seed, web, installed, ref, call, spent>>

\* A cached descriptor; from is the configuration it was discovered under.
Descriptor == [tool: Tools, perm: {"read", "write"}, from: Configs]
Definition == [tool: Tools, perm: {"read", "write"}, from: Configs, available: BOOLEAN]
\* tried, overtaken and byHand are history: the configuration of the refresh
\* that wrote the status, whether the row was changed under that refresh, and
\* what the upsert endpoint last set.
MCPServer ==
    [cfg: Configs, source: {"manual", "yaml"}, sum: Configs \cup {None}, enabled: BOOLEAN,
     status: {"pending", "disabled", "connected", "failed"}, tools: SUBSET Descriptor,
     tried: Configs \cup {None}, overtaken: BOOLEAN, byHand: Configs \cup {None}]

\* A refresh under way: the configuration it loaded, what it found, and
\* whether the row was changed since (history).
Refreshing ==
    [kind: {"boot", "web", "worker"}, pc: {"discover", "persist", "clear", "read", "fill"},
     cfg: Configs \cup {None}, status: {"disabled", "connected", "failed"},
     tools: SUBSET (Descriptor \cup Definition), overtaken: BOOLEAN]
\* A call under way; live is history: the row was enabled since it began.
Calling ==
    [pc: {"load", "send", "wait"}, tool: Tools, from: Configs, cfg: Configs \cup {None},
     sent: 0..MaxAttempts, live: BOOLEAN]

ASSUME NoneAssumption ==
    None \notin Configs /\ None \notin MCPServer /\ None \notin Refreshing /\ None \notin Calling

tool_permission(cfg, tool) == IF <<cfg, tool>> \in Reads THEN "read" ELSE "write"

Init ==
    /\ row = None
    /\ seed \in Configs \cup {None}
    /\ web = [up |-> FALSE, tools |-> {}]
    /\ installed = {}
    /\ ref = [f \in Refreshers |-> None]
    /\ call = [c \in Calls |-> None]
    /\ spent = [admin |-> 0, trouble |-> 0, refresh |-> 0]

Spend(what, bound) == /\ spent[what] < bound
                      /\ spent' = [spent EXCEPT ![what] = @ + 1]
Trouble == Spend("trouble", TroubleBound)

----------------------------------------------------------------------------
(* The row: the upsert endpoint and the import of the seed file.           *)

\* Mutant: a changed server keeps the status of its last refresh.
UpsertKeepsStatus(old, cfg, enabled, source, sum) ==
    [cfg |-> cfg, source |-> source, sum |-> sum, enabled |-> enabled,
     status |-> IF old # None THEN old.status ELSE "pending",
     tools |-> IF old # None /\ enabled THEN old.tools ELSE {},
     tried |-> IF old # None THEN old.tried ELSE None,
     overtaken |-> old # None /\ old.overtaken,
     byHand |-> CASE source = "manual" -> cfg [] source # "manual" /\ old # None -> old.byHand [] OTHER -> None]

\* An enabled server keeps its cached tools, as pending ones.
upsert_mcp_server(old, cfg, enabled, source, sum) ==
    [cfg |-> cfg, source |-> source, sum |-> sum, enabled |-> enabled,
     status |-> IF enabled THEN "pending" ELSE "disabled",
     tools |-> IF old # None /\ enabled THEN old.tools ELSE {},
     tried |-> None, overtaken |-> FALSE,
     byHand |-> CASE source = "manual" -> cfg [] source # "manual" /\ old # None -> old.byHand [] OTHER -> None]

\* Refreshes that have loaded the row are overtaken by a change of it.
Overtaking == [f \in Refreshers |-> IF ref[f] = None THEN None ELSE [ref[f] EXCEPT !.overtaken = TRUE]]

\* The source is manual unless the client names another.
UpsertMcp(cfg, enabled) ==
    /\ web.up
    /\ Spend("admin", AdminBound)
    /\ row' = upsert_mcp_server(row, cfg, enabled, "manual", None)
    /\ ref' = Overtaking
    /\ call' = [c \in Calls |-> IF call[c] # None /\ enabled THEN [call[c] EXCEPT !.live = TRUE] ELSE call[c]]
    /\ UNCHANGED <<seed, web, installed>>

EditSeed(cfg) ==
    /\ Spend("admin", AdminBound)
    /\ seed' = cfg
    /\ UNCHANGED <<row, web, installed, ref, call>>

\* Mutant: the seed wins over what was set by hand.
SeedAlwaysNew == row = None \/ row.sum # seed

\* A server set by hand, or imported from this very entry, is skipped.
SeedIsNew == row = None \/ (row.source = "yaml" /\ row.sum # seed)

----------------------------------------------------------------------------
(* Starting, and refresh_all and refresh_server.                           *)

Booting == \E f \in Refreshers : ref[f] # None /\ ref[f].kind = "boot"

\* refresh_all skips a server that is not enabled; refresh_server fails for an
\* unknown one and marks a disabled one.
Refresh(f, kind, all, server) ==
    LET Entry(pc, cfg) == [kind |-> kind, pc |-> pc, cfg |-> cfg, status |-> "disabled", tools |-> {}, overtaken |-> FALSE]
    IN CASE server # None /\ server.enabled -> Entry("discover", server.cfg)
         [] server # None /\ ~server.enabled /\ ~all -> Entry("persist", server.cfg)
         [] (server = None \/ ~server.enabled) /\ all /\ kind # "worker" -> Entry("clear", None)
         [] OTHER -> None

\* The process starts: the seed is imported, then all servers are refreshed.
Start(f) ==
    /\ ~web.up /\ ~Booting
    /\ ref[f] = None
    /\ \E enabled \in BOOLEAN :
         LET server == IF seed # None /\ SeedIsNew THEN upsert_mcp_server(row, seed, enabled, "yaml", seed) ELSE row
         IN /\ row' = server
            /\ ref' = [IF server # row THEN Overtaking ELSE ref EXCEPT ![f] = Refresh(f, "boot", TRUE, server)]
    /\ UNCHANGED <<seed, web, installed, call, spent>>

RefreshBegin(f, kind, all) ==
    /\ ref[f] = None
    /\ kind = "web" => web.up
    /\ Spend("refresh", RefreshBound)
    /\ ref' = [ref EXCEPT ![f] = Refresh(f, kind, all, row)]
    /\ UNCHANGED <<row, seed, web, installed, call>>

At(f, pc) == ref[f] # None /\ ref[f].pc = pc

DescriptorOf(cfg, tool) == [tool |-> tool, perm |-> tool_permission(cfg, tool), from |-> cfg]

\* The server lists its tools.
Discovered(f, tools) ==
    /\ At(f, "discover")
    /\ ref' = [ref EXCEPT ![f].pc = "persist", ![f].status = "connected",
                          ![f].tools = {DescriptorOf(ref[f].cfg, t) : t \in tools}]
    /\ UNCHANGED <<row, seed, web, installed, call, spent>>

DiscoveryFails(f) ==
    /\ At(f, "discover")
    /\ Trouble
    /\ ref' = [ref EXCEPT ![f].pc = "persist", ![f].status = "failed"]
    /\ UNCHANGED <<row, seed, web, installed, call>>

\* The second session of refresh_server; the endpoints then install.
PersistStatus(f) ==
    /\ At(f, "persist")
    /\ row' = [row EXCEPT !.status = ref[f].status, !.tools = ref[f].tools,
                          !.tried = ref[f].cfg, !.overtaken = ref[f].overtaken]
    /\ ref' = [ref EXCEPT ![f] = IF @.kind = "worker" THEN None ELSE [@ EXCEPT !.pc = "clear"]]
    /\ UNCHANGED <<seed, web, installed, call, spent>>

----------------------------------------------------------------------------
(* install_into_registry: threads that run tools see its steps; other      *)
(* coroutines of the event loop do not.                                    *)

\* Mutant: another refresh may run inside an install.
LoopAlwaysFree(f) == TRUE

LoopFree(f) == \A g \in Refreshers \ {f} : ~At(g, "read") /\ ~At(g, "fill")

unregister_prefix(f) ==
    /\ At(f, "clear")
    /\ LoopFree(f)
    /\ web' = [web EXCEPT !.tools = {}]
    /\ ref' = [ref EXCEPT ![f].pc = "read"]
    /\ UNCHANGED <<row, seed, installed, call, spent>>

\* A definition per cached tool of an enabled server.
cached_tool_definitions ==
    IF row = None \/ ~row.enabled THEN {}
    ELSE {[tool |-> d.tool, perm |-> d.perm, from |-> d.from, available |-> row.status = "connected"] : d \in row.tools}

ReadCache(f) ==
    /\ At(f, "read")
    /\ ref' = [ref EXCEPT ![f].pc = "fill", ![f].tools = cached_tool_definitions]
    /\ UNCHANGED <<row, seed, web, installed, call, spent>>

register_many(f) ==
    /\ At(f, "fill")
    /\ web' = [web EXCEPT !.tools = @ \cup ref[f].tools, !.up = TRUE]
    /\ installed' = ref[f].tools
    /\ ref' = [ref EXCEPT ![f] = None]
    /\ UNCHANGED <<row, seed, call, spent>>

\* The table cannot be read: the registry stays empty, a start fails.
InstallFails(f) ==
    /\ At(f, "read")
    /\ Trouble
    /\ installed' = {}
    /\ ref' = [ref EXCEPT ![f] = None]
    /\ UNCHANGED <<row, seed, web, call>>

----------------------------------------------------------------------------
(* Tool calls.                                                             *)

CallAt(c, pc) == call[c] # None /\ call[c].pc = pc

\* ToolExecutor.execute: the definition decides whether to ask.
Execute(c, d, approved) ==
    /\ web.up
    /\ call[c] = None
    /\ d.available
    /\ approved \/ d.perm = "read"
    /\ call' = [call EXCEPT ![c] = [pc |-> "load", tool |-> d.tool, from |-> d.from,
                                    cfg |-> None, sent |-> 0, live |-> row.enabled]]
    /\ UNCHANGED <<row, seed, web, installed, ref, spent>>

\* call_tool reads the row again.
CallLoad(c) ==
    /\ CallAt(c, "load")
    /\ call' = [call EXCEPT ![c] = IF row.enabled THEN [@ EXCEPT !.pc = "send", !.cfg = row.cfg] ELSE None]
    /\ UNCHANGED <<row, seed, web, installed, ref, spent>>

\* Mutant: the permission of the definition decides.
RetriesByDefinition(c) == tool_permission(call[c].from, call[c].tool) = "read"

\* tool_policy for a tool that reads, write_tool_policy for any other.
Retries(c) == tool_permission(call[c].cfg, call[c].tool) = "read"

CallSent(c) ==
    /\ CallAt(c, "send")
    /\ call' = [call EXCEPT ![c].sent = @ + 1, ![c].pc = "wait"]
    /\ UNCHANGED <<row, seed, web, installed, ref, spent>>

CallAnswered(c) ==
    /\ CallAt(c, "wait")
    /\ call' = [call EXCEPT ![c] = None]
    /\ UNCHANGED <<row, seed, web, installed, ref, spent>>

CallFails(c) ==
    /\ CallAt(c, "wait")
    /\ Trouble
    /\ call' = [call EXCEPT ![c] = IF Retries(c) /\ @.sent < MaxAttempts THEN [@ EXCEPT !.pc = "send"] ELSE None]
    /\ UNCHANGED <<row, seed, web, installed, ref>>

----------------------------------------------------------------------------

\* The web process dies, with its registry, its refreshes and its calls.
WebCrash ==
    /\ web.up \/ Booting
    /\ Trouble
    /\ web' = [up |-> FALSE, tools |-> {}]
    /\ installed' = {}
    /\ ref' = [f \in Refreshers |-> IF ref[f] # None /\ ref[f].kind = "worker" THEN ref[f] ELSE None]
    /\ call' = [c \in Calls |-> None]
    /\ UNCHANGED <<row, seed>>

WorkerCrash(f) ==
    /\ ref[f] # None /\ ref[f].kind = "worker"
    /\ Trouble
    /\ ref' = [ref EXCEPT ![f] = None]
    /\ UNCHANGED <<row, seed, web, installed, call>>

Next ==
    \/ \E cfg \in Configs, enabled \in BOOLEAN : UpsertMcp(cfg, enabled)
    \/ \E cfg \in Configs : EditSeed(cfg)
    \/ \E f \in Refreshers :
        \/ Start(f)
        \/ \E kind \in {"web", "worker"}, all \in BOOLEAN : RefreshBegin(f, kind, all)
        \/ \E tools \in SUBSET Tools : Discovered(f, tools)
        \/ DiscoveryFails(f)
        \/ PersistStatus(f)
        \/ unregister_prefix(f)
        \/ ReadCache(f)
        \/ register_many(f)
        \/ InstallFails(f)
        \/ WorkerCrash(f)
    \/ \E c \in Calls :
        \/ \E d \in web.tools, approved \in BOOLEAN : Execute(c, d, approved)
        \/ CallLoad(c)
        \/ CallSent(c)
        \/ CallAnswered(c)
        \/ CallFails(c)
    \/ WebCrash

Spec == Init /\ [][Next]_vars

----------------------------------------------------------------------------
(* Properties.                                                             *)

TypeOK ==
    /\ row \in MCPServer \cup {None}
    /\ seed \in Configs \cup {None}
    /\ web \in [up: BOOLEAN, tools: SUBSET Definition]
    /\ ref \in [Refreshers -> Refreshing \cup {None}]
    /\ call \in [Calls -> Calling \cup {None}]

\* A server is shown as connected only under the configuration a refresh
\* really tried, unless the row was changed while that refresh was under way.
ConnectedWasTried ==
    (row # None /\ row.status = "connected" /\ ~row.overtaken) => (row.tried = row.cfg /\ row.enabled)

\* No tool outlives the install that replaced it: between installs the
\* registry is what one read of the table returned, or empty after a failure.
OneSnapshot ==
    (\A f \in Refreshers : ~At(f, "read") /\ ~At(f, "fill")) => web.tools = installed

\* What was set by hand survives restarts, whatever the seed file says.
HandSetKept == row # None /\ row.byHand # None => row.cfg = row.byHand

\* The row decides what a call does, not the registry it was offered by, which
\* still has the tools of a disabled server and permissions that were changed:
\* a call reaches only a server that was enabled at some time since the call
\* began, and one that may write is sent once.
CallsFollowTheRow ==
    \A c \in Calls : call[c] # None =>
        /\ call[c].sent > 0 => call[c].live
        /\ call[c].sent > 1 => tool_permission(call[c].cfg, call[c].tool) = "read"
=============================================================================
