------------------------- MODULE McpRegistryProofs -------------------------
(***************************************************************************)
(* Safety of one MCP server's row, registry and calls for any sets of      *)
(* configurations and tools, any number of refreshes and calls under way,  *)
(* and crashes of both processes; and of the circuit breaker through which *)
(* its calls go, for any number of threads.                                *)
(***************************************************************************)
EXTENDS McpRegistry, Resilience, TLAPS

\* A refresh keeps descriptors until it has read the cache.
ToolsInStep ==
    \A f \in Refreshers : ref[f] # None =>
        ref[f].tools \subseteq IF ref[f].pc = "fill" THEN Definition ELSE Descriptor

\* Nothing is offered or called before the server has a row.
RowFirst ==
    row = None =>
        /\ web.tools = {}
        /\ \A f \in Refreshers : At(f, "fill") => ref[f].tools = {}
        /\ \A c \in Calls : call[c] = None

\* A refresh that was not overtaken still agrees with the row it loaded.
LoadedAgrees ==
    \A f \in Refreshers : At(f, "discover") \/ At(f, "persist") =>
        /\ row # None
        /\ ref[f].cfg \in Configs
        /\ ~ref[f].overtaken =>
             /\ ref[f].cfg = row.cfg
             /\ (ref[f].pc = "discover" \/ ref[f].status = "connected") => row.enabled

\* Only one refresh is inside install_into_registry, none of the worker's,
\* and it found the registry empty.
InInstall(f) == At(f, "read") \/ At(f, "fill")
InstallAlone ==
    \A f \in Refreshers : InInstall(f) =>
        /\ web.tools = {}
        /\ ref[f].kind # "worker"
        /\ \A g \in Refreshers : InInstall(g) => g = f
\* The worker's refreshes end with the row.
WorkerStays ==
    \A f \in Refreshers : ref[f] # None /\ ref[f].kind = "worker"
        => ref[f].pc \in {"discover", "persist"}

\* What was set by hand is marked so, and the seed leaves it alone.
HandIsManual ==
    row # None /\ row.byHand # None => row.source = "manual" /\ row.cfg = row.byHand

\* A call is sent again only when the row it loaded says the tool reads.
CallInStep ==
    \A c \in Calls : call[c] # None =>
        /\ web.up
        /\ call[c].pc = "load" => call[c].sent = 0 /\ (row.enabled => call[c].live)
        /\ call[c].pc # "load" => call[c].live /\ call[c].cfg \in Configs
        /\ call[c].pc = "send" =>
             /\ call[c].sent < MaxAttempts
             /\ call[c].sent > 0 => tool_permission(call[c].cfg, call[c].tool) = "read"
        /\ call[c].sent > 1 => tool_permission(call[c].cfg, call[c].tool) = "read"

Linked == ToolsInStep /\ RowFirst /\ LoadedAgrees /\ WorkerStays

IInv == /\ TypeOK /\ Linked /\ InstallAlone /\ HandIsManual /\ CallInStep
        /\ ConnectedWasTried /\ OneSnapshot
----------------------------------------------------------------------------

\* The invariant holds initially.
LEMMA InitIInv == Init => IInv
  BY NoneAssumption DEF Init, IInv, TypeOK, Linked, ToolsInStep, RowFirst, LoadedAgrees, WorkerStays,
     InstallAlone, InInstall, At, HandIsManual, CallInStep, ConnectedWasTried, OneSnapshot

\* EditSeed keeps the invariant.
LEMMA EditSeedStep ==
  ASSUME IInv, NEW cfg \in Configs, EditSeed(cfg)
  PROVE  IInv'
  <1> USE NoneAssumption DEF IInv, EditSeed, Spend, At
  <1>1. TypeOK'
    BY DEF TypeOK, Refreshing, Linked, LoadedAgrees, ToolsInStep
  <1>2. ToolsInStep'
    BY DEF TypeOK, Refreshing, Linked, ToolsInStep
  <1>3. RowFirst'
    BY DEF TypeOK, Refreshing, Linked, RowFirst, LoadedAgrees
  <1>4. LoadedAgrees'
    BY DEF TypeOK, Refreshing, Linked, LoadedAgrees
  <1>5. WorkerStays'
    BY DEF TypeOK, Refreshing, Linked, WorkerStays
  <1>6. InstallAlone'
    BY DEF TypeOK, Refreshing, Linked, WorkerStays, InstallAlone, InInstall
  <1>7. HandIsManual'
    BY DEF TypeOK, HandIsManual
  <1>8. CallInStep'
    BY DEF TypeOK, Calling, CallInStep, Linked, LoadedAgrees
  <1>9. ConnectedWasTried' /\ OneSnapshot'
    BY DEF TypeOK, Refreshing, Linked, LoadedAgrees, WorkerStays, InstallAlone, InInstall, ConnectedWasTried, OneSnapshot
  <1> QED BY <1>1, <1>2, <1>3, <1>4, <1>5, <1>6, <1>7, <1>8, <1>9 DEF Linked

\* RefreshBegin keeps the invariant.
LEMMA RefreshBeginStep ==
  ASSUME IInv, NEW f \in Refreshers, NEW kind \in {"web", "worker"}, NEW all \in BOOLEAN, RefreshBegin(f, kind, all)
  PROVE  IInv'
  <1> USE NoneAssumption DEF IInv, RefreshBegin, Spend, Refresh, MCPServer, At
  <1>1. TypeOK'
    BY DEF TypeOK, Refreshing, Linked, LoadedAgrees, ToolsInStep
  <1>2. ToolsInStep'
    BY DEF TypeOK, Refreshing, Linked, ToolsInStep
  <1>3. RowFirst'
    BY DEF TypeOK, Refreshing, Linked, RowFirst, LoadedAgrees
  <1>4. LoadedAgrees'
    BY DEF TypeOK, Refreshing, Linked, LoadedAgrees
  <1>5. WorkerStays'
    BY DEF TypeOK, Refreshing, Linked, WorkerStays
  <1>6. InstallAlone'
    BY DEF TypeOK, Refreshing, Linked, WorkerStays, InstallAlone, InInstall
  <1>7. HandIsManual'
    BY DEF TypeOK, HandIsManual
  <1>8. CallInStep'
    BY DEF TypeOK, Calling, CallInStep, Linked, LoadedAgrees
  <1>9. ConnectedWasTried' /\ OneSnapshot'
    BY DEF TypeOK, Refreshing, Linked, LoadedAgrees, WorkerStays, InstallAlone, InInstall, ConnectedWasTried, OneSnapshot
  <1> QED BY <1>1, <1>2, <1>3, <1>4, <1>5, <1>6, <1>7, <1>8, <1>9 DEF Linked

\* Discovered keeps the invariant.
LEMMA DiscoveredStep ==
  ASSUME IInv, NEW f \in Refreshers, NEW tools \in SUBSET Tools, Discovered(f, tools)
  PROVE  IInv'
  <1> USE NoneAssumption DEF IInv, Discovered, DescriptorOf, tool_permission, Descriptor, At
  <1>1. TypeOK'
    <2>1. {DescriptorOf(ref[f].cfg, t) : t \in tools} \subseteq Descriptor
      <3>1. ref[f].cfg \in Configs
        BY DEF Linked, LoadedAgrees
      <3>2. ASSUME NEW t \in Tools PROVE DescriptorOf(ref[f].cfg, t) \in Descriptor
        BY <3>1
      <3> HIDE DEF IInv, Discovered, DescriptorOf, Descriptor
      <3> QED BY <3>2
    <2>2. /\ {DescriptorOf(ref[f].cfg, t) : t \in tools} \in SUBSET (Descriptor \cup Definition)
          /\ ref[f] \in Refreshing /\ f \in DOMAIN ref
      BY <2>1 DEF TypeOK
    <2>3. ref'[f] = [ref[f] EXCEPT !.pc = "persist", !.status = "connected",
                                   !.tools = {DescriptorOf(ref[f].cfg, t) : t \in tools}]
      BY <2>2
    <2>4. ref'[f] \in Refreshing
      <3> HIDE DEF DescriptorOf, Descriptor
      <3> QED BY <2>2, <2>3 DEF Refreshing
    <2> QED BY <2>4 DEF TypeOK
  <1>2. ToolsInStep'
    BY DEF TypeOK, Refreshing, Linked, ToolsInStep
  <1>3. RowFirst'
    BY DEF TypeOK, Refreshing, Linked, RowFirst, LoadedAgrees
  <1>4. LoadedAgrees'
    BY DEF TypeOK, Refreshing, Linked, LoadedAgrees
  <1>5. WorkerStays'
    BY DEF TypeOK, Refreshing, Linked, WorkerStays
  <1>6. InstallAlone'
    BY DEF TypeOK, Refreshing, Linked, WorkerStays, InstallAlone, InInstall
  <1>7. HandIsManual'
    BY DEF TypeOK, HandIsManual
  <1>8. CallInStep'
    BY DEF TypeOK, Calling, CallInStep, Linked, LoadedAgrees
  <1>9. ConnectedWasTried' /\ OneSnapshot'
    BY DEF TypeOK, Refreshing, Linked, LoadedAgrees, WorkerStays, InstallAlone, InInstall, ConnectedWasTried, OneSnapshot
  <1> QED BY <1>1, <1>2, <1>3, <1>4, <1>5, <1>6, <1>7, <1>8, <1>9 DEF Linked

\* DiscoveryFails keeps the invariant.
LEMMA DiscoveryFailsStep ==
  ASSUME IInv, NEW f \in Refreshers, DiscoveryFails(f)
  PROVE  IInv'
  <1> USE NoneAssumption DEF IInv, DiscoveryFails, Trouble, Spend, At
  <1>1. TypeOK'
    <2>1. ref'[f] \in Refreshing
      <3>1. ref[f] \in Refreshing /\ ref'[f] = [ref[f] EXCEPT !.pc = "persist", !.status = "failed"]
        BY DEF TypeOK
      <3> QED BY ONLY <3>1 DEF Refreshing
    <2> QED BY <2>1 DEF TypeOK
  <1>2. ToolsInStep'
    BY DEF TypeOK, Refreshing, Linked, ToolsInStep
  <1>3. RowFirst'
    BY DEF TypeOK, Refreshing, Linked, RowFirst, LoadedAgrees
  <1>4. LoadedAgrees'
    BY DEF TypeOK, Refreshing, Linked, LoadedAgrees
  <1>5. WorkerStays'
    BY DEF TypeOK, Refreshing, Linked, WorkerStays
  <1>6. InstallAlone'
    BY DEF TypeOK, Refreshing, Linked, WorkerStays, InstallAlone, InInstall
  <1>7. HandIsManual'
    BY DEF TypeOK, HandIsManual
  <1>8. CallInStep'
    BY DEF TypeOK, Calling, CallInStep, Linked, LoadedAgrees
  <1>9. ConnectedWasTried' /\ OneSnapshot'
    BY DEF TypeOK, Refreshing, Linked, LoadedAgrees, WorkerStays, InstallAlone, InInstall, ConnectedWasTried, OneSnapshot
  <1> QED BY <1>1, <1>2, <1>3, <1>4, <1>5, <1>6, <1>7, <1>8, <1>9 DEF Linked

\* PersistStatus keeps the invariant.
LEMMA PersistStatusStep ==
  ASSUME IInv, NEW f \in Refreshers, PersistStatus(f)
  PROVE  IInv'
  <1> USE NoneAssumption DEF IInv, PersistStatus, MCPServer, At
  <1>0. row # None /\ ref[f].cfg \in Configs /\ ref[f].tools \subseteq Descriptor
    BY DEF Linked, LoadedAgrees, ToolsInStep
  <1>1. TypeOK' /\ row' \in MCPServer
    <2>1. row' \in MCPServer
      BY <1>0 DEF TypeOK, Refreshing
    <2>2. ref'[f] \in Refreshing \cup {None}
      BY DEF TypeOK, Refreshing
    <2> QED BY <2>1, <2>2 DEF TypeOK
  <1>2. row' # None /\ row'.cfg = row.cfg /\ row'.enabled = row.enabled /\ row'.source = row.source /\ row'.byHand = row.byHand
    <2>1. row \in MCPServer /\ row' \in MCPServer
      BY <1>0, <1>1 DEF TypeOK
    <2> QED BY <2>1
  <1>3. ToolsInStep'
    BY DEF TypeOK, Refreshing, Linked, ToolsInStep
  <1>4. RowFirst'
    BY <1>2 DEF RowFirst
  <1>5. LoadedAgrees'
    BY <1>0, <1>2 DEF TypeOK, Refreshing, Linked, LoadedAgrees
  <1>6. WorkerStays'
    BY DEF TypeOK, Refreshing, Linked, WorkerStays
  <1>7. InstallAlone'
    BY DEF TypeOK, Refreshing, Linked, WorkerStays, InstallAlone, InInstall
  <1>8. HandIsManual'
    BY <1>0, <1>2 DEF HandIsManual
  <1>9. CallInStep'
    BY DEF TypeOK, Calling, CallInStep, Linked, LoadedAgrees
  <1>10. ConnectedWasTried' /\ OneSnapshot'
    BY DEF TypeOK, Refreshing, Linked, LoadedAgrees, WorkerStays, InstallAlone, InInstall, ConnectedWasTried, OneSnapshot
  <1> QED BY <1>1, <1>3, <1>4, <1>5, <1>6, <1>7, <1>8, <1>9, <1>10 DEF Linked

\* unregister_prefix keeps the invariant.
LEMMA unregister_prefixStep ==
  ASSUME IInv, NEW f \in Refreshers, unregister_prefix(f)
  PROVE  IInv'
  <1> USE NoneAssumption DEF IInv, unregister_prefix, LoopFree, At
  <1>1. TypeOK'
    BY DEF TypeOK, Refreshing, Linked, LoadedAgrees, ToolsInStep
  <1>2. ToolsInStep'
    BY DEF TypeOK, Refreshing, Linked, ToolsInStep
  <1>3. RowFirst'
    BY DEF TypeOK, Refreshing, Linked, RowFirst, LoadedAgrees
  <1>4. LoadedAgrees'
    BY DEF TypeOK, Refreshing, Linked, LoadedAgrees
  <1>5. WorkerStays'
    BY DEF TypeOK, Refreshing, Linked, WorkerStays
  <1>6. InstallAlone'
    BY DEF TypeOK, Refreshing, Linked, WorkerStays, InstallAlone, InInstall
  <1>7. HandIsManual'
    BY DEF TypeOK, HandIsManual
  <1>8. CallInStep'
    BY DEF TypeOK, Calling, CallInStep, Linked, LoadedAgrees
  <1>9. ConnectedWasTried' /\ OneSnapshot'
    BY DEF TypeOK, Refreshing, Linked, LoadedAgrees, WorkerStays, InstallAlone, InInstall, ConnectedWasTried, OneSnapshot
  <1> QED BY <1>1, <1>2, <1>3, <1>4, <1>5, <1>6, <1>7, <1>8, <1>9 DEF Linked

\* ReadCache keeps the invariant.
LEMMA ReadCacheStep ==
  ASSUME IInv, NEW f \in Refreshers, ReadCache(f)
  PROVE  IInv'
  <1> USE NoneAssumption DEF IInv, ReadCache, cached_tool_definitions, MCPServer, At
  <1>1. TypeOK' /\ ref'[f].pc = "fill" /\ ref'[f].tools \subseteq Definition
    <2>1. cached_tool_definitions \subseteq Definition
      <3>1. CASE row = None \/ ~row.enabled
        BY <3>1
      <3>2. CASE row # None /\ row.enabled
        <4>1. row.tools \subseteq Descriptor
          BY <3>2 DEF TypeOK
        <4>2. ASSUME NEW d \in Descriptor
              PROVE  [tool |-> d.tool, perm |-> d.perm, from |-> d.from, available |-> row.status = "connected"] \in Definition
          BY DEF Descriptor, Definition
        <4> QED BY <3>2, <4>1, <4>2
      <3> QED BY <3>1, <3>2
    <2>2. ref'[f] \in Refreshing /\ ref'[f].pc = "fill" /\ ref'[f].tools \subseteq Definition
      <3> HIDE DEF cached_tool_definitions
      <3>1. ref[f] \in Refreshing /\ ref'[f] = [ref[f] EXCEPT !.pc = "fill", !.tools = cached_tool_definitions]
        BY DEF TypeOK
      <3> QED BY ONLY <2>1, <3>1 DEF Refreshing
    <2> QED BY <2>2 DEF TypeOK
  <1>2. ToolsInStep'
    BY <1>1 DEF TypeOK, Refreshing, Linked, ToolsInStep
  <1>3. RowFirst'
    BY DEF TypeOK, Refreshing, Linked, RowFirst, LoadedAgrees
  <1>4. LoadedAgrees'
    BY DEF TypeOK, Refreshing, Linked, LoadedAgrees
  <1>5. WorkerStays'
    BY DEF TypeOK, Refreshing, Linked, WorkerStays
  <1>6. InstallAlone'
    BY DEF TypeOK, Refreshing, Linked, WorkerStays, InstallAlone, InInstall
  <1>7. HandIsManual'
    BY DEF TypeOK, HandIsManual
  <1>8. CallInStep'
    BY DEF TypeOK, Calling, CallInStep, Linked, LoadedAgrees
  <1>9. ConnectedWasTried' /\ OneSnapshot'
    BY DEF TypeOK, Refreshing, Linked, LoadedAgrees, WorkerStays, InstallAlone, InInstall, ConnectedWasTried, OneSnapshot
  <1> QED BY <1>1, <1>2, <1>3, <1>4, <1>5, <1>6, <1>7, <1>8, <1>9 DEF Linked

\* register_many keeps the invariant.
LEMMA register_manyStep ==
  ASSUME IInv, NEW f \in Refreshers, register_many(f)
  PROVE  IInv'
  <1> USE NoneAssumption DEF IInv, register_many, At
  <1>1. TypeOK'
    BY DEF TypeOK, Refreshing, Linked, LoadedAgrees, ToolsInStep
  <1>2. ToolsInStep'
    BY DEF TypeOK, Refreshing, Linked, ToolsInStep
  <1>3. RowFirst'
    BY DEF TypeOK, Refreshing, Linked, RowFirst, LoadedAgrees
  <1>4. LoadedAgrees'
    BY DEF TypeOK, Refreshing, Linked, LoadedAgrees
  <1>5. WorkerStays'
    BY DEF TypeOK, Refreshing, Linked, WorkerStays
  <1>6. InstallAlone'
    BY DEF TypeOK, Refreshing, Linked, WorkerStays, InstallAlone, InInstall
  <1>7. HandIsManual'
    BY DEF TypeOK, HandIsManual
  <1>8. CallInStep'
    BY DEF TypeOK, Calling, CallInStep, Linked, LoadedAgrees
  <1>9. ConnectedWasTried' /\ OneSnapshot'
    BY DEF TypeOK, Refreshing, Linked, LoadedAgrees, WorkerStays, InstallAlone, InInstall, ConnectedWasTried, OneSnapshot
  <1> QED BY <1>1, <1>2, <1>3, <1>4, <1>5, <1>6, <1>7, <1>8, <1>9 DEF Linked

\* InstallFails keeps the invariant.
LEMMA InstallFailsStep ==
  ASSUME IInv, NEW f \in Refreshers, InstallFails(f)
  PROVE  IInv'
  <1> USE NoneAssumption DEF IInv, InstallFails, Trouble, Spend, At
  <1>1. TypeOK'
    BY DEF TypeOK, Refreshing, Linked, LoadedAgrees, ToolsInStep
  <1>2. ToolsInStep'
    BY DEF TypeOK, Refreshing, Linked, ToolsInStep
  <1>3. RowFirst'
    BY DEF TypeOK, Refreshing, Linked, RowFirst, LoadedAgrees
  <1>4. LoadedAgrees'
    BY DEF TypeOK, Refreshing, Linked, LoadedAgrees
  <1>5. WorkerStays'
    BY DEF TypeOK, Refreshing, Linked, WorkerStays
  <1>6. InstallAlone'
    BY DEF TypeOK, Refreshing, Linked, WorkerStays, InstallAlone, InInstall
  <1>7. HandIsManual'
    BY DEF TypeOK, HandIsManual
  <1>8. CallInStep'
    BY DEF TypeOK, Calling, CallInStep, Linked, LoadedAgrees
  <1>9. ConnectedWasTried' /\ OneSnapshot'
    BY DEF TypeOK, Refreshing, Linked, LoadedAgrees, WorkerStays, InstallAlone, InInstall, ConnectedWasTried, OneSnapshot
  <1> QED BY <1>1, <1>2, <1>3, <1>4, <1>5, <1>6, <1>7, <1>8, <1>9 DEF Linked

\* WorkerCrash keeps the invariant.
LEMMA WorkerCrashStep ==
  ASSUME IInv, NEW f \in Refreshers, WorkerCrash(f)
  PROVE  IInv'
  <1> USE NoneAssumption DEF IInv, WorkerCrash, Trouble, Spend, At
  <1>1. TypeOK'
    BY DEF TypeOK, Refreshing, Linked, LoadedAgrees, ToolsInStep
  <1>2. ToolsInStep'
    BY DEF TypeOK, Refreshing, Linked, ToolsInStep
  <1>3. RowFirst'
    BY DEF TypeOK, Refreshing, Linked, RowFirst, LoadedAgrees
  <1>4. LoadedAgrees'
    BY DEF TypeOK, Refreshing, Linked, LoadedAgrees
  <1>5. WorkerStays'
    BY DEF TypeOK, Refreshing, Linked, WorkerStays
  <1>6. InstallAlone'
    BY DEF TypeOK, Refreshing, Linked, WorkerStays, InstallAlone, InInstall
  <1>7. HandIsManual'
    BY DEF TypeOK, HandIsManual
  <1>8. CallInStep'
    BY DEF TypeOK, Calling, CallInStep, Linked, LoadedAgrees
  <1>9. ConnectedWasTried' /\ OneSnapshot'
    BY DEF TypeOK, Refreshing, Linked, LoadedAgrees, WorkerStays, InstallAlone, InInstall, ConnectedWasTried, OneSnapshot
  <1> QED BY <1>1, <1>2, <1>3, <1>4, <1>5, <1>6, <1>7, <1>8, <1>9 DEF Linked

\* WebCrash keeps the invariant.
LEMMA WebCrashStep ==
  ASSUME IInv, WebCrash
  PROVE  IInv'
  <1> USE NoneAssumption DEF IInv, WebCrash, Trouble, Spend, At
  <1>1. TypeOK'
    BY DEF TypeOK, Refreshing, Linked, LoadedAgrees, ToolsInStep
  <1>2. ToolsInStep'
    BY DEF TypeOK, Refreshing, Linked, ToolsInStep
  <1>3. RowFirst'
    BY DEF TypeOK, Refreshing, Linked, RowFirst, LoadedAgrees
  <1>4. LoadedAgrees'
    BY DEF TypeOK, Refreshing, Linked, LoadedAgrees
  <1>5. WorkerStays'
    BY DEF TypeOK, Refreshing, Linked, WorkerStays
  <1>6. InstallAlone'
    BY DEF TypeOK, Refreshing, Linked, WorkerStays, InstallAlone, InInstall
  <1>7. HandIsManual'
    BY DEF TypeOK, HandIsManual
  <1>8. CallInStep'
    BY DEF TypeOK, Calling, CallInStep, Linked, LoadedAgrees
  <1>9. ConnectedWasTried' /\ OneSnapshot'
    BY DEF TypeOK, Refreshing, Linked, LoadedAgrees, WorkerStays, InstallAlone, InInstall, ConnectedWasTried, OneSnapshot
  <1> QED BY <1>1, <1>2, <1>3, <1>4, <1>5, <1>6, <1>7, <1>8, <1>9 DEF Linked
----------------------------------------------------------------------------
(* The row's changes and the start.                                        *)

\* The row an upsert leaves: well formed, never connected, and with what the
\* hand set kept when the seed is what changes it.
LEMMA UpsertRow ==
  ASSUME TypeOK, HandIsManual, NEW cfg \in Configs, NEW enabled \in BOOLEAN,
         NEW source \in {"manual", "yaml"}, NEW sum \in Configs \cup {None},
         source = "yaml" => (row = None \/ row.source = "yaml"),
         row' = upsert_mcp_server(row, cfg, enabled, source, sum)
  PROVE  /\ row' \in MCPServer /\ row' # None
         /\ row'.status # "connected" /\ row'.enabled = enabled
         /\ HandIsManual'
  <1> DEFINE byHand == CASE source = "manual" -> cfg
                         [] source # "manual" /\ row # None -> row.byHand
                         [] OTHER -> None
             tools == IF row # None /\ enabled THEN row.tools ELSE {}
  <1>1. byHand \in Configs \cup {None} /\ (byHand # None => source = "manual" /\ byHand = cfg)
    BY NoneAssumption DEF TypeOK, MCPServer, HandIsManual
  <1>2. tools \subseteq Descriptor
    BY DEF TypeOK, MCPServer
  <1>3. row' = [cfg |-> cfg, source |-> source, sum |-> sum, enabled |-> enabled,
                status |-> IF enabled THEN "pending" ELSE "disabled", tools |-> tools,
                tried |-> None, overtaken |-> FALSE, byHand |-> byHand]
    BY DEF upsert_mcp_server
  <1> HIDE DEF byHand, tools
  <1>4. row' \in MCPServer
    BY <1>1, <1>2, <1>3 DEF MCPServer
  <1>5. HandIsManual'
    BY <1>1, <1>3 DEF HandIsManual
  <1>6. row'.status # "connected" /\ row'.enabled = enabled
    BY <1>3
  <1> QED BY <1>4, <1>5, <1>6, NoneAssumption

\* Every refresh under way is overtaken and nothing else of it changes.
LEMMA OvertakingRefs ==
  ASSUME TypeOK
  PROVE  /\ Overtaking \in [Refreshers -> Refreshing \cup {None}]
         /\ \A f \in Refreshers :
              /\ Overtaking[f] = None <=> ref[f] = None
              /\ ref[f] # None =>
                   /\ Overtaking[f].overtaken
                   /\ Overtaking[f].kind = ref[f].kind /\ Overtaking[f].pc = ref[f].pc
                   /\ Overtaking[f].cfg = ref[f].cfg /\ Overtaking[f].tools = ref[f].tools
  <1>1. ASSUME NEW g \in Refreshers, ref[g] # None
        PROVE  ref[g] \in Refreshing /\ [ref[g] EXCEPT !.overtaken = TRUE] \in Refreshing
    BY <1>1 DEF TypeOK, Refreshing
  <1>2. ASSUME NEW g \in Refreshers, ref[g] # None
        PROVE  Overtaking[g] = [ref[g] EXCEPT !.overtaken = TRUE] /\ Overtaking[g] # None
    BY <1>1, <1>2, NoneAssumption DEF Overtaking
  <1> QED BY <1>1, <1>2 DEF Overtaking, Refreshing

\* UpsertMcp keeps the invariant.
LEMMA UpsertMcpStep ==
  ASSUME IInv, NEW cfg \in Configs, NEW enabled \in BOOLEAN, UpsertMcp(cfg, enabled)
  PROVE  IInv'
  <1> USE NoneAssumption DEF IInv, UpsertMcp, At
  <1>1. row' \in MCPServer /\ row' # None /\ row'.status # "connected" /\ row'.enabled = enabled /\ HandIsManual'
    BY UpsertRow
  <1>2. TypeOK'
    <2>1. ref' \in [Refreshers -> Refreshing \cup {None}]
      BY OvertakingRefs
    <2>2. call' \in [Calls -> Calling \cup {None}]
      <3>1. ASSUME NEW c \in Calls, call[c] # None PROVE [call[c] EXCEPT !.live = TRUE] \in Calling
        <4>1. call[c] \in Calling
          BY <3>1 DEF TypeOK
        <4> QED BY ONLY <4>1 DEF Calling
      <3>2. ASSUME NEW c \in Calls PROVE call[c] \in Calling \cup {None}
        BY DEF TypeOK
      <3>3. call' = [c \in Calls |-> IF call[c] # None /\ enabled THEN [call[c] EXCEPT !.live = TRUE] ELSE call[c]]
        OBVIOUS
      <3> QED BY ONLY <3>1, <3>2, <3>3
    <2> QED BY <1>1, <2>1, <2>2 DEF TypeOK
  <1>3. ToolsInStep' /\ WorkerStays'
    BY OvertakingRefs DEF Linked, ToolsInStep, WorkerStays
  <1>4. LoadedAgrees'
    BY <1>1, OvertakingRefs DEF Linked, LoadedAgrees
  <1>5. InstallAlone' /\ OneSnapshot'
    BY OvertakingRefs DEF InstallAlone, InInstall, OneSnapshot
  <1>6. CallInStep'
    BY <1>1 DEF TypeOK, Calling, CallInStep
  <1> QED BY <1>1, <1>2, <1>3, <1>4, <1>5, <1>6 DEF Linked, RowFirst, ConnectedWasTried

\* The process starts and imports the seed, or leaves the row alone.
LEMMA StartStep ==
  ASSUME IInv, NEW f \in Refreshers, Start(f)
  PROVE  IInv'
  <1> USE NoneAssumption DEF IInv, At
  <1>1. PICK enabled \in BOOLEAN :
          LET server == IF seed # None /\ SeedIsNew THEN upsert_mcp_server(row, seed, enabled, "yaml", seed) ELSE row
          IN /\ row' = server
             /\ ref' = [IF server # row THEN Overtaking ELSE ref EXCEPT ![f] = Refresh(f, "boot", TRUE, server)]
    BY DEF Start
  <1> DEFINE e == Refresh(f, "boot", TRUE, row')
  <1>2. ~web.up /\ UNCHANGED <<seed, web, installed, call, spent>> /\ ref[f] = None
    BY DEF Start
  <1>3. CASE row' = row
    <2>1. ref' = [ref EXCEPT ![f] = e]
      BY <1>1, <1>3
    <2>2. /\ e \in Refreshing \cup {None}
          /\ e # None => /\ e.kind = "boot" /\ e.tools = {} /\ e.pc \in {"discover", "persist", "clear"}
                         /\ e.status = "disabled"
                         /\ e.pc # "clear" => row # None /\ row.cfg \in Configs /\ e.cfg = row.cfg
                         /\ e.pc = "discover" => row.enabled
      <3>1. row' \in MCPServer \cup {None} /\ (row # None => row.cfg \in Configs)
        BY <1>3 DEF TypeOK, MCPServer
      <3> QED BY <1>3, <3>1 DEF Refresh, Refreshing, MCPServer
    <2> HIDE DEF e
    <2>3. TypeOK' /\ RowFirst' /\ HandIsManual' /\ CallInStep' /\ ConnectedWasTried'
      BY <1>2, <1>3, <2>1, <2>2 DEF TypeOK, Linked, RowFirst, HandIsManual, CallInStep, ConnectedWasTried
    <2>4. ToolsInStep' /\ WorkerStays' /\ InstallAlone' /\ OneSnapshot'
      BY <1>2, <2>1, <2>2 DEF TypeOK, Linked, ToolsInStep, WorkerStays, InstallAlone, InInstall, OneSnapshot
    <2>5. LoadedAgrees'
      BY <1>3, <2>1, <2>2 DEF TypeOK, Linked, LoadedAgrees
    <2> QED BY <2>3, <2>4, <2>5 DEF Linked
  <1>4. CASE row' # row
    <2>1. ref' = [Overtaking EXCEPT ![f] = e] /\ row' = upsert_mcp_server(row, seed, enabled, "yaml", seed)
          /\ seed \in Configs /\ (row = None \/ row.source = "yaml")
      BY <1>1, <1>4 DEF TypeOK, SeedIsNew
    <2>2. row' \in MCPServer /\ row' # None /\ row'.status # "connected" /\ HandIsManual'
      BY <2>1, UpsertRow
    <2>3. /\ e \in Refreshing \cup {None}
          /\ e # None => /\ e.kind = "boot" /\ e.tools = {} /\ e.pc \in {"discover", "persist", "clear"}
                         /\ e.status = "disabled"
                         /\ e.pc # "clear" => row'.cfg \in Configs /\ e.cfg = row'.cfg
                         /\ e.pc = "discover" => row'.enabled
      <3>1. row'.cfg \in Configs
        BY <2>2 DEF MCPServer
      <3> QED BY <2>2, <3>1 DEF Refresh, Refreshing, MCPServer
    <2> HIDE DEF e
    <2>4. TypeOK' /\ RowFirst' /\ CallInStep' /\ ConnectedWasTried'
      BY <1>2, <2>1, <2>2, <2>3, OvertakingRefs DEF TypeOK, Linked, RowFirst, CallInStep, ConnectedWasTried
    <2>5. ToolsInStep' /\ WorkerStays' /\ InstallAlone' /\ OneSnapshot'
      BY <1>2, <2>1, <2>3, OvertakingRefs DEF Linked, ToolsInStep, WorkerStays, InstallAlone, InInstall, OneSnapshot
    <2>6. LoadedAgrees'
      BY <2>1, <2>2, <2>3, OvertakingRefs DEF Linked, LoadedAgrees
    <2> QED BY <2>2, <2>4, <2>5, <2>6 DEF Linked
  <1> QED BY <1>3, <1>4

----------------------------------------------------------------------------
(* Calls.                                                                  *)

\* The steps of a call change nothing but the call.
LEMMA CallFrame ==
  ASSUME IInv, UNCHANGED <<row, web, installed, ref, seed>>,
         call' \in [Calls -> Calling \cup {None}], CallInStep', web.tools # {} \/ \E c \in Calls : call[c] # None
  PROVE  IInv'
  BY DEF IInv, TypeOK, Linked, ToolsInStep, RowFirst, LoadedAgrees, WorkerStays, InstallAlone, InInstall, At,
     HandIsManual, ConnectedWasTried, OneSnapshot

\* Execute keeps the invariant.
LEMMA ExecuteStep ==
  ASSUME IInv, NEW c \in Calls, NEW d \in web.tools, NEW approved \in BOOLEAN, Execute(c, d, approved)
  PROVE  IInv'
  <1> USE NoneAssumption, McpAssumption DEF IInv, Execute
  <1>1. row \in MCPServer /\ d \in Definition /\ row # None
    BY DEF TypeOK, Linked, RowFirst
  <1>2. call'[c] \in Calling /\ call'[c].pc = "load" /\ call'[c].sent = 0 /\ call'[c].live = row.enabled
    BY <1>1 DEF TypeOK, MCPServer, Definition, Calling
  <1>3. CallInStep'
    BY <1>2 DEF TypeOK, CallInStep
  <1> QED BY <1>2, <1>3, CallFrame DEF TypeOK

\* CallLoad keeps the invariant.
LEMMA CallLoadStep ==
  ASSUME IInv, NEW c \in Calls, CallLoad(c)
  PROVE  IInv'
  <1> USE NoneAssumption, McpAssumption DEF IInv, CallLoad, CallAt
  <1>1. row \in MCPServer /\ call[c] \in Calling /\ call[c].sent = 0 /\ (row.enabled => call[c].live)
    BY DEF TypeOK, Linked, RowFirst, CallInStep
  <1>2. CASE row.enabled
    <2>1. call'[c] \in Calling /\ call'[c].pc = "send" /\ call'[c].sent = 0 /\ call'[c].live /\ call'[c].cfg \in Configs
      BY <1>1, <1>2 DEF TypeOK, MCPServer, Calling
    <2> QED BY <2>1, CallFrame DEF TypeOK, CallInStep
  <1>3. CASE ~row.enabled
    BY <1>3, CallFrame DEF TypeOK, CallInStep
  <1> QED BY <1>2, <1>3

\* CallSent keeps the invariant.
LEMMA CallSentStep ==
  ASSUME IInv, NEW c \in Calls, CallSent(c)
  PROVE  IInv'
  <1> USE NoneAssumption, McpAssumption DEF IInv, CallSent, CallAt
  <1>1. call[c] \in Calling /\ call[c].sent < MaxAttempts
    BY DEF TypeOK, CallInStep
  <1>2. /\ call'[c] \in Calling /\ call'[c].pc = "wait" /\ call'[c].sent = call[c].sent + 1
        /\ call'[c].live = call[c].live /\ call'[c].cfg = call[c].cfg /\ call'[c].tool = call[c].tool
    BY <1>1 DEF TypeOK, Calling
  <1>3. CallInStep'
    BY <1>1, <1>2 DEF TypeOK, Calling, CallInStep
  <1> QED BY <1>2, <1>3, CallFrame DEF TypeOK

\* CallAnswered keeps the invariant.
LEMMA CallAnsweredStep ==
  ASSUME IInv, NEW c \in Calls, CallAnswered(c)
  PROVE  IInv'
  BY NoneAssumption, CallFrame DEF IInv, CallAnswered, CallAt, TypeOK, CallInStep

\* CallFails keeps the invariant.
LEMMA CallFailsStep ==
  ASSUME IInv, NEW c \in Calls, CallFails(c)
  PROVE  IInv'
  <1> USE NoneAssumption, McpAssumption DEF IInv, CallFails, CallAt
  <1>1. CASE Retries(c) /\ call[c].sent < MaxAttempts
    <2>1. call[c] \in Calling
      BY DEF TypeOK
    <2>2. /\ call'[c] \in Calling /\ call'[c].pc = "send" /\ call'[c].sent = call[c].sent
          /\ call'[c].live = call[c].live /\ call'[c].cfg = call[c].cfg /\ call'[c].tool = call[c].tool
      BY <1>1, <2>1 DEF TypeOK, Calling
    <2>3. CallInStep'
      BY <1>1, <2>1, <2>2 DEF TypeOK, CallInStep, Retries
    <2> QED BY <2>2, <2>3, CallFrame DEF TypeOK
  <1>2. CASE ~(Retries(c) /\ call[c].sent < MaxAttempts)
    BY <1>2, CallFrame DEF TypeOK, CallInStep
  <1> QED BY <1>1, <1>2

----------------------------------------------------------------------------
(* The invariant, and what it says about the properties of the runs.       *)

\* Every step keeps the invariant.
LEMMA NextIInv == IInv /\ [Next]_vars => IInv'
  <1> SUFFICES ASSUME IInv, [Next]_vars PROVE IInv'
    OBVIOUS
  <1>1. CASE UNCHANGED vars
    BY <1>1 DEF vars, IInv, TypeOK, Linked, ToolsInStep, RowFirst, LoadedAgrees, WorkerStays, InstallAlone,
       InInstall, At, HandIsManual, CallInStep, ConnectedWasTried, OneSnapshot
  <1>2. CASE Next
    <2>1. ASSUME NEW cfg \in Configs, NEW enabled \in BOOLEAN, UpsertMcp(cfg, enabled) PROVE IInv'
      BY <2>1, UpsertMcpStep
    <2>2. ASSUME NEW cfg \in Configs, EditSeed(cfg) PROVE IInv'
      BY <2>2, EditSeedStep
    <2>3. ASSUME NEW f \in Refreshers, NEW kind \in {"web", "worker"}, NEW all \in BOOLEAN, RefreshBegin(f, kind, all)
          PROVE IInv'
      BY <2>3, RefreshBeginStep
    <2>4. ASSUME NEW f \in Refreshers, NEW tools \in SUBSET Tools, Discovered(f, tools) PROVE IInv'
      BY <2>4, DiscoveredStep
    <2>5. ASSUME NEW f \in Refreshers, Start(f) \/ DiscoveryFails(f) \/ PersistStatus(f) PROVE IInv'
      BY <2>5, StartStep, DiscoveryFailsStep, PersistStatusStep
    <2>6. ASSUME NEW f \in Refreshers, unregister_prefix(f) \/ ReadCache(f) \/ register_many(f) PROVE IInv'
      BY <2>6, unregister_prefixStep, ReadCacheStep, register_manyStep
    <2>7. ASSUME NEW f \in Refreshers, InstallFails(f) \/ WorkerCrash(f) PROVE IInv'
      BY <2>7, InstallFailsStep, WorkerCrashStep
    <2>8. ASSUME NEW c \in Calls, NEW d \in web.tools, NEW approved \in BOOLEAN, Execute(c, d, approved) PROVE IInv'
      BY <2>8, ExecuteStep
    <2>9. ASSUME NEW c \in Calls, CallLoad(c) \/ CallSent(c) \/ CallAnswered(c) \/ CallFails(c) PROVE IInv'
      BY <2>9, CallLoadStep, CallSentStep, CallAnsweredStep, CallFailsStep
    <2> QED BY <1>2, <2>1, <2>2, <2>3, <2>4, <2>5, <2>6, <2>7, <2>8, <2>9, WebCrashStep DEF Next
  <1> QED BY <1>1, <1>2

\* The invariant holds throughout.
LEMMA IInvHolds == Spec => []IInv
  BY InitIInv, NextIInv, PTL DEF Spec

\* The row, the registry, the refreshes and the calls are always well formed.
THEOREM McpTypeCorrect == Spec => []TypeOK
  <1>1. IInv => TypeOK
    BY DEF IInv
  <1> QED BY <1>1, IInvHolds, PTL

\* A server shown as connected was really tried under its present, enabled
\* configuration, unless the row changed under the refresh that says so.
THEOREM ConnectedWasTriedHolds == Spec => []ConnectedWasTried
  <1>1. IInv => ConnectedWasTried
    BY DEF IInv
  <1> QED BY <1>1, IInvHolds, PTL

\* Between installs the registry is what one read of the table returned,
\* however refreshes, failures of the read and crashes interleave.
THEOREM OneSnapshotHolds == Spec => []OneSnapshot
  <1>1. IInv => OneSnapshot
    BY DEF IInv
  <1> QED BY <1>1, IInvHolds, PTL

\* No start, whatever the seed file says, replaces what was set by hand.
THEOREM HandSetKeptHolds == Spec => []HandSetKept
  <1>1. IInv => HandSetKept
    BY DEF IInv, HandIsManual, HandSetKept
  <1> QED BY <1>1, IInvHolds, PTL

\* A call reaches only a server enabled since the call began, and a tool that
\* may write is sent at most once, whatever the registry still offers.
THEOREM CallsFollowTheRowHolds == Spec => []CallsFollowTheRow
  <1>1. IInv => CallsFollowTheRow
    BY McpAssumption DEF IInv, TypeOK, Calling, CallInStep, CallsFollowTheRow
  <1> QED BY <1>1, IInvHolds, PTL

----------------------------------------------------------------------------
(* The circuit breaker that guards the calls (Resilience), for any number  *)
(* of threads, any threshold and any number of attempts.                   *)

\* A thread on its way to the upstream, or back from it with a failure.
OnTheWay == {"trying", "sleeping", "counted", "tripping"}

\* The recorded failures are the failed calls since the last success.
CountIsExact == failures = inRow

\* A thread decides to trip only after the threshold was reached.
DebtKept ==
    /\ inRow = Threshold => earned
    /\ opened # "none" => earned
    /\ \A c \in Callers : caller[c].pc = "tripping" => earned

\* ThresholdTrips without the threads that are being refused.
Probed ==
    inRow = Threshold /\ opened = "none" => \E c \in Callers : caller[c].pc \in OnTheWay

\* A thread sleeps only if it has an attempt left.
AttemptsLeft == \A c \in Callers : caller[c].pc = "sleeping" => caller[c].attempt < Attempts

BreakerInv == CBTypeOK /\ CountIsExact /\ DebtKept /\ Probed /\ AttemptsLeft

\* The invariant holds initially.
LEMMA BreakerInit ==
  ASSUME CBInit
  PROVE  BreakerInv
  <1>1. CBTypeOK
    <2>1. caller \in [Callers -> [pc: Pcs, attempt: 0 .. Attempts]]
      BY ResilienceAssumption DEF CBInit, Idle, Pcs
    <2>2. up \in BOOLEAN /\ earned \in BOOLEAN
      BY Zenon DEF CBInit
    <2> QED BY <2>1, <2>2, ResilienceAssumption DEF CBInit, CBTypeOK, Answers
  <1>2. CountIsExact /\ DebtKept /\ Probed /\ AttemptsLeft
    BY ResilienceAssumption DEF CBInit, Idle, CountIsExact, DebtKept, Probed, AttemptsLeft
  <1> QED BY <1>1, <1>2 DEF BreakerInv

\* The steps of a thread that leave the circuit's counters alone.
LEMMA QuietStep ==
  ASSUME BreakerInv, NEW c \in Callers,
         Refuse(c) \/ RefuseEnd(c) \/ FnRaises(c) \/ Wake(c)
  PROVE  BreakerInv'
  <1> USE ResilienceAssumption DEF BreakerInv, CBTypeOK, Pcs, Answers
  <1>1. CASE Refuse(c)
    BY <1>1 DEF Refuse, IsOpen, Goto, CountIsExact, DebtKept, Probed, OnTheWay, AttemptsLeft
  <1>2. CASE RefuseEnd(c)
    BY <1>2 DEF RefuseEnd, Return, Idle, CountIsExact, DebtKept, Probed, OnTheWay, AttemptsLeft
  <1>3. CASE FnRaises(c)
    BY <1>3 DEF FnRaises, Goto, CountIsExact, DebtKept, Probed, OnTheWay, AttemptsLeft
  <1>4. CASE Wake(c)
    BY <1>4 DEF Wake, CountIsExact, DebtKept, Probed, OnTheWay, AttemptsLeft
  <1> QED BY <1>1, <1>2, <1>3, <1>4

\* A call that is let through keeps the invariant.
LEMMA AdmitStep ==
  ASSUME BreakerInv, NEW c \in Callers, Admit(c)
  PROVE  BreakerInv'
  <1> USE ResilienceAssumption DEF BreakerInv, CBTypeOK, Pcs, Answers, Admit, IsOpen
  <1>1. Probed'
    <2>1. caller'[c].pc = "trying"  OBVIOUS
    <2> QED BY <2>1 DEF Probed, OnTheWay
  <1> QED BY <1>1 DEF CountIsExact, DebtKept, AttemptsLeft

\* A success resets failures and window, and keeps the invariant.
LEMMA SuccessStep ==
  ASSUME BreakerInv, NEW c \in Callers, FnReturns(c)
  PROVE  BreakerInv'
  <1> USE ResilienceAssumption DEF BreakerInv, CBTypeOK, Pcs, Answers, FnReturns, Return, Idle
  <1>1. DebtKept'
    <2>1. ASSUME NEW d \in Callers, caller'[d].pc = "tripping" PROVE earned'
      BY <2>1 DEF DebtKept
    <2> QED BY <2>1 DEF DebtKept
  <1> QED BY <1>1 DEF CountIsExact, Probed, AttemptsLeft

\* The three steps of _record_failure keep the invariant.
LEMMA FailureStep ==
  ASSUME BreakerInv, NEW c \in Callers, FnGivesUp(c) \/ Compare(c) \/ Trip(c)
  PROVE  BreakerInv'
  <1> USE ResilienceAssumption DEF BreakerInv, CBTypeOK, Pcs, Answers
  <1>1. CASE FnGivesUp(c)
    <2> USE <1>1 DEF FnGivesUp, Goto
    <2>1. Probed'
      <3>1. caller'[c].pc = "counted"  OBVIOUS
      <3> QED BY <3>1 DEF Probed, OnTheWay
    <2>2. CBTypeOK' /\ CountIsExact' /\ AttemptsLeft'
      BY DEF CountIsExact, AttemptsLeft
    <2>3. DebtKept'
      BY DEF DebtKept, CountIsExact
    <2> QED BY <2>1, <2>2, <2>3
  <1>2. CASE Compare(c) /\ Reached
    <2>1. Probed'
      <3>1. caller'[c].pc = "tripping"  BY <1>2 DEF Compare, Goto
      <3> QED BY <3>1 DEF Probed, OnTheWay
    <2>2. earned
      BY <1>2 DEF Reached, CountIsExact, DebtKept
    <2> QED BY <1>2, <2>1, <2>2 DEF Compare, Goto, CountIsExact, DebtKept, AttemptsLeft
  <1>3. CASE Compare(c) /\ ~Reached
    <2>1. inRow # Threshold
      BY <1>3 DEF Reached, CountIsExact
    <2> QED BY <1>3, <2>1 DEF Compare, Return, Idle, CountIsExact, DebtKept, Probed, AttemptsLeft
  <1>4. CASE Trip(c)
    BY <1>4 DEF Trip, Return, Idle, CountIsExact, DebtKept, Probed, AttemptsLeft
  <1> QED BY <1>1, <1>2, <1>3, <1>4

\* Every step keeps the invariant.
LEMMA BreakerNext ==
  ASSUME BreakerInv, [CBNext]_cbVars
  PROVE  BreakerInv'
  <1>1. ASSUME NEW c \in Callers, Begin(c) \/ Continue(c) PROVE BreakerInv'
    BY <1>1, QuietStep, AdmitStep, SuccessStep, FailureStep DEF Begin, Continue
  <1>2. CASE WindowPasses
    BY <1>2 DEF WindowPasses, BreakerInv, CBTypeOK, CountIsExact, DebtKept, Probed, OnTheWay, AttemptsLeft
  <1>3. CASE UpstreamTurns
    BY <1>3 DEF UpstreamTurns, BreakerInv, CBTypeOK, CountIsExact, DebtKept, Probed, OnTheWay, AttemptsLeft
  <1>4. CASE UNCHANGED cbVars
    BY <1>4 DEF cbVars, BreakerInv, CBTypeOK, CountIsExact, DebtKept, Probed, OnTheWay, AttemptsLeft
  <1> QED BY <1>1, <1>2, <1>3, <1>4 DEF CBNext

\* The invariant holds throughout.
LEMMA BreakerAlways == CBSpec => []BreakerInv
  <1>1. CBInit => BreakerInv
    BY BreakerInit
  <1>2. BreakerInv /\ [CBNext]_cbVars => BreakerInv'
    BY BreakerNext
  <1> QED BY <1>1, <1>2, PTL DEF CBSpec

\* The circuit's state is well formed, and no call makes more than
\* max_attempts attempts, for any number of threads.
THEOREM CircuitTypeCorrect == CBSpec => []CBTypeOK
  <1>1. BreakerInv => CBTypeOK  BY DEF BreakerInv
  <1> QED BY <1>1, BreakerAlways, PTL

\* The circuit is open only after failure_threshold failed calls in a row.
THEOREM TripIsEarnedHolds == CBSpec => []TripIsEarned
  <1>1. BreakerInv => TripIsEarned  BY DEF BreakerInv, DebtKept, TripIsEarned
  <1> QED BY <1>1, BreakerAlways, PTL

\* A circuit at its threshold is open unless a call is on its way.
THEOREM ThresholdTripsHolds == CBSpec => []ThresholdTrips
  <1>1. BreakerInv => ThresholdTrips
    BY DEF BreakerInv, Probed, OnTheWay, ThresholdTrips
  <1> QED BY <1>1, BreakerAlways, PTL

\* While the window lasts no thread gets through to the upstream that was not
\* there already, and nothing but the success of such a thread, which also
\* clears the count of failures, closes the circuit.
WindowHolds ==
    opened = "open" =>
        /\ opened' = "none" => failures' = 0 /\ \E c \in Callers : caller[c].pc = "trying" /\ answer'[c] = "result"
        /\ \A c \in Callers : caller'[c].pc = "trying" => caller[c].pc \in {"trying", "sleeping"}

\* An open window lasts, whatever the threads do that were let in before it.
THEOREM WindowHoldsAlways == CBSpec => [][WindowHolds]_cbVars
  <1>1. ASSUME BreakerInv, [CBNext]_cbVars PROVE WindowHolds
    <2> SUFFICES ASSUME opened = "open"
                 PROVE  /\ opened' = "none" => failures' = 0 /\ \E c \in Callers : caller[c].pc = "trying" /\ answer'[c] = "result"
                        /\ \A c \in Callers : caller'[c].pc = "trying" => caller[c].pc \in {"trying", "sleeping"}
      BY DEF WindowHolds
    <2> USE <1>1 DEF BreakerInv, CBTypeOK, Pcs, Answers
    <2>1. ASSUME NEW c \in Callers, FnReturns(c)
          PROVE  /\ failures' = 0 /\ caller[c].pc = "trying" /\ answer'[c] = "result"
                 /\ \A d \in Callers : caller'[d].pc = "trying" => caller[d].pc = "trying"
      BY <2>1 DEF FnReturns, Return, Idle
    <2>2. ASSUME NEW c \in Callers, Refuse(c) \/ RefuseEnd(c) \/ FnRaises(c) \/ Wake(c)
          PROVE  opened' = opened /\ \A d \in Callers : caller'[d].pc = "trying" => caller[d].pc \in {"trying", "sleeping"}
      BY <2>2 DEF Refuse, RefuseEnd, FnRaises, Wake, Goto, Return, Idle
    <2>3. ASSUME NEW c \in Callers, FnGivesUp(c) \/ Compare(c) \/ Trip(c)
          PROVE  opened' = "open" /\ \A d \in Callers : caller'[d].pc = "trying" => caller[d].pc = "trying"
      BY <2>3 DEF FnGivesUp, Compare, Trip, Goto, Return, Idle
    <2>4. ASSUME NEW c \in Callers, Admit(c) PROVE FALSE
      BY <2>4 DEF Admit, IsOpen
    <2>5. CASE WindowPasses \/ UpstreamTurns \/ UNCHANGED cbVars
      BY <2>5 DEF WindowPasses, UpstreamTurns, cbVars
    <2> QED BY <2>1, <2>2, <2>3, <2>4, <2>5 DEF CBNext, Begin, Continue
  <1>2. BreakerInv /\ [CBNext]_cbVars => [WindowHolds]_cbVars
    BY <1>1
  <1> QED BY <1>2, BreakerAlways, PTL DEF CBSpec
=============================================================================
