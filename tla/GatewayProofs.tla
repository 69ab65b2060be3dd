--------------------------- MODULE GatewayProofs ---------------------------
(***************************************************************************)
(* Safety of one gateway for any limit, window, skew and cache size, and   *)
(* any number of requests and webhooks under way.                          *)
(***************************************************************************)
EXTENDS Gateway, TLAPS

----------------------------------------------------------------------------
(* The configuration.                                                      *)

\* A turn that still holds an older configuration was under way at the last
\* upsert.
TurnKnowsConfig ==
    \A r \in Requests : InTurn(r) => req[r].row.version = config.version \/ config.overtaken

----------------------------------------------------------------------------
(* Webhooks.                                                               *)

\* A webhook that has run a turn and whose next delivery is still accepted.
Repeatable(n) == handled[n] > 0 /\ n \notin excused /\ now - stamp[n] <= Skew

\* Such a webhook is in the cache of the row and in that of every turn.
CacheKnows ==
    \A n \in Nonces : Repeatable(n) =>
        /\ n \in Cached(gw.cache)
        /\ \A r \in Requests : InTurn(r) => n \in Cached(req[r].row.cache)

\* Turns that overlap excuse each other's webhooks.
OverlapExcused ==
    \A q, r \in Requests : InTurn(q) /\ InTurn(r) /\ q # r => Nonce(q) \in excused \cup {None}

\* A turn is the first of its webhook.
FirstTurn ==
    \A r \in Requests : InTurn(r) /\ Nonce(r) \notin excused \cup {None} => handled[Nonce(r)] = 0

\* A webhook that arrived has a timestamp.
Stamped ==
    /\ \A r \in Requests : req[r] \in Arriving \cup Turning /\ Nonce(r) # None => stamp[Nonce(r)] # None
    /\ \A n \in Nonces : handled[n] > 0 => stamp[n] # None

----------------------------------------------------------------------------
(* The rate limiter.                                                       *)

\* One request sets the expiry of a key, a key that has none.
ExpireAlone ==
    /\ redis.count = 0 => redis.expires = None
    /\ \A r \in Requests : At(r, "expire") =>
        /\ redis.count > 0 /\ redis.expires = None
        /\ \A q \in Requests : At(q, "expire") => q = r

\* The requests counted but not yet admitted: the one that sets the expiry.
Pending == IF \E r \in Requests : At(r, "expire") THEN 1 ELSE 0

\* f[k] requests were admitted in the last k ticks: more ticks hold no fewer.
Cumulative(f) == f[0] = 0 /\ \A j, k \in Spans : j <= k => f[j] <= f[k]

\* The last d ticks, at most a window, hold all that the counter's present
\* window has admitted, which ends at end; what the ticks before them admitted
\* belongs to one window.
Split(f, d, count, end, time) ==
    /\ f[d] <= count /\ f[d] <= Limit
    /\ f[Window] - f[d] <= Limit
    /\ d < Window /\ end # None => end - time + d >= Window
\* Nothing is admitted in a window that has ended.
Quiet(f, end, time) ==
    end # None /\ end <= time => \A k \in Spans : k <= time - end + 1 => f[k] = 0

RedisWindow ==
    /\ Cumulative(admitted["redis"])
    /\ Quiet(admitted["redis"], redis.expires, now)
    /\ \E d \in 1 .. Window : /\ Split(admitted["redis"], d, redis.count - Pending, redis.expires, now)
                              /\ admitted["redis"][d] + Pending <= Limit
\* The process's windows begin at multiples of their length.
MemoryWindow ==
    /\ Cumulative(admitted["memory"])
    /\ Quiet(admitted["memory"], memory.reset, now)
    /\ \E d \in 1 .. Window : Split(admitted["memory"], d, memory.count, memory.reset, now)
    /\ \E m \in Nat : memory.reset = m * Window

Configured == ConfigKept /\ TurnKnowsConfig
Remembered == CacheKnows /\ OverlapExcused /\ FirstTurn /\ Stamped /\ HandledOnce
Limited == ExpireAlone /\ CounterExpires /\ RedisWindow /\ MemoryWindow

IInv == TypeOK /\ Configured /\ Remembered /\ Limited

----------------------------------------------------------------------------
(* Types.                                                                  *)

Entry == Arriving \cup Turning \cup Sending

\* Where a request is tells what it keeps.
LEMMA Shapes ==
  ASSUME TypeOK, NEW r \in Requests
  PROVE  /\ At(r, "incr") \/ At(r, "expire") \/ At(r, "memory") \/ At(r, "load") => req[r] \in Arriving
         /\ InTurn(r) => req[r] \in Turning
         /\ At(r, "post") \/ At(r, "posted") => req[r] \in Sending
  BY DEF TypeOK, At, InTurn, Arriving, Turning, Sending

\* The cache after a nonce was recorded: the nonce is in it.
LEMMA RecordNonce ==
  ASSUME NEW cache \in Seq(Nonces), NEW n \in Nonces
  PROVE  record_nonce(cache, n) \in Seq(Nonces) /\ n \in Cached(record_nonce(cache, n))
  <1> DEFINE longer == Append(cache, n)
  <1>1. longer \in Seq(Nonces) /\ Len(longer) \in Nat \ {0} /\ longer[Len(longer)] = n
    OBVIOUS
  <1>2. CacheSize \in Nat \ {0}
    BY GatewayAssumption
  <1>3. CASE Len(longer) > CacheSize
    <2> DEFINE kept == SubSeq(longer, Len(longer) - CacheSize + 1, Len(longer))
    <2> HIDE DEF longer
    <2>1. kept \in Seq(Nonces) /\ Len(kept) = CacheSize /\ kept[CacheSize] = longer[Len(longer)]
      BY <1>1, <1>2, <1>3
    <2>2. CacheSize \in DOMAIN kept
      BY <1>2, <2>1
    <2>3. record_nonce(cache, n) = kept
      BY <1>3 DEF record_nonce, longer
    <2> HIDE DEF kept
    <2> QED BY <1>1, <2>1, <2>2, <2>3 DEF Cached
  <1>4. CASE ~(Len(longer) > CacheSize)
    <2>1. record_nonce(cache, n) = longer /\ Len(longer) \in DOMAIN longer
      BY <1>1, <1>4 DEF record_nonce
    <2> HIDE DEF longer
    <2> QED BY <1>1, <2>1 DEF Cached
  <1> QED BY <1>3, <1>4

\* Updates of the gateway's row.
LEMMA RowUpdate ==
  ASSUME NEW row \in GatewayRow, NEW e \in BOOLEAN, NEW v \in Nat, NEW c \in Seq(Nonces), NEW i \in Nat
  PROVE  /\ [row EXCEPT !.enabled = e, !.version = v, !.cache = c] \in GatewayRow
         /\ [row EXCEPT !.cache = c, !.version = v] \in GatewayRow
         /\ [row EXCEPT !.inbound = i] \in GatewayRow
  BY DEF GatewayRow

\* The clock keeps the types.
LEMMA TypeTick == ASSUME TypeOK, Tick PROVE TypeOK'
  <1>1. admitted' \in [{"redis", "memory"} -> [Spans -> Nat]]
    <2>1. ASSUME NEW b \in {"redis", "memory"}, NEW k \in Spans
          PROVE  (IF k = 0 THEN 0 ELSE admitted[b][k - 1]) \in Nat
      <3>1. k # 0 => k - 1 \in Spans
        BY GatewayAssumption DEF Spans
      <3> QED BY <3>1 DEF TypeOK
    <2>2. DOMAIN admitted = {"redis", "memory"}
      BY DEF TypeOK
    <2> QED BY <2>1, <2>2 DEF Tick
  <1> QED BY <1>1 DEF TypeOK, Tick, history

\* What a verdict of the limiter leaves of the request and of the history.
LEMMA TypeDecide ==
  ASSUME TypeOK, NEW r \in Requests, req[r] \in Arriving,
         NEW backend \in {"redis", "memory"}, NEW count \in Nat, Decide(r, backend, count)
  PROVE  /\ req' \in [Requests -> Entry \cup {None}]
         /\ admitted' \in [{"redis", "memory"} -> [Spans -> Nat]]
  <1>1. [req[r] EXCEPT !.pc = "load"] \in Arriving
    BY DEF Arriving
  <1>2. req' \in [Requests -> Entry \cup {None}]
    BY <1>1 DEF TypeOK, Decide, Goto, End, Entry
  <1>3. [k \in Spans |-> IF k = 0 THEN 0 ELSE admitted[backend][k] + 1] \in [Spans -> Nat]
    BY DEF TypeOK
  <1>4. admitted' \in [{"redis", "memory"} -> [Spans -> Nat]]
    BY <1>3 DEF TypeOK, Decide
  <1> QED BY <1>2, <1>4

\* The steps of the rate limiter keep the types.
LEMMA TypeLimiter ==
  ASSUME TypeOK, NEW r \in Requests, Incr(r) \/ Expire(r) \/ RedisFails(r) \/ TtlFails(r) \/ CheckMemory(r)
  PROVE  TypeOK'
  <1> USE NoneAssumption DEF TypeOK
  <1>1. req[r] \in Arriving
    BY Shapes DEF Incr, Expire, RedisFails, TtlFails, Fall, CheckMemory
  <1>2. \A pc \in {"expire", "memory", "load"} : [req[r] EXCEPT !.pc = pc] \in Arriving
    BY <1>1 DEF Arriving
  <1>0. Incremented \in [count: Nat, expires: Nat \cup {None}] /\ Expiring \in [count: Nat, expires: Nat \cup {None}]
    BY GatewayAssumption DEF Incremented, Expiring
  <1>3. CASE Incr(r)
    <2> DEFINE count == Incremented.count
    <2>1. count \in Nat /\ redis' \in [count: Nat, expires: Nat \cup {None}]
      BY <1>0, <1>3 DEF Incr
    <2>2. CASE IsNew(count)
      BY <1>2, <1>3, <2>1, <2>2 DEF Incr, Goto, Entry, history
    <2>3. CASE ~IsNew(count)
      <3>1. Decide(r, "redis", count)
        BY <1>3, <2>3 DEF Incr
      <3> QED BY <1>1, <1>3, <2>1, <3>1, TypeDecide DEF Incr, Entry, history
    <2> QED BY <2>2, <2>3
  <1>4. CASE Expire(r)
    <2>1. redis' \in [count: Nat, expires: Nat \cup {None}]
      BY <1>0, <1>4 DEF Expire
    <2> QED BY <1>1, <1>4, <2>1, TypeDecide DEF Expire, Entry, history
  <1>5. CASE RedisFails(r) \/ TtlFails(r)
    BY <1>0, <1>2, <1>5 DEF RedisFails, TtlFails, Fall, Goto, Entry, history
  <1>6. CASE CheckMemory(r)
    <2> DEFINE over == memory.reset <= now
               count == IF over THEN 1 ELSE memory.count + 1
    <2>1. count \in Nat /\ memory' \in [count: Nat, reset: Nat]
      <3>1. (now \div Window + 1) * Window \in Nat
        BY GatewayAssumption
      <3> QED BY <1>6, <3>1 DEF CheckMemory
    <2>2. Decide(r, "memory", count)
      BY <1>6 DEF CheckMemory
    <2> QED BY <1>1, <1>6, <2>1, <2>2, TypeDecide DEF CheckMemory, Entry, history
  <1> QED BY <1>3, <1>4, <1>5, <1>6

\* The steps of an inbound message keep the types.
LEMMA TypeInbound ==
  ASSUME TypeOK, NEW r \in Requests,
         (\E n \in Msgs : Deliver(r, n)) \/ Load(r) \/ InboundCommit(r) \/ InboundFails(r)
  PROVE  TypeOK'
  <1> USE NoneAssumption DEF TypeOK, Entry, history, limiter
  <1>1. ASSUME NEW n \in Msgs, Deliver(r, n) PROVE TypeOK'
    <2>1. [pc |-> IF fallback = "always" THEN "memory" ELSE "incr", nonce |-> n] \in Arriving
      BY DEF Arriving
    <2>2. \A d \in Drift : now + d \in Int
      BY GatewayAssumption
    <2>3. stamp' \in [Nonces -> Int \cup {None}]
      BY <1>1, <2>2 DEF Deliver, Msgs
    <2> QED BY <1>1, <2>1, <2>3 DEF Deliver
  <1>2. CASE Load(r)
    <2>1. req[r] \in Arriving
      BY <1>2, Shapes DEF Load
    <2>2. [pc |-> "turn", nonce |-> req[r].nonce, row |-> gw] \in Turning
      BY <2>1 DEF Arriving, Turning
    <2>3. req' \in [Requests -> Entry \cup {None}]
      BY <1>2, <2>2 DEF Load, End
    <2>4. excused' \subseteq Nonces
      <3>1. ASSUME NEW q \in Requests, InTurn(q) \/ q = r PROVE Nonce(q) \in Msgs
        BY <2>1, <3>1, Shapes DEF Nonce, Arriving, Turning
      <3> QED BY <1>2, <3>1 DEF Load, Msgs
    <2> QED BY <1>2, <2>3, <2>4 DEF Load
  <1>3. CASE InboundCommit(r)
    <2>1. req[r] \in Turning
      BY <1>3, Shapes DEF InboundCommit
    <2>2. Nonce(r) \in Msgs /\ req[r].row \in GatewayRow
      BY <2>1 DEF Nonce, Turning
    <2>3. req[r].row.inbound + 1 \in Nat /\ req[r].row.version \in Nat /\ req[r].row.cache \in Seq(Nonces)
      BY <2>2, SMTT(30) DEF GatewayRow
    <2>4. [gw EXCEPT !.inbound = req[r].row.inbound + 1] \in GatewayRow
      BY <2>3, RowUpdate
    <2>5. gw' \in GatewayRow
      <3>1. CASE Nonce(r) = None
        BY <1>3, <2>4, <3>1, RowUpdate DEF InboundCommit, InboundRow
      <3>2. CASE Nonce(r) # None
        <4>1. record_nonce(req[r].row.cache, Nonce(r)) \in Seq(Nonces)
          BY <2>2, <3>2, RecordNonce DEF GatewayRow, Msgs
        <4> QED BY <1>3, <2>3, <2>4, <3>2, <4>1, RowUpdate DEF InboundCommit, InboundRow
      <3> QED BY <3>1, <3>2
    <2>6. excused' \subseteq Nonces
      <3>1. Cached(req[r].row.cache) \subseteq Nonces
        BY <2>2 DEF Cached, GatewayRow
      <3> QED BY <1>3, <3>1 DEF InboundCommit, Dropped
    <2>7. handled' \in [Msgs -> Nat] /\ req' \in [Requests -> Entry \cup {None}]
      BY <1>3, <2>2 DEF InboundCommit, End
    <2> QED BY <1>3, <2>5, <2>6, <2>7 DEF InboundCommit
  <1>4. CASE InboundFails(r)
    BY <1>4 DEF InboundFails, End
  <1> QED BY <1>1, <1>2, <1>3, <1>4

\* The steps of a send keep the types.
LEMMA TypeSend ==
  ASSUME TypeOK, NEW r \in Requests,
         (\E key \in BOOLEAN : Send(r, key)) \/ Post(r) \/ PostFails(r) \/ SendCommit(r)
  PROVE  TypeOK'
  <1> USE NoneAssumption DEF TypeOK, Entry, history, limiter
  <1>1. ASSUME NEW key \in BOOLEAN, Send(r, key) PROVE TypeOK'
    <2>1. [pc |-> "post", key |-> key, posts |-> 0, row |-> gw] \in Sending
      BY DEF Sending
    <2> QED BY <1>1, <2>1 DEF Send
  <1>2. CASE Post(r)
    <2>1. req[r] \in Sending
      BY <1>2, Shapes DEF Post
    <2>2. [req[r] EXCEPT !.posts = @ + 1, !.pc = "posted"] \in Sending
      <3>1. req[r].posts + 1 \in Nat
        BY <2>1 DEF Sending
      <3> QED BY <2>1, <3>1 DEF Sending
    <2>3. req' = [req EXCEPT ![r] = [req[r] EXCEPT !.posts = @ + 1, !.pc = "posted"]]
      BY <1>2 DEF Post
    <2> QED BY <1>2, <2>2, <2>3 DEF Post
  <1>3. CASE PostFails(r)
    <2>1. req[r] \in Sending
      BY <1>3, Shapes DEF PostFails
    <2>2. [req[r] EXCEPT !.pc = "post"] \in Sending
      BY <2>1 DEF Sending
    <2> QED BY <1>3, <2>2 DEF PostFails, Goto, End
  <1>4. CASE SendCommit(r)
    <2>1. req[r] \in Sending
      BY <1>4, Shapes DEF SendCommit
    <2>2. gw' \in GatewayRow
      <3>1. req[r].row.outbound + 1 \in Nat
        BY <2>1 DEF Sending, GatewayRow
      <3>2. \A o \in Nat : [gw EXCEPT !.outbound = o] \in GatewayRow
        BY DEF GatewayRow
      <3> QED BY <1>4, <3>1, <3>2 DEF SendCommit
    <2> QED BY <1>4, <2>2 DEF SendCommit, End
  <1> QED BY <1>1, <1>2, <1>3, <1>4

\* An upsert and a crash keep the types.
LEMMA TypeAdmin ==
  ASSUME TypeOK, (\E enabled \in BOOLEAN : upsert_gateway(enabled)) \/ (\E r \in Requests : Crash(r))
  PROVE  TypeOK'
  <1> USE NoneAssumption DEF TypeOK, Entry, history, limiter
  <1>1. ASSUME NEW enabled \in BOOLEAN, upsert_gateway(enabled) PROVE TypeOK'
    <2>1. gw' \in GatewayRow
      <3>1. config.version + 1 \in Nat /\ <<>> \in Seq(Nonces)
        OBVIOUS
      <3> QED BY <1>1, <3>1, RowUpdate DEF upsert_gateway
    <2>2. Cached(gw.cache) \subseteq Nonces
      BY DEF Cached, GatewayRow
    <2>3. config' \in [version: Nat, overtaken: BOOLEAN]
      <3>1. config.version + 1 \in Nat /\ (\E q \in Requests : InTurn(q)) \in BOOLEAN
        OBVIOUS
      <3> QED BY <1>1, <3>1 DEF upsert_gateway
    <2> QED BY <1>1, <2>1, <2>2, <2>3 DEF upsert_gateway
  <1>2. ASSUME NEW r \in Requests, Crash(r) PROVE TypeOK'
    BY <1>2 DEF Crash, End
  <1> QED BY <1>1, <1>2

\* Every step keeps the types.
LEMMA NextType == TypeOK /\ [Next]_vars => TypeOK'
  <1> SUFFICES ASSUME TypeOK, [Next]_vars PROVE TypeOK'
    OBVIOUS
  <1>1. CASE UNCHANGED vars
    BY <1>1 DEF vars, TypeOK
  <1>2. CASE Next
    BY <1>2, TypeTick, TypeLimiter, TypeInbound, TypeSend, TypeAdmin DEF Next
  <1> QED BY <1>1, <1>2
----------------------------------------------------------------------------
(* The configuration and the webhooks.                                     *)

\* The steps of a request that is not in its turn, or leaves it without effect.
Aside(r) ==
    \/ \E n \in Msgs : Deliver(r, n)
    \/ Incr(r) \/ Expire(r) \/ RedisFails(r) \/ TtlFails(r) \/ CheckMemory(r)
    \/ InboundFails(r)
    \/ \E key \in BOOLEAN : Send(r, key)
    \/ Post(r) \/ PostFails(r) \/ SendCommit(r)
    \/ Crash(r)

\* They leave the turns, the webhooks and the configuration alone.
LEMMA AsideStep ==
  ASSUME TypeOK, NEW r \in Requests, Aside(r)
  PROVE  /\ ~InTurn(r)'
         /\ \A q \in Requests \ {r} : req'[q] = req[q]
         /\ gw'.version = gw.version /\ gw'.cache = gw.cache
         /\ UNCHANGED <<now, config, excused, handled>>
  <1> USE NoneAssumption DEF InTurn, At, history, limiter
  <1>1. CASE (\E n \in Msgs : Deliver(r, n)) \/ (\E key \in BOOLEAN : Send(r, key))
    BY <1>1 DEF TypeOK, Deliver, Send
  <1>2. CASE Incr(r) \/ Expire(r) \/ RedisFails(r) \/ TtlFails(r) \/ CheckMemory(r)
    <2>1. req[r] \in Arriving
      BY <1>2, Shapes DEF Incr, Expire, RedisFails, TtlFails, Fall, CheckMemory
    <2>2. UNCHANGED <<now, gw, config, excused, handled>>
      BY <1>2 DEF Incr, Expire, RedisFails, TtlFails, Fall, CheckMemory
    <2>3. ~InTurn(r)'
      BY <1>2, <2>1 DEF TypeOK, Incr, Expire, RedisFails, TtlFails, Fall, CheckMemory, Decide, Goto, End, Arriving
    <2>4. \A q \in Requests \ {r} : req'[q] = req[q]
      BY <1>2 DEF TypeOK, Incr, Expire, RedisFails, TtlFails, Fall, CheckMemory, Decide, Goto, End
    <2> QED BY <2>2, <2>3, <2>4
  <1>3. CASE InboundFails(r) \/ Crash(r)
    BY <1>3 DEF TypeOK, InboundFails, Crash, End
  <1>4. CASE Post(r) \/ PostFails(r)
    <2>1. req[r] \in Sending
      BY <1>4, Shapes DEF Post, PostFails
    <2> QED BY <1>4, <2>1 DEF TypeOK, Post, PostFails, Goto, End, Sending
  <1>5. CASE SendCommit(r)
    BY <1>5 DEF TypeOK, SendCommit, End, GatewayRow
  <1> QED BY <1>1, <1>2, <1>3, <1>4, <1>5 DEF Aside

\* Every step keeps the configuration's part.
LEMMA NextConfigured ==
  ASSUME TypeOK, Configured, [Next]_vars
  PROVE  Configured'
  <1> USE NoneAssumption DEF Configured, ConfigKept, TurnKnowsConfig, InTurn, At
  <1>1. CASE UNCHANGED vars
    BY <1>1 DEF vars
  <1>2. CASE Tick
    BY <1>2 DEF Tick, history
  <1>3. ASSUME NEW r \in Requests, Aside(r) PROVE Configured'
    BY <1>3, AsideStep
  <1>4. ASSUME NEW r \in Requests, Load(r) PROVE Configured'
    <2>1. UNCHANGED <<gw, config>>
      BY <1>4 DEF Load
    <2>2. /\ \A q \in Requests \ {r} : req'[q] = req[q]
          /\ req'[r] # None => req'[r].row = gw
      BY <1>4 DEF TypeOK, Load, End
    <2> QED BY <2>1, <2>2
  <1>5. ASSUME NEW r \in Requests, InboundCommit(r) PROVE Configured'
    <2>1. gw'.version = gw.version \/ gw'.version = req[r].row.version
      BY <1>5 DEF TypeOK, InboundCommit, InboundRow, GatewayRow
    <2> QED BY <1>5, <2>1 DEF TypeOK, InboundCommit, End
  <1>6. ASSUME NEW enabled \in BOOLEAN, upsert_gateway(enabled) PROVE Configured'
    BY <1>6 DEF TypeOK, upsert_gateway, GatewayRow
  <1> QED BY <1>1, <1>2, <1>3, <1>4, <1>5, <1>6 DEF Next, Aside

\* A webhook stays stamped with its first timestamp.
LEMMA NextStamped ==
  ASSUME TypeOK, Stamped, [Next]_vars
  PROVE  Stamped' /\ \A n \in Nonces : stamp[n] # None => stamp'[n] = stamp[n]
  <1> USE NoneAssumption DEF TypeOK, Stamped, Nonce, history, limiter, Goto, End
  <1>1. CASE UNCHANGED vars
    BY <1>1 DEF vars
  <1>2. CASE Tick
    BY <1>2 DEF Tick
  <1>3. ASSUME NEW r \in Requests, NEW n \in Msgs, Deliver(r, n)
        PROVE  Stamped' /\ \A m \in Nonces : stamp[m] # None => stamp'[m] = stamp[m]
    <2>1. /\ \A m \in Nonces : stamp[m] # None => stamp'[m] = stamp[m]
          /\ n # None => stamp'[n] # None
      BY <1>3, GatewayAssumption DEF Deliver, Msgs
    <2>2. req'[r].nonce = n /\ \A q \in Requests \ {r} : req'[q] = req[q]
      BY <1>3 DEF Deliver
    <2>3. \A q \in Requests : req[q] \in Arriving \cup Turning => req[q].nonce \in Nonces \cup {None}
      BY DEF Arriving, Turning, Msgs
    <2>4. handled' = handled
      BY <1>3 DEF Deliver
    <2> QED BY <2>1, <2>2, <2>3, <2>4
  <1>4. ASSUME NEW r \in Requests, Incr(r) \/ Expire(r) \/ RedisFails(r) \/ TtlFails(r) \/ CheckMemory(r)
        PROVE  Stamped' /\ stamp' = stamp
    <2>1. req[r] \in Arriving
      BY <1>4, Shapes DEF Incr, Expire, RedisFails, TtlFails, Fall, CheckMemory
    <2>2. UNCHANGED <<stamp, handled>>
      BY <1>4 DEF Incr, Expire, RedisFails, TtlFails, Fall, CheckMemory
    <2>3. /\ \A q \in Requests \ {r} : req'[q] = req[q]
          /\ req'[r] # None => req'[r].nonce = req[r].nonce
      BY <1>4, <2>1 DEF Incr, Expire, RedisFails, TtlFails, Fall, CheckMemory, Decide, Arriving
    <2> QED BY <2>1, <2>2, <2>3
  <1>5. ASSUME NEW r \in Requests, Load(r) PROVE Stamped' /\ stamp' = stamp
    <2>1. req[r] \in Arriving
      BY <1>5, Shapes DEF Load
    <2>2. UNCHANGED <<stamp, handled>>
      BY <1>5 DEF Load
    <2>3. /\ \A q \in Requests \ {r} : req'[q] = req[q]
          /\ req'[r] # None => req'[r].nonce = req[r].nonce
      BY <1>5, <2>1 DEF Load
    <2> QED BY <2>1, <2>2, <2>3
  <1>6. ASSUME NEW r \in Requests, InboundCommit(r) PROVE Stamped' /\ stamp' = stamp
    <2>1. req[r] \in Turning
      BY <1>6, Shapes DEF InboundCommit
    <2> QED BY <1>6, <2>1 DEF InboundCommit, Turning, Msgs
  <1>7. ASSUME NEW r \in Requests, InboundFails(r) \/ Crash(r) \/ SendCommit(r) PROVE Stamped' /\ stamp' = stamp
    BY <1>7 DEF InboundFails, Crash, SendCommit
  <1>8. ASSUME NEW r \in Requests, NEW key \in BOOLEAN, Send(r, key) PROVE Stamped' /\ stamp' = stamp
    <2>1. req'[r] \notin Arriving \cup Turning
      BY <1>8 DEF Send, Arriving, Turning
    <2> QED BY <1>8, <2>1 DEF Send
  <1>9. ASSUME NEW r \in Requests, Post(r) \/ PostFails(r) PROVE Stamped' /\ stamp' = stamp
    <2>1. req[r] \in Sending
      BY <1>9, Shapes DEF Post, PostFails
    <2>2. req'[r] \notin Arriving \cup Turning
      BY <1>9, <2>1 DEF Post, PostFails, Sending, Arriving, Turning
    <2> QED BY <1>9, <2>2 DEF Post, PostFails
  <1>10. ASSUME NEW enabled \in BOOLEAN, upsert_gateway(enabled) PROVE Stamped' /\ stamp' = stamp
    BY <1>10 DEF upsert_gateway
  <1> QED BY <1>1, <1>2, <1>3, <1>4, <1>5, <1>6, <1>7, <1>8, <1>9, <1>10 DEF Next
\* A webhook cannot become acceptable again.
LEMMA StaysRepeatable ==
  ASSUME TypeOK, TypeOK', Stamped, NEW n \in Nonces, now' >= now, handled' = handled, excused \subseteq excused',
         stamp[n] # None => stamp'[n] = stamp[n], Repeatable(n)'
  PROVE  Repeatable(n)
  <1>1. handled[n] > 0 /\ n \notin excused /\ stamp[n] \in Int /\ stamp'[n] = stamp[n]
    BY NoneAssumption DEF Repeatable, Stamped, TypeOK
  <1>2. now \in Nat /\ now' \in Nat /\ Skew \in Nat /\ now' - stamp[n] <= Skew
    BY <1>1, GatewayAssumption DEF TypeOK, Repeatable
  <1> QED BY <1>1, <1>2 DEF Repeatable

\* A request before its turn, or a send, leaves the nonces' part alone.
LEMMA RememberedAside ==
  ASSUME TypeOK, TypeOK', Remembered, NEW r \in Requests, Aside(r),
         \A n \in Nonces : stamp[n] # None => stamp'[n] = stamp[n]
  PROVE  CacheKnows' /\ OverlapExcused' /\ FirstTurn' /\ HandledOnce'
  <1>1. /\ \A q \in Requests : InTurn(q)' => InTurn(q) /\ req'[q] = req[q]
        /\ gw'.cache = gw.cache
        /\ UNCHANGED <<now, excused, handled>>
    BY AsideStep DEF InTurn, At
  <1>2. \A n \in Nonces : Repeatable(n)' => Repeatable(n)
    BY <1>1, StaysRepeatable DEF Remembered, TypeOK
  <1>3. CacheKnows'
    BY <1>1, <1>2 DEF Remembered, CacheKnows
  <1>4. OverlapExcused' /\ FirstTurn' /\ HandledOnce'
    BY <1>1 DEF Remembered, OverlapExcused, FirstTurn, Nonce, HandledOnce
  <1> QED BY <1>3, <1>4

\* A turn begins: its webhook is not in the cache, so that it has not run, and
\* the turns under way excuse it and are excused.
LEMMA RememberedLoad ==
  ASSUME TypeOK, TypeOK', Remembered, NEW r \in Requests, Load(r)
  PROVE  CacheKnows' /\ OverlapExcused' /\ FirstTurn' /\ HandledOnce'
  <1>1. UNCHANGED <<now, gw, stamp, handled>> /\ \A q \in Requests \ {r} : req'[q] = req[q]
    BY DEF Load, limiter, TypeOK, End
  <1>2. req[r] \in Arriving /\ ~InTurn(r)
    BY Shapes DEF Load, At, InTurn
  <1>3. CASE ~(gw.enabled /\ Fresh(Nonce(r)))
    <2>1. excused' = excused /\ req'[r] = None
      BY <1>3 DEF Load, End, TypeOK
    <2>2. \A q \in Requests : InTurn(q)' => InTurn(q) /\ req'[q] = req[q]
      BY <1>1, <2>1 DEF InTurn, At
    <2> QED BY <1>1, <2>1, <2>2 DEF Remembered, CacheKnows, Repeatable, OverlapExcused, FirstTurn, Nonce, HandledOnce
  <1>4. CASE gw.enabled /\ Fresh(Nonce(r))
    <2> DEFINE others == {q \in Requests \ {r} : InTurn(q)}
    <2>1. req'[r] = [pc |-> "turn", nonce |-> Nonce(r), row |-> gw]
      BY <1>4 DEF Load, TypeOK, Nonce
    <2>2. /\ excused \subseteq excused'
          /\ \A q \in others : others # {} => {Nonce(q), Nonce(r)} \subseteq excused' \cup {None}
      BY <1>4 DEF Load
    <2>3. \A q \in Requests : InTurn(q)' => q = r \/ (q \in others /\ req'[q] = req[q])
      BY <1>1 DEF InTurn, At
    <2>4. ASSUME NEW n \in Nonces, Repeatable(n)'
          PROVE  n \in Cached(gw.cache) /\ \A q \in others : n \in Cached(req[q].row.cache)
      <3>1. Repeatable(n)
        BY <1>1, <2>2, <2>4, StaysRepeatable DEF Remembered, TypeOK
      <3> QED BY <3>1 DEF Remembered, CacheKnows
    <2>5. CacheKnows'
      BY <1>1, <2>1, <2>3, <2>4 DEF CacheKnows
    <2>6. OverlapExcused'
      <3> SUFFICES ASSUME NEW q \in Requests, NEW t \in Requests, InTurn(q)', InTurn(t)', q # t
                   PROVE  Nonce(q)' \in excused' \cup {None}
        BY DEF OverlapExcused
      <3>1. CASE q = r
        BY <2>1, <2>2, <2>3, <3>1 DEF Nonce
      <3>2. CASE q # r
        BY <2>2, <2>3, <3>2 DEF Nonce, Remembered, OverlapExcused
      <3> QED BY <3>1, <3>2
    <2>7. FirstTurn'
      <3>1. Nonce(r) \notin excused' \cup {None} => handled[Nonce(r)] = 0
        <4> SUFFICES ASSUME Nonce(r) \notin excused' \cup {None} PROVE handled[Nonce(r)] = 0
          OBVIOUS
        <4>1. Nonce(r) \in Nonces /\ handled[Nonce(r)] \in Nat
          BY <1>2 DEF Nonce, Arriving, Msgs, TypeOK
        <4>2. Nonce(r) \notin excused /\ now - stamp[Nonce(r)] <= Skew /\ Nonce(r) \notin Cached(gw.cache)
          <5>1. stamp[Nonce(r)] \in Int /\ now \in Nat /\ Skew \in Nat
            BY <1>2, <4>1, GatewayAssumption DEF Remembered, Stamped, TypeOK
          <5> QED BY <1>4, <2>2, <5>1 DEF Fresh, Distance
        <4> QED BY <4>1, <4>2 DEF Remembered, CacheKnows, Repeatable
      <3> QED BY <1>1, <2>1, <2>2, <2>3, <3>1 DEF FirstTurn, Remembered, Nonce
    <2>8. HandledOnce'
      BY <1>1, <2>2 DEF HandledOnce, Remembered
    <2> QED BY <2>5, <2>6, <2>7, <2>8
  <1> QED BY <1>3, <1>4

\* A turn commits: what it forgets it excuses, and the other turns were excused.
LEMMA RememberedCommit ==
  ASSUME TypeOK, TypeOK', Remembered, NEW r \in Requests, InboundCommit(r)
  PROVE  CacheKnows' /\ OverlapExcused' /\ FirstTurn' /\ HandledOnce'
  <1> DEFINE c == req[r].row.cache
  <1>1. req[r] \in Turning /\ InTurn(r)
    BY Shapes DEF InboundCommit
  <1>2. Nonce(r) \in Msgs /\ c \in Seq(Nonces)
    BY <1>1 DEF Nonce, Turning, GatewayRow
  <1>3. /\ UNCHANGED <<now, stamp>>
        /\ \A q \in Requests : InTurn(q)' => q # r /\ InTurn(q) /\ req'[q] = req[q]
    BY DEF InboundCommit, End, TypeOK, InTurn, At
  <1>4. /\ handled'[Nonce(r)] = handled[Nonce(r)] + 1
        /\ \A n \in Msgs \ {Nonce(r)} : handled'[n] = handled[n]
    BY <1>2 DEF InboundCommit, TypeOK
  <1>5. /\ excused \subseteq excused'
        /\ \A n \in Cached(c) : now - stamp[n] <= Skew => n \in excused' \/ n \in Cached(gw'.cache)
    BY DEF InboundCommit, Dropped
  <1>6. /\ Nonce(r) = None => gw'.cache = gw.cache
        /\ Nonce(r) # None => Nonce(r) \in Cached(gw'.cache)
    <2>1. CASE Nonce(r) = None
      BY <2>1 DEF InboundCommit, InboundRow, GatewayRow, TypeOK
    <2>2. CASE Nonce(r) # None
      <3>1. gw'.cache = record_nonce(c, Nonce(r))
        BY <2>2 DEF InboundCommit, InboundRow, GatewayRow, TypeOK
      <3> QED BY <1>2, <2>2, <3>1, RecordNonce DEF Msgs
    <2> QED BY <2>1, <2>2
  <1>7. CacheKnows'
    <2> SUFFICES ASSUME NEW n \in Nonces, Repeatable(n)'
                 PROVE  /\ n \in Cached(gw'.cache)
                        /\ \A q \in Requests : InTurn(q)' => n \in Cached(req'[q].row.cache)
      BY DEF CacheKnows
    <2>1. n \notin excused /\ n \notin excused' /\ now - stamp[n] <= Skew
      BY <1>3, <1>5 DEF Repeatable
    <2>2. CASE n = Nonce(r)
      <3>1. \A q \in Requests : ~InTurn(q)'
        BY <1>1, <1>3, <2>1, <2>2, NoneAssumption DEF Remembered, OverlapExcused
      <3> QED BY <1>6, <2>2, <3>1, NoneAssumption
    <2>3. CASE n # Nonce(r)
      <3>1. Repeatable(n)
        BY <1>4, <2>1, <2>3 DEF Repeatable, Msgs
      <3>2. /\ n \in Cached(c)
            /\ \A q \in Requests : InTurn(q) => n \in Cached(req[q].row.cache)
        BY <1>1, <3>1 DEF Remembered, CacheKnows
      <3> QED BY <1>3, <1>5, <2>1, <3>2
    <2> QED BY <2>2, <2>3
  <1>8. OverlapExcused'
    BY <1>3, <1>5 DEF Remembered, OverlapExcused, Nonce
  <1>9. FirstTurn'
    <2> SUFFICES ASSUME NEW q \in Requests, InTurn(q)', Nonce(q)' \notin excused' \cup {None}
                 PROVE  handled'[Nonce(q)'] = 0
      BY DEF FirstTurn
    <2>1. InTurn(q) /\ q # r /\ Nonce(q)' = Nonce(q) /\ Nonce(q) \notin excused \cup {None}
      BY <1>3, <1>5 DEF Nonce
    <2> QED BY <1>1, <2>1 DEF Remembered, OverlapExcused
  <1>10. HandledOnce'
    <2> SUFFICES ASSUME NEW n \in Nonces, handled'[n] > 1 PROVE n \in excused'
      BY DEF HandledOnce
    <2>1. CASE n = Nonce(r)
      <3>1. handled[n] # 0
        BY <1>4, <2>1
      <3> QED BY <1>1, <1>5, <2>1, <3>1, NoneAssumption DEF Remembered, FirstTurn
    <2>2. CASE n # Nonce(r)
      BY <1>4, <1>5, <2>2 DEF Remembered, HandledOnce, Msgs
    <2> QED BY <2>1, <2>2
  <1> QED BY <1>7, <1>8, <1>9, <1>10

\* Every step keeps the webhooks' part.
LEMMA NextRemembered ==
  ASSUME TypeOK, TypeOK', Remembered, [Next]_vars
  PROVE  Remembered'
  <1>1. Stamped' /\ \A n \in Nonces : stamp[n] # None => stamp'[n] = stamp[n]
    BY NextStamped DEF Remembered
  <1> SUFFICES CacheKnows' /\ OverlapExcused' /\ FirstTurn' /\ HandledOnce'
    BY <1>1 DEF Remembered
  <1>2. CASE UNCHANGED vars
    BY <1>2 DEF vars, Remembered, CacheKnows, Repeatable, OverlapExcused, FirstTurn, HandledOnce, InTurn, At, Nonce
  <1>3. CASE Tick
    <2>1. UNCHANGED <<gw, req, handled, excused>> /\ now' >= now
      BY <1>3 DEF Tick, history, TypeOK
    <2>2. \A n \in Nonces : Repeatable(n)' => Repeatable(n)
      BY <1>1, <2>1, StaysRepeatable DEF Remembered
    <2> QED BY <2>1, <2>2 DEF Remembered, CacheKnows, OverlapExcused, FirstTurn, HandledOnce, InTurn, At, Nonce
  <1>4. ASSUME NEW r \in Requests, Aside(r) PROVE CacheKnows' /\ OverlapExcused' /\ FirstTurn' /\ HandledOnce'
    BY <1>1, <1>4, RememberedAside
  <1>5. ASSUME NEW enabled \in BOOLEAN, upsert_gateway(enabled)
        PROVE  CacheKnows' /\ OverlapExcused' /\ FirstTurn' /\ HandledOnce'
    <2>1. UNCHANGED <<now, stamp, req, handled>> /\ excused' = excused \cup Cached(gw.cache)
      BY <1>5 DEF upsert_gateway
    <2>2. \A n \in Nonces : ~Repeatable(n)'
      BY <2>1 DEF Remembered, CacheKnows, Repeatable
    <2>3. CacheKnows'
      BY <2>2 DEF CacheKnows
    <2>4. OverlapExcused' /\ FirstTurn' /\ HandledOnce'
      BY <2>1 DEF Remembered, OverlapExcused, FirstTurn, HandledOnce, InTurn, At, Nonce
    <2> QED BY <2>3, <2>4
  <1> QED BY <1>2, <1>3, <1>4, <1>5, RememberedLoad, RememberedCommit DEF Next, Aside
----------------------------------------------------------------------------
(* The rate limiter.                                                       *)

Ticked(f) == [k \in Spans |-> IF k = 0 THEN 0 ELSE f[k - 1]]
Counted(f) == [k \in Spans |-> IF k = 0 THEN 0 ELSE f[k] + 1]

\* A tick moves the boundary with the admissions, until it is a window old.
LEMMA SplitTick ==
  ASSUME NEW f \in [Spans -> Nat], Cumulative(f), NEW d \in 1 .. Window, NEW count \in Int,
         NEW end \in Nat \cup {None}, NEW time \in Nat, Split(f, d, count, end, time), Quiet(f, end, time)
  PROVE  /\ Cumulative(Ticked(f)) /\ Quiet(Ticked(f), end, time + 1)
         /\ \E e \in 1 .. Window : Split(Ticked(f), e, count, end, time + 1) /\ Ticked(f)[e] <= f[d]
  <1> USE GatewayAssumption, NoneAssumption DEF Spans
  <1>1. Cumulative(Ticked(f))
    BY DEF Cumulative, Ticked
  <1>2. Quiet(Ticked(f), end, time + 1)
    <2> SUFFICES ASSUME end # None, end <= time + 1, NEW k \in Spans, k <= time + 1 - end + 1
                 PROVE  Ticked(f)[k] = 0
      BY DEF Quiet
    <2>1. CASE k = 0
      BY <2>1 DEF Ticked
    <2>2. CASE k # 0
      <3>1. k - 1 \in Spans /\ Ticked(f)[k] = f[k - 1] /\ k - 1 <= time - end + 1
        BY <2>2 DEF Ticked
      <3>2. CASE end <= time
        BY <3>1, <3>2 DEF Quiet
      <3>3. CASE end = time + 1
        BY <3>1, <3>3 DEF Cumulative
      <3> QED BY <3>2, <3>3
    <2> QED BY <2>1, <2>2
  <1>3. CASE d < Window
    <2>1. d + 1 \in 1 .. Window /\ Ticked(f)[d + 1] = f[d] /\ Ticked(f)[Window] = f[Window - 1]
      BY <1>3 DEF Ticked
    <2>2. f[Window - 1] <= f[Window] /\ {f[d], f[Window - 1], f[Window]} \subseteq Nat
      BY SMTT(30) DEF Cumulative
    <2>3. Split(Ticked(f), d + 1, count, end, time + 1)
      <3>1. f[d] <= count /\ f[d] <= Limit /\ f[Window] - f[d] <= Limit /\ (end # None => end - time + d >= Window)
        BY <1>3 DEF Split
      <3>2. f[Window - 1] - f[d] <= Limit /\ (end # None => end - (time + 1) + (d + 1) >= Window)
        BY <2>2, <3>1, SMTT(30)
      <3> QED BY <2>1, <3>1, <3>2 DEF Split
    <2>4. Ticked(f)[d + 1] <= f[d]
      BY <2>1, <2>2
    <2> QED BY <1>1, <1>2, <2>1, <2>3, <2>4
  <1>4. CASE d = Window
    <2>1. Ticked(f)[Window] = f[Window - 1] /\ f[Window - 1] <= f[Window] /\ {f[Window - 1], f[Window]} \subseteq Nat
      BY SMTT(30) DEF Ticked, Cumulative
    <2> QED BY <1>1, <1>2, <1>4, <2>1, SMTT(30) DEF Split
  <1> QED BY <1>3, <1>4

\* An admission counts in every span but the empty one.
LEMMA SplitCounted ==
  ASSUME NEW f \in [Spans -> Nat], Cumulative(f), NEW d \in 1 .. Window, NEW count \in Int,
         NEW end, NEW time, Split(f, d, count, end, time), f[d] + 1 <= Limit
  PROVE  /\ Cumulative(Counted(f)) /\ Counted(f)[d] = f[d] + 1
         /\ Split(Counted(f), d, count + 1, end, time)
  <1> USE GatewayAssumption DEF Spans
  <1>1. Cumulative(Counted(f))
    BY SMTT(30) DEF Cumulative, Counted
  <1>2. Counted(f)[d] = f[d] + 1 /\ Counted(f)[Window] = f[Window] + 1 /\ f[d] \in Nat /\ f[Window] \in Nat
    BY DEF Counted
  <1> QED BY <1>1, <1>2, SMTT(30) DEF Split

\* When a window has ended, all that is recent was admitted by it; the next
\* window may be taken to begin anywhere since.
LEMMA SplitNew ==
  ASSUME NEW f \in [Spans -> Nat], Cumulative(f), NEW d \in 1 .. Window, NEW count \in Int,
         NEW end \in Nat, NEW time \in Nat, end <= time, end # None,
         Split(f, d, count, end, time), Quiet(f, end, time),
         NEW e \in 1 .. Window, e <= time - end + 1,
         NEW next \in Nat \cup {None}, next # None => next - time + e >= Window
  PROVE  f[e] = 0 /\ Split(f, e, 0, next, time)
  <1> USE GatewayAssumption, NoneAssumption DEF Spans
  <1>1. d = Window
    BY DEF Split
  <1>2. f[e] = 0 /\ f[Window] \in Nat /\ f[Window] <= Limit
    BY <1>1 DEF Split, Quiet
  <1> QED BY <1>2 DEF Split

\* Steps that leave the counters alone, and EXPIRE to the request that has it
\* to do, or record that it was lost.
LEMMA LimitedFrame ==
  ASSUME TypeOK, Limited, UNCHANGED <<now, redis, memory, admitted>>, stuck => stuck',
         \A q \in Requests : At(q, "expire")' => At(q, "expire"),
         \A q \in Requests : At(q, "expire") => At(q, "expire")' \/ stuck'
  PROVE  Limited'
  <1>1. Pending' \in {0, 1} /\ Pending \in {0, 1} /\ Pending' <= Pending
    BY DEF Pending
  <1>2. ExpireAlone' /\ CounterExpires'
    BY DEF Limited, ExpireAlone, CounterExpires
  <1>3. RedisWindow'
    <2>1. PICK d \in 1 .. Window : /\ Split(admitted["redis"], d, redis.count - Pending, redis.expires, now)
                                   /\ admitted["redis"][d] + Pending <= Limit
      BY DEF Limited, RedisWindow
    <2>2. admitted["redis"][d] \in Nat /\ redis.count \in Nat /\ Limit \in Nat
      BY GatewayAssumption DEF TypeOK, Spans
    <2>3. Split(admitted["redis"], d, redis.count - Pending', redis.expires, now)
      BY <1>1, <2>1, <2>2 DEF Split
    <2> QED BY <1>1, <2>1, <2>2, <2>3 DEF Limited, RedisWindow
  <1>4. MemoryWindow'
    BY DEF Limited, MemoryWindow
  <1> QED BY <1>2, <1>3, <1>4 DEF Limited

\* What a verdict does to the requests and to the admissions.
LEMMA DecideStep ==
  ASSUME TypeOK, NEW r \in Requests, req[r] \in Arriving, NEW b \in {"redis", "memory"}, NEW count \in Nat,
         Decide(r, b, count)
  PROVE  /\ \A q \in Requests : At(q, "expire")' <=> At(q, "expire") /\ q # r
         /\ \A c \in {"redis", "memory"} \ {b} : admitted'[c] = admitted[c]
         /\ admitted'[b] = IF count <= Limit THEN Counted(admitted[b]) ELSE admitted[b]
  <1>1. \A q \in Requests : At(q, "expire")' <=> At(q, "expire") /\ q # r
    BY NoneAssumption DEF Decide, Goto, End, At, TypeOK, Arriving
  <1> QED BY <1>1 DEF Decide, Allowed, Counted, TypeOK
\* The clock keeps the limiter's part: windows move on by one tick.
LEMMA LimitedTick == ASSUME TypeOK, Limited, Tick PROVE Limited'
  <1>1. /\ now' = now + 1 /\ UNCHANGED <<redis, memory, stuck, req>>
        /\ admitted'["redis"] = Ticked(admitted["redis"]) /\ admitted'["memory"] = Ticked(admitted["memory"])
    BY DEF Tick, TypeOK, Ticked
  <1>2. Pending' = Pending /\ Pending \in {0, 1}
    BY <1>1 DEF Pending, At
  <1>3. ExpireAlone' /\ CounterExpires'
    BY <1>1 DEF Limited, ExpireAlone, CounterExpires, At
  <1>4. RedisWindow'
    <2>1. PICK d \in 1 .. Window : /\ Split(admitted["redis"], d, redis.count - Pending, redis.expires, now)
                                   /\ admitted["redis"][d] + Pending <= Limit
      BY DEF Limited, RedisWindow
    <2>2. /\ admitted["redis"] \in [Spans -> Nat] /\ redis.count - Pending \in Int
          /\ redis.expires \in Nat \cup {None} /\ now \in Nat
      BY <1>2 DEF TypeOK
    <2>3. /\ Cumulative(Ticked(admitted["redis"])) /\ Quiet(Ticked(admitted["redis"]), redis.expires, now + 1)
          /\ \E e \in 1 .. Window : /\ Split(Ticked(admitted["redis"]), e, redis.count - Pending, redis.expires, now + 1)
                                    /\ Ticked(admitted["redis"])[e] <= admitted["redis"][d]
      BY <2>1, <2>2, SplitTick DEF Limited, RedisWindow
    <2>4. PICK e \in 1 .. Window : /\ Split(Ticked(admitted["redis"]), e, redis.count - Pending, redis.expires, now + 1)
                                   /\ Ticked(admitted["redis"])[e] <= admitted["redis"][d]
      BY <2>3
    <2>5. Ticked(admitted["redis"])[e] + Pending <= Limit
      <3>1. Ticked(admitted["redis"])[e] \in Nat /\ admitted["redis"][d] \in Nat /\ Limit \in Nat
        BY <2>2, GatewayAssumption, SMTT(30) DEF Ticked, Spans
      <3> QED BY <1>2, <2>1, <2>4, <3>1
    <2> QED BY <1>1, <1>2, <2>3, <2>4, <2>5 DEF RedisWindow
  <1>5. MemoryWindow'
    <2>1. PICK d \in 1 .. Window : Split(admitted["memory"], d, memory.count, memory.reset, now)
      BY DEF Limited, MemoryWindow
    <2>2. /\ admitted["memory"] \in [Spans -> Nat] /\ memory.count \in Int
          /\ memory.reset \in Nat \cup {None} /\ now \in Nat
      BY DEF TypeOK
    <2>3. /\ Cumulative(Ticked(admitted["memory"])) /\ Quiet(Ticked(admitted["memory"]), memory.reset, now + 1)
          /\ \E e \in 1 .. Window : Split(Ticked(admitted["memory"]), e, memory.count, memory.reset, now + 1)
      BY <2>1, <2>2, SplitTick DEF Limited, MemoryWindow
    <2> QED BY <1>1, <2>3 DEF Limited, MemoryWindow
  <1> QED BY <1>3, <1>4, <1>5 DEF Limited

\* INCR: a new key has still to get its expiry, any other count is judged.
LEMMA LimitedIncr == ASSUME TypeOK, Limited, NEW r \in Requests, Incr(r) PROVE Limited'
  <1> DEFINE expired == redis.expires # None /\ now >= redis.expires
             count == IF expired THEN 1 ELSE redis.count + 1
             f == admitted["redis"]
  <1>1. req[r] \in Arriving /\ req[r].pc = "incr" /\ ~At(r, "expire")
    BY Shapes DEF Incr, At
  <1>2. UNCHANGED <<now, memory, stuck>>
    BY DEF Incr
  <1>0. Incremented.count = count
    BY DEF Incremented, TypeOK
  <1>3. redis'.count = count /\ redis'.expires = IF expired THEN None ELSE redis.expires
    BY DEF Incr, Incremented, TypeOK
  <1>4. PICK d \in 1 .. Window : Split(f, d, redis.count - Pending, redis.expires, now) /\ f[d] + Pending <= Limit
    BY DEF Limited, RedisWindow
  <1>5. /\ f \in [Spans -> Nat] /\ f[d] \in Nat /\ redis.count \in Nat /\ now \in Nat /\ Pending \in {0, 1}
        /\ redis.expires \in Nat \cup {None} /\ Limit \in Nat \ {0} /\ Window \in Nat \ {0} /\ None \notin Nat
        /\ Cumulative(f) /\ Quiet(f, redis.expires, now)
    BY GatewayAssumption, NoneAssumption, SMTT(30) DEF TypeOK, Spans, Pending, Limited, RedisWindow
  <1>6. CASE IsNew(count)
    <2>1. admitted' = admitted /\ (redis.expires # None => expired)
      BY <1>0, <1>5, <1>6 DEF Incr, IsNew, Limited, ExpireAlone
    <2>2. \A q \in Requests : ~At(q, "expire")
      BY <1>5, <1>6, <2>1 DEF IsNew, Limited, ExpireAlone
    <2>3. \A q \in Requests : At(q, "expire")' <=> q = r
      <3>1. Goto(r, "expire")
        BY <1>0, <1>6 DEF Incr
      <3> QED BY <1>1, <2>2, <3>1, NoneAssumption DEF Goto, At, TypeOK, Arriving
    <2>4. Pending' = 1 /\ Pending = 0
      BY <2>2, <2>3 DEF Pending
    <2>5. ExpireAlone' /\ CounterExpires'
      BY <1>3, <1>6, <2>1, <2>3 DEF IsNew, ExpireAlone, CounterExpires
    <2>6. \E e \in 1 .. Window : Split(f, e, 0, None, now) /\ f[e] = 0
      <3>1. CASE expired
        <4>1. /\ redis.expires \in Nat /\ redis.expires <= now /\ redis.expires # None
              /\ 1 \in 1 .. Window /\ 1 <= now - redis.expires + 1 /\ redis.count - Pending \in Int
          BY <1>5, <3>1
        <4>2. f[1] = 0 /\ Split(f, 1, 0, None, now)
          BY <1>4, <1>5, <4>1, SplitNew, ZenonT(40)
        <4> QED BY <4>1, <4>2
      <3>2. CASE ~expired
        BY <1>4, <1>5, <1>6, <2>1, <2>4, <3>2 DEF IsNew, Split
      <3> QED BY <3>1, <3>2
    <2>7. RedisWindow'
      BY <1>2, <1>3, <1>5, <1>6, <2>1, <2>4, <2>6 DEF IsNew, RedisWindow, Quiet
    <2> QED BY <1>2, <2>1, <2>5, <2>7 DEF Limited, MemoryWindow
  <1>7. CASE ~IsNew(count)
    <2>1. ~expired /\ redis.count # 0 /\ count = redis.count + 1
      BY <1>5, <1>7 DEF IsNew
    <2>2. Decide(r, "redis", count) /\ count \in Nat
      BY <1>0, <1>5, <1>7, <2>1 DEF Incr
    <2>3. /\ \A q \in Requests : At(q, "expire")' <=> At(q, "expire") /\ q # r
          /\ admitted'["memory"] = admitted["memory"]
          /\ admitted'["redis"] = IF count <= Limit THEN Counted(f) ELSE f
      BY <1>1, <2>2, DecideStep
    <2>4. Pending' = Pending /\ redis'.expires = redis.expires /\ redis'.count = redis.count + 1
      BY <1>1, <1>3, <2>1, <2>3 DEF Pending
    <2>5. ExpireAlone' /\ CounterExpires'
      BY <1>1, <1>2, <1>5, <2>1, <2>3, <2>4 DEF Limited, ExpireAlone, CounterExpires
    <2>6. Quiet(admitted'["redis"], redis'.expires, now')
      BY <1>2, <1>5, <2>1, <2>4 DEF Quiet
    <2>7. RedisWindow'
      <3>1. CASE count <= Limit
        <4>1. f[d] + 1 <= Limit /\ f[d] + 1 + Pending <= Limit
          BY <1>4, <1>5, <2>1, <3>1 DEF Split
        <4>2. /\ Cumulative(Counted(f)) /\ Counted(f)[d] = f[d] + 1
              /\ Split(Counted(f), d, redis.count - Pending + 1, redis.expires, now)
          BY <1>4, <1>5, <4>1, SplitCounted
        <4>3. redis'.count - Pending' = redis.count - Pending + 1
          BY <1>5, <2>4
        <4> QED BY <1>2, <2>3, <2>4, <2>6, <3>1, <4>1, <4>2, <4>3 DEF RedisWindow
      <3>2. CASE ~(count <= Limit)
        <4>1. Split(f, d, redis'.count - Pending', redis.expires, now)
          BY <1>4, <1>5, <2>4 DEF Split
        <4> QED BY <1>2, <1>4, <1>5, <2>3, <2>4, <2>6, <3>2, <4>1 DEF RedisWindow
      <3> QED BY <3>1, <3>2
    <2> QED BY <1>2, <2>3, <2>5, <2>7 DEF Limited, MemoryWindow
  <1> QED BY <1>6, <1>7

\* EXPIRE: the request that was pending is admitted, and the key ends.
LEMMA LimitedExpire == ASSUME TypeOK, Limited, NEW r \in Requests, Expire(r) PROVE Limited'
  <1> DEFINE f == admitted["redis"]
  <1>1. req[r] \in Arriving /\ At(r, "expire") /\ redis.count > 0
    BY Shapes DEF Expire, Limited, ExpireAlone
  <1>2. UNCHANGED <<now, memory, stuck>> /\ redis'.count = redis.count /\ redis'.expires = now + Window
    BY DEF Expire, Expiring, TypeOK
  <1>3. PICK d \in 1 .. Window : Split(f, d, redis.count - Pending, redis.expires, now) /\ f[d] + Pending <= Limit
    BY DEF Limited, RedisWindow
  <1>4. /\ f \in [Spans -> Nat] /\ f[d] \in Nat /\ redis.count \in Nat /\ now \in Nat
        /\ Limit \in Nat \ {0} /\ Window \in Nat \ {0} /\ None \notin Nat /\ Cumulative(f)
    <2>1. Cumulative(f)
      BY DEF Limited, RedisWindow
    <2>2. d \in Spans /\ Limit \in Nat \ {0} /\ Window \in Nat \ {0} /\ None \notin Nat
      BY GatewayAssumption, NoneAssumption DEF Spans
    <2> QED BY <2>1, <2>2, SMTT(30) DEF TypeOK
  <1>5. /\ \A q \in Requests : At(q, "expire")' <=> At(q, "expire") /\ q # r
        /\ admitted'["memory"] = admitted["memory"]
        /\ admitted'["redis"] = Counted(f)
    BY <1>1, <1>4, DecideStep DEF Expire
  <1>6. Pending = 1 /\ Pending' = 0 /\ \A q \in Requests : ~At(q, "expire")'
    BY <1>1, <1>5 DEF Pending, Limited, ExpireAlone
  <1>7. ExpireAlone' /\ CounterExpires'
    BY <1>1, <1>2, <1>4, <1>6 DEF ExpireAlone, CounterExpires
  <1>8. RedisWindow'
    <2>1. /\ Cumulative(Counted(f)) /\ Counted(f)[d] = f[d] + 1
          /\ Split(Counted(f), d, redis.count - 1 + 1, redis.expires, now)
      BY <1>3, <1>4, <1>6, SplitCounted
    <2>2. Split(Counted(f), d, redis.count, now + Window, now)
      BY <1>4, <2>1 DEF Split
    <2>3. Quiet(Counted(f), now + Window, now)
      BY <1>4 DEF Quiet
    <2>4. Counted(f)[d] + 0 <= Limit /\ redis.count - 0 = redis.count
      BY <1>3, <1>4, <1>6, <2>1
    <2> QED BY <1>2, <1>5, <1>6, <2>1, <2>2, <2>3, <2>4 DEF RedisWindow
  <1> QED BY <1>2, <1>5, <1>7, <1>8 DEF Limited, MemoryWindow

\* TTL fails: what Redis counted is not admitted by it.
LEMMA LimitedTtl == ASSUME TypeOK, Limited, NEW r \in Requests, TtlFails(r) PROVE Limited'
  <1> DEFINE f == admitted["redis"]
  <1>1. req[r] \in Arriving
    BY Shapes DEF TtlFails
  <1>2. UNCHANGED <<now, memory, stuck, admitted>> /\ \A q \in Requests : At(q, "expire")' <=> At(q, "expire") /\ q # r
    BY <1>1, NoneAssumption DEF TtlFails, Fall, Goto, At, TypeOK, Arriving
  <1>3. PICK d \in 1 .. Window : Split(f, d, redis.count - Pending, redis.expires, now) /\ f[d] + Pending <= Limit
    BY DEF Limited, RedisWindow
  <1>4. /\ f \in [Spans -> Nat] /\ f[d] \in Nat /\ redis.count \in Nat /\ now \in Nat
        /\ Limit \in Nat \ {0} /\ Window \in Nat \ {0} /\ None \notin Nat
    <2>1. d \in Spans /\ Limit \in Nat \ {0} /\ Window \in Nat \ {0} /\ None \notin Nat
      BY GatewayAssumption, NoneAssumption DEF Spans
    <2> QED BY <2>1, SMTT(30) DEF TypeOK
  <1>5. CASE At(r, "incr") /\ ~IsNew(Incremented.count) /\ redis' = Incremented
    <2>1. redis'.count = redis.count + 1 /\ redis'.expires = redis.expires /\ redis.count > 0
      BY <1>4, <1>5 DEF Incremented, IsNew, TypeOK
    <2>2. Pending' = Pending /\ Pending \in {0, 1} /\ \A q \in Requests : At(q, "expire")' <=> At(q, "expire")
      BY <1>2, <1>5 DEF Pending, At
    <2>3. ExpireAlone' /\ CounterExpires'
      BY <1>2, <1>4, <2>1, <2>2 DEF Limited, ExpireAlone, CounterExpires
    <2>4. Split(f, d, redis'.count - Pending', redis'.expires, now)
      BY <1>3, <1>4, <2>1, <2>2 DEF Split
    <2>5. RedisWindow'
      BY <1>2, <1>3, <2>1, <2>2, <2>4 DEF Limited, RedisWindow
    <2> QED BY <1>2, <2>3, <2>5 DEF Limited, MemoryWindow
  <1>6. CASE At(r, "expire") /\ redis' = Expiring
    <2>1. redis'.count = redis.count /\ redis'.expires = now + Window /\ redis.count > 0
      BY <1>6 DEF Expiring, TypeOK, Limited, ExpireAlone
    <2>2. Pending = 1 /\ Pending' = 0 /\ \A q \in Requests : ~At(q, "expire")'
      BY <1>2, <1>6 DEF Pending, Limited, ExpireAlone
    <2>3. ExpireAlone' /\ CounterExpires'
      BY <1>4, <2>1, <2>2 DEF ExpireAlone, CounterExpires
    <2>4. Split(f, d, redis'.count - Pending', redis'.expires, now) /\ f[d] + Pending' <= Limit
      BY <1>3, <1>4, <2>1, <2>2 DEF Split
    <2>5. Quiet(f, redis'.expires, now)
      BY <1>4, <2>1 DEF Quiet
    <2>6. RedisWindow'
      BY <1>2, <2>4, <2>5 DEF Limited, RedisWindow
    <2> QED BY <1>2, <2>3, <2>6 DEF Limited, MemoryWindow
  <1> QED BY <1>5, <1>6 DEF TtlFails

\* The aligned window a moment is in: no earlier multiple lies inside it.
LEMMA Aligned ==
  ASSUME NEW n \in Nat, NEW m \in Nat, m * Window <= n
  PROVE  /\ n \div Window \in Nat /\ (n \div Window) * Window \in Nat
         /\ (n \div Window + 1) * Window = (n \div Window) * Window + Window
         /\ m * Window <= (n \div Window) * Window
         /\ (n \div Window) * Window <= n
         /\ n < (n \div Window) * Window + Window
  <1> DEFINE q == n \div Window
  <1>1. Window \in Nat \ {0}
    BY GatewayAssumption
  <1>2. q \in Nat
    BY <1>1
  <1>3. q * Window <= n
    BY <1>1
  <1>4. n < q * Window + Window
    BY <1>1
  <1> HIDE DEF q
  <1>5. q * Window \in Nat /\ (q + 1) * Window = q * Window + Window
    BY <1>1, <1>2
  <1>6. m <= q
    <2> SUFFICES ASSUME m >= q + 1 PROVE FALSE
      BY <1>2
    <2>1. m * Window >= (q + 1) * Window
      BY <1>1, <1>2
    <2> QED BY <1>1, <1>4, <1>5, <2>1
  <1>7. m * Window <= q * Window
    BY <1>1, <1>2, <1>6
  <1> QED BY <1>2, <1>3, <1>4, <1>5, <1>7 DEF q

\* The process's own counter: a window that has ended makes room for the
\* aligned window the clock is in.
LEMMA LimitedMemory == ASSUME TypeOK, Limited, NEW r \in Requests, CheckMemory(r) PROVE Limited'
  <1> DEFINE reset == (now \div Window + 1) * Window
             over == memory.reset <= now
             count == IF over THEN 1 ELSE memory.count + 1
             f == admitted["memory"]
  <1>1. req[r] \in Arriving /\ ~At(r, "expire")
    BY Shapes DEF CheckMemory, At
  <1>2. /\ UNCHANGED <<now, redis, stuck>>
        /\ memory'.count = count /\ memory'.reset = IF over THEN reset ELSE memory.reset
        /\ Decide(r, "memory", count)
    BY DEF CheckMemory
  <1>3. /\ f \in [Spans -> Nat] /\ memory.count \in Nat /\ memory.reset \in Nat /\ now \in Nat /\ count \in Nat
        /\ Limit \in Nat \ {0} /\ Window \in Nat \ {0} /\ None \notin Nat
        /\ Cumulative(f) /\ Quiet(f, memory.reset, now)
    BY GatewayAssumption, NoneAssumption DEF TypeOK, Limited, MemoryWindow
  <1>4. /\ \A q \in Requests : At(q, "expire")' <=> At(q, "expire")
        /\ admitted'["redis"] = admitted["redis"]
        /\ admitted'["memory"] = IF count <= Limit THEN Counted(f) ELSE f
    <2> HIDE DEF count
    <2> QED BY <1>1, <1>2, <1>3, DecideStep
  <1>5. Pending' = Pending
    BY <1>4 DEF Pending
  <1>6. ExpireAlone' /\ CounterExpires' /\ RedisWindow'
    BY <1>2, <1>4, <1>5 DEF Limited, ExpireAlone, CounterExpires, RedisWindow
  <1>7. PICK d \in 1 .. Window : Split(f, d, memory.count, memory.reset, now)
    BY DEF Limited, MemoryWindow
  <1>8. PICK m \in Nat : memory.reset = m * Window
    BY DEF Limited, MemoryWindow
  <1>9. CASE over
    <2> DEFINE start == (now \div Window) * Window
               e == now - start + 1
    <2>1. /\ now \div Window \in Nat /\ start \in Nat /\ reset = start + Window
          /\ memory.reset <= start /\ start <= now /\ now < start + Window
      BY <1>3, <1>8, <1>9, Aligned
    <2>2. memory'.reset = reset /\ count = 1 /\ memory'.count = 1 /\ (now \div Window) + 1 \in Nat
      BY <1>2, <1>9, <2>1
    <2>3. \E i \in Nat : memory'.reset = i * Window
      BY <2>2
    <2> HIDE DEF start, reset, count
    <2>4. /\ e \in 1 .. Window /\ e <= now - memory.reset + 1
          /\ reset \in Nat \cup {None} /\ reset - now + e >= Window /\ reset > now
      BY <1>3, <2>1
    <2> HIDE DEF e
    <2>5. f[e] = 0 /\ Split(f, e, 0, reset, now)
      <3>1. memory.count \in Int /\ memory.reset <= now /\ memory.reset # None
        BY <1>3, <1>9
      <3> QED BY <1>3, <1>7, <2>4, <3>1, SplitNew
    <2>6. Cumulative(Counted(f)) /\ Split(Counted(f), e, 1, reset, now)
      <3>1. f[e] + 1 <= Limit /\ 0 \in Int /\ 0 + 1 = 1
        BY <1>3, <2>5
      <3>2. Cumulative(Counted(f)) /\ Split(Counted(f), e, 0 + 1, reset, now)
        BY <1>3, <2>4, <2>5, <3>1, SplitCounted
      <3> QED BY <3>1, <3>2
    <2>7. admitted'["memory"] = Counted(f)
      BY <1>3, <1>4, <2>2
    <2>8. Quiet(Counted(f), reset, now)
      BY <1>3, <2>4 DEF Quiet
    <2> QED BY <1>2, <1>6, <2>2, <2>3, <2>4, <2>6, <2>7, <2>8 DEF Limited, MemoryWindow
  <1>10. CASE ~over
    <2>1. count = memory.count + 1 /\ memory'.count = memory.count + 1 /\ memory'.reset = memory.reset /\ memory.reset > now
      BY <1>2, <1>3, <1>10
    <2>2. \A g : Quiet(g, memory.reset, now)
      BY <1>3, <2>1 DEF Quiet
    <2>3. f[d] \in Nat
      BY <1>3 DEF Spans
    <2>4. CASE count <= Limit
      <3>1. f[d] + 1 <= Limit /\ memory.count \in Int
        BY <1>3, <1>7, <2>1, <2>3, <2>4 DEF Split
      <3>2. Cumulative(Counted(f)) /\ Split(Counted(f), d, memory.count + 1, memory.reset, now)
        BY <1>3, <1>7, <3>1, SplitCounted
      <3> QED BY <1>2, <1>4, <1>6, <1>8, <2>1, <2>2, <2>4, <3>2 DEF Limited, MemoryWindow
    <2>5. CASE ~(count <= Limit)
      <3>1. Split(f, d, memory.count + 1, memory.reset, now)
        BY <1>3, <1>7, <2>3 DEF Split
      <3> QED BY <1>2, <1>3, <1>4, <1>6, <1>8, <2>1, <2>2, <2>5, <3>1 DEF Limited, MemoryWindow
    <2> QED BY <2>4, <2>5
  <1> QED BY <1>9, <1>10

\* Every step keeps the limiter's part.
LEMMA NextLimited ==
  ASSUME TypeOK, Limited, [Next]_vars
  PROVE  Limited'
  <1> USE NoneAssumption DEF limiter, history
  <1>1. CASE UNCHANGED vars
    BY <1>1, LimitedFrame DEF vars, At
  <1>2. ASSUME NEW r \in Requests,
               (\E n \in Msgs : Deliver(r, n)) \/ (\E key \in BOOLEAN : Send(r, key))
        PROVE  Limited'
    <2>1. UNCHANGED <<now, redis, memory, admitted, stuck>> /\ ~At(r, "expire")
      BY <1>2 DEF Deliver, Send, At
    <2>2. \A q \in Requests : At(q, "expire")' <=> At(q, "expire")
      BY <1>2, <2>1 DEF Deliver, Send, At, TypeOK
    <2> QED BY <2>1, <2>2, LimitedFrame
  <1>3. ASSUME NEW r \in Requests, RedisFails(r) \/ Crash(r) PROVE Limited'
    <2>1. UNCHANGED <<now, redis, memory, admitted>> /\ stuck' = (stuck \/ At(r, "expire"))
      BY <1>3 DEF RedisFails, Crash
    <2>2. RedisFails(r) => req[r] \in Arriving
      BY Shapes DEF RedisFails
    <2>3. \A q \in Requests : At(q, "expire")' <=> At(q, "expire") /\ q # r
      BY <1>3, <2>2 DEF RedisFails, Fall, Crash, Goto, End, At, TypeOK, Arriving
    <2> QED BY <2>1, <2>3, LimitedFrame
  <1>4. ASSUME NEW r \in Requests, Load(r) \/ InboundCommit(r) \/ InboundFails(r) \/ SendCommit(r) PROVE Limited'
    <2>1. UNCHANGED <<now, redis, memory, admitted, stuck>> /\ ~At(r, "expire")
      BY <1>4 DEF Load, InboundCommit, InboundFails, SendCommit, InTurn, At
    <2>2. \A q \in Requests : At(q, "expire")' <=> At(q, "expire")
      BY <1>4, <2>1 DEF Load, InboundCommit, InboundFails, SendCommit, End, At, TypeOK
    <2> QED BY <2>1, <2>2, LimitedFrame
  <1>5. ASSUME NEW r \in Requests, Post(r) \/ PostFails(r) PROVE Limited'
    <2>1. UNCHANGED <<now, redis, memory, admitted, stuck>> /\ ~At(r, "expire") /\ req[r] \in Sending
      BY <1>5, Shapes DEF Post, PostFails, At
    <2>2. \A q \in Requests : At(q, "expire")' <=> At(q, "expire")
      BY <1>5, <2>1 DEF Post, PostFails, Goto, End, At, TypeOK, Sending
    <2> QED BY <2>1, <2>2, LimitedFrame
  <1>6. ASSUME NEW enabled \in BOOLEAN, upsert_gateway(enabled) PROVE Limited'
    BY <1>6, LimitedFrame DEF upsert_gateway, At
  <1> QED BY <1>1, <1>2, <1>3, <1>4, <1>5, <1>6, LimitedTick, LimitedIncr, LimitedExpire, LimitedTtl,
       LimitedMemory DEF Next

----------------------------------------------------------------------------
(* The invariant, and what it says about the properties of the runs.       *)

\* The invariant holds initially.
LEMMA InitIInv == Init => IInv
  <1> SUFFICES ASSUME Init PROVE IInv
    OBVIOUS
  <1> USE GatewayAssumption, NoneAssumption
  <1>1. TypeOK
    BY DEF Init, TypeOK, GatewayRow, Spans, Msgs
  <1>2. Configured
    BY DEF Init, Configured, ConfigKept, TurnKnowsConfig, InTurn, At
  <1>3. Remembered
    BY DEF Init, Remembered, CacheKnows, Repeatable, OverlapExcused, FirstTurn, Stamped, HandledOnce, InTurn, At,
       Msgs, Arriving, Turning
  <1>4. Limited
    <2>1. ExpireAlone /\ CounterExpires /\ Pending = 0
      BY DEF Init, ExpireAlone, CounterExpires, Pending, At
    <2>2. \A b \in {"redis", "memory"}, k \in Spans : admitted[b][k] = 0
      BY DEF Init
    <2>3. Window \in 1 .. Window /\ Window \in Spans /\ 0 \in Spans
      BY DEF Spans
    <2>4. RedisWindow
      BY <2>1, <2>2, <2>3 DEF Init, RedisWindow, Cumulative, Quiet, Split
    <2>5. MemoryWindow
      <3>1. memory.reset = 0 * Window
        BY DEF Init
      <3> QED BY <2>2, <2>3, <3>1 DEF Init, MemoryWindow, Cumulative, Quiet, Split
    <2> QED BY <2>1, <2>4, <2>5 DEF Limited
  <1> QED BY <1>1, <1>2, <1>3, <1>4 DEF IInv

\* The invariant holds throughout.
LEMMA IInvHolds == Spec => []IInv
  <1>1. IInv /\ [Next]_vars => IInv'
    BY NextType, NextConfigured, NextRemembered, NextLimited DEF IInv
  <1> QED BY <1>1, InitIInv, PTL DEF Spec

\* The clock, the counters, the row and the requests are always well formed.
THEOREM GatewayTypeCorrect == Spec => []TypeOK
  <1>1. IInv => TypeOK
    BY DEF IInv
  <1> QED BY <1>1, IInvHolds, PTL

\* A webhook delivered again is handled once, for any skew and any cache size,
\* unless turns overlapped or its nonce was dropped while it was acceptable.
THEOREM HandledOnceHolds == Spec => []HandledOnce
  <1>1. IInv => HandledOnce
    BY DEF IInv, Remembered
  <1> QED BY <1>1, IInvHolds, PTL

\* Neither a send nor an inbound message undoes the configuration set last,
\* unless an inbound message was in its turn when it was set.
THEOREM ConfigKeptHolds == Spec => []ConfigKept
  <1>1. IInv => ConfigKept
    BY DEF IInv, Configured
  <1> QED BY <1>1, IInvHolds, PTL

\* However its windows fall, neither counter admits more than twice the limit
\* in any interval as long as a window.
THEOREM BurstBoundedHolds == Spec => []BurstBounded
  <1>1. IInv => BurstBounded
    <2> SUFFICES ASSUME IInv, NEW b \in {"redis", "memory"} PROVE admitted[b][Window] <= 2 * Limit
      BY DEF BurstBounded, IInv, TypeOK
    <2>1. PICK d \in 1 .. Window : admitted[b][d] <= Limit /\ admitted[b][Window] - admitted[b][d] <= Limit
      BY DEF IInv, Limited, RedisWindow, MemoryWindow, Split
    <2>2. {admitted[b][d], admitted[b][Window], Limit} \subseteq Nat
      BY GatewayAssumption, SMTT(30) DEF IInv, TypeOK, Spans
    <2> QED BY <2>1, <2>2
  <1> QED BY <1>1, IInvHolds, PTL

\* A counter that does not expire lost its EXPIRE, or is about to get it.
THEOREM CounterExpiresHolds == Spec => []CounterExpires
  <1>1. IInv => CounterExpires
    BY DEF IInv, Limited
  <1> QED BY <1>1, IInvHolds, PTL
=============================================================================
