------------------------------ MODULE Gateway ------------------------------
(***************************************************************************)
(* One gateway: inbound messages that pass the rate limiter                *)
(* (src/backend/infra/rate_limit.py), are checked against the cache of     *)
(* nonces and run a turn, and outbound sends                               *)
(* (src/backend/runtime/gateway.py).  Each request is one transaction over *)
(* the gateway's row.  Providers deliver a webhook again when they get no  *)
(* answer, with the same nonce and timestamp.                              *)
(***************************************************************************)
EXTENDS Integers, Sequences

CONSTANTS
    Nonces,        \* the webhooks a provider sends
    Requests,      \* requests that may run at the same time
    Limit,         \* rate_limit_gateway_per_minute
    Window,        \* window_seconds, in ticks
    Skew,          \* webhook_max_skew_seconds, in ticks
    Drift,         \* how far a provider's clock may be off, in ticks: a set
    CacheSize,     \* webhook_nonce_cache_size
    MaxAttempts,   \* http_policy.max_attempts (3 in the code)
    MaxTime,       \* bound: ticks
    DeliverBound,  \* bound: deliveries and sends
    TroubleBound,  \* bound: overlaps, failures and crashes
    AdminBound,    \* bound: upserts of the gateway
    None

ASSUME GatewayAssumption ==
    /\ {Limit, Window, CacheSize, MaxAttempts} \subseteq Nat \ {0}
    /\ {Skew, MaxTime} \subseteq Nat
    /\ Drift \subseteq Int

VARIABLES
    now,        \* the clock
    redis,      \* the counter in Redis: its value and when it expires
    memory,     \* the counter in the process: its value and when it resets
    fallback,   \* when the process's counter is used: always (there is no Redis
                \* client), on failure (rate_limit_memory_fallback), or never
    gw,         \* the gateway's row
    stamp,      \* the timestamp of each webhook, or None
    req,        \* the request of each thread, or None
    handled,    \* how often each webhook ran a committed turn
    excused,    \* webhooks whose nonce a known disturbance removed (history)
    config,     \* the configuration last set by hand, and whether an inbound
                \* message was under way then (history)
    admitted,   \* how many requests each counter admitted in the last k ticks,
                \* for every k up to a window (history)
    stuck,      \* whether EXPIRE was lost after INCR (history)
    spent       \* what the bounds count

vars == <<now, redis, memory, fallback, gw, stamp, req, handled, excused, config, admitted, stuck, spent>>
limiter == <<redis, memory, admitted, stuck>>
history == <<excused, config>>

Spans == 0..Window
Msgs == Nonces \cup {None}   \* None: a message without nonce

GatewayRow == [enabled: BOOLEAN, version: Nat, cache: Seq(Nonces), inbound: Nat, outbound: Nat]
\* A request before its turn, in it, and a send.
Arriving == [pc: {"incr", "expire", "memory", "load"}, nonce: Msgs]
Turning == [pc: {"turn"}, nonce: Msgs, row: GatewayRow]
Sending == [pc: {"post", "posted"}, key: BOOLEAN, posts: Nat, row: GatewayRow]

ASSUME NoneAssumption ==
    /\ None \notin Nonces /\ None \notin Int
    /\ None \notin Arriving /\ None \notin Turning /\ None \notin Sending

Init ==
    /\ now = 0
    /\ redis = [count |-> 0, expires |-> None]
    /\ memory = [count |-> 0, reset |-> 0]
    /\ fallback \in {"always", "on_failure", "never"}
    /\ gw = [enabled |-> TRUE, version |-> 0, cache |-> <<>>, inbound |-> 0, outbound |-> 0]
    /\ stamp = [n \in Nonces |-> None]
    /\ req = [r \in Requests |-> None]
    /\ handled = [n \in Msgs |-> 0]
    /\ excused = {}
    /\ config = [version |-> 0, overtaken |-> FALSE]
    /\ admitted = [b \in {"redis", "memory"} |-> [k \in Spans |-> 0]]
    /\ stuck = FALSE
    /\ spent = [deliver |-> 0, trouble |-> 0, admin |-> 0]

Spend(what, bound) == /\ spent[what] < bound
                      /\ spent' = [spent EXCEPT ![what] = @ + 1]
Trouble == Spend("trouble", TroubleBound)
At(r, pc) == req[r] # None /\ req[r].pc = pc
End(r) == req' = [req EXCEPT ![r] = None]
Goto(r, pc) == req' = [req EXCEPT ![r].pc = pc]

Tick ==
    /\ now < MaxTime
    /\ now' = now + 1
    /\ admitted' = [b \in DOMAIN admitted |-> [k \in Spans |-> IF k = 0 THEN 0 ELSE admitted[b][k - 1]]]
    /\ UNCHANGED <<redis, memory, stuck, fallback, gw, stamp, req, handled, history, spent>>

----------------------------------------------------------------------------
(* The rate limiter, for one identity.                                     *)

\* A webhook or a message of the inbound endpoint arrives, new or again.  The
\* provider's clock stamps a new webhook.
Deliver(r, n) ==
    /\ req[r] = None
    /\ Spend("deliver", DeliverBound)
    /\ IF n # None /\ stamp[n] = None
         THEN \E d \in Drift : stamp' = [stamp EXCEPT ![n] = now + d]
         ELSE UNCHANGED stamp
    /\ req' = [req EXCEPT ![r] = [pc |-> IF fallback = "always" THEN "memory" ELSE "incr", nonce |-> n]]
    /\ UNCHANGED <<now, limiter, fallback, gw, handled, history>>

\* Mutant: the remainder, which is never negative, decides.
AllowedByRemaining(count) == (IF count > Limit THEN 0 ELSE Limit - count) >= 0

Allowed(count) == count <= Limit

\* An admitted request goes on to the gateway, any other is answered 429.
Decide(r, backend, count) ==
    /\ IF Allowed(count) THEN Goto(r, "load") ELSE End(r)
    /\ admitted' = IF Allowed(count)
                     THEN [admitted EXCEPT ![backend] = [k \in Spans |-> IF k = 0 THEN 0 ELSE @[k] + 1]]
                     ELSE admitted

\* Mutant: the first count is taken for zero.
IsNewAtZero(count) == count = 0

IsNew(count) == count = 1

\* INCR: an expired key counts from one again.
Incremented ==
    IF redis.expires # None /\ now >= redis.expires
      THEN [count |-> 1, expires |-> None]
      ELSE [redis EXCEPT !.count = @ + 1]
Expiring == [redis EXCEPT !.expires = now + Window]

Incr(r) ==
    /\ At(r, "incr")
    /\ redis' = Incremented
    /\ IF IsNew(Incremented.count)
         THEN Goto(r, "expire") /\ UNCHANGED admitted
         ELSE Decide(r, "redis", Incremented.count)
    /\ UNCHANGED <<now, memory, fallback, gw, stamp, handled, history, stuck, spent>>

Expire(r) ==
    /\ At(r, "expire")
    /\ redis' = Expiring
    /\ Decide(r, "redis", 1)
    /\ UNCHANGED <<now, memory, fallback, gw, stamp, handled, history, stuck, spent>>

\* Without Redis the process's own counter decides, or nothing does.
Fall(r) == Goto(r, IF fallback = "never" THEN "load" ELSE "memory")

\* Redis fails before INCR or before EXPIRE.
RedisFails(r) ==
    /\ At(r, "incr") \/ At(r, "expire")
    /\ Trouble
    /\ stuck' = (stuck \/ At(r, "expire"))
    /\ Fall(r)
    /\ UNCHANGED <<now, redis, memory, fallback, gw, stamp, handled, history, admitted>>

\* Redis fails at TTL: the request is counted there, and decided here.
TtlFails(r) ==
    /\ \/ At(r, "incr") /\ ~IsNew(Incremented.count) /\ redis' = Incremented
       \/ At(r, "expire") /\ redis' = Expiring
    /\ Trouble
    /\ Fall(r)
    /\ UNCHANGED <<now, memory, fallback, gw, stamp, handled, history, admitted, stuck>>

\* The windows of the process's own counter are aligned.
CheckMemory(r) ==
    /\ At(r, "memory")
    /\ LET reset == (now \div Window + 1) * Window
           over == memory.reset <= now
           count == IF over THEN 1 ELSE memory.count + 1
       IN /\ memory' = [count |-> count, reset |-> IF over THEN reset ELSE memory.reset]
          /\ Decide(r, "memory", count)
    /\ UNCHANGED <<now, redis, fallback, gw, stamp, handled, history, stuck, spent>>

----------------------------------------------------------------------------
(* handle_inbound                                                          *)

InTurn(q) == At(q, "turn")
Nonce(r) == req[r].nonce
Cached(cache) == {cache[i] : i \in DOMAIN cache}

Distance(i, j) == IF i < j THEN j - i ELSE i - j

\* Mutant: only the cache of nonces is looked at.
FreshByCache(n) == n # None => n \notin Cached(gw.cache)

\* The timestamp is inside the window and the nonce is not in the cache.
Fresh(n) == n # None => (Distance(now, stamp[n]) <= Skew /\ n \notin Cached(gw.cache))

\* _require_gateway, _verify_signature: what is refused raises.
Load(r) ==
    /\ At(r, "load")
    /\ \/ /\ ~(gw.enabled /\ Fresh(Nonce(r)))
          /\ End(r)
          /\ UNCHANGED <<excused, spent>>
       \/ /\ gw.enabled /\ Fresh(Nonce(r))
          /\ req' = [req EXCEPT ![r] = [pc |-> "turn", nonce |-> @.nonce, row |-> gw]]
          /\ LET others == {q \in Requests \ {r} : InTurn(q)}
             IN IF others = {}
                  THEN UNCHANGED <<excused, spent>>
                  ELSE /\ Trouble
                       /\ excused' = excused \cup ({Nonce(q) : q \in others \cup {r}} \ {None})
    /\ UNCHANGED <<now, limiter, fallback, gw, stamp, handled, config>>

record_nonce(cache, n) ==
    LET longer == Append(cache, n)
    IN IF Len(longer) > CacheSize THEN SubSeq(longer, Len(longer) - CacheSize + 1, Len(longer)) ELSE longer

\* The transaction writes what it computed from the row it loaded; the
\* configuration goes with the cache, which is a part of it.
InboundRow(row, loaded, n) ==
    LET counted == [row EXCEPT !.inbound = loaded.inbound + 1]
    IN IF n = None THEN counted
       ELSE [counted EXCEPT !.cache = record_nonce(loaded.cache, n), !.version = loaded.version]

\* Nonces that leave the cache while their webhook may still be delivered.
Dropped(before, after) == {n \in before \ Cached(after) : now - stamp[n] <= Skew}

\* The turn ends and the transaction commits.
InboundCommit(r) ==
    /\ InTurn(r)
    /\ gw' = InboundRow(gw, req[r].row, Nonce(r))
    /\ handled' = [handled EXCEPT ![Nonce(r)] = @ + 1]
    /\ excused' = excused \cup Dropped(Cached(req[r].row.cache), gw'.cache)
    /\ End(r)
    /\ UNCHANGED <<now, limiter, fallback, stamp, config, spent>>

\* The turn raises: the nonce and the counters are rolled back, so that the
\* provider's next delivery is handled.
InboundFails(r) ==
    /\ InTurn(r)
    /\ Trouble
    /\ End(r)
    /\ UNCHANGED <<now, limiter, fallback, gw, stamp, handled, history>>

----------------------------------------------------------------------------
(* send                                                                    *)

Send(r, key) ==
    /\ req[r] = None
    /\ gw.enabled
    /\ Spend("deliver", DeliverBound)
    /\ req' = [req EXCEPT ![r] = [pc |-> "post", key |-> key, posts |-> 0, row |-> gw]]
    /\ UNCHANGED <<now, limiter, fallback, gw, stamp, handled, history>>

\* Only a send with an idempotency key is retried.
Attempts(key) == IF key THEN MaxAttempts ELSE 1

Post(r) ==
    /\ At(r, "post")
    /\ req' = [req EXCEPT ![r].posts = @ + 1, ![r].pc = "posted"]
    /\ UNCHANGED <<now, limiter, fallback, gw, stamp, handled, history, spent>>

\* A timeout or an error; after the last attempt the counters of the failure
\* are rolled back with the rest.
PostFails(r) ==
    /\ At(r, "posted")
    /\ Trouble
    /\ IF req[r].posts < Attempts(req[r].key) THEN Goto(r, "post") ELSE End(r)
    /\ UNCHANGED <<now, limiter, fallback, gw, stamp, handled, history>>

\* Mutant: the row is written as it was loaded.
SendCommitWholeRow(r) ==
    /\ At(r, "posted")
    /\ gw' = [req[r].row EXCEPT !.outbound = @ + 1]
    /\ End(r)
    /\ UNCHANGED <<now, limiter, fallback, stamp, handled, history, spent>>

SendCommit(r) ==
    /\ At(r, "posted")
    /\ gw' = [gw EXCEPT !.outbound = req[r].row.outbound + 1]
    /\ End(r)
    /\ UNCHANGED <<now, limiter, fallback, stamp, handled, history, spent>>

----------------------------------------------------------------------------

\* The configuration is replaced, the cache of nonces with it.
upsert_gateway(enabled) ==
    /\ Spend("admin", AdminBound)
    /\ gw' = [gw EXCEPT !.enabled = enabled, !.version = config.version + 1, !.cache = <<>>]
    /\ config' = [version |-> config.version + 1, overtaken |-> \E q \in Requests : InTurn(q)]
    /\ excused' = excused \cup Cached(gw.cache)
    /\ UNCHANGED <<now, limiter, fallback, stamp, req, handled>>

Crash(r) ==
    /\ req[r] # None
    /\ Trouble
    /\ stuck' = (stuck \/ At(r, "expire"))
    /\ End(r)
    /\ UNCHANGED <<now, redis, memory, admitted, fallback, gw, stamp, handled, history>>

Next ==
    \/ Tick
    \/ \E r \in Requests :
        \/ \E n \in Msgs : Deliver(r, n)
        \/ Incr(r)
        \/ Expire(r)
        \/ RedisFails(r)
        \/ TtlFails(r)
        \/ CheckMemory(r)
        \/ Load(r)
        \/ InboundCommit(r)
        \/ InboundFails(r)
        \/ \E key \in BOOLEAN : Send(r, key)
        \/ Post(r)
        \/ PostFails(r)
        \/ SendCommit(r)
        \/ Crash(r)
    \/ \E enabled \in BOOLEAN : upsert_gateway(enabled)

Spec == Init /\ [][Next]_vars

----------------------------------------------------------------------------
(* Properties.                                                             *)

TypeOK ==
    /\ now \in Nat
    /\ redis \in [count: Nat, expires: Nat \cup {None}]
    /\ memory \in [count: Nat, reset: Nat]
    /\ gw \in GatewayRow
    /\ stamp \in [Nonces -> Int \cup {None}]
    /\ req \in [Requests -> Arriving \cup Turning \cup Sending \cup {None}]
    /\ handled \in [Msgs -> Nat]
    /\ excused \subseteq Nonces
    /\ config \in [version: Nat, overtaken: BOOLEAN]
    /\ admitted \in [{"redis", "memory"} -> [Spans -> Nat]]

\* A webhook delivered again is handled once, unless another message was in
\* its turn at the same time, or its nonce left the cache (by its size or by an
\* upsert) while the timestamp was still accepted.
HandledOnce == \A n \in Nonces : handled[n] > 1 => n \in excused

\* The gateway keeps the configuration an administrator set last, unless an
\* inbound message was in its turn then; a send never undoes it.
ConfigKept == gw.version = config.version \/ config.overtaken

\* No interval of a window's length admits more than two limits' worth of
\* requests through one counter, wherever its windows begin.
BurstBounded ==
    \A b \in DOMAIN admitted : admitted[b][Window] <= 2 * Limit

\* A counter in Redis expires, unless its EXPIRE was lost: no identity stays
\* blocked for another reason.
CounterExpires ==
    (redis.count > 0 /\ redis.expires = None) => stuck \/ \E r \in Requests : At(r, "expire")
=============================================================================
