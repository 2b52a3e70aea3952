---------------------------- MODULE RateLimiter -----------------------------
(***************************************************************************)
(* The rate limiter of megalos_server/ratelimit.py and the middleware that *)
(* consults it in front of every tool call (middleware.py).                *)
(*                                                                         *)
(* Three axes of token buckets: "session" in a plain dict, "ip" and        *)
(* "ip_session_create" in LRU stores with a cap and an idle sweep.  The    *)
(* middleware runs on the event loop without an await between its first    *)
(* read and its last write, so one call is one action.                     *)
(*                                                                         *)
(* Tokens are counted in units: a call costs Cost units and a bucket       *)
(* refills Rate[axis] units per tick, so that a tick may refill less than  *)
(* one call's worth.                                                       *)
(***************************************************************************)
EXTENDS Integers, Sequences, FiniteSets

CONSTANTS
    Session, Ip,         \* canonical session ids and remote addresses of the calls
    Null,
    Cost, Burst, Rate,   \* units per call; per axis: capacity, units per tick
    IpStoreCap,          \* MEGALOS_RATELIMIT_IP_STORE_CAP
    IdleTtl,             \* MEGALOS_RATELIMIT_IP_IDLE_TTL_SEC
    SweepEvery,          \* _SWEEP_EVERY and _DEDUPE_SWEEP_EVERY
    DedupeWindow, DedupeTtl, DedupeCap,
    SessionCap,          \* MEGALOS_SESSION_CAP
    MaxClock,            \* bound: the last tick of a behaviour
    ClockSkew,           \* bound: how far a reading may lie behind the clock
    MaxGrants            \* bound: how often one bucket key is granted a call

IpAxis == {"ip", "ip_session_create"}
Axis == {"session"} \cup IpAxis
KeyOf(axis) == IF axis = "session" THEN Session ELSE Ip

ASSUME RateLimiterAssumption ==
    /\ Null \notin Session \cup Ip \cup Axis
    /\ Cost \in Nat \ {0}
    /\ Burst \in [Axis -> Nat]
    /\ Rate \in [Axis -> Nat]
    /\ {IpStoreCap, IdleTtl, DedupeWindow, DedupeTtl, DedupeCap, SessionCap,
        MaxClock, ClockSkew, MaxGrants} \subseteq Nat
    /\ SweepEvery \in Nat \ {0}

VARIABLES
    limiter,    \* [session, store]: the dict of session buckets, the LRU store of each IP axis
    denyLog,    \* the dedupe cache of the deny log
    clock,
    ledger,     \* history: <<axis, key>> -> since, granted, promise
    emitted     \* history: <<scope, key>> -> when its last log line was written

vars == <<limiter, denyLog, clock, ledger, emitted>>

With(f, k, v) == [x \in DOMAIN f \cup {k} |-> IF x = k THEN v ELSE f[x]]

---------------------------------------------------------------------------
(***************************************************************************)
(* OrderedDict: a sequence of entries, the most recently used one last.    *)
(* The stamp of an entry is what the idle sweep compares: last_refill of a *)
(* bucket, the time of the last log line of a dedupe entry.                *)
(***************************************************************************)
HasKey(od, k) == \E i \in DOMAIN od : od[i].key = k
ValueAt(od, k) == od[CHOOSE i \in DOMAIN od : od[i].key = k].value
\* The entries at the positions S, in their order.
Entries(od, S) ==
    [n \in 1..Cardinality(S) |-> od[CHOOSE i \in S : Cardinality({j \in S : j <= i}) = n]]
PutLast(od, k, v, stamp) ==
    Append(Entries(od, {i \in DOMAIN od : od[i].key # k}),
           [key |-> k, value |-> v, stamp |-> stamp])

\* _evict_if_over_cap: popitem(last=False) until the cap is met.
EvictIfOverCapLate(od, cap) ==
    IF Len(od) <= cap + 1 THEN od ELSE SubSeq(od, Len(od) - cap + 1, Len(od))
EvictIfOverCap(od, cap) ==
    IF Len(od) <= cap THEN od ELSE SubSeq(od, Len(od) - cap + 1, Len(od))

\* Every SweepEvery-th access drops the entries last written before the
\* cutoff; a TTL of zero turns the sweep off.
SweepExpiredEager(od, ttl, now) == Entries(od, {i \in DOMAIN od : od[i].stamp >= now})
SweepExpired(od, ttl, now) ==
    IF ttl = 0 THEN od ELSE Entries(od, {i \in DOMAIN od : od[i].stamp >= now - ttl})

Accessed(store, ttl, now) ==
    LET count == (store.count + 1) % SweepEvery
    IN  [od |-> IF count = 0 THEN SweepExpired(store.od, ttl, now) ELSE store.od,
         count |-> count]

---------------------------------------------------------------------------
(***************************************************************************)
(* Token buckets.                                                          *)
(***************************************************************************)
Fresh(axis, now) == [tokens |-> Burst[axis], last_refill |-> now]

RefillKeepingStamp(axis, bucket, now) ==
    LET filled == bucket.tokens + (now - bucket.last_refill) * Rate[axis]
    IN  IF now <= bucket.last_refill THEN bucket
        ELSE [bucket EXCEPT !.tokens = IF filled > Burst[axis] THEN Burst[axis] ELSE filled]
Refill(axis, bucket, now) ==
    LET filled == bucket.tokens + (now - bucket.last_refill) * Rate[axis]
    IN  IF now <= bucket.last_refill THEN bucket
        ELSE [tokens      |-> IF filled > Burst[axis] THEN Burst[axis] ELSE filled,
              last_refill |-> now]

\* The bucket after the call, and what it lacked.
ConsumeEvenIfDenied(axis, bucket, now) ==
    LET b == Refill(axis, bucket, now)
    IN  [bucket |-> [b EXCEPT !.tokens = @ - Cost], allowed |-> b.tokens >= Cost,
         deficit |-> Cost - b.tokens]
Consume(axis, bucket, now) ==
    LET b       == Refill(axis, bucket, now)
        allowed == b.tokens >= Cost
    IN  [bucket  |-> IF allowed THEN [tokens |-> b.tokens - Cost, last_refill |-> b.last_refill]
                    ELSE b,
         allowed |-> allowed,
         deficit |-> Cost - b.tokens]

\* try_consume on the plain dict, and on an LRU store.
TryConsumeSession(lim, key, now) ==
    LET r == Consume("session",
                     IF key \in DOMAIN lim.session THEN lim.session[key]
                     ELSE Fresh("session", now), now)
    IN  [lim |-> [session |-> With(lim.session, key, r.bucket), store |-> lim.store],
         allowed |-> r.allowed, deficit |-> r.deficit]

TryConsumeIp(lim, axis, key, now) ==
    LET store == Accessed(lim.store[axis], IdleTtl, now)
        r     == Consume(axis, IF HasKey(store.od, key) THEN ValueAt(store.od, key)
                               ELSE Fresh(axis, now), now)
        kept  == EvictIfOverCap(PutLast(store.od, key, r.bucket, r.bucket.last_refill), IpStoreCap)
    IN  [lim |-> [session |-> lim.session,
                  store   |-> [lim.store EXCEPT ![axis] = [od |-> kept, count |-> store.count]]],
         allowed |-> r.allowed, deficit |-> r.deficit]

TryConsume(lim, axis, key, now) ==
    IF axis = "session" THEN TryConsumeSession(lim, key, now)
    ELSE TryConsumeIp(lim, axis, key, now)

---------------------------------------------------------------------------
\* History: what an axis has granted to a key since its first call, and the
\* last denial that no grant followed.
Entry(led, p, now) ==
    IF p \in DOMAIN led THEN led[p] ELSE [since |-> now, granted |-> 0, promise |-> Null]
Recorded(led, p, r, now) ==
    LET e == Entry(led, p, now)
    IN  With(led, p, IF r.allowed
                     THEN [since |-> e.since, granted |-> e.granted + 1, promise |-> Null]
                     ELSE [since |-> e.since, granted |-> e.granted,
                           promise |-> [at |-> now, deficit |-> r.deficit]])

\* One axis of on_call_tool: skipped without a key and after a denial.
Consult(c, axis, key, now) ==
    IF key = Null \/ c.denied # Null THEN c
    ELSE LET r == TryConsume(c.lim, axis, key, now)
         IN  [lim |-> r.lim, ledger |-> Recorded(c.ledger, <<axis, key>>, r, now),
              denied |-> IF r.allowed THEN Null ELSE axis]

\* on_call_tool: ip_session_create first, then session, then ip.  A call over
\* stdio has no ip, and a call need not name a session.
OnCallTool(start, sid, ip, now) ==
    LET c0 == [lim |-> limiter, ledger |-> ledger, denied |-> Null]
        c1 == Consult(c0, "ip_session_create", IF start THEN ip ELSE Null, now)
        c2 == Consult(c1, "session", sid, now)
    IN  Consult(c2, "ip", ip, now)

\* should_emit: suppressed inside the window, which still moves the entry to the end.
ShouldEmitShortWindow(log, pair, now) ==
    LET store == Accessed(log, DedupeTtl, now)
        last  == ValueAt(store.od, pair)
        muted == HasKey(store.od, pair) /\ now - last < DedupeWindow - 1
    IN  [log |-> [store EXCEPT !.od =
                    IF muted THEN PutLast(@, pair, last, last)
                    ELSE EvictIfOverCap(PutLast(@, pair, now, now), DedupeCap)],
         emit |-> ~muted]
ShouldEmit(log, pair, now) ==
    LET store == Accessed(log, DedupeTtl, now)
        last  == ValueAt(store.od, pair)
        muted == HasKey(store.od, pair) /\ now - last < DedupeWindow
    IN  [log |-> [store EXCEPT !.od =
                    IF muted THEN PutLast(@, pair, last, last)
                    ELSE EvictIfOverCap(PutLast(@, pair, now, now), DedupeCap)],
         emit |-> ~muted]

EmitDenyWarn(pair, now) ==
    LET e == ShouldEmit(denyLog, pair, now)
    IN  /\ denyLog' = e.log
        /\ emitted' = IF e.emit THEN With(emitted, pair, now) ELSE emitted

---------------------------------------------------------------------------
EmptyStore == [od |-> <<>>, count |-> 0]

Init ==
    /\ limiter = [session |-> <<>>, store |-> [axis \in IpAxis |-> EmptyStore]]
    /\ denyLog = EmptyStore
    /\ clock = 0
    /\ ledger = <<>>
    /\ emitted = <<>>

Tick ==
    /\ clock < MaxClock
    /\ clock' = clock + 1
    /\ UNCHANGED <<limiter, denyLog, ledger, emitted>>

\* A reading of the clock may lie behind an earlier one ("we defensively clamp
\* backward jumps").
Readings == {now \in 0..clock : clock <= now + ClockSkew}

CallTool(start, sid, ip, now) ==
    LET c == OnCallTool(start, sid, ip, now)
    IN  /\ now \in Readings
        /\ \A p \in DOMAIN ledger : ledger[p].granted < MaxGrants
        /\ limiter' = c.lim
        /\ ledger' = c.ledger
        /\ IF c.denied = Null THEN UNCHANGED <<denyLog, emitted>>
           ELSE EmitDenyWarn(<<c.denied, IF c.denied = "session" THEN sid ELSE ip>>, now)
        /\ UNCHANGED clock

Next ==
    \/ Tick
    \/ \E start \in BOOLEAN, sid \in Session \cup {Null}, ip \in Ip \cup {Null}, now \in 0..clock :
          CallTool(start, sid, ip, now)

Spec == Init /\ [][Next]_vars

---------------------------------------------------------------------------
(***************************************************************************)
(* Properties.                                                             *)
(***************************************************************************)
Bucket(axis) == [tokens : 0..Burst[axis], last_refill : 0..clock]

\* Buckets never hold less than nothing or more than their burst, and were
\* never refilled later than now, whatever the clock readings were.
TypeOK ==
    /\ clock \in Nat
    /\ DOMAIN limiter.session \subseteq Session
    /\ limiter.session \in [DOMAIN limiter.session -> Bucket("session")]
    /\ \A axis \in IpAxis :
          /\ limiter.store[axis].count \in 0..(SweepEvery - 1)
          /\ \A i \in DOMAIN limiter.store[axis].od :
                /\ limiter.store[axis].od[i].key \in Ip
                /\ limiter.store[axis].od[i].value \in Bucket(axis)

\* The LRU stores hold one bucket per address and no more than their cap; so
\* does the dedupe cache ("a rotating-IP attack can't consume unbounded memory").
Bounded(od, cap) ==
    /\ Len(od) <= cap
    /\ \A i, j \in DOMAIN od : od[i].key = od[j].key => i = j
StoresBounded ==
    /\ \A axis \in IpAxis : Bounded(limiter.store[axis].od, IpStoreCap)
    /\ Bounded(denyLog.od, DedupeCap)

\* The bound a token bucket is for: since its first call, a key was granted no
\* more than one burst and what the rate adds up to.
RateBounded(axis) ==
    \A key \in KeyOf(axis) :
        <<axis, key>> \in DOMAIN ledger =>
            LET e == ledger[<<axis, key>>]
            IN  e.granted * Cost <= Burst[axis] + Rate[axis] * (clock - e.since)

\* ... on the session axis, also when readings of the clock jump back ("no
\* negative refill, no accidental token creation, no double-spend").
SessionRateBounded == RateBounded("session")

\* ... and on the IP axes although an idle bucket is forgotten and comes back
\* full: the sweep gives nothing away if an idle bucket would have refilled by
\* then, however far a reading lies back, and the store has room for every
\* address seen so far.
Seen(axis) == {key \in KeyOf(axis) : <<axis, key>> \in DOMAIN ledger}
IpRateBounded ==
    \A axis \in IpAxis :
        (IdleTtl - ClockSkew) * Rate[axis] >= Burst[axis] /\ Cardinality(Seen(axis)) <= IpStoreCap =>
            RateBounded(axis)

\* A client that waits retry_after_ms and had no other call granted meanwhile
\* is not denied again on that axis (docs/rate-limits.md: "Clients should honor
\* retry_after_ms"), if a bucket can hold one call and readings do not jump back.
RetryAfterSuffices ==
    [][\A axis \in Axis : \A key \in KeyOf(axis) :
          LET p == <<axis, key>>
          IN  /\ ClockSkew = 0 /\ Burst[axis] >= Cost
              /\ p \in DOMAIN ledger /\ ledger[p].promise # Null
              /\ ledger'[p].promise \notin {Null, ledger[p].promise}
              => (clock - ledger[p].promise.at) * Rate[axis] < ledger[p].promise.deficit]_vars

\* One log line per (scope, identity) and window, although entries are swept
\* and evicted: guaranteed while the cache has room for every pair so far and the
\* idle TTL is at least the window (300 s and 60 s in the code) and what a
\* reading may lie back.
LogLinesSpaced ==
    [][DedupeCap >= Cardinality(DOMAIN emitted') /\ DedupeTtl >= DedupeWindow + ClockSkew =>
          \A p \in DOMAIN emitted :
             emitted'[p] # emitted[p] => emitted'[p] - emitted[p] >= DedupeWindow]_vars

\* docs/rate-limits.md: "A single tool call may consult multiple axes; the first
\* denial wins and the others aren't charged."
DenialChargesNothing ==
    [][\A p, q \in DOMAIN ledger' :
          LET Charged == ledger'[p].granted > (IF p \in DOMAIN ledger THEN ledger[p].granted ELSE 0)
              Denied  == /\ ledger'[q].promise # Null
                         /\ q \in DOMAIN ledger => ledger'[q].promise # ledger[q].promise
          IN  ~(Charged /\ Denied)]_vars

\* The docstring of RateLimiter: "Per-session store is an unbounded plain dict
\* (bounded elsewhere by SESSION_CAP)."
SessionBucketsBounded == Cardinality(DOMAIN limiter.session) <= SessionCap
=============================================================================
