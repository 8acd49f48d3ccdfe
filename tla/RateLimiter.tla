------------------------------ MODULE RateLimiter ------------------------------
(***************************************************************************)
(* RequestRateLimiter (login-rate-limiter.ts), the class behind the login, *)
(* execution and account creation limiters: a request counts against its   *)
(* client, and if that passes, against its subject, in windows of fixed    *)
(* length.  The buckets are a Map, hence a sequence in the order the keys  *)
(* were first inserted; a full map gives up expired buckets, then old ones *)
(* that are still counting.                                                *)
(***************************************************************************)
EXTENDS Integers, Sequences

CONSTANTS
    Clients,             \* digests of client addresses
    Subjects,            \* digests of the namespaced e-mail or token
    ClientLimit,
    SubjectLimit,
    MaximumBuckets,
    WindowLength

ASSUME LimiterConstants ==
    /\ Clients \cap Subjects = {}
    /\ ClientLimit \in Nat /\ SubjectLimit \in Nat
    /\ MaximumBuckets \in Nat \ {0}
    /\ WindowLength \in Nat \ {0}

VARIABLES
    buckets,             \* the map, oldest insertion first
    window,              \* history: per key, the window it is in and the
                         \* requests let through in it
    forgotten            \* history: keys evicted while they were counting

limiterVars == <<buckets, window, forgotten>>

BucketKeys == Clients \cup Subjects
LimitOf(k) == IF k \in Clients THEN ClientLimit ELSE SubjectLimit

LimiterInit ==
    /\ buckets = <<>>
    /\ window = [k \in BucketKeys |-> [resetAt |-> 0, admitted |-> 0]]
    /\ forgotten = {}

\* A map holds a key once, at a place of its own; 0 is no place.
Position(bs, k) ==
    IF \E i \in DOMAIN bs : bs[i].key = k
    THEN CHOOSE i \in DOMAIN bs : bs[i].key = k
    ELSE 0

\* What the loop over the map has left after i buckets.
Counting(bs, now) ==
    LET left[i \in 0 .. Len(bs)] ==
            IF i = 0 THEN <<>>
            ELSE IF bs[i].resetAt <= now THEN left[i - 1]
            ELSE Append(left[i - 1], bs[i])
    IN  left[Len(bs)]

RemoveExpiredBuckets(bs, now) ==
    LET counting == Counting(bs, now)
        surplus  == Len(counting) - (MaximumBuckets - 1)
    IN  IF Len(bs) < MaximumBuckets THEN bs
        ELSE IF Len(counting) < MaximumBuckets THEN counting
        ELSE SubSeq(counting, surplus + 1, Len(counting))

\* Map.set leaves the key of an expired bucket where it was.
ConsumeBucket(bs, k, now) ==
    LET i     == Position(bs, k)
        first == [key |-> k, count |-> 1, resetAt |-> now + WindowLength]
    IN  IF i = 0 THEN Append(bs, first)
        ELSE IF bs[i].resetAt <= now THEN [bs EXCEPT ![i] = first]
        ELSE [bs EXCEPT ![i].count = @ + 1]

\* Wrong: compares the count the request found.
WithinBeforeCounting(bs, k) == bs[Position(bs, k)].count - 1 <= LimitOf(k)

\* Does the request just counted against k pass?
Within(bs, k) == bs[Position(bs, k)].count <= LimitOf(k)

\* The windows after a request counted against the keys of K at time now.
Windows(K, now, passed) ==
    [k \in BucketKeys |->
        LET open == IF window[k].resetAt <= now
                    THEN [resetAt |-> now + WindowLength, admitted |-> 0]
                    ELSE window[k]
        IN  IF k \notin K THEN window[k]
            ELSE [open EXCEPT !.admitted = @ + (IF passed THEN 1 ELSE 0)]]

Consume(client, subject, now, passed) ==
    LET room      == RemoveExpiredBuckets(buckets, now)
        byClient  == ConsumeBucket(room, client, now)
        bySubject == ConsumeBucket(byClient, subject, now)
        counted   == IF Within(byClient, client) THEN {client, subject}
                                                 ELSE {client}
        evicted   == {k \in BucketKeys : /\ Position(room, k) = 0
                                         /\ Position(buckets, k) # 0
                                         /\ window[k].resetAt > now}
    IN  /\ passed = (/\ Within(byClient, client)
                     /\ Within(bySubject, subject))
        /\ buckets' = IF subject \in counted THEN bySubject ELSE byClient
        /\ window' = Windows(counted, now, passed)
        /\ forgotten' = forgotten \cup evicted

-----------------------------------------------------------------------------
\* A key passes at most its limit of requests in a window; the only way past
\* the limit is an eviction of its bucket while it counts (the loop of
\* removeExpiredBuckets), and the map outgrows its maximum by one at most,
\* because room is made once and two keys may be inserted.
LimitHolds ==
    /\ \A k \in BucketKeys \ forgotten : window[k].admitted <= LimitOf(k)
    /\ Len(buckets) <= MaximumBuckets + 1
=============================================================================
