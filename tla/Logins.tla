-------------------------------- MODULE Logins --------------------------------
(***************************************************************************)
(* The way of a login from the rate limiter to its answer (auth.service.ts *)
(* loginWithDatabase), with the failure count and the lock of the account, *)
(* and the password changes that clear them.  One account; further         *)
(* accounts share only the limiter and the derivation pool, which unknown  *)
(* e-mails load here.                                                      *)
(*                                                                         *)
(* A login is a serializable transaction.  It reads the row once, so it is *)
(* a snapshot that goes stale when another writer commits; PostgreSQL lets *)
(* the first writer through and fails the others, which start over.  Only  *)
(* a writing transaction on a stale snapshot fails here.                   *)
(***************************************************************************)
EXTENDS RateLimiter, PasswordKdf

CONSTANTS
    Attempts,            \* logins and password changes considered
    failedLoginLimit,
    accountLockDuration,
    MaxRetries,          \* repetitions of the transaction
    MaxTime,             \* bound on the clock
    None

ASSUME LoginConstants ==
    /\ failedLoginLimit \in Nat \ {0}
    /\ accountLockDuration \in Nat \ {0}
    /\ MaxRetries \in Nat
    /\ MaxTime \in Nat
    /\ "account" \in Subjects

VARIABLES
    row,                 \* the account; lockedUntil 0 stands for null
    call,                \* call[a]: the attempt under way, or None
    answer,              \* answer[a]: what the attempt was told: session,
                         \* changed, invalid, limited, unavailable, or none
    now,
    guesses              \* history: passwords compared, and told to be wrong,
                         \* since the count was last cleared

loginVars == <<row, call, answer, now, guesses, kdf, buckets, window, forgotten>>

Passwords == {"first", "second"}     \* before and after a change
Locs      == {"read", "decide", "verify", "hash", "commit"}

\* overdue: the password is past its lifetime and not marked for a change yet.
Row == [password : Passwords, legacy : BOOLEAN, overdue : BOOLEAN, failed : Nat,
        lockedUntil : Nat]

Call == [change : BOOLEAN, email : Subjects, password : Passwords, loc : Locs,
         row : Row \cup {None}, at : Nat, stale : BOOLEAN, retries : Nat]

ASSUME NoneIsNoCall == None \notin Call

Init ==
    /\ row \in [password : {"first"}, legacy : BOOLEAN, overdue : BOOLEAN,
                failed : {0}, lockedUntil : {0}]
    /\ call = [a \in Attempts |-> None]
    /\ answer = [a \in Attempts |-> "none"]
    /\ now = 0
    /\ guesses = 0
    /\ KdfInit
    /\ LimiterInit

-----------------------------------------------------------------------------
(* What an attempt c does is settled by the row it read and the time it    *)
(* looked at the clock.                                                    *)

Known(c)     == c.email = "account"
Matches(c)   == Known(c) /\ c.password = c.row.password
LockedOut(c) == ~c.change /\ Known(c) /\ c.row.lockedUntil > c.at
Accepts(c)   == Matches(c) /\ ~LockedOut(c)
Fails(c)     == ~c.change /\ Known(c) /\ ~LockedOut(c) /\ ~Matches(c)

\* verifyPassword leaves a SHA-256 hash of the old format alone.
Verifies(c) == ~Known(c) \/ ~c.row.legacy

\* createPasswordHash, for the new password or the new format.
Hashes(c) == Accepts(c) /\ (c.change \/ c.row.legacy)

Cleared(r) == [r EXCEPT !.failed = 0, !.lockedUntil = 0]

LockIsOver(r, t) == r.lockedUntil # 0 /\ r.lockedUntil <= t

\* A lock that is over is cleared before the password is compared.
Reopened(r, t) == IF LockIsOver(r, t) THEN Cleared(r) ELSE r

Counted(r, t) ==
    [r EXCEPT !.failed = @ + 1,
              !.lockedUntil = IF r.failed + 1 >= failedLoginLimit
                              THEN t + accountLockDuration ELSE @]

\* The hash in the new format, a password past its lifetime marked.
Upgraded(r) == [Cleared(r) EXCEPT !.legacy = FALSE, !.overdue = FALSE]

\* A login writes a failure, or what differs from the row it read.
Writes(c) ==
    \/ Accepts(c) /\ (c.change \/ Upgraded(c.row) # c.row)
    \/ Fails(c)

\* The row after c has written it.
Written(c) ==
    IF Fails(c) THEN Counted(Reopened(row, c.at), c.at)
    ELSE IF c.change THEN [Upgraded(row) EXCEPT !.password = "second"]
    ELSE Upgraded(row)

\* Wrong: the default isolation level.
NeverConflicts(c) == FALSE

Conflicts(c) == ~c.change /\ Writes(c) /\ c.stale

-----------------------------------------------------------------------------
Goes(a, c, loc) == call' = [call EXCEPT ![a] = [c EXCEPT !.loc = loc]]

Answer(a, told) ==
    /\ call' = [call EXCEPT ![a] = None]
    /\ answer' = [answer EXCEPT ![a] = told]

At(a, loc) == call[a] # None /\ call[a].loc = loc

\* The pool is asked for a slot, or turns the attempt away.
Asks(a, c, pool, loc) ==
    \/ /\ ~Busy(pool)
       /\ kdf' = Acquired(pool, a)
       /\ Goes(a, c, loc)
       /\ UNCHANGED answer
    \/ /\ Busy(pool)
       /\ kdf' = pool
       /\ Answer(a, "unavailable")

\* The password has been compared: derive a new hash, or write and return.
Compared(a, c, pool) ==
    \/ /\ Hashes(c)
       /\ Asks(a, c, pool, "hash")
    \/ /\ ~Hashes(c)
       /\ kdf' = pool
       /\ Goes(a, c, "commit")
       /\ UNCHANGED answer

Started(change, email, password) ==
    [change |-> change, email |-> email, password |-> password, loc |-> "read",
     row |-> None, at |-> 0, stale |-> FALSE, retries |-> 0]

\* POST /login: the limiter, then the transaction begins.
Login(a) ==
    /\ call[a] = None /\ answer[a] = "none"
    /\ \E client \in Clients, email \in Subjects, password \in Passwords :
          /\ email # "account" => password = "first"
          /\ \/ /\ Consume(client, email, now, TRUE)
                /\ call' = [call EXCEPT ![a] = Started(FALSE, email, password)]
                /\ UNCHANGED answer
             \/ /\ Consume(client, email, now, FALSE)
                /\ Answer(a, "limited")
    /\ UNCHANGED <<row, now, guesses, kdf>>

\* POST /change-password, past the session check; no limiter stands before it.
ChangePassword(a) ==
    /\ call[a] = None /\ answer[a] = "none"
    /\ \E password \in Passwords :
          call' = [call EXCEPT ![a] = Started(TRUE, "account", password)]
    /\ UNCHANGED <<row, answer, now, guesses, kdf, limiterVars>>

\* The database answers findUnique; for a login this takes the snapshot.
Read(a) ==
    /\ At(a, "read")
    /\ Goes(a, [call[a] EXCEPT !.row = row], "decide")
    /\ UNCHANGED <<row, answer, now, guesses, kdf, limiterVars>>

\* The code after findUnique, up to the next await.
Decide(a) ==
    /\ At(a, "decide")
    /\ LET c == [call[a] EXCEPT !.at = now]
       IN  \/ Verifies(c) /\ Asks(a, c, kdf, "verify")
           \/ ~Verifies(c) /\ Compared(a, c, kdf)
    /\ UNCHANGED <<row, now, guesses, limiterVars>>

\* pbkdf2 is done: the slot passes on, and the attempt continues.
Derived(a) ==
    /\ a \in kdf.deriving
    /\ \/ /\ At(a, "verify")
          /\ Compared(a, call[a], Released(kdf, a))
       \/ /\ At(a, "hash")
          /\ kdf' = Released(kdf, a)
          /\ Goes(a, call[a], "commit")
          /\ UNCHANGED answer
    /\ UNCHANGED <<row, now, guesses, limiterVars>>

QueueTimeout(a) ==
    /\ a \in Range(kdf.queue)
    /\ kdf' = TimedOut(kdf, a)
    /\ Answer(a, "unavailable")
    /\ UNCHANGED <<row, now, guesses, limiterVars>>

Outcome(c) == IF ~Accepts(c) THEN "invalid"
              ELSE IF c.change THEN "changed" ELSE "session"

\* What a committed c does to the history of wrong passwords.
Guessed(c) ==
    IF Fails(c)
    THEN (IF LockIsOver(row, c.at) THEN 0 ELSE guesses) + 1
    ELSE IF Writes(c) THEN 0 ELSE guesses

Commit(a) ==
    /\ At(a, "commit")
    /\ ~Conflicts(call[a])
    /\ row' = IF Writes(call[a]) THEN Written(call[a]) ELSE row
    /\ call' = [b \in Attempts |->
                  IF b = a THEN None
                  ELSE IF call[b] # None /\ Writes(call[a])
                  THEN [call[b] EXCEPT !.stale = call[b].loc # "read"]
                  ELSE call[b]]
    /\ answer' = [answer EXCEPT ![a] = Outcome(call[a])]
    /\ guesses' = Guessed(call[a])
    /\ UNCHANGED <<now, kdf, limiterVars>>

\* P2034: the transaction is repeated from the start, or given up.
Repeat(a) ==
    /\ At(a, "commit")
    /\ Conflicts(call[a])
    /\ \/ /\ call[a].retries < MaxRetries
          /\ call' = [call EXCEPT ![a] =
                        [call[a] EXCEPT !.loc = "read", !.row = None, !.at = 0,
                                        !.stale = FALSE, !.retries = @ + 1]]
          /\ UNCHANGED answer
       \/ /\ call[a].retries = MaxRetries
          /\ Answer(a, "unavailable")
    /\ UNCHANGED <<row, now, guesses, kdf, limiterVars>>

\* A statement fails, or the transaction has been open for too long.
Abort(a) ==
    /\ At(a, "read") \/ At(a, "commit")
    /\ Answer(a, "unavailable")
    /\ UNCHANGED <<row, now, guesses, kdf, limiterVars>>

Tick ==
    /\ now < MaxTime
    /\ now' = now + 1
    /\ UNCHANGED <<row, call, answer, guesses, kdf, limiterVars>>

Next ==
    \/ Tick
    \/ \E a \in Attempts :
          \/ Login(a) \/ ChangePassword(a) \/ QueueTimeout(a) \/ Abort(a)
          \/ Read(a) \/ Decide(a) \/ Derived(a) \/ Commit(a) \/ Repeat(a)

Spec == Init /\ [][Next]_loginVars

-----------------------------------------------------------------------------
Deriving(a) == call[a] # None /\ call[a].loc \in {"verify", "hash"}

\* The pool (password-hash.ts) loses no slot and hands none out twice: the
\* counter is the number of attempts whose derivation runs, the queue holds
\* the other attempts that await one, each once, and no slot idles while one
\* waits.
NoSlotLost ==
    /\ kdf.active = Cardinality({a \in kdf.deriving : Deriving(a)})
    /\ kdf.active <= maxConcurrentPasswordKdf
    /\ Range(kdf.queue) = {a \in Attempts : Deriving(a)} \ kdf.deriving
    /\ IsInjective(kdf.queue) /\ Len(kdf.queue) <= maxQueuedPasswordKdf
    /\ kdf.queue # <<>> => kdf.active = maxConcurrentPasswordKdf

\* However attempts overlap, and whatever transactions are repeated, nobody
\* is told more than failedLoginLimit times that a password is wrong before
\* the account locks (loginWithDatabase), and no failure goes uncounted.
GuessesBounded ==
    /\ guesses = row.failed
    /\ guesses <= failedLoginLimit
    /\ guesses = failedLoginLimit <=> row.lockedUntil # 0
=============================================================================
