------------------------------ MODULE LoginsProofs ------------------------------
(***************************************************************************)
(* Logins, for any number of attempts, any limits and any size of the      *)
(* limiter and the derivation pool: the lock of an account is not overrun  *)
(* (IInv), the pool keeps its slots (PoolInv, with what each operation on  *)
(* the pool does in Serves), and the limiter lets no more pass in a window *)
(* than its limit (LimiterInv, with what it says of one key in InStep).    *)
(***************************************************************************)
EXTENDS Logins, FiniteSetTheorems, SequenceTheorems, WellFoundedInduction, TLAPS

\* What the argument needs of the types.
Typed ==
    /\ row \in Row
    /\ now \in Nat
    /\ guesses \in Nat
    /\ call \in [Attempts -> Call \cup {None}]

\* A login whose transaction may still commit has read the row as it is.
ReadsHold ==
    \A a \in Attempts :
        call[a] # None /\ call[a].loc # "read" =>
            /\ call[a] \in Call /\ call[a].row \in Row
            /\ ~call[a].change /\ ~call[a].stale => call[a].row = row

IInv == Typed /\ ReadsHold /\ GuessesBounded

USE DEF Call, Locs, Passwords

\* What one attempt may do to its own record without writing the row.
Moves(a) ==
    /\ UNCHANGED <<row, guesses>>
    /\ \E c \in Call \cup {None} :
          /\ call' = [call EXCEPT ![a] = c]
          /\ c # None /\ c.loc # "read" =>
                /\ c \in Call /\ c.row \in Row
                /\ ~c.change /\ ~c.stale => c.row = row

\* Moving on leaves the invariant alone.
LEMMA MovesKeep ==
    ASSUME IInv, NEW a \in Attempts, Moves(a), now' \in Nat
    PROVE  IInv'
<1>1. PICK c \in Call \cup {None} :
         /\ call' = [call EXCEPT ![a] = c]
         /\ c # None /\ c.loc # "read" =>
               /\ c \in Call /\ c.row \in Row
               /\ ~c.change /\ ~c.stale => c.row = row
  BY DEF Moves
<1>2. row' = row /\ guesses' = guesses
  BY DEF Moves
<1>3. Typed'
  BY <1>1, <1>2 DEF IInv, Typed
<1>4. ReadsHold'
  <2> SUFFICES ASSUME NEW b \in Attempts, call'[b] # None, call'[b].loc # "read"
               PROVE  /\ call'[b] \in Call /\ call'[b].row \in Row
                      /\ ~call'[b].change /\ ~call'[b].stale => call'[b].row = row
    BY <1>2 DEF ReadsHold
  <2>1. CASE b = a
    BY <1>1, <2>1 DEF IInv, Typed
  <2>2. CASE b # a
    BY <1>1, <2>2 DEF IInv, Typed, ReadsHold
  <2> QED BY <2>1, <2>2
<1>5. GuessesBounded'
  BY <1>2 DEF IInv, GuessesBounded
<1> QED BY <1>3, <1>4, <1>5 DEF IInv

\* Everything before the commit moves one attempt.
LEMMA StepsMove ==
    ASSUME IInv, NEW a \in Attempts,
           Login(a) \/ ChangePassword(a) \/ QueueTimeout(a) \/ Abort(a) \/ Read(a)
             \/ Decide(a) \/ Derived(a) \/ Repeat(a)
    PROVE  Moves(a)
<1> USE DEF Goes, Answer, At
<1>1. CASE Login(a)
  <2>1. \E e \in Subjects, p \in Passwords :
          \/ call' = [call EXCEPT ![a] = Started(FALSE, e, p)]
          \/ call' = [call EXCEPT ![a] = None]
    BY <1>1 DEF Login
  <2>2. \A e \in Subjects, p \in Passwords :
          /\ Started(FALSE, e, p) \in Call
          /\ Started(FALSE, e, p).loc = "read"
    BY DEF Started
  <2>3. UNCHANGED <<row, guesses>>
    BY <1>1 DEF Login
  <2>4. PICK e \in Subjects, p \in Passwords :
          \/ call' = [call EXCEPT ![a] = Started(FALSE, e, p)]
          \/ call' = [call EXCEPT ![a] = None]
    BY <2>1
  <2> QED BY <2>2, <2>3, <2>4 DEF Moves
<1>2. CASE ChangePassword(a)
  <2>1. \A p \in Passwords : /\ Started(TRUE, "account", p) \in Call
                             /\ Started(TRUE, "account", p).loc = "read"
    BY LoginConstants DEF Started
  <2> QED BY <1>2, <2>1 DEF ChangePassword, Moves
<1>3. CASE QueueTimeout(a)
  BY <1>3 DEF QueueTimeout, Moves
<1>4. CASE Abort(a)
  BY <1>4 DEF Abort, Moves
<1>5. CASE Read(a)
  <2> DEFINE c == [call[a] EXCEPT !.row = row, !.loc = "decide"]
  <2>1. call[a] \in Call /\ row \in Row
    BY <1>5 DEF Read, IInv, Typed
  <2>2. c \in Call /\ c.row = row
    BY <2>1
  <2>3. call' = [call EXCEPT ![a] = c]
    BY <1>5, <2>1 DEF Read
  <2> HIDE DEF c
  <2> QED BY <1>5, <2>1, <2>2, <2>3 DEF Read, Moves
<1>6. CASE Decide(a) \/ Derived(a)
  <2>1. /\ call[a] \in Call /\ call[a].row \in Row
        /\ ~call[a].change /\ ~call[a].stale => call[a].row = row
    BY <1>6 DEF Decide, Derived, IInv, Typed, ReadsHold
  <2>2. \E t \in Nat : \E l \in Locs :
          \/ call' = [call EXCEPT ![a] = [call[a] EXCEPT !.at = t, !.loc = l]]
          \/ call' = [call EXCEPT ![a] = None]
    <3>1. CASE Decide(a)
      <4>1. \E l \in Locs :
              \/ call' = [call EXCEPT ![a] = [[call[a] EXCEPT !.at = now] EXCEPT !.loc = l]]
              \/ call' = [call EXCEPT ![a] = None]
        BY <3>1 DEF Decide, Asks, Compared
      <4> QED BY <4>1, <2>1 DEF IInv, Typed
    <3>2. CASE Derived(a)
      <4>1. \E l \in Locs :
              \/ call' = [call EXCEPT ![a] = [call[a] EXCEPT !.loc = l]]
              \/ call' = [call EXCEPT ![a] = None]
        BY <3>2 DEF Derived, Asks, Compared
      <4>2. \A l \in Locs : [call[a] EXCEPT !.loc = l]
                            = [call[a] EXCEPT !.at = call[a].at, !.loc = l]
        BY <2>1
      <4>3. call[a].at \in Nat
        BY <2>1
      <4>4. PICK l \in Locs :
              \/ call' = [call EXCEPT ![a] = [call[a] EXCEPT !.loc = l]]
              \/ call' = [call EXCEPT ![a] = None]
        BY <4>1
      <4>5. \/ call' = [call EXCEPT ![a] =
                          [call[a] EXCEPT !.at = call[a].at, !.loc = l]]
            \/ call' = [call EXCEPT ![a] = None]
        BY <4>2, <4>4
      <4> QED BY <4>3, <4>5
    <3> QED BY <1>6, <3>1, <3>2
  <2>3. \A t \in Nat, l \in Locs :
          LET c == [call[a] EXCEPT !.at = t, !.loc = l]
          IN  /\ c \in Call /\ c.row \in Row
              /\ ~c.change /\ ~c.stale => c.row = row
    BY <2>1
  <2>4. UNCHANGED <<row, guesses>>
    BY <1>6 DEF Decide, Derived
  <2>5. PICK t \in Nat, l \in Locs :
          \/ call' = [call EXCEPT ![a] = [call[a] EXCEPT !.at = t, !.loc = l]]
          \/ call' = [call EXCEPT ![a] = None]
    BY <2>2
  <2> DEFINE c == [call[a] EXCEPT !.at = t, !.loc = l]
  <2>6. /\ c \in Call /\ c.row \in Row
        /\ ~c.change /\ ~c.stale => c.row = row
    BY <2>3
  <2>7. call' = [call EXCEPT ![a] = c] \/ call' = [call EXCEPT ![a] = None]
    BY <2>5
  <2> HIDE DEF c
  <2> QED BY <2>4, <2>6, <2>7 DEF Moves
<1>7. CASE Repeat(a)
  <2>1. call[a] \in Call
    BY <1>7 DEF Repeat, IInv, Typed
  <2> DEFINE c == [call[a] EXCEPT !.loc = "read", !.row = None, !.at = 0,
                                  !.stale = FALSE, !.retries = @ + 1]
  <2>2. c \in Call /\ c.loc = "read"
    <3>1. call[a].retries + 1 \in Nat
      BY <2>1
    <3>2. \A n \in Nat :
            LET d == [call[a] EXCEPT !.loc = "read", !.row = None, !.at = 0,
                                     !.stale = FALSE, !.retries = n]
            IN  d \in Call /\ d.loc = "read"
      BY <2>1
    <3> QED BY <3>1, <3>2
  <2>3. call' = [call EXCEPT ![a] = c] \/ call' = [call EXCEPT ![a] = None]
    BY <1>7 DEF Repeat
  <2> HIDE DEF c
  <2> QED BY <1>7, <2>2, <2>3 DEF Repeat, Moves
<1> QED BY <1>1, <1>2, <1>3, <1>4, <1>5, <1>6, <1>7

\* What a commit makes of the row and the history, given the row as it is.
LEMMA CommitCounts ==
    ASSUME IInv, NEW a \in Attempts, Commit(a)
    PROVE  row' \in Row /\ guesses' \in Nat /\ GuessesBounded'
<1> DEFINE c == call[a]
<1>1. /\ c \in Call /\ c.row \in Row
      /\ ~c.change /\ ~c.stale => c.row = row
  BY DEF Commit, At, IInv, Typed, ReadsHold
<1>2. /\ row \in Row /\ guesses \in Nat /\ guesses = row.failed
      /\ guesses <= failedLoginLimit
      /\ guesses = failedLoginLimit <=> row.lockedUntil # 0
      /\ row.failed \in Nat /\ row.lockedUntil \in Nat
  BY DEF IInv, Typed, GuessesBounded, Row
<1>3. /\ row' = IF Writes(c) THEN Written(c) ELSE row
      /\ guesses' = Guessed(c)
      /\ ~Conflicts(c)
  BY DEF Commit
<1>4. failedLoginLimit \in Nat \ {0} /\ accountLockDuration \in Nat \ {0}
  BY LoginConstants
<1> HIDE DEF c
<1>5. CASE Fails(c)
  <2>1. c.row = row
    BY <1>1, <1>3, <1>5 DEF Conflicts, Writes, Fails
  <2>2. row.lockedUntil <= c.at /\ c.at \in Nat
    BY <1>1, <1>2, <1>5, <2>1 DEF Fails, LockedOut
  <2>3. row' = Counted(Reopened(row, c.at), c.at)
    BY <1>3, <1>5 DEF Writes, Written
  <2>4. guesses' = (IF LockIsOver(row, c.at) THEN 0 ELSE guesses) + 1
    BY <1>3, <1>5 DEF Guessed
  <2> DEFINE r == Reopened(row, c.at)
  <2>5. /\ r \in Row /\ r.lockedUntil = 0
        /\ r.failed = (IF LockIsOver(row, c.at) THEN 0 ELSE guesses)
        /\ r.failed < failedLoginLimit
    <3>1. CASE LockIsOver(row, c.at)
      <4>1. r = [row EXCEPT !.failed = 0, !.lockedUntil = 0]
        BY <3>1 DEF Reopened, Cleared
      <4> HIDE DEF r
      <4>2. r \in Row /\ r.failed = 0 /\ r.lockedUntil = 0
        BY <1>2, <4>1 DEF Row
      <4> QED BY <1>4, <3>1, <4>2
    <3>2. CASE ~LockIsOver(row, c.at)
      BY <1>2, <1>4, <2>2, <3>2 DEF Reopened, LockIsOver
    <3> QED BY <3>1, <3>2
  <2> HIDE DEF r
  <2>6. /\ row' \in Row /\ row'.failed = r.failed + 1
        /\ row'.lockedUntil = IF r.failed + 1 >= failedLoginLimit
                              THEN c.at + accountLockDuration ELSE 0
    <3> DEFINE lock == IF r.failed + 1 >= failedLoginLimit
                       THEN c.at + accountLockDuration ELSE r.lockedUntil
    <3>1. row' = [r EXCEPT !.failed = r.failed + 1, !.lockedUntil = lock]
      BY <2>3 DEF Counted, r
    <3>2. r \in Row /\ r.failed + 1 \in Nat /\ lock \in Nat
      BY <2>2, <2>5, <1>4 DEF Row
    <3> HIDE DEF lock
    <3>3. row' \in Row /\ row'.failed = r.failed + 1 /\ row'.lockedUntil = lock
      BY <3>1, <3>2 DEF Row
    <3> QED BY <3>3, <2>5 DEF lock
  <2>7. r.failed \in Nat
    BY <2>5 DEF Row
  <2> QED BY <2>2, <2>4, <2>5, <2>6, <2>7, <1>4 DEF GuessesBounded
<1>6. CASE ~Fails(c) /\ Writes(c)
  <2>1. row' \in Row /\ row'.failed = 0 /\ row'.lockedUntil = 0
    BY <1>2, <1>3, <1>6 DEF Written, Upgraded, Cleared, Row
  <2>2. guesses' = 0
    BY <1>3, <1>6 DEF Guessed
  <2> QED BY <2>1, <2>2, <1>4 DEF GuessesBounded
<1>7. CASE ~Fails(c) /\ ~Writes(c)
  <2>1. row' = row /\ guesses' = guesses
    BY <1>3, <1>7 DEF Guessed
  <2> QED BY <2>1, <1>2 DEF GuessesBounded
<1> QED BY <1>5, <1>6, <1>7

\* A commit that writes makes every other open snapshot stale.
LEMMA CommitKeeps ==
    ASSUME IInv, NEW a \in Attempts, Commit(a)
    PROVE  IInv'
<1>1. /\ call \in [Attempts -> Call \cup {None}]
      /\ now' = now /\ now \in Nat
      /\ ~Writes(call[a]) => row' = row
      /\ call' = [b \in Attempts |->
                    IF b = a THEN None
                    ELSE IF call[b] # None /\ Writes(call[a])
                    THEN [call[b] EXCEPT !.stale = call[b].loc # "read"]
                    ELSE call[b]]
  BY DEF Commit, IInv, Typed
<1>2. row' \in Row /\ guesses' \in Nat /\ GuessesBounded'
  BY CommitCounts
<1>3. \A b \in Attempts : call[b] # None =>
        [call[b] EXCEPT !.stale = call[b].loc # "read"] \in Call
  <2> SUFFICES ASSUME NEW b \in Attempts, call[b] # None
               PROVE  [call[b] EXCEPT !.stale = call[b].loc # "read"] \in Call
    OBVIOUS
  <2>1. call[b] \in Call
    BY <1>1
  <2>2. (call[b].loc # "read") \in BOOLEAN
    OBVIOUS
  <2> QED BY <2>1, <2>2
<1>4. call' \in [Attempts -> Call \cup {None}]
  <2> SUFFICES ASSUME NEW b \in Attempts PROVE call'[b] \in Call \cup {None}
    BY <1>1
  <2>1. call[b] \in Call \cup {None}
    BY <1>1
  <2> QED BY <1>1, <1>3, <2>1
<1>5. ReadsHold'
  <2> SUFFICES ASSUME NEW b \in Attempts, call'[b] # None, call'[b].loc # "read"
               PROVE  /\ call'[b] \in Call /\ call'[b].row \in Row
                      /\ ~call'[b].change /\ ~call'[b].stale => call'[b].row = row'
    BY DEF ReadsHold
  <2>1. b # a /\ call[b] # None
    BY <1>1
  <2>2. CASE Writes(call[a])
    <3>1. call'[b] = [call[b] EXCEPT !.stale = call[b].loc # "read"]
      BY <1>1, <2>1, <2>2
    <3>2. call[b] \in Call /\ call'[b].loc = call[b].loc /\ call'[b].row = call[b].row
      BY <1>1, <2>1, <3>1
    <3>3. call'[b].stale
      BY <3>1, <3>2
    <3> QED BY <1>3, <2>1, <3>1, <3>2, <3>3 DEF IInv, ReadsHold
  <2>3. CASE ~Writes(call[a])
    <3>1. call'[b] = call[b] /\ row' = row
      BY <1>1, <2>1, <2>3
    <3> QED BY <3>1, <2>1 DEF IInv, ReadsHold
  <2> QED BY <2>2, <2>3
<1> QED BY <1>1, <1>2, <1>4, <1>5 DEF IInv, Typed

LEMMA InitHolds == Init => IInv
<1> SUFFICES ASSUME Init PROVE IInv
  OBVIOUS
<1>1. row \in Row /\ row.failed = 0 /\ row.lockedUntil = 0
  BY DEF Init, Row
<1>2. Typed /\ ReadsHold
  BY <1>1 DEF Init, Typed, ReadsHold
<1>3. GuessesBounded
  BY <1>1, LoginConstants DEF Init, GuessesBounded
<1> QED BY <1>2, <1>3 DEF IInv

LEMMA StepHolds == IInv /\ [Next]_loginVars => IInv'
<1> SUFFICES ASSUME IInv, [Next]_loginVars PROVE IInv'
  OBVIOUS
<1>1. CASE Tick
  BY <1>1 DEF Tick, IInv, Typed, ReadsHold, GuessesBounded
<1>2. ASSUME NEW a \in Attempts,
             Login(a) \/ ChangePassword(a) \/ QueueTimeout(a) \/ Abort(a)
               \/ Read(a) \/ Decide(a) \/ Derived(a) \/ Repeat(a)
      PROVE  IInv'
  <2>1. Moves(a)
    BY <1>2, StepsMove
  <2>2. now' \in Nat
    BY <1>2 DEF Login, ChangePassword, QueueTimeout, Abort, Read, Decide,
                Derived, Repeat, IInv, Typed
  <2> QED BY <2>1, <2>2, MovesKeep
<1>3. ASSUME NEW a \in Attempts, Commit(a) PROVE IInv'
  BY <1>3, CommitKeeps
<1>4. CASE UNCHANGED loginVars
  BY <1>4 DEF loginVars, IInv, Typed, ReadsHold, GuessesBounded
<1> QED BY <1>1, <1>2, <1>3, <1>4 DEF Next

\* However attempts overlap, no more than failedLoginLimit of them are told
\* that a password is wrong before the account locks (loginWithDatabase).
THEOREM LockIsNotOverrun == Spec => []GuessesBounded
<1>1. IInv => GuessesBounded
  BY DEF IInv
<1> QED BY InitHolds, StepHolds, <1>1, PTL DEF Spec

-----------------------------------------------------------------------------
(* The pool of derivations.  What push, shift and splice do to a queue that *)
(* holds nobody twice.                                                      *)

LEMMA Pushed ==
    ASSUME NEW S, NEW q \in Seq(S), NEW a \in S, a \notin Range(q), IsInjective(q)
    PROVE  /\ Append(q, a) \in Seq(S) /\ Append(q, a) # <<>>
           /\ Len(Append(q, a)) = Len(q) + 1
           /\ Range(Append(q, a)) = Range(q) \cup {a}
           /\ IsInjective(Append(q, a))
<1> DEFINE r == Append(q, a)
<1>1. /\ r \in Seq(S) /\ Len(r) = Len(q) + 1 /\ Len(q) \in Nat
      /\ \A i \in 1 .. Len(q) : r[i] = q[i]
      /\ r[Len(q) + 1] = a
      /\ DOMAIN r = 1 .. Len(q) + 1 /\ DOMAIN q = 1 .. Len(q)
  OBVIOUS
<1> HIDE DEF r
<1>2. r # <<>>
  BY <1>1
<1>3. \A i \in DOMAIN r : i \in DOMAIN q \/ i = Len(q) + 1
  BY <1>1
<1>4. Range(r) = Range(q) \cup {a}
  BY <1>1, <1>3 DEF Range
<1>5. IsInjective(r)
  BY <1>1, <1>3 DEF Range, IsInjective
<1> QED BY <1>1, <1>2, <1>4, <1>5 DEF r

LEMMA Shifted ==
    ASSUME NEW S, NEW q \in Seq(S), q # <<>>, IsInjective(q)
    PROVE  /\ Tail(q) \in Seq(S) /\ Len(Tail(q)) = Len(q) - 1
           /\ Head(q) \in Range(q) /\ Head(q) \in S
           /\ Range(Tail(q)) = Range(q) \ {Head(q)}
           /\ IsInjective(Tail(q))
<1> DEFINE r == Tail(q)
<1>1. /\ r \in Seq(S) /\ Len(r) = Len(q) - 1 /\ Len(q) \in Nat \ {0}
      /\ \A i \in 1 .. Len(q) - 1 : r[i] = q[i + 1]
      /\ Head(q) = q[1] /\ q[1] \in S
      /\ DOMAIN r = 1 .. Len(q) - 1 /\ DOMAIN q = 1 .. Len(q)
  OBVIOUS
<1> HIDE DEF r
<1>2. IsInjective(r)
  BY <1>1 DEF IsInjective
<1>3. Head(q) \in Range(q)
  BY <1>1 DEF Range
<1>4. Range(r) \subseteq Range(q) \ {Head(q)}
  <2> SUFFICES ASSUME NEW i \in DOMAIN r PROVE r[i] \in Range(q) /\ r[i] # q[1]
    BY <1>1 DEF Range
  <2>1. r[i] = q[i + 1] /\ i + 1 \in DOMAIN q /\ i + 1 # 1 /\ 1 \in DOMAIN q
    BY <1>1
  <2> QED BY <2>1 DEF Range, IsInjective
<1>5. Range(q) \ {Head(q)} \subseteq Range(r)
  <2> SUFFICES ASSUME NEW i \in DOMAIN q, q[i] # q[1] PROVE q[i] \in Range(r)
    BY <1>1 DEF Range
  <2>1. i - 1 \in DOMAIN r /\ r[i - 1] = q[i]
    BY <1>1
  <2> QED BY <2>1 DEF Range
<1> QED BY <1>1, <1>2, <1>3, <1>4, <1>5 DEF r

LEMMA RestOf ==
    ASSUME NEW S, NEW q \in Seq(S), NEW m \in 1 .. Len(q) + 1
    PROVE  /\ SubSeq(q, m, Len(q)) \in Seq(S)
           /\ Len(SubSeq(q, m, Len(q))) = Len(q) - m + 1
           /\ \A i \in 1 .. Len(q) - m + 1 : SubSeq(q, m, Len(q))[i] = q[m + i - 1]
<1> DEFINE n == Len(q)
<1>1. n \in Nat /\ \A i \in 1 .. n : q[i] \in S
  OBVIOUS
<1> HIDE DEF n
<1>2. m \in Int /\ n \in Int /\ \A i \in m .. n : q[i] \in S
  BY <1>1 DEF n
<1>3. /\ SubSeq(q, m, n) \in Seq(S)
      /\ Len(SubSeq(q, m, n)) = IF m <= n THEN n - m + 1 ELSE 0
      /\ \A i \in 1 .. n - m + 1 : SubSeq(q, m, n)[i] = q[m + i - 1]
  <2> HIDE <1>1
  <2> QED BY ONLY <1>2, SubSeqProperties
<1>4. (IF m <= n THEN n - m + 1 ELSE 0) = n - m + 1
  BY <1>1 DEF n
<1> QED BY <1>3, <1>4 DEF n

LEMMA Spliced ==
    ASSUME NEW S, NEW q \in Seq(S), NEW a, NEW k \in DOMAIN q, q[k] = a, IsInjective(q)
    PROVE  /\ RemoveAt(q, k) \in Seq(S) /\ Len(RemoveAt(q, k)) = Len(q) - 1
           /\ Range(RemoveAt(q, k)) = Range(q) \ {a}
           /\ IsInjective(RemoveAt(q, k))
<1> DEFINE r == RemoveAt(q, k)
<1>1. /\ Len(q) \in Nat /\ DOMAIN q = 1 .. Len(q) /\ k \in 1 .. Len(q)
      /\ \A i \in 1 .. Len(q) : q[i] \in S
  OBVIOUS
<1>2. /\ SubSeq(q, 1, k - 1) \in Seq(S) /\ Len(SubSeq(q, 1, k - 1)) = k - 1
      /\ \A i \in 1 .. k - 1 : SubSeq(q, 1, k - 1)[i] = q[i]
  BY <1>1
<1>3. /\ SubSeq(q, k + 1, Len(q)) \in Seq(S)
      /\ Len(SubSeq(q, k + 1, Len(q))) = Len(q) - k
      /\ \A i \in 1 .. Len(q) - k : SubSeq(q, k + 1, Len(q))[i] = q[k + i]
  <2>1. /\ k + 1 \in 1 .. Len(q) + 1 /\ Len(q) - (k + 1) + 1 = Len(q) - k
        /\ \A i \in 1 .. Len(q) - k : (k + 1) + i - 1 = k + i
    BY <1>1
  <2> QED BY <2>1, RestOf
<1>4. /\ r \in Seq(S) /\ Len(r) = Len(q) - 1 /\ DOMAIN r = 1 .. Len(q) - 1
      /\ \A i \in 1 .. Len(q) - 1 : r[i] = IF i < k THEN q[i] ELSE q[i + 1]
  <2> DEFINE s == SubSeq(q, 1, k - 1)
             t == SubSeq(q, k + 1, Len(q))
  <2>1. r = s \o t
    BY DEF RemoveAt
  <2>2. /\ s \in Seq(S) /\ Len(s) = k - 1 /\ \A i \in 1 .. k - 1 : s[i] = q[i]
        /\ t \in Seq(S) /\ Len(t) = Len(q) - k
        /\ \A i \in 1 .. Len(q) - k : t[i] = q[k + i]
    BY <1>2, <1>3
  <2> HIDE DEF r, s, t
  <2>3. /\ r \in Seq(S) /\ Len(r) = Len(s) + Len(t)
        /\ \A i \in 1 .. Len(s) + Len(t) :
              r[i] = IF i <= Len(s) THEN s[i] ELSE t[i - Len(s)]
    BY <2>1, <2>2, ConcatProperties
  <2>4. Len(r) = Len(q) - 1 /\ DOMAIN r = 1 .. Len(q) - 1
    BY <1>1, <2>2, <2>3
  <2>5. ASSUME NEW i \in 1 .. Len(q) - 1
        PROVE  r[i] = IF i < k THEN q[i] ELSE q[i + 1]
    <3>1. CASE i < k
      BY <1>1, <2>2, <2>3, <3>1
    <3>2. CASE ~(i < k)
      <4>1. r[i] = t[i - (k - 1)] /\ i - (k - 1) \in 1 .. Len(q) - k
        BY <1>1, <2>2, <2>3, <3>2
      <4>2. t[i - (k - 1)] = q[k + (i - (k - 1))] /\ k + (i - (k - 1)) = i + 1
        BY <1>1, <2>2, <4>1
      <4> QED BY <3>2, <4>1, <4>2
    <3> QED BY <3>1, <3>2
  <2> QED BY <2>3, <2>4, <2>5
<1> HIDE DEF r
<1>5. \A i \in DOMAIN r : \E j \in DOMAIN q :
          r[i] = q[j] /\ j # k /\ j = IF i < k THEN i ELSE i + 1
  BY <1>1, <1>4
<1>6. IsInjective(r)
  <2> SUFFICES ASSUME NEW i \in DOMAIN r, NEW j \in DOMAIN r, r[i] = r[j] PROVE i = j
    BY DEF IsInjective
  <2>1. PICK m \in DOMAIN q : r[i] = q[m] /\ m = IF i < k THEN i ELSE i + 1
    BY <1>5
  <2>2. PICK n \in DOMAIN q : r[j] = q[n] /\ n = IF j < k THEN j ELSE j + 1
    BY <1>5
  <2>3. m = n
    BY <2>1, <2>2 DEF IsInjective
  <2> QED BY <1>1, <1>4, <2>1, <2>2, <2>3
<1>7. Range(r) \subseteq Range(q) \ {a}
  BY <1>5 DEF Range, IsInjective
<1>8. Range(q) \ {a} \subseteq Range(r)
  <2> SUFFICES ASSUME NEW j \in DOMAIN q, q[j] # a PROVE q[j] \in Range(r)
    BY DEF Range
  <2> DEFINE i == IF j < k THEN j ELSE j - 1
  <2>1. i \in DOMAIN r /\ r[i] = q[j]
    BY <1>1, <1>4
  <2> QED BY <2>1 DEF Range
<1> QED BY <1>4, <1>6, <1>7, <1>8 DEF r

-----------------------------------------------------------------------------
Pool == [active : Nat, queue : Seq(Attempts), deriving : SUBSET Attempts]

\* The pool serves exactly the attempts W.
Serves(pool, W) ==
    /\ pool \in Pool
    /\ IsFiniteSet(pool.deriving) /\ pool.deriving \subseteq W
    /\ pool.active = Cardinality(pool.deriving)
    /\ pool.active <= maxConcurrentPasswordKdf
    /\ Range(pool.queue) = W \ pool.deriving
    /\ IsInjective(pool.queue) /\ Len(pool.queue) <= maxQueuedPasswordKdf
    /\ pool.queue # <<>> => pool.active = maxConcurrentPasswordKdf

\* acquirePasswordKdfSlot takes one more attempt in.
LEMMA AcquiredServes ==
    ASSUME NEW pool, NEW W, Serves(pool, W), ~Busy(pool),
           NEW a \in Attempts, a \notin W
    PROVE  Serves(Acquired(pool, a), W \cup {a})
<1> DEFINE next == Acquired(pool, a)
<1>1. /\ pool \in Pool /\ pool.active \in Nat /\ pool.queue \in Seq(Attempts)
      /\ pool.deriving \subseteq Attempts /\ a \notin pool.deriving
      /\ Range(pool.queue) = W \ pool.deriving /\ a \notin Range(pool.queue)
      /\ maxConcurrentPasswordKdf \in Nat /\ maxQueuedPasswordKdf \in Nat
  BY KdfLimits DEF Serves, Pool
<1>2. CASE pool.active < maxConcurrentPasswordKdf
  <2>1. /\ next \in Pool /\ next.active = pool.active + 1
        /\ next.deriving = pool.deriving \cup {a} /\ next.queue = pool.queue
    <3>1. next = [pool EXCEPT !.active = pool.active + 1, !.deriving = pool.deriving \cup {a}]
      BY <1>2 DEF Acquired
    <3>2. pool.active + 1 \in Nat /\ pool.deriving \cup {a} \in SUBSET Attempts
      BY <1>1
    <3> HIDE DEF next
    <3> QED BY <1>1, <3>1, <3>2 DEF Pool
  <2>2. IsFiniteSet(pool.deriving \cup {a})
        /\ Cardinality(pool.deriving \cup {a}) = Cardinality(pool.deriving) + 1
    BY <1>1, FS_AddElement DEF Serves
  <2> HIDE DEF next
  <2>3. pool.queue = <<>>
    BY <1>1, <1>2 DEF Serves
  <2>4. Range(next.queue) = (W \cup {a}) \ next.deriving
    BY <1>1, <2>1
  <2> QED BY <1>1, <1>2, <2>1, <2>2, <2>3, <2>4 DEF Serves, next
<1>3. CASE ~(pool.active < maxConcurrentPasswordKdf)
  <2>1. /\ Append(pool.queue, a) \in Seq(Attempts)
        /\ Len(Append(pool.queue, a)) = Len(pool.queue) + 1
        /\ Range(Append(pool.queue, a)) = Range(pool.queue) \cup {a}
        /\ IsInjective(Append(pool.queue, a))
    BY <1>1, Pushed DEF Serves
  <2>2. /\ next \in Pool /\ next.active = pool.active
        /\ next.deriving = pool.deriving /\ next.queue = Append(pool.queue, a)
    BY <1>1, <1>3, <2>1 DEF Acquired, Pool
  <2> HIDE DEF next
  <2>3. /\ pool.active <= maxConcurrentPasswordKdf
        /\ pool.active = maxConcurrentPasswordKdf
    BY <1>1, <1>3 DEF Serves
  <2>4. Len(pool.queue) < maxQueuedPasswordKdf
    BY <1>1, <1>3 DEF Busy
  <2>5. Range(next.queue) = (W \cup {a}) \ next.deriving
    BY <1>1, <2>1, <2>2
  <2>6. Len(next.queue) <= maxQueuedPasswordKdf
    BY <1>1, <2>1, <2>2, <2>4
  <2> QED BY <1>1, <2>1, <2>2, <2>3, <2>5, <2>6 DEF Serves, next
<1> QED BY <1>2, <1>3

\* releasePasswordKdfSlot lets the attempt go, and the slot passes on.
LEMMA ReleasedServes ==
    ASSUME NEW pool, NEW W, Serves(pool, W), NEW a \in pool.deriving
    PROVE  Serves(Released(pool, a), W \ {a})
<1> DEFINE next == Released(pool, a)
<1>1. /\ pool \in Pool /\ pool.active \in Nat /\ pool.queue \in Seq(Attempts)
      /\ pool.deriving \subseteq Attempts /\ pool.deriving \subseteq W
      /\ Range(pool.queue) = W \ pool.deriving
      /\ maxConcurrentPasswordKdf \in Nat \ {0} /\ maxQueuedPasswordKdf \in Nat
  BY KdfLimits DEF Serves, Pool
<1>2. /\ IsFiniteSet(pool.deriving \ {a})
      /\ Cardinality(pool.deriving \ {a}) = pool.active - 1
      /\ Cardinality(pool.deriving \ {a}) \in Nat
  <2>1. IsFiniteSet(pool.deriving) /\ pool.active = Cardinality(pool.deriving)
    BY DEF Serves
  <2>2. /\ IsFiniteSet(pool.deriving \ {a})
        /\ Cardinality(pool.deriving \ {a}) = Cardinality(pool.deriving) - 1
    BY <2>1, FS_RemoveElement
  <2>3. Cardinality(pool.deriving \ {a}) \in Nat
    BY <2>2, FS_CardinalityType
  <2> QED BY <2>1, <2>2, <2>3
<1>3. CASE pool.queue = <<>>
  <2>1. /\ pool.active - 1 \in Nat
        /\ next = [pool EXCEPT !.active = pool.active - 1, !.deriving = pool.deriving \ {a}]
    BY <1>2, <1>3 DEF Released
  <2>2. /\ next \in Pool /\ next.active = pool.active - 1
        /\ next.deriving = pool.deriving \ {a} /\ next.queue = pool.queue
    BY <1>1, <2>1 DEF Pool
  <2> HIDE DEF next
  <2>3. Range(next.queue) = (W \ {a}) \ next.deriving
    BY <1>1, <2>2
  <2>4. /\ next.active <= maxConcurrentPasswordKdf /\ next.queue = <<>>
    BY <1>1, <1>3, <2>2 DEF Serves
  <2> QED BY <1>1, <1>2, <2>2, <2>3, <2>4 DEF Serves, next
<1>4. CASE pool.queue # <<>>
  <2> DEFINE h == Head(pool.queue)
             t == Tail(pool.queue)
  <2>1. /\ t \in Seq(Attempts) /\ Len(t) = Len(pool.queue) - 1
        /\ h \in Range(pool.queue) /\ h \in Attempts
        /\ Range(t) = Range(pool.queue) \ {h} /\ IsInjective(t)
    BY <1>1, <1>4, Shifted DEF Serves
  <2>2. next = [pool EXCEPT !.queue = t, !.deriving = (pool.deriving \ {a}) \cup {h}]
    BY <1>4 DEF Released
  <2> HIDE DEF h, t
  <2>3. /\ next \in Pool /\ next.active = pool.active
        /\ next.deriving = (pool.deriving \ {a}) \cup {h} /\ next.queue = t
    BY <1>1, <2>1, <2>2 DEF Pool
  <2> HIDE DEF next
  <2>4. h \notin pool.deriving /\ h \in W /\ h # a
    BY <1>1, <2>1
  <2>5. /\ IsFiniteSet(next.deriving) /\ Cardinality(next.deriving) = next.active
    <3> DEFINE D == pool.deriving \ {a}
    <3>1. IsFiniteSet(D) /\ h \notin D
      BY <1>2, <2>4
    <3> HIDE DEF D
    <3>2. IsFiniteSet(D \cup {h}) /\ Cardinality(D \cup {h}) = Cardinality(D) + 1
      BY <3>1, FS_AddElement
    <3>3. Cardinality(D) = pool.active - 1 /\ pool.active \in Nat
      BY <1>1, <1>2 DEF D
    <3>4. next.deriving = D \cup {h}
      BY <2>3 DEF D
    <3>5. Cardinality(D \cup {h}) = pool.active
      BY <3>2, <3>3
    <3> QED BY <2>3, <3>2, <3>4, <3>5
  <2>6. Range(next.queue) = (W \ {a}) \ next.deriving
    BY <1>1, <2>1, <2>3
  <2>7. /\ Len(next.queue) <= maxQueuedPasswordKdf
        /\ next.active = maxConcurrentPasswordKdf
    BY <1>1, <1>4, <2>1, <2>3 DEF Serves
  <2> QED BY <1>1, <2>1, <2>3, <2>4, <2>5, <2>6, <2>7 DEF Serves, next
<1> QED BY <1>3, <1>4

\* The timer takes a waiter out of the queue.
LEMMA TimedOutServes ==
    ASSUME NEW pool, NEW W, Serves(pool, W), NEW a \in Range(pool.queue)
    PROVE  Serves(TimedOut(pool, a), W \ {a})
<1> DEFINE q == pool.queue
           k == CHOOSE i \in DOMAIN q : q[i] = a
           next == TimedOut(pool, a)
<1>1. /\ pool \in Pool /\ q \in Seq(Attempts) /\ IsInjective(q)
      /\ Range(q) = W \ pool.deriving /\ maxQueuedPasswordKdf \in Nat
  BY KdfLimits DEF Serves, Pool
<1>2. k \in DOMAIN q /\ q[k] = a
  BY DEF Range
<1>3. next = [pool EXCEPT !.queue = RemoveAt(q, k)]
  BY DEF TimedOut
<1> HIDE DEF k
<1>4. /\ RemoveAt(q, k) \in Seq(Attempts) /\ Len(RemoveAt(q, k)) = Len(q) - 1
      /\ Range(RemoveAt(q, k)) = Range(q) \ {a} /\ IsInjective(RemoveAt(q, k))
  BY <1>1, <1>2, Spliced
<1>5. /\ next \in Pool /\ next.active = pool.active
      /\ next.deriving = pool.deriving /\ next.queue = RemoveAt(q, k)
  BY <1>1, <1>3, <1>4 DEF Pool
<1> HIDE DEF next
<1>6. Range(next.queue) = (W \ {a}) \ next.deriving /\ a \notin next.deriving
  BY <1>1, <1>4, <1>5
<1>7. Len(next.queue) <= maxQueuedPasswordKdf /\ q # <<>>
  BY <1>1, <1>2, <1>4, <1>5 DEF Serves
<1> QED BY <1>4, <1>5, <1>6, <1>7 DEF Serves, next

Waiting == {a \in Attempts : Deriving(a)}

PoolInv == IInv /\ Serves(kdf, Waiting)

\* An attempt that stays as it is, wherever it is, serves or waits as before.
LEMMA OthersWait ==
    ASSUME IInv, NEW a \in Attempts, NEW c, call' = [call EXCEPT ![a] = c]
    PROVE  Waiting' = IF c # None /\ c.loc \in {"verify", "hash"}
                      THEN Waiting \cup {a} ELSE Waiting \ {a}
<1>1. \A b \in Attempts : call'[b] = IF b = a THEN c ELSE call[b]
  BY DEF IInv, Typed
<1>2. \A b \in Attempts : Deriving(b)' <=>
        IF b = a THEN c # None /\ c.loc \in {"verify", "hash"} ELSE Deriving(b)
  BY <1>1 DEF Deriving
<1> QED BY <1>2 DEF Waiting

\* Once a password is compared, the attempt asks for another slot or writes.
LEMMA ComparedServes ==
    ASSUME IInv, NEW a \in Attempts, NEW c \in Call, NEW pool,
           Serves(pool, Waiting \ {a}), Compared(a, c, pool)
    PROVE  Serves(kdf', Waiting')
<1> DEFINE W == Waiting \ {a}
<1>1. a \notin W /\ W \cup {a} = Waiting \cup {a}
  OBVIOUS
<1>2. ASSUME NEW l \in Locs, Goes(a, c, l)
      PROVE  Waiting' = IF l \in {"verify", "hash"} THEN W \cup {a} ELSE W
  <2> DEFINE d == [c EXCEPT !.loc = l]
  <2>1. d \in Call /\ d # None /\ d.loc = l
    BY NoneIsNoCall
  <2>2. call' = [call EXCEPT ![a] = d]
    BY <1>2 DEF Goes
  <2> HIDE DEF d
  <2> QED BY <2>1, <2>2, OthersWait
<1>3. ASSUME NEW told, Answer(a, told) PROVE Waiting' = W
  BY <1>3, OthersWait DEF Answer
<1> HIDE DEF W
<1>4. CASE Hashes(c) /\ ~Busy(pool)
  <2>1. kdf' = Acquired(pool, a) /\ Goes(a, c, "hash")
    BY <1>4 DEF Compared, Asks
  <2>2. Waiting' = W \cup {a}
    BY <1>2, <2>1
  <2> QED BY <1>1, <1>4, <2>1, <2>2, AcquiredServes DEF W
<1>5. CASE Hashes(c) /\ Busy(pool)
  <2>1. kdf' = pool /\ Answer(a, "unavailable")
    BY <1>5 DEF Compared, Asks
  <2> QED BY <1>3, <2>1 DEF W
<1>6. CASE ~Hashes(c)
  <2>1. kdf' = pool /\ Goes(a, c, "commit")
    BY <1>6 DEF Compared
  <2>2. Waiting' = W
    BY <1>2, <2>1
  <2> QED BY <2>1, <2>2 DEF W
<1> QED BY <1>4, <1>5, <1>6

\* Each step keeps the pool and the attempts it serves together.
LEMMA StepServes ==
    ASSUME PoolInv, [Next]_loginVars
    PROVE  Serves(kdf, Waiting)'
<1> USE DEF At
<1>1. IInv /\ Serves(kdf, Waiting) /\ \A b \in Attempts : call[b] \in Call \cup {None}
  BY DEF PoolInv, IInv, Typed
<1>2. ASSUME NEW a \in Attempts, NEW c, call' = [call EXCEPT ![a] = c], kdf' = kdf,
             ~Deriving(a), c = None \/ c.loc \notin {"verify", "hash"}
      PROVE  Serves(kdf, Waiting)'
  <2>1. Waiting' = Waiting \ {a} /\ a \notin Waiting
    BY <1>1, <1>2, OthersWait DEF Waiting
  <2>2. Waiting' = Waiting
    BY <2>1
  <2> QED BY <1>1, <1>2, <2>2
<1>3. CASE UNCHANGED loginVars \/ Tick
  <2>1. kdf' = kdf /\ Waiting' = Waiting
    BY <1>3 DEF loginVars, Tick, Waiting, Deriving
  <2> QED BY <1>1, <2>1
<1>4. ASSUME NEW a \in Attempts, Login(a) PROVE Serves(kdf, Waiting)'
  <2>1. ~Deriving(a) /\ kdf' = kdf
    BY <1>4 DEF Login, Deriving
  <2>2. \E e \in Subjects, p \in Passwords :
          \/ call' = [call EXCEPT ![a] = Started(FALSE, e, p)]
          \/ call' = [call EXCEPT ![a] = None]
    BY <1>4 DEF Login, Answer
  <2>3. PICK e \in Subjects, p \in Passwords :
          \/ call' = [call EXCEPT ![a] = Started(FALSE, e, p)]
          \/ call' = [call EXCEPT ![a] = None]
    BY <2>2
  <2>4. Started(FALSE, e, p).loc = "read"
    BY DEF Started
  <2> QED BY <1>2, <2>1, <2>3, <2>4
<1>5. ASSUME NEW a \in Attempts, ChangePassword(a) PROVE Serves(kdf, Waiting)'
  <2>1. ~Deriving(a) /\ kdf' = kdf
    BY <1>5 DEF ChangePassword, Deriving
  <2>2. PICK p \in Passwords : call' = [call EXCEPT ![a] = Started(TRUE, "account", p)]
    BY <1>5 DEF ChangePassword
  <2>3. Started(TRUE, "account", p).loc = "read"
    BY DEF Started
  <2> QED BY <1>2, <2>1, <2>2, <2>3
<1>6. ASSUME NEW a \in Attempts, Abort(a) PROVE Serves(kdf, Waiting)'
  <2>1. ~Deriving(a) /\ kdf' = kdf /\ call' = [call EXCEPT ![a] = None]
    BY <1>6 DEF Abort, Answer, Deriving
  <2> QED BY <1>2, <2>1
<1>7. ASSUME NEW a \in Attempts, Read(a) PROVE Serves(kdf, Waiting)'
  <2> DEFINE c == [[call[a] EXCEPT !.row = row] EXCEPT !.loc = "decide"]
  <2>1. /\ ~Deriving(a) /\ kdf' = kdf /\ call' = [call EXCEPT ![a] = c]
        /\ call[a] \in Call
    BY <1>1, <1>7 DEF Read, Goes, Deriving
  <2>2. c.loc = "decide"
    BY <2>1
  <2> HIDE DEF c
  <2> QED BY <1>2, <2>1, <2>2
<1>8. ASSUME NEW a \in Attempts, Repeat(a) PROVE Serves(kdf, Waiting)'
  <2> DEFINE c == [call[a] EXCEPT !.loc = "read", !.row = None, !.at = 0,
                                  !.stale = FALSE, !.retries = @ + 1]
  <2>1. /\ ~Deriving(a) /\ kdf' = kdf /\ call[a] \in Call
        /\ \/ call' = [call EXCEPT ![a] = c] \/ call' = [call EXCEPT ![a] = None]
    BY <1>1, <1>8 DEF Repeat, Answer, Deriving
  <2>2. c.loc = "read"
    BY <2>1
  <2> HIDE DEF c
  <2> QED BY <1>2, <2>1, <2>2
<1>9. ASSUME NEW a \in Attempts, Commit(a) PROVE Serves(kdf, Waiting)'
  <2>1. /\ call[a] # None /\ call[a].loc = "commit" /\ kdf' = kdf
        /\ call' = [b \in Attempts |->
                      IF b = a THEN None
                      ELSE IF call[b] # None /\ Writes(call[a])
                      THEN [call[b] EXCEPT !.stale = call[b].loc # "read"]
                      ELSE call[b]]
    BY <1>9 DEF Commit
  <2>2. \A b \in Attempts : Deriving(b)' <=> Deriving(b)
    <3> SUFFICES ASSUME NEW b \in Attempts PROVE Deriving(b)' <=> Deriving(b)
      OBVIOUS
    <3>1. CASE b = a
      BY <2>1, <3>1 DEF Deriving
    <3>2. CASE b # a /\ call[b] # None /\ Writes(call[a])
      <4> DEFINE d == [call[b] EXCEPT !.stale = call[b].loc # "read"]
      <4>1. (call[b].loc # "read") \in BOOLEAN /\ call[b] \in Call
        BY <1>1, <3>2
      <4>2. d \in Call /\ d # None /\ d.loc = call[b].loc
        BY <4>1, NoneIsNoCall
      <4>3. call'[b] = d
        BY <2>1, <3>2
      <4> HIDE DEF d
      <4> QED BY <3>2, <4>2, <4>3 DEF Deriving
    <3>3. CASE b # a /\ ~(call[b] # None /\ Writes(call[a]))
      BY <2>1, <3>3 DEF Deriving
    <3> QED BY <3>1, <3>2, <3>3
  <2>3. Waiting' = Waiting
    BY <2>2 DEF Waiting
  <2> QED BY <1>1, <2>1, <2>3
<1>10. ASSUME NEW a \in Attempts, QueueTimeout(a) PROVE Serves(kdf, Waiting)'
  <2>1. /\ a \in Range(kdf.queue) /\ kdf' = TimedOut(kdf, a)
        /\ call' = [call EXCEPT ![a] = None]
    BY <1>10 DEF QueueTimeout, Answer
  <2>2. Waiting' = Waiting \ {a}
    BY <1>1, <2>1, OthersWait
  <2> QED BY <1>1, <2>1, <2>2, TimedOutServes
<1>11. ASSUME NEW a \in Attempts, Decide(a) PROVE Serves(kdf, Waiting)'
  <2> DEFINE c == [call[a] EXCEPT !.at = now]
  <2>1. /\ call[a] \in Call /\ now \in Nat /\ call[a].loc = "decide"
        /\ \/ Verifies(c) /\ Asks(a, c, kdf, "verify")
           \/ ~Verifies(c) /\ Compared(a, c, kdf)
    BY <1>1, <1>11 DEF Decide, IInv, Typed
  <2>2. c \in Call
    BY <2>1
  <2>3. a \notin Waiting
    BY <2>1 DEF Waiting, Deriving
  <2>4. Waiting \ {a} = Waiting
    BY <2>3
  <2> HIDE DEF c
  <2>5. CASE Compared(a, c, kdf)
    BY <1>1, <2>2, <2>4, <2>5, ComparedServes
  <2>6. CASE Asks(a, c, kdf, "verify")
    <3>1. CASE Busy(kdf)
      <4>1. kdf' = kdf /\ call' = [call EXCEPT ![a] = None]
        BY <2>6, <3>1 DEF Asks, Answer
      <4> QED BY <1>1, <2>4, <4>1, OthersWait
    <3>2. CASE ~Busy(kdf)
      <4> DEFINE d == [c EXCEPT !.loc = "verify"]
      <4>1. kdf' = Acquired(kdf, a) /\ call' = [call EXCEPT ![a] = d]
        BY <2>6, <3>2 DEF Asks, Goes
      <4>2. d \in Call /\ d # None /\ d.loc = "verify"
        BY <2>2, NoneIsNoCall
      <4> HIDE DEF d
      <4>3. Waiting' = Waiting \cup {a}
        BY <1>1, <4>1, <4>2, OthersWait
      <4> QED BY <1>1, <2>3, <3>2, <4>1, <4>3, AcquiredServes
    <3> QED BY <3>1, <3>2
  <2> QED BY <2>1, <2>5, <2>6
<1>12. ASSUME NEW a \in Attempts, Derived(a) PROVE Serves(kdf, Waiting)'
  <2>1. a \in kdf.deriving /\ a \in Waiting
    BY <1>1, <1>12 DEF Derived, Serves
  <2>2. call[a] \in Call /\ call[a] # None
    BY <1>1, <2>1 DEF Waiting, Deriving
  <2>3. Serves(Released(kdf, a), Waiting \ {a})
    BY <1>1, <2>1, ReleasedServes
  <2>4. CASE call[a].loc = "verify"
    <3>1. Compared(a, call[a], Released(kdf, a))
      BY <1>12, <2>4 DEF Derived
    <3> QED BY <1>1, <2>2, <2>3, <3>1, ComparedServes
  <2>5. CASE call[a].loc = "hash"
    <3> DEFINE d == [call[a] EXCEPT !.loc = "commit"]
    <3>1. kdf' = Released(kdf, a) /\ call' = [call EXCEPT ![a] = d]
      BY <1>12, <2>5 DEF Derived, Goes
    <3>2. d.loc = "commit"
      BY <2>2
    <3> HIDE DEF d
    <3>3. Waiting' = Waiting \ {a}
      BY <1>1, <3>1, <3>2, OthersWait
    <3> QED BY <2>3, <3>1, <3>3
  <2> QED BY <1>12, <2>4, <2>5 DEF Derived
<1> QED BY <1>3, <1>4, <1>5, <1>6, <1>7, <1>8, <1>9, <1>10, <1>11, <1>12 DEF Next

\* For any number of attempts and any size of the pool, no slot is lost or
\* handed out twice, no caller waits twice, and no slot idles while one waits,
\* whatever times out (acquirePasswordKdfSlot, releasePasswordKdfSlot).
THEOREM PoolKeepsItsSlots == Spec => []NoSlotLost
<1>1. Init => PoolInv
  <2> SUFFICES ASSUME Init PROVE Serves(kdf, Waiting)
    BY InitHolds DEF PoolInv
  <2>1. kdf = [active |-> 0, queue |-> <<>>, deriving |-> {}] /\ Waiting = {}
    BY DEF Init, KdfInit, Waiting, Deriving
  <2>2. kdf \in Pool /\ Range(kdf.queue) = {} /\ IsInjective(kdf.queue)
    BY <2>1 DEF Pool, Range, IsInjective
  <2> QED BY <2>1, <2>2, KdfLimits, FS_EmptySet DEF Serves
<1>2. PoolInv /\ [Next]_loginVars => PoolInv'
  BY StepHolds, StepServes DEF PoolInv
<1>3. PoolInv => NoSlotLost
  <2> SUFFICES ASSUME PoolInv PROVE NoSlotLost
    OBVIOUS
  <2>1. Serves(kdf, Waiting)
    BY DEF PoolInv
  <2>2. {a \in kdf.deriving : Deriving(a)} = kdf.deriving
    BY <2>1 DEF Serves, Waiting
  <2> QED BY <2>1, <2>2 DEF NoSlotLost, Serves, Waiting
<1> QED BY <1>1, <1>2, <1>3, PTL DEF Spec

-----------------------------------------------------------------------------
(* The rate limiter.  A bucket and the history of its key are in step from  *)
(* the bucket's insertion on; what the loop over the map has left is found  *)
(* by induction on the number of buckets it has seen.                       *)

LEMMA Induction ==
    ASSUME NEW S \in SUBSET Nat, 0 \in S, \A n \in S : n + 1 \in S
    PROVE  S = Nat
<1> DEFINE R == OpToRel(<, Nat)
           T == Nat \ S
<1>1. SUFFICES ASSUME T # {} PROVE FALSE
  OBVIOUS
<1>2. IsWellFoundedOn(R, Nat)
  BY NatLessThanWellFounded
<1>3. \A x, y \in Nat : y < x => <<y, x>> \in R
  BY DEF OpToRel
<1> HIDE DEF R
<1>4. PICK x \in T : \A y \in T : ~(<<y, x>> \in R)
  BY <1>1, <1>2, WFMin
<1>5. x \in Nat /\ x \notin S /\ x # 0
  BY <1>4
<1>6. x - 1 \in Nat /\ x - 1 < x /\ (x - 1) + 1 = x
  BY <1>5
<1>7. x - 1 \in S
  BY <1>3, <1>4, <1>5, <1>6
<1> QED BY <1>5, <1>6, <1>7

Bucket == [key : BucketKeys, count : Nat, resetAt : Nat]

\* The keys of a map are its own.
Distinct(bs) == \A i, j \in DOMAIN bs : bs[i].key = bs[j].key => i = j

IsMap(bs) == bs \in Seq(Bucket) /\ Distinct(bs)

\* The loop over the map only leaves out buckets.
LEMMA LoopLeaves ==
    ASSUME NEW bs, IsMap(bs), NEW t
    PROVE  IsMap(Counting(bs, t)) /\ Range(Counting(bs, t)) \subseteq Range(bs)
<1> DEFINE After(s, i) == IF bs[i].resetAt <= t THEN s ELSE Append(s, bs[i])
           Body(f, n) == [i \in 0 .. n |-> IF i = 0 THEN <<>> ELSE After(f[i - 1], i)]
           left == CHOOSE f : f = Body(f, Len(bs))
<1>1. Counting(bs, t) = left[Len(bs)]
  BY DEF Counting
<1>2. ASSUME NEW n \in Nat PROVE \E f : f = Body(f, n)
  <2> HIDE DEF After
  <2> DEFINE S == {m \in Nat : \E f : f = Body(f, m)}
  <2>1. 0 \in S
    <3> DEFINE f == [i \in 0 .. 0 |-> <<>>]
    <3>1. f = Body(f, 0)
      OBVIOUS
    <3> QED BY <3>1
  <2>2. ASSUME NEW m \in S PROVE m + 1 \in S
    <3>1. PICK f : f = Body(f, m)
      BY <2>2
    <3> DEFINE g == [i \in 0 .. m + 1 |-> IF i <= m THEN f[i] ELSE After(f[m], m + 1)]
    <3>2. ASSUME NEW i \in 0 .. m + 1
          PROVE  g[i] = IF i = 0 THEN <<>> ELSE After(g[i - 1], i)
      <4>1. CASE i = 0
        BY <3>1, <4>1
      <4>2. CASE i # 0 /\ i <= m
        <5>1. i \in 0 .. m /\ i - 1 \in 0 .. m + 1 /\ i - 1 <= m
          BY <4>2
        <5>2. g[i] = f[i] /\ g[i - 1] = f[i - 1]
          BY <4>2, <5>1
        <5>3. f[i] = After(f[i - 1], i)
          BY <3>1, <4>2, <5>1
        <5> QED BY <4>2, <5>2, <5>3
      <4>3. CASE i = m + 1
        <5>1. m \in 0 .. m + 1 /\ i - 1 = m /\ ~(m + 1 <= m) /\ i # 0
          BY <4>3
        <5>2. g[i] = After(f[m], m + 1) /\ g[m] = f[m]
          BY <4>3, <5>1
        <5> QED BY <4>3, <5>1, <5>2
      <4> QED BY <4>1, <4>2, <4>3
    <3>3. g = Body(g, m + 1) /\ m + 1 \in Nat
      BY <3>2
    <3> HIDE DEF g
    <3> QED BY <3>3
  <2> HIDE DEF S
  <2>3. S = Nat
    BY <2>1, <2>2, Induction DEF S
  <2> QED BY <2>3 DEF S
<1> DEFINE n == Len(bs)
<1>3. n \in Nat /\ bs \in Seq(Bucket) /\ DOMAIN bs = 1 .. n
  BY DEF IsMap
<1>4. left = Body(left, n)
  BY <1>2, <1>3
<1> HIDE DEF left, n, After
<1>5. /\ left[0] = <<>>
      /\ \A i \in 1 .. n : left[i] = After(left[i - 1], i)
  <2>1. \A i \in 0 .. n : left[i] = IF i = 0 THEN <<>> ELSE After(left[i - 1], i)
    BY <1>4
  <2> QED BY <1>3, <2>1
<1> DEFINE Fine(i) == /\ left[i] \in Seq(Bucket) /\ Distinct(left[i])
                      /\ \A j \in DOMAIN left[i] : \E m \in 1 .. i : left[i][j] = bs[m]
           S == {i \in Nat : i <= n => Fine(i)}
<1>6. 0 \in S
  <2>1. /\ <<>> \in Seq(Bucket) /\ Distinct(<<>>) /\ DOMAIN <<>> = {}
    BY DEF Distinct
  <2>2. Fine(0)
    BY <1>5, <2>1
  <2> QED BY <2>2
<1>7. ASSUME NEW i \in S PROVE i + 1 \in S
  <2> SUFFICES ASSUME i + 1 <= n PROVE Fine(i + 1)
    OBVIOUS
  <2>1. /\ i \in Nat /\ Fine(i) /\ i + 1 \in 1 .. n
        /\ bs[i + 1] \in Bucket /\ (i + 1) - 1 = i
    BY <1>3, <1>7
  <2>2. CASE left[i + 1] = left[i]
    BY <2>1, <2>2
  <2>3. CASE left[i + 1] = Append(left[i], bs[i + 1])
    <3> DEFINE s == left[i]
               b == bs[i + 1]
    <3>1. /\ s \in Seq(Bucket) /\ Distinct(s) /\ b \in Bucket
          /\ \A j \in DOMAIN s : \E m \in 1 .. i : s[j] = bs[m]
      BY <2>1
    <3>2. \A m \in 1 .. i : bs[m].key # b.key
      BY <1>3, <2>1 DEF IsMap, Distinct
    <3> HIDE DEF s, b
    <3>3. /\ Append(s, b) \in Seq(Bucket) /\ DOMAIN Append(s, b) = 1 .. Len(s) + 1
          /\ \A j \in DOMAIN s : Append(s, b)[j] = s[j]
          /\ Append(s, b)[Len(s) + 1] = b /\ Len(s) \in Nat /\ DOMAIN s = 1 .. Len(s)
      BY <3>1
    <3>4. \A j \in DOMAIN Append(s, b) : j \in DOMAIN s \/ j = Len(s) + 1
      BY <3>3
    <3>5. Distinct(Append(s, b))
      BY <3>1, <3>2, <3>3, <3>4 DEF Distinct
    <3>6. \A j \in DOMAIN Append(s, b) : \E m \in 1 .. i + 1 : Append(s, b)[j] = bs[m]
      BY <2>1, <3>1, <3>3, <3>4 DEF b
    <3> QED BY <2>3, <3>3, <3>5, <3>6 DEF s, b
  <2>4. left[i + 1] = After(left[i], i + 1)
    BY <1>5, <2>1
  <2> QED BY <2>2, <2>3, <2>4 DEF After
<1> HIDE DEF S
<1>8. S = Nat
  BY <1>6, <1>7, Induction DEF S
<1>9. Fine(n)
  BY <1>3, <1>8 DEF S
<1> QED BY <1>1, <1>3, <1>9 DEF IsMap, Range, n

\* A full map makes room for one bucket and forgets no key it keeps.
LEMMA RoomIsMade ==
    ASSUME NEW bs, IsMap(bs), NEW t
    PROVE  LET room == RemoveExpiredBuckets(bs, t)
           IN  /\ IsMap(room) /\ Range(room) \subseteq Range(bs)
               /\ Len(room) <= MaximumBuckets - 1
<1> DEFINE c == Counting(bs, t)
           surplus == Len(c) - (MaximumBuckets - 1)
<1>1. IsMap(c) /\ Range(c) \subseteq Range(bs)
  BY LoopLeaves
<1>2. /\ MaximumBuckets \in Nat \ {0} /\ Len(bs) \in Nat /\ Len(c) \in Nat
  BY <1>1, LimiterConstants DEF IsMap
<1> HIDE DEF c
<1>3. CASE Len(bs) < MaximumBuckets
  BY <1>2, <1>3 DEF RemoveExpiredBuckets
<1>4. CASE ~(Len(bs) < MaximumBuckets) /\ Len(c) < MaximumBuckets
  BY <1>1, <1>2, <1>4 DEF RemoveExpiredBuckets, c
<1>5. CASE ~(Len(bs) < MaximumBuckets) /\ ~(Len(c) < MaximumBuckets)
  <2> DEFINE m == surplus + 1
             r == SubSeq(c, m, Len(c))
  <2>1. RemoveExpiredBuckets(bs, t) = r
    BY <1>5 DEF RemoveExpiredBuckets, c
  <2>2. /\ m \in 1 .. Len(c) + 1 /\ m \in Nat /\ Len(c) - m + 1 = MaximumBuckets - 1
    BY <1>2, <1>5
  <2>3. c \in Seq(Bucket)
    BY <1>1 DEF IsMap
  <2> HIDE DEF m
  <2>4. /\ r \in Seq(Bucket) /\ Len(r) = Len(c) - m + 1
        /\ \A i \in 1 .. Len(c) - m + 1 : r[i] = c[m + i - 1]
    BY <2>2, <2>3, RestOf
  <2> HIDE DEF r
  <2>5. DOMAIN r = 1 .. Len(c) - m + 1 /\ DOMAIN c = 1 .. Len(c)
    BY <2>3, <2>4
  <2>6. \A i \in DOMAIN r : m + i - 1 \in DOMAIN c /\ r[i] = c[m + i - 1]
    BY <1>2, <2>2, <2>4, <2>5
  <2>7. Distinct(r)
    <3> SUFFICES ASSUME NEW i \in DOMAIN r, NEW j \in DOMAIN r, r[i].key = r[j].key
                 PROVE  i = j
      BY DEF Distinct
    <3>1. m + i - 1 = m + j - 1
      BY <1>1, <2>6 DEF IsMap, Distinct
    <3> QED BY <2>2, <2>5, <3>1
  <2>8. Range(r) \subseteq Range(c)
    BY <2>6 DEF Range
  <2> QED BY <1>1, <2>1, <2>2, <2>4, <2>7, <2>8 DEF IsMap
<1> QED BY <1>3, <1>4, <1>5

\* A key has a place exactly when a bucket carries it.
LEMMA PlacesAreFound ==
    ASSUME NEW bs, IsMap(bs), NEW k
    PROVE  /\ Position(bs, k) = 0 <=> \A b \in Range(bs) : b.key # k
           /\ Position(bs, k) # 0 => /\ Position(bs, k) \in DOMAIN bs
                                     /\ bs[Position(bs, k)].key = k
<1>1. DOMAIN bs = 1 .. Len(bs) /\ Len(bs) \in Nat
  BY DEF IsMap
<1>2. CASE \E i \in DOMAIN bs : bs[i].key = k
  <2> DEFINE p == CHOOSE i \in DOMAIN bs : bs[i].key = k
  <2>1. Position(bs, k) = p
    BY <1>2 DEF Position
  <2>2. p \in DOMAIN bs /\ bs[p].key = k
    BY <1>2
  <2> HIDE DEF p
  <2>3. p # 0 /\ bs[p] \in Range(bs)
    BY <1>1, <2>2 DEF Range
  <2> QED BY <2>1, <2>2, <2>3
<1>3. CASE ~\E i \in DOMAIN bs : bs[i].key = k
  BY <1>3 DEF Position, Range
<1> QED BY <1>2, <1>3

First(k, t) == [key |-> k, count |-> 1, resetAt |-> t + WindowLength]

\* The bucket b counts one request more for the key k than the map bs did.
Renews(bs, k, t, b) ==
    /\ b \in Bucket /\ b.key = k
    /\ (\A c \in Range(bs) : c.key # k) => b = First(k, t)
    /\ \A c \in Range(bs) : c.key = k =>
          b = IF c.resetAt <= t THEN First(k, t) ELSE [c EXCEPT !.count = c.count + 1]

Counts(bs, k, t, next, b) ==
    /\ Renews(bs, k, t, b)
    /\ IsMap(next) /\ Len(next) <= Len(bs) + 1
    /\ Range(next) = {c \in Range(bs) : c.key # k} \cup {b}
    /\ Within(next, k) <=> b.count <= LimitOf(k)

\* Counting a request gives the key a bucket of its own, and leaves the others.
LEMMA OneBucketCounts ==
    ASSUME NEW bs, IsMap(bs), NEW k \in BucketKeys, NEW t \in Nat
    PROVE  \E b : Counts(bs, k, t, ConsumeBucket(bs, k, t), b)
<1> DEFINE next == ConsumeBucket(bs, k, t)
           i == Position(bs, k)
           first == First(k, t)
           b == IF i = 0 THEN first
                ELSE IF bs[i].resetAt <= t THEN first
                ELSE [bs[i] EXCEPT !.count = bs[i].count + 1]
<1>1. first \in Bucket /\ first.key = k
  BY LimiterConstants DEF First, Bucket
<1>2. /\ bs \in Seq(Bucket) /\ Len(bs) \in Nat /\ DOMAIN bs = 1 .. Len(bs)
      /\ \A j \in DOMAIN bs : bs[j] \in Bucket
  BY DEF IsMap
<1>3. /\ i = 0 <=> \A c \in Range(bs) : c.key # k
      /\ i # 0 => i \in DOMAIN bs /\ bs[i].key = k
  BY PlacesAreFound
<1> HIDE DEF i, first
<1>4. b \in Bucket /\ b.key = k
  <2>1. CASE i = 0 \/ bs[i].resetAt <= t
    BY <1>1, <2>1
  <2>2. CASE i # 0 /\ ~(bs[i].resetAt <= t)
    <3>1. bs[i] \in Bucket /\ bs[i].key = k
      BY <1>2, <1>3, <2>2
    <3>2. bs[i].count + 1 \in Nat
      BY <3>1 DEF Bucket
    <3>3. b = [bs[i] EXCEPT !.count = bs[i].count + 1]
      BY <2>2
    <3> HIDE DEF b
    <3> QED BY <3>1, <3>2, <3>3 DEF Bucket
  <2> QED BY <2>1, <2>2
<1>5. next = IF i = 0 THEN Append(bs, b) ELSE [bs EXCEPT ![i] = b]
  BY DEF ConsumeBucket, i, first, First
<1>6. /\ i = 0 => b = first
      /\ i # 0 => b = IF bs[i].resetAt <= t THEN first
                      ELSE [bs[i] EXCEPT !.count = bs[i].count + 1]
  OBVIOUS
<1> HIDE DEF b, next
<1>7. /\ IsMap(next) /\ Len(next) <= Len(bs) + 1
      /\ Range(next) = {c \in Range(bs) : c.key # k} \cup {b}
  <2>1. CASE i = 0
    <3>1. /\ next \in Seq(Bucket) /\ Len(next) = Len(bs) + 1
          /\ DOMAIN next = 1 .. Len(bs) + 1 /\ next[Len(bs) + 1] = b
          /\ \A j \in DOMAIN bs : next[j] = bs[j]
      BY <1>2, <1>4, <1>5, <2>1
    <3>2. \A j \in DOMAIN next : j \in DOMAIN bs \/ j = Len(bs) + 1
      BY <1>2, <3>1
    <3>3. \A j \in DOMAIN bs : bs[j].key # k
      BY <1>3, <2>1 DEF Range
    <3>4. Distinct(next)
      BY <1>4, <3>1, <3>2, <3>3 DEF Distinct, IsMap
    <3>5. Range(next) = Range(bs) \cup {b}
      BY <1>2, <3>1, <3>2 DEF Range
    <3>6. {c \in Range(bs) : c.key # k} = Range(bs)
      BY <1>3, <2>1
    <3> QED BY <1>2, <3>1, <3>4, <3>5, <3>6 DEF IsMap
  <2>2. CASE i # 0
    <3>1. /\ next \in Seq(Bucket) /\ Len(next) = Len(bs) /\ DOMAIN next = DOMAIN bs
          /\ next[i] = b /\ i \in DOMAIN bs /\ bs[i].key = k
          /\ \A j \in DOMAIN bs : j # i => next[j] = bs[j]
      BY <1>2, <1>3, <1>4, <1>5, <2>2
    <3>2. \A j \in DOMAIN bs : j # i => bs[j].key # k
      BY <3>1 DEF IsMap, Distinct
    <3>3. Distinct(next)
      BY <1>4, <3>1, <3>2 DEF Distinct, IsMap
    <3>4. Range(next) = {c \in Range(bs) : c.key # k} \cup {b}
      BY <3>1, <3>2 DEF Range
    <3> QED BY <1>2, <3>1, <3>3, <3>4 DEF IsMap
  <2> QED BY <2>1, <2>2
<1>8. Within(next, k) <=> b.count <= LimitOf(k)
  <2>1. b \in Range(next) /\ b.key = k
    BY <1>4, <1>7
  <2>2. /\ Position(next, k) \in DOMAIN next /\ next[Position(next, k)].key = k
    BY <1>7, <2>1, PlacesAreFound
  <2>3. next[Position(next, k)] = b
    BY <1>7, <2>2 DEF Range
  <2> QED BY <2>3 DEF Within
<1>9. \A c \in Range(bs) : c.key = k => i # 0 /\ c = bs[i]
  BY <1>3 DEF IsMap, Distinct, Range
<1>10. Renews(bs, k, t, b)
  BY <1>3, <1>4, <1>6, <1>9 DEF Renews, first
<1>11. Counts(bs, k, t, next, b)
  BY <1>7, <1>8, <1>10 DEF Counts
<1> QED BY <1>11 DEF next

-----------------------------------------------------------------------------
Window == [resetAt : Nat, admitted : Nat]

\* The history w of the key k is in step with its bucket among R at time t; the
\* window of a key without a bucket is over.
InStep(R, k, w, t) ==
    /\ w.admitted <= LimitOf(k)
    /\ \A b \in R : b.key = k => w.resetAt = b.resetAt /\ w.admitted <= b.count
    /\ (\A b \in R : b.key # k) => w.resetAt <= t

LimiterInv ==
    /\ IsMap(buckets) /\ Len(buckets) <= MaximumBuckets + 1
    /\ window \in [BucketKeys -> Window] /\ now \in Nat
    /\ \A k \in BucketKeys \ forgotten : InStep(Range(buckets), k, window[k], now)

\* The window of a key counted at time t.
Opened(w, t) == IF w.resetAt <= t THEN [resetAt |-> t + WindowLength, admitted |-> 0] ELSE w

\* Counting keeps the window and the bucket of a key in step.
LEMMA CountsInStep ==
    ASSUME NEW bs, IsMap(bs), NEW k \in BucketKeys, NEW t \in Nat, NEW w \in Window,
           InStep(Range(bs), k, w, t), NEW b, Renews(bs, k, t, b),
           NEW R, R \subseteq {c \in Bucket : c.key # k} \cup {b}, b \in R,
           NEW n \in {0, 1}, n = 1 => b.count <= LimitOf(k),
           NEW next, next = [Opened(w, t) EXCEPT !.admitted = Opened(w, t).admitted + n]
    PROVE  InStep(R, k, next, t)
<1> DEFINE open == Opened(w, t)
<1>0. /\ b \in Bucket /\ b.key = k
      /\ (\A c \in Range(bs) : c.key # k) => b = First(k, t)
      /\ \A c \in Range(bs) : c.key = k =>
            b = IF c.resetAt <= t THEN First(k, t) ELSE [c EXCEPT !.count = c.count + 1]
  BY DEF Renews
<1>1. /\ LimitOf(k) \in Nat /\ WindowLength \in Nat \ {0}
      /\ w.resetAt \in Nat /\ w.admitted \in Nat /\ b.count \in Nat /\ b.resetAt \in Nat
      /\ w.admitted <= LimitOf(k)
  BY <1>0, LimiterConstants DEF LimitOf, Window, Bucket, InStep, BucketKeys
<1>2. /\ open \in Window /\ open.admitted <= LimitOf(k)
      /\ open.resetAt = b.resetAt /\ open.admitted + 1 <= b.count
  <2>1. CASE b = First(k, t) /\ w.resetAt <= t
    BY <1>1, <2>1 DEF Opened, First, Window
  <2>2. CASE \E c \in Range(bs) : c.key = k /\ ~(c.resetAt <= t)
    <3>1. PICK c \in Range(bs) : c.key = k /\ ~(c.resetAt <= t)
      BY <2>2
    <3>2. c \in Bucket /\ w.resetAt = c.resetAt /\ w.admitted <= c.count
      BY <3>1 DEF IsMap, Range, InStep
    <3>3. b = [c EXCEPT !.count = c.count + 1] /\ c.count \in Nat
      BY <1>0, <3>1, <3>2 DEF Bucket
    <3>4. b.count = c.count + 1 /\ b.resetAt = c.resetAt
      BY <3>2, <3>3 DEF Bucket
    <3>5. open = w
      BY <3>1, <3>2 DEF Opened
    <3> QED BY <1>1, <3>2, <3>3, <3>4, <3>5
  <2>3. CASE \A c \in Range(bs) : c.key = k => c.resetAt <= t
    <3>1. b = First(k, t)
      BY <1>0, <2>3
    <3>2. w.resetAt <= t
      BY <2>3 DEF InStep
    <3> QED BY <2>1, <3>1, <3>2
  <2> QED BY <2>2, <2>3
<1>3. n \in Nat /\ n <= 1 /\ open.admitted \in Nat /\ open.admitted + n \in Nat
  BY <1>2 DEF Window
<1>3a. next = [open EXCEPT !.admitted = open.admitted + n]
  OBVIOUS
<1> HIDE DEF open
<1>4. /\ next \in Window /\ next.resetAt = open.resetAt
      /\ next.admitted = open.admitted + n
  BY <1>2, <1>3, <1>3a DEF Window
<1>5. next.admitted <= LimitOf(k) /\ next.admitted <= b.count
  BY <1>1, <1>2, <1>3, <1>4
<1>6. (\A c \in R : c.key = k => c = b) /\ b.key = k
  BY <1>0
<1> QED BY <1>2, <1>4, <1>5, <1>6 DEF InStep

\* A request keeps the map and the history of every key not forgotten in step.
LEMMA RequestsAreCounted ==
    ASSUME LimiterInv, NEW client \in Clients, NEW subject \in Subjects,
           NEW passed \in BOOLEAN, Consume(client, subject, now, passed), now' = now
    PROVE  LimiterInv'
<1> DEFINE room == RemoveExpiredBuckets(buckets, now)
           byClient == ConsumeBucket(room, client, now)
           bySubject == ConsumeBucket(byClient, subject, now)
           K == IF Within(byClient, client) THEN {client, subject} ELSE {client}
           n == IF passed THEN 1 ELSE 0
<1>1. /\ client \in BucketKeys /\ subject \in BucketKeys /\ client # subject
      /\ now \in Nat /\ MaximumBuckets \in Nat \ {0}
      /\ window \in [BucketKeys -> Window] /\ n \in {0, 1} /\ n \in Nat
  BY LimiterConstants DEF BucketKeys, LimiterInv
<1>2. /\ passed = (Within(byClient, client) /\ Within(bySubject, subject))
      /\ buckets' = IF subject \in K THEN bySubject ELSE byClient
      /\ window' = Windows(K, now, passed)
      /\ forgotten' = forgotten \cup
            {k \in BucketKeys : /\ Position(room, k) = 0 /\ Position(buckets, k) # 0
                                /\ window[k].resetAt > now}
  BY DEF Consume
<1>3. /\ IsMap(room) /\ Range(room) \subseteq Range(buckets)
      /\ Len(room) <= MaximumBuckets - 1 /\ IsMap(buckets)
  BY RoomIsMade DEF LimiterInv
<1> HIDE DEF room
<1>4. PICK b : Counts(room, client, now, byClient, b)
  BY <1>1, <1>3, OneBucketCounts
<1>4a. /\ IsMap(byClient) /\ Len(byClient) <= Len(room) + 1
       /\ b \in Bucket /\ b.key = client /\ Renews(room, client, now, b)
       /\ Range(byClient) = {c \in Range(room) : c.key # client} \cup {b}
       /\ Within(byClient, client) <=> b.count <= LimitOf(client)
  BY <1>4 DEF Counts, Renews
<1> HIDE DEF byClient
<1>5. PICK d : Counts(byClient, subject, now, bySubject, d)
  BY <1>1, <1>4a, OneBucketCounts
<1>5a. /\ IsMap(bySubject) /\ Len(bySubject) <= Len(byClient) + 1
       /\ d \in Bucket /\ d.key = subject /\ Renews(byClient, subject, now, d)
       /\ Range(bySubject) = {c \in Range(byClient) : c.key # subject} \cup {d}
       /\ Within(bySubject, subject) <=> d.count <= LimitOf(subject)
  BY <1>5 DEF Counts, Renews
<1> HIDE DEF bySubject
<1>6. \A k \in BucketKeys \ forgotten' : InStep(Range(room), k, window[k], now)
  <2> SUFFICES ASSUME NEW k \in BucketKeys, k \notin forgotten'
               PROVE  InStep(Range(room), k, window[k], now)
    OBVIOUS
  <2>1. InStep(Range(buckets), k, window[k], now)
    BY <1>2 DEF LimiterInv
  <2>2. ASSUME \A c \in Range(room) : c.key # k PROVE window[k].resetAt <= now
    <3>1. Position(room, k) = 0
      BY <1>3, <2>2, PlacesAreFound
    <3>2. CASE Position(buckets, k) = 0
      <4>1. \A c \in Range(buckets) : c.key # k
        BY <1>3, <3>2, PlacesAreFound
      <4> QED BY <2>1, <4>1 DEF InStep
    <3>3. CASE Position(buckets, k) # 0
      <4>1. ~(window[k].resetAt > now)
        BY <1>2, <3>1, <3>3
      <4>2. window[k].resetAt \in Nat
        BY <1>1 DEF Window
      <4> QED BY <1>1, <4>1, <4>2
    <3> QED BY <3>2, <3>3
  <2> QED BY <1>3, <2>1, <2>2 DEF InStep
<1>7. \A k \in BucketKeys :
         window'[k] = IF k \notin K THEN window[k]
                      ELSE [Opened(window[k], now) EXCEPT
                               !.admitted = Opened(window[k], now).admitted + n]
  BY <1>2 DEF Windows, Opened
<1>8. /\ Range(room) \subseteq Bucket /\ Range(byClient) \subseteq Bucket
  BY <1>3, <1>4a DEF IsMap, Range
<1> HIDE DEF n
<1>9. ASSUME n = 1
      PROVE  b.count <= LimitOf(client) /\ d.count <= LimitOf(subject)
  <2>1. passed
    BY <1>9 DEF n
  <2>2. Within(byClient, client) /\ Within(bySubject, subject)
    BY <1>2, <2>1, Zenon
  <2> QED BY <1>4a, <1>5a, <2>2
<1>10. /\ IsMap(buckets') /\ Len(buckets') <= MaximumBuckets + 1
       /\ b \in Range(buckets')
       /\ Range(buckets') \subseteq {c \in Bucket : c.key # client} \cup {b}
       /\ \A k \in BucketKeys \ K : \A c \in Bucket : c.key = k =>
             (c \in Range(buckets') <=> c \in Range(room))
  <2>1. Len(room) \in Nat /\ Len(byClient) \in Nat /\ Len(bySubject) \in Nat
    BY <1>3, <1>4a, <1>5a DEF IsMap
  <2>2. CASE Within(byClient, client)
    <3>1. buckets' = bySubject /\ K = {client, subject}
      BY <1>2, <2>2
    <3> QED BY <1>1, <1>3, <1>4a, <1>5a, <1>8, <2>1, <3>1
  <2>3. CASE ~Within(byClient, client)
    <3>1. buckets' = byClient /\ K = {client}
      BY <1>1, <1>2, <2>3
    <3> QED BY <1>1, <1>3, <1>4a, <1>8, <2>1, <3>1
  <2> QED BY <2>2, <2>3
<1>11. ASSUME NEW k \in BucketKeys
       PROVE  /\ window'[k] \in Window
              /\ k \notin forgotten' => InStep(Range(buckets'), k, window'[k], now)
  <2>0. window[k] \in Window
    BY <1>1
  <2>1. CASE k \notin K
    <3>1. window'[k] = window[k]
      BY <1>7, <2>1
    <3>2. \A c \in Range(buckets') : c \in Bucket
      BY <1>10 DEF IsMap, Range
    <3>3. \A c \in Bucket : c.key = k => (c \in Range(buckets') <=> c \in Range(room))
      BY <1>10, <2>1
    <3> QED BY <1>6, <1>8, <2>0, <3>1, <3>2, <3>3 DEF InStep
  <2>2. CASE k = client
    <3>1. window'[k] = [Opened(window[k], now) EXCEPT
                           !.admitted = Opened(window[k], now).admitted + n]
      BY <1>7, <2>2
    <3>2. window'[k] \in Window
      BY <1>1, <2>0, <3>1, LimiterConstants DEF Opened, Window, n
    <3>3. ASSUME k \notin forgotten' PROVE InStep(Range(buckets'), k, window'[k], now)
      <4>1. InStep(Range(room), k, window[k], now)
        BY <1>6, <3>3
      <4>2. n = 1 => b.count <= LimitOf(k)
        BY <1>9, <2>2
      <4>3. n \in {0, 1}
        BY DEF n
      <4>4. /\ Renews(room, k, now, b) /\ b \in Range(buckets')
            /\ Range(buckets') \subseteq {c \in Bucket : c.key # k} \cup {b}
        BY <1>4a, <1>10, <2>2
      <4>5. IsMap(room) /\ now \in Nat
        BY <1>1, <1>3
      <4> QED BY <2>0, <3>1, <4>1, <4>2, <4>3, <4>4, <4>5, CountsInStep
    <3> QED BY <3>2, <3>3
  <2>3. CASE k = subject /\ k \in K
    <3>1. window'[k] = [Opened(window[k], now) EXCEPT
                           !.admitted = Opened(window[k], now).admitted + n]
      BY <1>7, <2>3
    <3>2. window'[k] \in Window
      BY <1>1, <2>0, <3>1, LimiterConstants DEF Opened, Window, n
    <3>3. ASSUME k \notin forgotten' PROVE InStep(Range(buckets'), k, window'[k], now)
      <4>1. InStep(Range(room), k, window[k], now)
        BY <1>6, <3>3
      <4>2. InStep(Range(byClient), k, window[k], now)
        BY <1>1, <1>4a, <2>3, <4>1 DEF InStep
      <4>3. n = 1 => d.count <= LimitOf(k)
        BY <1>9, <2>3
      <4>4. n \in {0, 1}
        BY DEF n
      <4>5. buckets' = bySubject
        BY <1>2, <2>3
      <4>6. /\ d \in Range(buckets')
            /\ Range(buckets') \subseteq {c \in Bucket : c.key # k} \cup {d}
            /\ Renews(byClient, k, now, d)
        BY <1>5a, <1>8, <2>3, <4>5
      <4>7. IsMap(byClient) /\ now \in Nat
        BY <1>1, <1>4a
      <4> QED BY <2>0, <3>1, <4>2, <4>3, <4>4, <4>6, <4>7, CountsInStep
    <3> QED BY <3>2, <3>3
  <2>4. K \subseteq {client, subject}
    OBVIOUS
  <2> QED BY <2>1, <2>2, <2>3, <2>4
<1>12. window' \in [BucketKeys -> Window]
  BY <1>2, <1>11 DEF Windows
<1> QED BY <1>1, <1>10, <1>11, <1>12 DEF LimiterInv

\* A key passes no more than its limit of requests in a window unless its
\* bucket was evicted while it counted, and the map outgrows its maximum by one
\* at most, for any limits and any keys (login-rate-limiter.ts, consume).
THEOREM LimitsHold == Spec => []LimitHolds
<1>1. Init => LimiterInv
  <2> SUFFICES ASSUME Init PROVE LimiterInv
    OBVIOUS
  <2>1. /\ buckets = <<>> /\ now = 0 /\ Len(buckets) = 0 /\ DOMAIN buckets = {}
        /\ window = [k \in BucketKeys |-> [resetAt |-> 0, admitted |-> 0]]
    BY DEF Init, LimiterInit
  <2>2. IsMap(buckets) /\ Range(buckets) = {}
    BY <2>1 DEF IsMap, Distinct, Range
  <2>3. \A k \in BucketKeys : LimitOf(k) \in Nat /\ window[k] \in Window
    BY <2>1, LimiterConstants DEF LimitOf, Window
  <2>4. \A k \in BucketKeys : InStep({}, k, window[k], 0)
    BY <2>1, <2>3 DEF InStep
  <2>5. window \in [BucketKeys -> Window] /\ Len(buckets) <= MaximumBuckets + 1 /\ now \in Nat
    BY <2>1, <2>3, LimiterConstants
  <2> QED BY <2>1, <2>2, <2>4, <2>5 DEF LimiterInv
<1>2. LimiterInv /\ [Next]_loginVars => LimiterInv'
  <2> SUFFICES ASSUME LimiterInv, [Next]_loginVars PROVE LimiterInv'
    OBVIOUS
  <2>1. CASE UNCHANGED <<limiterVars, now>>
    BY <2>1 DEF limiterVars, LimiterInv
  <2>2. CASE Tick
    <3>1. UNCHANGED limiterVars /\ now \in Nat /\ now' = now + 1
      BY <2>2 DEF Tick, LimiterInv
    <3>2. ASSUME NEW k \in BucketKeys \ forgotten
          PROVE  InStep(Range(buckets), k, window[k], now + 1)
      <4>1. InStep(Range(buckets), k, window[k], now) /\ window[k].resetAt \in Nat
        BY DEF LimiterInv, Window
      <4> QED BY <3>1, <4>1 DEF InStep
    <3> QED BY <3>1, <3>2 DEF limiterVars, LimiterInv
  <2>3. ASSUME NEW a \in Attempts, Login(a) PROVE LimiterInv'
    <3>1. PICK client \in Clients, subject \in Subjects, passed \in BOOLEAN :
             Consume(client, subject, now, passed)
      BY <2>3 DEF Login
    <3>2. now' = now
      BY <2>3 DEF Login
    <3> QED BY <3>1, <3>2, RequestsAreCounted
  <2>4. ASSUME NEW a \in Attempts,
               ChangePassword(a) \/ QueueTimeout(a) \/ Abort(a) \/ Read(a) \/ Decide(a)
                 \/ Derived(a) \/ Commit(a) \/ Repeat(a)
        PROVE  UNCHANGED <<limiterVars, now>>
    BY <2>4 DEF ChangePassword, QueueTimeout, Abort, Read, Decide, Derived, Commit, Repeat
  <2>5. UNCHANGED loginVars => UNCHANGED <<limiterVars, now>>
    BY DEF loginVars, limiterVars
  <2> QED BY <2>1, <2>2, <2>3, <2>4, <2>5 DEF Next
<1>3. LimiterInv => LimitHolds
  BY DEF LimiterInv, InStep, LimitHolds
<1> QED BY <1>1, <1>2, <1>3, PTL DEF Spec
=============================================================================
