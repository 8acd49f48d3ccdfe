------------------------------ MODULE PasswordKdf ------------------------------
(***************************************************************************)
(* The pool of password derivations (password-hash.ts): a bounded number   *)
(* runs at a time, a bounded number waits in order of arrival, each with a *)
(* five second timer.  The pool is a value and its operations are          *)
(* functions on it, because a caller may release and acquire in one turn.  *)
(***************************************************************************)
EXTENDS Naturals, Sequences, FiniteSets, SequencesExt

CONSTANTS maxConcurrentPasswordKdf, maxQueuedPasswordKdf

ASSUME KdfLimits ==
    /\ maxConcurrentPasswordKdf \in Nat \ {0}
    /\ maxQueuedPasswordKdf \in Nat

VARIABLE kdf     \* active: activePasswordKdf; queue: passwordKdfQueue;
                 \* deriving: the callers whose pbkdf2 is running

KdfInit == kdf = [active |-> 0, queue |-> <<>>, deriving |-> {}]

\* passwordKdfBusyError: the caller is turned away.
Busy(pool) ==
    /\ pool.active >= maxConcurrentPasswordKdf
    /\ Len(pool.queue) >= maxQueuedPasswordKdf

\* acquirePasswordKdfSlot for a caller who is not turned away.
Acquired(pool, a) ==
    IF pool.active < maxConcurrentPasswordKdf
    THEN [pool EXCEPT !.active = @ + 1, !.deriving = @ \cup {a}]
    ELSE [pool EXCEPT !.queue = Append(@, a)]

\* releasePasswordKdfSlot: the first waiter inherits the slot.
Released(pool, a) ==
    IF pool.queue = <<>>
    THEN [pool EXCEPT !.active = @ - 1, !.deriving = @ \ {a}]
    ELSE [pool EXCEPT !.queue = Tail(@),
                      !.deriving = (@ \ {a}) \cup {Head(pool.queue)}]

\* Wrong: the waiter is rejected and stays in the queue.
StaysQueued(pool, a) == pool

\* The timer of a waiter: indexOf and splice.
TimedOut(pool, a) ==
    LET index == CHOOSE i \in DOMAIN pool.queue : pool.queue[i] = a
    IN  [pool EXCEPT !.queue = RemoveAt(@, index)]
=============================================================================
