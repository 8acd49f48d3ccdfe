------------------------------ MODULE StoreProofs ------------------------------
(***************************************************************************)
(* The two stores: calls that overlap (PlatformStore), and operations one  *)
(* after another (TwoStores), for any number of rows and operations.       *)
(*                                                                         *)
(* An answered change leaves the lists only as an operation assigns a list *)
(* it was given before; StoresInv says which operations can hold one.      *)
(*                                                                         *)
(* Alike says what a table and its list have in common, table by table;    *)
(* the lemmas before it are about sequences that are read from either end. *)
(***************************************************************************)
EXTENDS PlatformStore, TwoStores, SequenceTheorems, WellFoundedInduction, TLAPS

-----------------------------------------------------------------------------
(* Overlapping calls. *)

StoreTyped ==
    /\ deployment \in {"production", "development", "memory"}
    /\ databaseUnavailable \in BOOLEAN
    /\ memory \in [Lists -> SUBSET Calls]
    /\ database \in [Lists -> SUBSET Calls]
    /\ call \in [Calls -> Operation \cup {None}]

\* Who waits outside is one of the four, who waits for the database has one, and
\* whose turn it is has none.
Waiting ==
    /\ databaseUnavailable => deployment = "development"
    /\ \A d \in Calls : /\ At(d, "outside") => call[d].kind \in Outside
                        /\ At(d, "statement") => deployment # "memory"
                        /\ At(d, "turn") => ~AsksDatabase

\* An operation that waited for nobody has all changes the lists show, but those
\* of the saves beside it.
UpToDate(d) ==
    call[d].kind \notin Outside =>
        \A l \in Lists : \A c \in memory[l] :
            c \in call[d].given[l] \/ (c \in call[d].beside /\ l = "competencyReports")

\* The calls c and d are saves of one report generation.
Together(c, d) ==
    /\ call[c].kind = "saveCompetencyReport" /\ c \in call[d].beside
    /\ call[d].given = call[c].given

Turns ==
    \A d \in Calls : At(d, "turn") =>
        /\ UpToDate(d)
        /\ \A c \in Calls \ {d} : At(c, "turn") => Together(c, d)

StoresInv == StoreTyped /\ Waiting /\ Turns

LEMMA StoreStarts == StoreInit => StoresInv
  BY DEF StoreInit, StoresInv, StoreTyped, Waiting, Turns, At

LEMMA ListsOf ==
    /\ \A k \in Outside : Assigns[k] \subseteq {"inviteEmailLogs", "identityVerifications",
                                               "codeExecutions", "submissions", "candidates"}
    /\ Assigns["saveCompetencyReport"] = {"competencyReports"}
    /\ \A k \in OperationNames : Assigns[k] \subseteq Lists
    /\ "saveCompetencyReport" \in OperationNames /\ "saveCompetencyReport" \notin Outside
  BY DEF Outside, Assigns, Lists, Operations, OperationNames, ExamOperations, EntryOperations,
     ProctorOperations, WorkspaceOperations

-----------------------------------------------------------------------------
\* An operation that goes on changes only where it stands.
LEMMA Moves ==
    ASSUME StoreTyped, NEW d \in Calls, call[d] # None,
           NEW loc \in {"outside", "turn", "statement", "answered", "refused"}, Becomes(d, loc)
    PROVE  /\ call' \in [Calls -> Operation \cup {None}]
           /\ \A e \in Calls \ {d} : call'[e] = call[e]
           /\ call'[d] # None /\ call'[d].loc = loc /\ call'[d].kind = call[d].kind
           /\ call'[d].given = call[d].given /\ call'[d].beside = call[d].beside
<1> DEFINE o == [call[d] EXCEPT !.loc = loc]
<1>1. call[d] \in Operation /\ call' = [call EXCEPT ![d] = o]
  BY DEF StoreTyped, Becomes
<1>2. /\ o \in Operation /\ o.loc = loc /\ o.kind = call[d].kind
      /\ o.given = call[d].given /\ o.beside = call[d].beside
  BY <1>1 DEF Operation
<1> HIDE DEF o
<1> QED BY <1>1, <1>2, NoneIsNoOperation DEF StoreTyped

\* What an operation's assignment leaves in the lists.
LEMMA Assigned ==
    ASSUME StoreTyped, NEW d \in Calls, call[d] # None, NEW change \in SUBSET Calls,
           Assign(call[d], change)
    PROVE  /\ memory' \in [Lists -> SUBSET Calls]
           /\ \A l \in Lists : l \notin Assigns[call[d].kind] => memory'[l] = memory[l]
           /\ \A l \in Lists : l \in Assigns[call[d].kind] =>
                 /\ change \subseteq memory'[l]
                 /\ call[d].given[l] \cap memory[l] \subseteq memory'[l]
<1>1. call[d] \in Operation
  BY DEF StoreTyped
<1>2. \A l \in Lists : Base(call[d], l) \in {memory[l], call[d].given[l]}
  BY DEF Base
<1> QED BY <1>1, <1>2 DEF Assign, StoreTyped, Operation

LEMMA Stored ==
    ASSUME StoreTyped, NEW c \in Calls, NEW written \in SUBSET Lists, Store(c, written)
    PROVE  /\ database' \in [Lists -> SUBSET Calls]
           /\ \A l \in Lists : database[l] \subseteq database'[l]
           /\ \A l \in written : c \in database'[l]
  BY DEF StoreTyped, Store

LEMMA BeginKeeps ==
    ASSUME StoresInv, NEW S \in SUBSET Calls \ {{}}, NEW k \in OperationNames,
           BeginOperation(S, k)
    PROVE  StoresInv'
<1> DEFINE o == [kind |-> k, loc |-> IF k \in Outside THEN "outside" ELSE Tried,
                 given |-> memory, beside |-> S]
<1>1. /\ o \in Operation /\ o.kind = k /\ o.given = memory /\ o.beside = S
      /\ o.loc = IF k \in Outside THEN "outside" ELSE Tried
  BY DEF Operation, Tried, StoresInv, StoreTyped
<1>2. /\ call' = [c \in Calls |-> IF c \in S THEN o ELSE call[c]]
      /\ UNCHANGED <<deployment, databaseUnavailable, memory, database>>
      /\ Idle /\ (k = "saveCompetencyReport" \/ \E c \in Calls : S = {c})
  BY DEF BeginOperation
<1> HIDE DEF o
<1>3. StoreTyped'
  BY <1>1, <1>2 DEF StoresInv, StoreTyped
<1>4. \A c \in S : call'[c] = o /\ o # None
  BY <1>1, <1>2, NoneIsNoOperation
<1>5. \A c \in Calls \ S : call'[c] = call[c]
  BY <1>2
<1>6. Waiting'
  <2>1. ASSUME NEW c \in S
        PROVE  /\ At(c, "outside")' => call'[c].kind \in Outside
               /\ At(c, "statement")' => deployment' # "memory"
               /\ At(c, "turn")' => ~AsksDatabase'
    BY <1>1, <1>2, <1>4 DEF At, Tried, AsksDatabase, DatabaseFallbackEnabled
  <2>2. ASSUME NEW c \in Calls \ S
        PROVE  /\ At(c, "outside")' => call'[c].kind \in Outside
               /\ At(c, "statement")' => deployment' # "memory"
               /\ At(c, "turn")' => ~AsksDatabase'
    BY <1>2, <1>5 DEF At, StoresInv, Waiting, AsksDatabase, DatabaseFallbackEnabled
  <2> QED BY <1>2, <2>1, <2>2 DEF StoresInv, Waiting
<1>7. Turns'
  <2> SUFFICES ASSUME NEW d \in Calls, At(d, "turn")'
               PROVE  /\ UpToDate(d)'
                      /\ \A c \in Calls \ {d} : At(c, "turn")' => Together(c, d)'
    BY DEF Turns
  <2>1. \A c \in Calls : At(c, "turn")' => c \in S
    BY <1>2, <1>5 DEF Idle, At
  <2>2. UpToDate(d)'
    BY <1>1, <1>2, <1>4, <2>1 DEF UpToDate
  <2>3. ASSUME NEW c \in Calls \ {d}, At(c, "turn")' PROVE Together(c, d)'
    BY <1>1, <1>2, <1>4, <2>1, <2>3 DEF Together
  <2> QED BY <2>2, <2>3
<1> QED BY <1>3, <1>6, <1>7 DEF StoresInv

\* A call that is not, or not yet, in its turn leaves the others where they are.
LEMMA GoesOn ==
    ASSUME StoresInv, StoreTyped', NEW d \in Calls, call[d] # None,
           NEW loc \in {"turn", "statement", "answered", "refused"}, Becomes(d, loc),
           UNCHANGED deployment, databaseUnavailable => databaseUnavailable',
           databaseUnavailable' => deployment = "development",
           loc = "statement" => deployment # "memory",
           loc = "turn" => ~AsksDatabase /\ UpToDate(d)' /\ Idle,
           UNCHANGED memory \/ Idle
                \/ \A e \in Calls \ {d} : At(e, "turn") => UpToDate(e)'
    PROVE  StoresInv'
<1> USE DEF StoresInv
<1>1. /\ \A e \in Calls \ {d} : call'[e] = call[e]
      /\ call'[d] # None /\ call'[d].loc = loc /\ call'[d].kind = call[d].kind
      /\ call'[d].given = call[d].given /\ call'[d].beside = call[d].beside
  BY Moves
<1>2. ~AsksDatabase => ~AsksDatabase'
  BY DEF AsksDatabase, DatabaseFallbackEnabled
<1>3. Waiting'
  <2>1. ASSUME NEW e \in Calls
        PROVE  /\ At(e, "outside")' => call'[e].kind \in Outside
               /\ At(e, "statement")' => deployment' # "memory"
               /\ At(e, "turn")' => ~AsksDatabase'
    <3>1. CASE e = d
      BY <1>1, <1>2, <3>1 DEF At
    <3>2. CASE e # d
      BY <1>1, <1>2, <3>2 DEF At, Waiting
    <3> QED BY <3>1, <3>2
  <2> QED BY <2>1 DEF Waiting
<1>4. Turns'
  <2> SUFFICES ASSUME NEW e \in Calls, At(e, "turn")'
               PROVE  /\ UpToDate(e)'
                      /\ \A c \in Calls \ {e} : At(c, "turn")' => Together(c, e)'
    BY DEF Turns
  <2>1. CASE loc = "turn"
    <3>1. \A c \in Calls : At(c, "turn")' => c = d
      BY <1>1, <2>1 DEF Idle, At
    <3> QED BY <2>1, <3>1
  <2>2. CASE loc # "turn"
    <3>1. \A c \in Calls : At(c, "turn")' => c # d /\ call'[c] = call[c] /\ At(c, "turn")
      BY <1>1, <2>2 DEF At
    <3>2. UpToDate(e)'
      <4>1. CASE UNCHANGED memory
        BY <3>1, <4>1 DEF Turns, UpToDate
      <4>2. CASE Idle
        BY <3>1, <4>2 DEF Idle
      <4> QED BY <3>1, <4>1, <4>2
    <3>3. \A c \in Calls \ {e} : At(c, "turn")' => Together(c, e)'
      BY <3>1 DEF Turns, Together
    <3> QED BY <3>2, <3>3
  <2> QED BY <2>1, <2>2
<1> QED BY <1>3, <1>4

LEMMA StoreGoesOn == StoresInv /\ [StoreNext]_storeVars => StoresInv'
<1> SUFFICES ASSUME StoresInv, [StoreNext]_storeVars PROVE StoresInv'
  OBVIOUS
<1> USE DEF StoresInv
<1>1. CASE UNCHANGED storeVars
  BY <1>1 DEF storeVars, StoreTyped, Waiting, Turns, UpToDate, Together, At, AsksDatabase,
     DatabaseFallbackEnabled
<1>2. ASSUME NEW c \in Calls, OutsideAnswers(c) PROVE StoresInv'
  <2>1. /\ Idle /\ call[c] # None /\ call[c].loc = "outside" /\ Becomes(c, Tried)
        /\ UNCHANGED <<deployment, databaseUnavailable, memory, database>>
        /\ Tried \in {"turn", "statement"}
        /\ Tried = "turn" => ~AsksDatabase
        /\ Tried = "statement" => deployment # "memory"
    BY <1>2 DEF OutsideAnswers, At, Tried, AsksDatabase
  <2>2. call' \in [Calls -> Operation \cup {None}] /\ call'[c].kind = call[c].kind
    BY <2>1, Moves
  <2>3. StoreTyped' /\ (databaseUnavailable' => deployment = "development")
    BY <2>1, <2>2 DEF StoreTyped, Waiting
  <2>4. UpToDate(c)'
    BY <2>1, <2>2 DEF UpToDate, Waiting, At
  <2> HIDE DEF Tried
  <2> QED BY <2>1, <2>3, <2>4, GoesOn
<1>3. ASSUME NEW c \in Calls, EndTurn(c) PROVE StoresInv'
  <2>1. /\ call[c] # None /\ call[c].loc = "turn" /\ Becomes(c, "answered")
        /\ Assign(call[c], {c}) /\ UNCHANGED <<deployment, databaseUnavailable, database>>
    BY <1>3 DEF EndTurn, At
  <2>2. /\ call' \in [Calls -> Operation \cup {None}]
        /\ \A e \in Calls \ {c} : call'[e] = call[e]
    BY <2>1, Moves
  <2>3. memory' \in [Lists -> SUBSET Calls]
    BY <2>1, Assigned
  <2>4. StoreTyped' /\ (databaseUnavailable' => deployment = "development")
    BY <2>1, <2>2, <2>3 DEF StoreTyped, Waiting
  <2>5. ASSUME NEW e \in Calls \ {c}, At(e, "turn") PROVE UpToDate(e)'
    <3>1. /\ Together(c, e) /\ UpToDate(e) /\ call'[e] = call[e] /\ Together(e, c)
      BY <2>1, <2>2, <2>5 DEF Turns, At
    <3>2. ASSUME NEW l \in Lists, NEW x \in memory'[l]
          PROVE  x \in call[e].given[l] \/ (x \in call[e].beside /\ l = "competencyReports")
      <4>1. CASE l = "competencyReports"
        <5>1. call[c].kind = "saveCompetencyReport" /\ l \in Assigns[call[c].kind]
          BY <3>1, <4>1, ListsOf DEF Together
        <5>2. memory'[l] = call[c].given[l] \cup {c}
          BY <2>1, <5>1 DEF Assign, Base
        <5> QED BY <3>1, <3>2, <4>1, <5>2 DEF Together
      <4>2. CASE l # "competencyReports"
        <5>1. memory'[l] = memory[l]
          BY <2>1, <3>1, <4>2, Assigned, ListsOf DEF Together
        <5>2. call[e].kind \notin Outside
          BY <3>1, ListsOf DEF Together
        <5>3. x \in memory[l]
          BY <3>2, <5>1
        <5> QED BY <3>1, <5>2, <5>3 DEF UpToDate
      <4> QED BY <4>1, <4>2
    <3> QED BY <3>1, <3>2 DEF UpToDate
  <2> QED BY <2>1, <2>4, <2>5, GoesOn
<1>4. ASSUME NEW c \in Calls, RefusedOperation(c) PROVE StoresInv'
  <2>1. /\ call[c] # None /\ Becomes(c, "refused")
        /\ UNCHANGED <<deployment, databaseUnavailable, memory, database>>
    BY <1>4 DEF RefusedOperation, At
  <2>2. call' \in [Calls -> Operation \cup {None}]
    BY <2>1, Moves
  <2>3. StoreTyped' /\ (databaseUnavailable' => deployment = "development")
    BY <2>1, <2>2 DEF StoreTyped, Waiting
  <2> QED BY <2>1, <2>3, GoesOn
<1>5. ASSUME NEW c \in Calls, DatabaseAnswers(c) PROVE StoresInv'
  <2>1. /\ Idle /\ call[c] # None /\ Becomes(c, "answered") /\ Assign(call[c], {})
        /\ Store(c, Assigns[call[c].kind]) /\ UNCHANGED <<deployment, databaseUnavailable>>
    BY <1>5 DEF DatabaseAnswers, At
  <2>2. call' \in [Calls -> Operation \cup {None}] /\ call[c].kind \in OperationNames
    BY <2>1, Moves DEF StoreTyped, Operation
  <2>3. memory' \in [Lists -> SUBSET Calls]
    BY <2>1, Assigned
  <2>4. database' \in [Lists -> SUBSET Calls]
    BY <2>1, <2>2, Stored, ListsOf
  <2>5. StoreTyped' /\ (databaseUnavailable' => deployment = "development")
    BY <2>1, <2>2, <2>3, <2>4 DEF StoreTyped, Waiting
  <2> QED BY <2>1, <2>5, GoesOn
<1>6. ASSUME NEW c \in Calls, DatabaseFails(c) PROVE StoresInv'
  <2>1. /\ Idle /\ call[c] # None /\ call[c].loc = "statement" /\ UNCHANGED deployment
        /\ deployment # "memory"
    BY <1>6 DEF DatabaseFails, At, Waiting
  <2>2. PICK done \in SUBSET Assigns[call[c].kind] : Store(c, done)
    BY <1>6 DEF DatabaseFails
  <2>3. call[c].kind \in OperationNames
    BY <2>1 DEF StoreTyped, Operation
  <2>4. database' \in [Lists -> SUBSET Calls]
    BY <2>2, <2>3, Stored, ListsOf
  <2>5. CASE /\ DatabaseFallbackEnabled /\ databaseUnavailable' = TRUE
             /\ Assign(call[c], {c}) /\ Becomes(c, "answered")
    <3>1. call' \in [Calls -> Operation \cup {None}]
      BY <2>1, <2>5, Moves
    <3>2. memory' \in [Lists -> SUBSET Calls]
      BY <2>1, <2>5, Assigned
    <3>3. StoreTyped' /\ deployment = "development"
      BY <2>1, <2>4, <2>5, <3>1, <3>2 DEF StoreTyped, DatabaseFallbackEnabled
    <3> QED BY <2>1, <2>5, <3>3, GoesOn
  <2>6. CASE Becomes(c, "refused") /\ UNCHANGED <<databaseUnavailable, memory>>
    <3>1. call' \in [Calls -> Operation \cup {None}]
      BY <2>1, <2>6, Moves
    <3>2. StoreTyped' /\ (databaseUnavailable' => deployment = "development")
      BY <2>1, <2>4, <2>6, <3>1 DEF StoreTyped, Waiting
    <3> QED BY <2>1, <2>6, <3>2, GoesOn
  <2> QED BY <1>6, <2>5, <2>6 DEF DatabaseFails
<1> QED BY <1>1, <1>2, <1>3, <1>4, <1>5, <1>6, BeginKeeps DEF StoreNext

-----------------------------------------------------------------------------
\* A known cause for which the change of call c stops to be seen in l.
Cause(c, l) ==
    \/ \E d \in Calls \ {c} :
          \/ /\ Overwrites(d, c, l)
             /\ call[d].kind \in Outside
             /\ l \in {"inviteEmailLogs", "identityVerifications",
                       "codeExecutions", "submissions", "candidates"}
          \/ /\ Overwrites(d, c, l)
             /\ c \in call[d].beside /\ l = "competencyReports"
          \/ Overwrites(d, c, l) /\ At(d, "statement") /\ databaseUnavailable
    \/ ~databaseUnavailable /\ databaseUnavailable'
    \/ Returns(c) /\ At(c, "statement") /\ databaseUnavailable

\* Nothing changes for a call that was answered before, or for a reader.
LEMMA NothingLost ==
    ASSUME StoresInv, NEW c \in Calls, NEW l \in Lists, Missing(c, l)', ~Missing(c, l),
           NEW d \in Calls, call[d] # None, NEW loc \in {"turn", "statement", "refused"},
           Becomes(d, loc), UNCHANGED <<deployment, databaseUnavailable, memory>>,
           \A x \in Lists : database[x] \subseteq database'[x]
    PROVE  FALSE
<1>1. /\ \A e \in Calls \ {d} : call'[e] = call[e]
      /\ call'[d] # None /\ call'[d].loc = loc
  BY Moves DEF StoresInv
<1>2. At(c, "answered") /\ call'[c] = call[c]
  BY <1>1 DEF Missing, At
<1>3. Seen(l) \subseteq Seen(l)'
  BY DEF Seen, AsksDatabase, DatabaseFallbackEnabled
<1> QED BY <1>2, <1>3 DEF Missing

\* A call d that assigns its lists, in its turn or after its statement.
LEMMA AssignmentLoses ==
    ASSUME StoresInv, ~AsksDatabase, NEW c \in Calls, NEW l \in Lists,
           Missing(c, l)', ~Missing(c, l),
           NEW d \in Calls, At(d, "turn") \/ At(d, "statement"), Becomes(d, "answered"),
           UNCHANGED deployment, databaseUnavailable => databaseUnavailable',
           NEW change \in SUBSET Calls, Assign(call[d], change),
           At(d, "turn") => change = {d}
    PROVE  Cause(c, l)
<1> USE DEF StoresInv
<1>1. /\ \A e \in Calls \ {d} : call'[e] = call[e]
      /\ call'[d] # None /\ call'[d].loc = "answered" /\ call'[d].kind = call[d].kind
      /\ call[d] # None
  BY Moves DEF At
<1>2. Returns(d) /\ call[d].kind \in OperationNames
  BY <1>1 DEF Returns, At, StoreTyped, Operation
<1>3. Seen(l) = memory[l] /\ Seen(l)' = memory'[l]
  BY DEF Seen, AsksDatabase, DatabaseFallbackEnabled
<1>4. At(d, "statement") => databaseUnavailable
  BY DEF Waiting, AsksDatabase
<1>5. CASE c = d
  <2>1. l \in Assigns[call[d].kind] /\ d \notin memory'[l]
    BY <1>1, <1>3, <1>5 DEF Missing
  <2>2. ~At(d, "turn")
    BY <1>1, <2>1, Assigned
  <2> QED BY <1>2, <1>4, <1>5, <2>2 DEF Cause
<1>6. CASE c # d
  <2>1. At(c, "answered") /\ call'[c] = call[c]
    BY <1>1, <1>6 DEF Missing, At
  <2>2. c \in memory[l] /\ c \notin memory'[l]
    BY <1>3, <2>1 DEF Missing
  <2>3. l \in Assigns[call[d].kind] /\ c \notin call[d].given[l]
    BY <1>1, <2>2, Assigned
  <2>4. Overwrites(d, c, l)
    BY <1>2, <2>3 DEF Overwrites
  <2>5. CASE At(d, "statement")
    BY <1>4, <1>6, <2>4, <2>5 DEF Cause
  <2>6. CASE At(d, "turn") /\ call[d].kind \in Outside
    BY <1>6, <2>3, <2>4, <2>6, ListsOf DEF Cause
  <2>7. CASE At(d, "turn") /\ call[d].kind \notin Outside
    BY <1>6, <2>2, <2>3, <2>4, <2>7 DEF Cause, Turns, UpToDate
  <2> QED BY <2>5, <2>6, <2>7
<1> QED BY <1>5, <1>6

LEMMA StepLoses ==
    ASSUME StoresInv, StoreNext, NEW c \in Calls, NEW l \in Lists,
           Missing(c, l)', ~Missing(c, l)
    PROVE  Cause(c, l)
<1> USE DEF StoresInv
<1>1. ASSUME NEW S \in SUBSET Calls \ {{}}, NEW k \in OperationNames, BeginOperation(S, k)
      PROVE  FALSE
  <2>1. UNCHANGED <<deployment, databaseUnavailable, memory, database>>
    BY <1>1 DEF BeginOperation
  <2>2. Tried # "answered" /\ "outside" # "answered"
    BY DEF Tried
  <2>3. call'[c] = call[c]
    <3> DEFINE o == [kind |-> k, loc |-> IF k \in Outside THEN "outside" ELSE Tried,
                     given |-> memory, beside |-> S]
    <3>1. call'[c] = IF c \in S THEN o ELSE call[c]
      BY <1>1 DEF BeginOperation
    <3>2. o.loc # "answered"
      BY <2>2
    <3> HIDE DEF o
    <3> QED BY <3>1, <3>2 DEF Missing, At
  <2>4. Seen(l)' = Seen(l)
    BY <2>1 DEF Seen, AsksDatabase, DatabaseFallbackEnabled
  <2> QED BY <2>3, <2>4 DEF Missing, At
<1>2. ASSUME NEW d \in Calls, OutsideAnswers(d) PROVE FALSE
  <2>1. /\ call[d] # None /\ Becomes(d, Tried) /\ Tried \in {"turn", "statement"}
        /\ UNCHANGED <<deployment, databaseUnavailable, memory, database>>
    BY <1>2 DEF OutsideAnswers, At, Tried
  <2> HIDE DEF Tried
  <2> QED BY <2>1, NothingLost
<1>3. ASSUME NEW d \in Calls, EndTurn(d) PROVE Cause(c, l)
  <2>1. /\ At(d, "turn") /\ Becomes(d, "answered") /\ Assign(call[d], {d})
        /\ UNCHANGED <<deployment, databaseUnavailable>> /\ ~AsksDatabase
    BY <1>3 DEF EndTurn, Waiting
  <2> QED BY <2>1, AssignmentLoses
<1>4. ASSUME NEW d \in Calls, RefusedOperation(d) PROVE FALSE
  <2>1. /\ call[d] # None /\ Becomes(d, "refused")
        /\ UNCHANGED <<deployment, databaseUnavailable, memory, database>>
    BY <1>4 DEF RefusedOperation, At
  <2> QED BY <2>1, NothingLost
<1>5. ASSUME NEW d \in Calls, DatabaseAnswers(d) PROVE Cause(c, l)
  <2>1. /\ At(d, "statement") /\ Becomes(d, "answered") /\ Assign(call[d], {})
        /\ Store(d, Assigns[call[d].kind]) /\ UNCHANGED <<deployment, databaseUnavailable>>
        /\ call[d] # None
    BY <1>5 DEF DatabaseAnswers, At
  <2>2. CASE ~AsksDatabase
    <3>1. ~At(d, "turn")
      BY <2>1 DEF At
    <3> QED BY <2>1, <2>2, <3>1, AssignmentLoses
  <2>3. CASE AsksDatabase
    <3>1. /\ \A e \in Calls \ {d} : call'[e] = call[e]
          /\ call'[d].kind = call[d].kind /\ call[d].kind \in OperationNames
      BY <2>1, Moves DEF StoreTyped, Operation
    <3>2. Seen(l) = database[l] /\ Seen(l)' = database'[l]
      BY <2>1, <2>3 DEF Seen, AsksDatabase, DatabaseFallbackEnabled
    <3>3. /\ database[l] \subseteq database'[l]
          /\ l \in Assigns[call[d].kind] => d \in database'[l]
      BY <2>1, <3>1, Stored, ListsOf
    <3> QED BY <3>1, <3>2, <3>3 DEF Missing, At
  <2> QED BY <2>2, <2>3
<1>6. ASSUME NEW d \in Calls, DatabaseFails(d) PROVE Cause(c, l)
  <2>1. At(d, "statement") /\ call[d] # None /\ UNCHANGED deployment /\ ~At(d, "turn")
    BY <1>6 DEF DatabaseFails, At
  <2>2. CASE /\ databaseUnavailable' = TRUE
             /\ Assign(call[d], {d}) /\ Becomes(d, "answered")
    <3>1. CASE ~databaseUnavailable
      BY <2>2, <3>1 DEF Cause
    <3>2. CASE databaseUnavailable
      <4>1. ~AsksDatabase
        BY <3>2 DEF Waiting, AsksDatabase, DatabaseFallbackEnabled
      <4> QED BY <2>1, <2>2, <4>1, AssignmentLoses
    <3> QED BY <3>1, <3>2 DEF StoreTyped
  <2>3. CASE Becomes(d, "refused") /\ UNCHANGED <<databaseUnavailable, memory>>
    <3>1. PICK done \in SUBSET Assigns[call[d].kind] : Store(d, done)
      BY <1>6 DEF DatabaseFails
    <3>2. call[d].kind \in OperationNames
      BY <2>1 DEF StoreTyped, Operation
    <3>3. \A x \in Lists : database[x] \subseteq database'[x]
      BY <3>1, <3>2, Stored, ListsOf
    <3> QED BY <2>1, <2>3, <3>3, NothingLost
  <2> QED BY <1>6, <2>2, <2>3 DEF DatabaseFails
<1> QED BY <1>1, <1>2, <1>3, <1>4, <1>5, <1>6 DEF StoreNext

(* A reader stops to see an answered change, or never sees it, only for one of  *)
(* four causes (platform-store.service.ts, platform-store.database.ts): an      *)
(* operation that waited for somebody outside, a save of the same report        *)
(* generation, the database given up, or a statement from before that; for any  *)
(* number of operations and failures.                                           *)
THEOREM LossesAreExplained == StoreSpec => LossesHaveACause
<1>1. ASSUME StoresInv, [StoreNext]_storeVars, NEW c \in Calls, NEW l \in Lists,
             Missing(c, l)' /\ ~Missing(c, l)
      PROVE  Cause(c, l)
  <2>1. CASE UNCHANGED storeVars
    BY <1>1, <2>1 DEF storeVars, Missing, At, Seen, AsksDatabase, DatabaseFallbackEnabled
  <2> QED BY <1>1, <2>1, StepLoses
<1>2. StoresInv /\ [StoreNext]_storeVars =>
         [\A c \in Calls, l \in Lists : Missing(c, l)' /\ ~Missing(c, l) =>
             Cause(c, l)]_storeVars
  BY <1>1, Zenon
<1>3. LossesHaveACause <=>
         [][\A c \in Calls, l \in Lists : Missing(c, l)' /\ ~Missing(c, l) =>
               Cause(c, l)]_storeVars
  BY DEF LossesHaveACause, Cause
<1> QED BY <1>2, <1>3, StoreStarts, StoreGoesOn, PTL DEF StoreSpec

--------------------------------------------------------------------------------
(* Sequences, and the rows that are picked from them. *)

\* Induction over a set of numbers.
LEMMA Induction ==
    ASSUME NEW S \in SUBSET Nat, 0 \in S, \A n \in S : n + 1 \in S
    PROVE  S = Nat
<1> DEFINE R == OpToRel(<, Nat)
           T == Nat \ S
<1>1. SUFFICES ASSUME T # {} PROVE FALSE
  OBVIOUS
<1>2. IsWellFoundedOn(R, Nat)
  BY NatLessThanWellFounded
<1>3. \A x, y \in Nat : y < x => <<y, x>> \in R
  BY DEF OpToRel
<1> HIDE DEF R
<1>4. PICK x \in T : \A y \in T : ~(<<y, x>> \in R)
  BY <1>1, <1>2, WFMin
<1>5. x \in Nat /\ x \notin S /\ x # 0
  BY <1>4
<1>6. x - 1 \in Nat /\ x - 1 < x /\ (x - 1) + 1 = x
  BY <1>5
<1>7. x - 1 \in S
  BY <1>3, <1>4, <1>5, <1>6
<1> QED BY <1>5, <1>6, <1>7

\* The same rows, the last first.
LEMMA ReverseRows ==
    ASSUME NEW S, NEW s \in Seq(S)
    PROVE  /\ Reverse(s) \in Seq(S) /\ Len(Reverse(s)) = Len(s)
           /\ \A i \in 1 .. Len(s) : Reverse(s)[i] = s[(Len(s) - i) + 1]
  BY DEF Reverse

\* A row added last is the first of the reversed ones.
LEMMA ReverseAppend ==
    ASSUME NEW S, NEW s \in Seq(S), NEW x \in S
    PROVE  Reverse(Append(s, x)) = <<x>> \o Reverse(s)
<1> DEFINE a == Reverse(Append(s, x))
           b == <<x>> \o Reverse(s)
<1>1. Append(s, x) \in Seq(S) /\ Len(Append(s, x)) = Len(s) + 1 /\ Len(s) \in Nat
  OBVIOUS
<1>2. a \in Seq(S) /\ Len(a) = Len(s) + 1
  BY <1>1, ReverseRows
<1>3. b \in Seq(S) /\ Len(b) = Len(s) + 1
  BY <1>1, ReverseRows
<1>4. ASSUME NEW i \in 1 .. Len(s) + 1 PROVE a[i] = b[i]
  <2>1. a[i] = Append(s, x)[(Len(s) + 1 - i) + 1]
    <3> DEFINE r == Append(s, x)
    <3> HIDE DEF r
    <3>1. r \in Seq(S) /\ i \in 1 .. Len(r) /\ Len(r) = Len(s) + 1
      BY <1>1 DEF r
    <3>2. Reverse(r)[i] = r[(Len(r) - i) + 1]
      BY <3>1, ReverseRows
    <3> QED BY <3>1, <3>2 DEF r
  <2>2. CASE i = 1
    BY <1>1, <2>1, <2>2, ReverseRows
  <2>3. CASE i # 1
    <3>1. i - 1 \in 1 .. Len(s) /\ (Len(s) + 1 - i) + 1 \in 1 .. Len(s)
      BY <1>1, <2>3
    <3>2. a[i] = s[(Len(s) - (i - 1)) + 1]
      BY <1>1, <2>1, <3>1
    <3>3. b[i] = Reverse(s)[i - 1]
      BY <2>3, <3>1, ReverseRows
    <3> QED BY <3>1, <3>2, <3>3, ReverseRows
  <2> QED BY <2>2, <2>3
<1> HIDE DEF a, b
<1>5. a = b
  BY <1>2, <1>3, <1>4, SeqEqual
<1> QED BY <1>5 DEF a, b

\* What only asks which rows there are does not see their order.
LEMMA RangeOfReverse ==
    ASSUME NEW S, NEW s \in Seq(S)
    PROVE  Range(Reverse(s)) = Range(s)
<1>1. Len(s) \in Nat /\ DOMAIN s = 1 .. Len(s) /\ DOMAIN Reverse(s) = 1 .. Len(s)
  BY ReverseRows
<1>2. \A i \in 1 .. Len(s) : /\ (Len(s) - i) + 1 \in 1 .. Len(s)
                             /\ (Len(s) - ((Len(s) - i) + 1)) + 1 = i
  BY <1>1
<1>3. \A i \in 1 .. Len(s) : /\ Reverse(s)[i] = s[(Len(s) - i) + 1]
                            /\ s[i] = Reverse(s)[(Len(s) - i) + 1]
  BY <1>2, ReverseRows
<1> QED BY <1>1, <1>2, <1>3 DEF Range

\* f[i] is what the first i rows of s keep of the set P.
Keeps(f, s, P) ==
    /\ f[0] = <<>>
    /\ \A i \in 1 .. Len(s) :
          f[i] = IF s[i] \in P THEN Append(f[i - 1], s[i]) ELSE f[i - 1]

\* Among is one such function, at the last row.
LEMMA AmongKeeps ==
    ASSUME NEW S, NEW s \in Seq(S), NEW P
    PROVE  \E f : /\ Keeps(f, s, P) /\ Among(s, P) = f[Len(s)]
                  /\ \A i \in 0 .. Len(s) : f[i] \in Seq(S)
<1> DEFINE Body(f, n) == [i \in 0 .. n |-> IF i = 0 THEN <<>>
                          ELSE IF s[i] \in P THEN Append(f[i - 1], s[i]) ELSE f[i - 1]]
           picked == CHOOSE f : f = Body(f, Len(s))
<1>1. Among(s, P) = picked[Len(s)]
  BY DEF Among
<1>2. ASSUME NEW n \in Nat PROVE \E f : f = Body(f, n)
  <2> DEFINE T == {m \in Nat : \E f : f = Body(f, m)}
  <2>1. 0 \in T
    <3> DEFINE f == [i \in 0 .. 0 |-> <<>>]
    <3>1. f = Body(f, 0)
      OBVIOUS
    <3> QED BY <3>1
  <2>2. ASSUME NEW m \in T PROVE m + 1 \in T
    <3>1. PICK f : f = Body(f, m)
      BY <2>2
    <3> DEFINE last == IF s[m + 1] \in P THEN Append(f[m], s[m + 1]) ELSE f[m]
               g == [i \in 0 .. m + 1 |-> IF i <= m THEN f[i] ELSE last]
    <3>2. ASSUME NEW i \in 0 .. m + 1
          PROVE  g[i] = IF i = 0 THEN <<>>
                        ELSE IF s[i] \in P THEN Append(g[i - 1], s[i]) ELSE g[i - 1]
      <4>1. CASE i = 0
        BY <3>1, <4>1
      <4>2. CASE i # 0 /\ i <= m
        <5>1. i \in 0 .. m /\ i - 1 \in 0 .. m + 1 /\ i - 1 <= m
          BY <4>2
        <5>2. g[i] = f[i] /\ g[i - 1] = f[i - 1]
          BY <4>2, <5>1
        <5>3. f[i] = IF s[i] \in P THEN Append(f[i - 1], s[i]) ELSE f[i - 1]
          BY <3>1, <4>2, <5>1
        <5> QED BY <4>2, <5>2, <5>3
      <4>3. CASE i = m + 1
        <5>1. m \in 0 .. m + 1 /\ i - 1 = m /\ ~(m + 1 <= m) /\ i # 0
          BY <4>3
        <5>2. g[i] = last /\ g[m] = f[m]
          BY <4>3, <5>1
        <5> QED BY <4>3, <5>1, <5>2
      <4> QED BY <4>1, <4>2, <4>3
    <3>3. g = [i \in 0 .. m + 1 |-> g[i]] /\ m + 1 \in Nat
      BY <2>2
    <3> HIDE DEF g
    <3>4. g = Body(g, m + 1)
      BY <3>2, <3>3
    <3> QED BY <3>3, <3>4
  <2> HIDE DEF T
  <2>3. T = Nat
    BY <2>1, <2>2, Induction DEF T
  <2> QED BY <2>3 DEF T
<1> DEFINE n == Len(s)
<1>3. n \in Nat /\ \A i \in 1 .. n : s[i] \in S
  OBVIOUS
<1>4. picked = Body(picked, n)
  BY <1>2, <1>3
<1> HIDE DEF picked
<1>5. Keeps(picked, s, P)
  <2>1. \A i \in 0 .. n : picked[i] = IF i = 0 THEN <<>>
              ELSE IF s[i] \in P THEN Append(picked[i - 1], s[i]) ELSE picked[i - 1]
    BY <1>4
  <2> QED BY <1>3, <2>1 DEF Keeps
<1> DEFINE T == {i \in Nat : i <= n => picked[i] \in Seq(S)}
<1>6. 0 \in T
  <2>1. picked[0] \in Seq(S)
    BY <1>5 DEF Keeps
  <2> QED BY <2>1
<1>7. ASSUME NEW i \in T PROVE i + 1 \in T
  <2>1. CASE i + 1 <= n
    <3>1. i + 1 \in 1 .. n /\ (i + 1) - 1 = i /\ i <= n
      BY <1>3, <1>7, <2>1
    <3>2. picked[i + 1] = IF s[i + 1] \in P THEN Append(picked[i], s[i + 1]) ELSE picked[i]
      BY <1>3, <1>5, <1>7, <3>1 DEF Keeps
    <3>3. picked[i] \in Seq(S) /\ s[i + 1] \in S
      BY <1>3, <1>7, <3>1
    <3>4. picked[i + 1] \in Seq(S)
      BY <3>2, <3>3
    <3> QED BY <1>7, <3>4
  <2> QED BY <1>7, <2>1
<1> HIDE DEF T
<1>8. T = Nat
  BY <1>6, <1>7, Induction DEF T
<1>9. \A i \in 0 .. n : picked[i] \in Seq(S)
  <2>1. \A i \in 0 .. n : i \in Nat /\ i <= n
    BY <1>3
  <2> QED BY <1>8, <2>1 DEF T
<1> QED BY <1>1, <1>5, <1>9

\* A row added at the end is picked or not, and no other row is touched.
LEMMA AmongLast ==
    ASSUME NEW S, NEW s \in Seq(S), NEW x \in S, NEW P
    PROVE  Among(Append(s, x), P) = IF x \in P THEN Append(Among(s, P), x) ELSE Among(s, P)
<1> DEFINE r == Append(s, x)
           n == Len(s)
<1>1. /\ r \in Seq(S) /\ n \in Nat /\ Len(r) = n + 1
      /\ r[n + 1] = x /\ \A i \in 1 .. n : r[i] = s[i]
  OBVIOUS
<1> HIDE DEF r
<1>2. PICK f : Keeps(f, s, P) /\ Among(s, P) = f[n]
  BY AmongKeeps
<1>3. PICK g : Keeps(g, r, P) /\ Among(r, P) = g[Len(r)]
  BY <1>1, AmongKeeps
<1> HIDE DEF n
<1> DEFINE T == {i \in Nat : i <= n => g[i] = f[i]}
<1>4. 0 \in T
  BY <1>2, <1>3 DEF Keeps
<1>5. ASSUME NEW i \in T PROVE i + 1 \in T
  <2>1. CASE i + 1 <= n
    <3>1. i + 1 \in 1 .. n /\ i + 1 \in 1 .. Len(r) /\ (i + 1) - 1 = i /\ g[i] = f[i]
      BY <1>1, <1>5, <2>1
    <3>2. f[i + 1] = IF s[i + 1] \in P THEN Append(f[i], s[i + 1]) ELSE f[i]
      BY <1>2, <3>1 DEF Keeps, n
    <3>3. g[i + 1] = IF r[i + 1] \in P THEN Append(g[i], r[i + 1]) ELSE g[i]
      BY <1>3, <3>1 DEF Keeps
    <3>4. g[i + 1] = f[i + 1]
      BY <1>1, <3>1, <3>2, <3>3
    <3> QED BY <1>5, <3>4
  <2> QED BY <1>5, <2>1
<1> HIDE DEF T
<1>6. T = Nat
  BY <1>4, <1>5, Induction DEF T
<1>7. g[n] = f[n]
  BY <1>1, <1>6 DEF T
<1>8. n + 1 \in 1 .. Len(r) /\ (n + 1) - 1 = n
  BY <1>1
<1>9. g[n + 1] = IF r[n + 1] \in P THEN Append(g[n], r[n + 1]) ELSE g[n]
  BY <1>3, <1>8 DEF Keeps
<1> QED BY <1>1, <1>2, <1>3, <1>7, <1>9 DEF r

\* The same for a row put before the others.
LEMMA AmongFirst ==
    ASSUME NEW S, NEW s \in Seq(S), NEW x \in S, NEW P
    PROVE  Among(<<x>> \o s, P) = IF x \in P THEN <<x>> \o Among(s, P) ELSE Among(s, P)
<1> DEFINE r == <<x>> \o s
           n == Len(s)
           With(t) == IF x \in P THEN <<x>> \o t ELSE t
<1>1. /\ r \in Seq(S) /\ n \in Nat /\ Len(r) = n + 1
      /\ r[1] = x /\ \A i \in 1 .. n : r[i + 1] = s[i] /\ s[i] \in S
  OBVIOUS
<1> HIDE DEF r
<1>2. PICK f : Keeps(f, s, P) /\ Among(s, P) = f[n] /\ \A i \in 0 .. n : f[i] \in Seq(S)
  BY AmongKeeps
<1>3. PICK g : Keeps(g, r, P) /\ Among(r, P) = g[Len(r)]
  BY <1>1, AmongKeeps
<1> HIDE DEF n
<1> DEFINE T == {i \in Nat : i <= n => g[i + 1] = With(f[i])}
<1>4. 0 \in T
  <2>1. 1 \in 1 .. Len(r) /\ 1 - 1 = 0 /\ 0 + 1 = 1
    BY <1>1
  <2>2. g[1] = IF r[1] \in P THEN Append(g[0], r[1]) ELSE g[0]
    BY <1>3, <2>1 DEF Keeps
  <2>3. g[0] = <<>> /\ f[0] = <<>>
    BY <1>2, <1>3 DEF Keeps
  <2>4. g[1] = With(f[0])
    BY <1>1, <2>2, <2>3
  <2> QED BY <2>1, <2>4
<1>5. ASSUME NEW i \in T PROVE i + 1 \in T
  <2>1. CASE i + 1 <= n
    <3>1. /\ i + 1 \in 1 .. n /\ i \in 0 .. n /\ (i + 1) + 1 \in 1 .. Len(r)
          /\ (i + 1) - 1 = i /\ ((i + 1) + 1) - 1 = i + 1
      BY <1>1, <1>5, <2>1
    <3>2. f[i + 1] = IF s[i + 1] \in P THEN Append(f[i], s[i + 1]) ELSE f[i]
      BY <1>2, <3>1 DEF Keeps, n
    <3>3. g[(i + 1) + 1] = IF r[(i + 1) + 1] \in P THEN Append(g[i + 1], r[(i + 1) + 1])
                           ELSE g[i + 1]
      BY <1>3, <3>1 DEF Keeps
    <3>4. g[i + 1] = With(f[i]) /\ r[(i + 1) + 1] = s[i + 1]
      BY <1>1, <1>5, <3>1
    <3>5. f[i] \in Seq(S) /\ s[i + 1] \in S
      BY <1>1, <1>2, <3>1
    <3>6. \A t \in Seq(S), y \in S : Append(<<x>> \o t, y) = <<x>> \o Append(t, y)
      OBVIOUS
    <3>7. g[(i + 1) + 1] = With(f[i + 1])
      BY <3>2, <3>3, <3>4, <3>5, <3>6
    <3> QED BY <1>5, <3>7
  <2> QED BY <1>5, <2>1
<1> HIDE DEF T
<1>6. T = Nat
  BY <1>4, <1>5, Induction DEF T
<1>7. g[n + 1] = With(f[n])
  BY <1>1, <1>6 DEF T
<1> QED BY <1>1, <1>2, <1>3, <1>7 DEF r

\* Rows are picked alike from either end.
LEMMA AmongReverse ==
    ASSUME NEW S, NEW s \in Seq(S), NEW P
    PROVE  /\ Among(s, P) \in Seq(S)
           /\ Among(Reverse(s), P) = Reverse(Among(s, P))
<1> DEFINE Good(t) == /\ Among(t, P) \in Seq(S)
                      /\ Among(Reverse(t), P) = Reverse(Among(t, P))
           T == {n \in Nat : \A t \in Seq(S) : Len(t) = n => Good(t)}
<1>1. 0 \in T
  <2>1. SUFFICES ASSUME NEW t \in Seq(S), Len(t) = 0 PROVE Good(t)
    OBVIOUS
  <2>2. t = <<>> /\ Reverse(t) = <<>>
    BY <2>1 DEF Reverse
  <2>3. PICK f : Keeps(f, t, P) /\ Among(t, P) = f[Len(t)]
    BY AmongKeeps
  <2>4. Among(t, P) = <<>>
    BY <2>1, <2>3 DEF Keeps
  <2> QED BY <2>2, <2>4
<1>2. ASSUME NEW n \in T PROVE n + 1 \in T
  <2>1. SUFFICES ASSUME NEW t \in Seq(S), Len(t) = n + 1 PROVE Good(t)
    BY <1>2
  <2>2. PICK u \in Seq(S), x \in S : t = Append(u, x) /\ Len(u) = n
    <3> DEFINE u == SubSeq(t, 1, n)
    <3>1. u \in Seq(S) /\ t[n + 1] \in S /\ t = Append(u, t[n + 1]) /\ Len(u) = n
      BY <1>2, <2>1
    <3> HIDE DEF u
    <3> QED BY <3>1
  <2>3. Good(u)
    BY <1>2, <2>2
  <2>4. Reverse(u) \in Seq(S) /\ Reverse(t) = <<x>> \o Reverse(u)
    BY <2>2, ReverseRows, ReverseAppend
  <2>5. Among(Reverse(t), P)
          = IF x \in P THEN <<x>> \o Among(Reverse(u), P) ELSE Among(Reverse(u), P)
    <3>1. \A v \in Seq(S) : Among(<<x>> \o v, P)
                              = IF x \in P THEN <<x>> \o Among(v, P) ELSE Among(v, P)
      BY AmongFirst
    <3> QED BY <2>4, <3>1
  <2>6. Among(t, P) = IF x \in P THEN Append(Among(u, P), x) ELSE Among(u, P)
    BY <2>2, AmongLast
  <2>7. Reverse(Append(Among(u, P), x)) = <<x>> \o Reverse(Among(u, P))
    BY <2>3, ReverseAppend
  <2>8. CASE x \in P
    <3>1. Among(Reverse(t), P) = <<x>> \o Reverse(Among(u, P))
      BY <2>3, <2>5, <2>8
    <3>2. Among(t, P) = Append(Among(u, P), x) /\ Among(t, P) \in Seq(S)
      BY <2>2, <2>3, <2>6, <2>8
    <3> QED BY <2>7, <3>1, <3>2
  <2>9. CASE x \notin P
    BY <2>3, <2>5, <2>6, <2>9
  <2> QED BY <2>8, <2>9
<1> HIDE DEF T
<1>3. T = Nat
  BY <1>1, <1>2, Induction DEF T
<1>4. Len(s) \in Nat
  OBVIOUS
<1> QED BY <1>3, <1>4 DEF T

IsRows(r) == \E S : r \in Seq(S)

ExamRows == [id : Nat, text : Nat, deleted : BOOLEAN]

\* The lists that are picked newest first, and what both stores keep alike.
Turned == {"drafts", "checks", "verifications", "executions", "submissions", "reports",
           "logs", "events", "actions"}
Same == {"questions", "testCases", "device", "session"}
Columns == Turned \cup Same \cup {"exams", "candidates", "completed"}

Numbered(rows) ==
    /\ rows \in Seq(ExamRows) /\ Len(rows) > 0
    /\ \A i \in 1 .. Len(rows) : rows[i].id = i - 1

(* What the tables d and the lists m have in common.  The candidates of a     *)
(* deleted exam may differ: only the row is marked ready.                     *)
Alike(d, m) ==
    /\ Columns \subseteq DOMAIN d /\ Columns \subseteq DOMAIN m
    /\ Numbered(d.exams) /\ m.exams = Reverse(d.exams)
    /\ \A t \in Turned : IsRows(d[t]) /\ m[t] = Reverse(d[t])
    /\ \A t \in Same : m[t] = d[t]
    /\ Found(d) => m.candidates = d.candidates

\* The same, of rows of any kind.
LEMMA RowsAppend ==
    ASSUME NEW r, IsRows(r), NEW x
    PROVE  IsRows(Append(r, x)) /\ Reverse(Append(r, x)) = <<x>> \o Reverse(r)
<1>1. PICK S : r \in Seq(S)
  BY DEF IsRows
<1> DEFINE U == S \cup {x}
<1>2. r \in Seq(U) /\ x \in U
  BY <1>1, SeqMonotonic
<1> HIDE DEF U
<1>3. Append(r, x) \in Seq(U)
  BY <1>2
<1> QED BY <1>2, <1>3, ReverseAppend DEF IsRows

\* The newest row is the last of a table and the first of a list; picking rows and
\* turning them round commute.
LEMMA RowsReverse ==
    ASSUME NEW r, IsRows(r)
    PROVE  /\ OfList(Reverse(r)) = OfTable(r) /\ Len(Reverse(r)) = Len(r)
           /\ Range(Reverse(r)) = Range(r)
           /\ \A P : /\ IsRows(Among(r, P))
                     /\ Among(Reverse(r), P) = Reverse(Among(r, P))
<1>1. PICK S : r \in Seq(S)
  BY DEF IsRows
<1>2. Len(Reverse(r)) = Len(r) /\ Len(r) \in Nat /\ Reverse(r) \in Seq(S)
  BY <1>1, ReverseRows
<1>3. CASE Len(r) = 0
  <2>1. r = <<>> /\ Reverse(r) = <<>>
    BY <1>1, <1>2, <1>3
  <2>2. OfList(Reverse(r)) = OfTable(r)
    BY <2>1 DEF OfList, OfTable
  <2> QED BY <1>1, <1>2, <2>2, RangeOfReverse, AmongReverse DEF IsRows
<1>4. CASE Len(r) # 0
  <2>1. r # <<>> /\ Reverse(r) # <<>> /\ 1 \in 1 .. Len(r)
    BY <1>1, <1>2, <1>4
  <2>2. Reverse(r)[1] = r[Len(r)]
    <3>1. Reverse(r)[1] = r[(Len(r) - 1) + 1] /\ (Len(r) - 1) + 1 = Len(r)
      BY <1>1, <1>2, <2>1, ReverseRows
    <3> QED BY <3>1
  <2>3. OfList(Reverse(r)) = OfTable(r)
    BY <2>1, <2>2 DEF OfList, OfTable
  <2> QED BY <1>1, <1>2, <2>3, RangeOfReverse, AmongReverse DEF IsRows
<1> QED BY <1>2, <1>3, <1>4

\* Exam 0 is the first row.
LEMMA FirstExam ==
    ASSUME NEW s, Numbered(s.exams)
    PROVE  Exam(s) = s.exams[1] /\ s.exams[1] \in ExamRows /\ s.exams[1].id = 0
<1> DEFINE rows == s.exams
<1>1. rows \in Seq(ExamRows) /\ 1 \in 1 .. Len(rows) /\ DOMAIN rows = 1 .. Len(rows)
  BY DEF Numbered
<1>2. rows[1] \in ExamRows /\ rows[1].id = 0 /\ rows[1] \in Range(rows)
  BY <1>1 DEF Numbered, Range
<1>3. ASSUME NEW x \in Range(rows), x.id = 0 PROVE x = rows[1]
  <2>1. PICK i \in 1 .. Len(rows) : x = rows[i]
    BY <1>1 DEF Range
  <2>2. i - 1 = 0
    BY <1>3, <2>1 DEF Numbered
  <2> QED BY <2>1, <2>2
<1> QED BY <1>2, <1>3 DEF Exam

\* An exam is looked for by its number, and so found from either end.
LEMMA FoundAlike ==
    ASSUME NEW d, NEW m, Numbered(d.exams), m.exams = Reverse(d.exams)
    PROVE  Exam(m) = Exam(d) /\ (Found(m) <=> Found(d)) /\ Range(m.exams) = Range(d.exams)
<1>1. Range(m.exams) = Range(d.exams)
  BY RangeOfReverse DEF Numbered
<1>2. Exam(m) = Exam(d)
  BY <1>1 DEF Exam
<1> QED BY <1>1, <1>2 DEF Found

-----------------------------------------------------------------------------
(* One table and its list are changed. *)

\* A table whose last row is the first of its list.
LEMMA PutTurned ==
    ASSUME NEW d, NEW m, Alike(d, m), NEW t \in Turned, NEW v, IsRows(v),
           NEW w, w = Reverse(v)
    PROVE  Alike([d EXCEPT ![t] = v], [m EXCEPT ![t] = w])
<1> DEFINE e == [d EXCEPT ![t] = v]
           n == [m EXCEPT ![t] = w]
<1>1. /\ DOMAIN e = DOMAIN d /\ DOMAIN n = DOMAIN m
      /\ e[t] = v /\ n[t] = w
      /\ \A u \in Columns \ {t} : e[u] = d[u] /\ n[u] = m[u]
  BY DEF Alike, Columns
<1>2. e.exams = d.exams /\ n.exams = m.exams /\ e.candidates = d.candidates
      /\ n.candidates = m.candidates
  BY <1>1 DEF Columns, Turned
<1> HIDE DEF e, n
<1>3. Found(e) = Found(d)
  BY <1>2 DEF Found, Exam
<1>4. \A u \in Turned : IsRows(e[u]) /\ n[u] = Reverse(e[u])
  BY <1>1 DEF Alike, Columns
<1>5. \A u \in Same : n[u] = e[u]
  BY <1>1 DEF Alike, Columns, Same, Turned
<1>6. Alike(e, n)
  BY <1>1, <1>2, <1>3, <1>4, <1>5 DEF Alike
<1> QED BY <1>6 DEF e, n

\* A column that is the same in both.
LEMMA PutSame ==
    ASSUME NEW d, NEW m, Alike(d, m), NEW t \in Same, NEW v
    PROVE  Alike([d EXCEPT ![t] = v], [m EXCEPT ![t] = v])
<1> DEFINE e == [d EXCEPT ![t] = v]
           n == [m EXCEPT ![t] = v]
<1>1. /\ DOMAIN e = DOMAIN d /\ DOMAIN n = DOMAIN m
      /\ e[t] = v /\ n[t] = v
      /\ \A u \in Columns \ {t} : e[u] = d[u] /\ n[u] = m[u]
  BY DEF Alike, Columns
<1>2. e.exams = d.exams /\ n.exams = m.exams /\ e.candidates = d.candidates
      /\ n.candidates = m.candidates
  BY <1>1 DEF Columns, Same
<1> HIDE DEF e, n
<1>3. Found(e) = Found(d)
  BY <1>2 DEF Found, Exam
<1>4. \A u \in Turned : IsRows(e[u]) /\ n[u] = Reverse(e[u])
  BY <1>1 DEF Alike, Columns, Same, Turned
<1>5. \A u \in Same : n[u] = e[u]
  BY <1>1 DEF Alike, Columns
<1>6. Alike(e, n)
  BY <1>1, <1>2, <1>3, <1>4, <1>5 DEF Alike
<1> QED BY <1>6 DEF e, n

\* The candidates of an exam that is there, or of the table alone when it is not.
LEMMA PutCandidates ==
    ASSUME NEW d, NEW m, Alike(d, m), NEW v
    PROVE  /\ Alike([d EXCEPT !.candidates = v], [m EXCEPT !.candidates = v])
           /\ ~Found(d) => Alike([d EXCEPT !.candidates = v], m)
<1> DEFINE e == [d EXCEPT !.candidates = v]
           n == [m EXCEPT !.candidates = v]
<1>1. /\ DOMAIN e = DOMAIN d /\ DOMAIN n = DOMAIN m
      /\ e.candidates = v /\ n.candidates = v
      /\ \A u \in Columns \ {"candidates"} : e[u] = d[u] /\ n[u] = m[u]
  BY DEF Alike, Columns
<1>2. e.exams = d.exams /\ n.exams = m.exams
  BY <1>1 DEF Columns
<1> HIDE DEF e, n
<1>3. Found(e) = Found(d)
  BY <1>2 DEF Found, Exam
<1>4. \A u \in Turned : IsRows(e[u]) /\ n[u] = Reverse(e[u]) /\ m[u] = Reverse(e[u])
  BY <1>1 DEF Alike, Columns, Turned
<1>5. \A u \in Same : n[u] = e[u] /\ m[u] = e[u]
  BY <1>1 DEF Alike, Columns, Same
<1>6. Alike(e, n) /\ (~Found(d) => Alike(e, m))
  BY <1>1, <1>2, <1>3, <1>4, <1>5 DEF Alike
<1> QED BY <1>6 DEF e, n

\* The exams, when none comes back.
LEMMA PutExams ==
    ASSUME NEW d, NEW m, Alike(d, m), NEW v, Numbered(v), NEW w, w = Reverse(v),
           Found(d) \/ v[1] = d.exams[1]
    PROVE  Alike([d EXCEPT !.exams = v], [m EXCEPT !.exams = w])
<1> DEFINE e == [d EXCEPT !.exams = v]
           n == [m EXCEPT !.exams = w]
<1>1. /\ DOMAIN e = DOMAIN d /\ DOMAIN n = DOMAIN m
      /\ e.exams = v /\ n.exams = w
      /\ \A u \in Columns \ {"exams"} : e[u] = d[u] /\ n[u] = m[u]
  BY DEF Alike, Columns
<1>2. e.candidates = d.candidates /\ n.candidates = m.candidates
  BY <1>1 DEF Columns
<1> HIDE DEF e, n
<1>3. Found(e) => Found(d)
  <2>1. Numbered(d.exams) /\ Numbered(e.exams)
    BY <1>1 DEF Alike
  <2>2. Exam(d) = d.exams[1] /\ Exam(e) = v[1]
    BY <1>1, <2>1, FirstExam
  <2> QED BY <2>2 DEF Found
<1>4. \A u \in Turned : IsRows(e[u]) /\ n[u] = Reverse(e[u])
  BY <1>1 DEF Alike, Columns, Turned
<1>5. \A u \in Same : n[u] = e[u]
  BY <1>1 DEF Alike, Columns, Same
<1>6. Alike(e, n)
  BY <1>1, <1>2, <1>3, <1>4, <1>5 DEF Alike
<1> QED BY <1>6 DEF e, n

\* A row added at the end of a table and at the head of its list.
LEMMA AddTurned ==
    ASSUME NEW d, NEW m, Alike(d, m), NEW t \in Turned, NEW row
    PROVE  Alike(AddLast(d, t, row), AddFirst(m, t, row))
<1> DEFINE v == Append(d[t], row)
           w == <<row>> \o m[t]
<1>1. IsRows(d[t]) /\ m[t] = Reverse(d[t])
  BY DEF Alike
<1>2. IsRows(v) /\ w = Reverse(v)
  BY <1>1, RowsAppend
<1>3. AddLast(d, t, row) = [d EXCEPT ![t] = v] /\ AddFirst(m, t, row) = [m EXCEPT ![t] = w]
  BY DEF AddLast, AddFirst
<1> HIDE DEF v, w
<1>4. Alike([d EXCEPT ![t] = v], [m EXCEPT ![t] = w])
  BY <1>2, PutTurned
<1> QED BY <1>3, <1>4, Zenon

LEMMA AddSame ==
    ASSUME NEW d, NEW m, Alike(d, m), NEW t \in Same, NEW row
    PROVE  Alike(AddLast(d, t, row), AddLast(m, t, row))
<1> DEFINE v == Append(d[t], row)
<1>1. m[t] = d[t]
  BY DEF Alike
<1>2. AddLast(d, t, row) = [d EXCEPT ![t] = v] /\ AddLast(m, t, row) = [m EXCEPT ![t] = v]
  BY <1>1 DEF AddLast
<1> HIDE DEF v
<1>3. Alike([d EXCEPT ![t] = v], [m EXCEPT ![t] = v])
  BY PutSame
<1> QED BY <1>2, <1>3, Zenon

LEMMA AddExam ==
    ASSUME NEW d, NEW m, Alike(d, m)
    PROVE  Alike(AddLast(d, "exams", NewExam(d)), AddFirst(m, "exams", NewExam(m)))
<1> DEFINE row == NewExam(d)
           v == Append(d.exams, row)
           w == <<row>> \o m.exams
<1>1. /\ d.exams \in Seq(ExamRows) /\ Len(d.exams) \in Nat /\ Len(d.exams) > 0
      /\ m.exams = Reverse(d.exams)
      /\ \A i \in 1 .. Len(d.exams) : d.exams[i].id = i - 1
  BY DEF Alike, Numbered
<1>2. Len(m.exams) = Len(d.exams)
  BY <1>1, ReverseRows
<1>3. NewExam(m) = row
  BY <1>2 DEF NewExam
<1>4. row \in ExamRows /\ row.id = Len(d.exams)
  BY <1>1 DEF NewExam, ExamRows
<1>5. AddLast(d, "exams", row) = [d EXCEPT !.exams = v]
      /\ AddFirst(m, "exams", row) = [m EXCEPT !.exams = w]
  BY DEF AddLast, AddFirst
<1> HIDE DEF row
<1>6. /\ v \in Seq(ExamRows) /\ Len(v) = Len(d.exams) + 1 /\ v[Len(d.exams) + 1] = row
      /\ \A i \in 1 .. Len(d.exams) : v[i] = d.exams[i]
  BY <1>1, <1>4
<1>7. Reverse(v) = w
  BY <1>1, <1>4, ReverseAppend
<1> HIDE DEF v, w
<1>8. Numbered(v)
  <2>1. ASSUME NEW i \in 1 .. Len(v) PROVE v[i].id = i - 1
    <3>1. CASE i = Len(d.exams) + 1
      BY <1>1, <1>4, <1>6, <3>1
    <3>2. CASE i \in 1 .. Len(d.exams)
      BY <1>1, <1>6, <3>2
    <3> QED BY <1>1, <1>6, <3>1, <3>2
  <2> QED BY <1>1, <1>6, <2>1 DEF Numbered
<1>9. v[1] = d.exams[1]
  BY <1>1, <1>6
<1>10. Alike([d EXCEPT !.exams = v], [m EXCEPT !.exams = w])
  BY <1>7, <1>8, <1>9, PutExams
<1> QED BY <1>3, <1>5, <1>10, Zenon DEF row

\* Exam 0 is written in both stores, while it is there.
LEMMA SetExamBoth ==
    ASSUME NEW d, NEW m, Alike(d, m), Found(d), NEW row \in ExamRows, row.id = 0
    PROVE  Alike(SetExam(d, row), SetExam(m, row))
<1> DEFINE v == SetRow(d.exams, row)
           w == SetRow(m.exams, row)
           n == Len(d.exams)
<1>1. /\ d.exams \in Seq(ExamRows) /\ n \in Nat /\ n > 0 /\ DOMAIN d.exams = 1 .. n
      /\ m.exams = Reverse(d.exams)
      /\ \A i \in 1 .. n : d.exams[i].id = i - 1 /\ d.exams[i] \in ExamRows
  BY DEF Alike, Numbered
<1>2. /\ m.exams \in Seq(ExamRows) /\ Len(m.exams) = n /\ DOMAIN m.exams = 1 .. n
      /\ \A i \in 1 .. n : m.exams[i] = d.exams[(n - i) + 1]
  BY <1>1, ReverseRows
<1>3. /\ v = [i \in 1 .. n |-> IF d.exams[i].id = 0 THEN row ELSE d.exams[i]]
      /\ w = [i \in 1 .. n |-> IF m.exams[i].id = 0 THEN row ELSE m.exams[i]]
  BY <1>1, <1>2 DEF SetRow
<1>4. SetExam(d, row) = [d EXCEPT !.exams = v] /\ SetExam(m, row) = [m EXCEPT !.exams = w]
  BY DEF SetExam
<1> HIDE DEF v, w, n
<1>5. /\ v \in Seq(ExamRows) /\ Len(v) = n /\ w \in Seq(ExamRows) /\ Len(w) = n
  <2>1. /\ \A i \in 1 .. n : (IF d.exams[i].id = 0 THEN row ELSE d.exams[i]) \in ExamRows
        /\ \A i \in 1 .. n : (IF m.exams[i].id = 0 THEN row ELSE m.exams[i]) \in ExamRows
    <3>1. \A i \in 1 .. n : m.exams[i] \in ExamRows
      BY <1>2
    <3> QED BY <1>1, <3>1
  <2>2. v \in [1 .. n -> ExamRows] /\ w \in [1 .. n -> ExamRows]
    BY <1>3, <2>1
  <2> QED BY <1>1, <2>2
<1>6. Numbered(v)
  <2>1. \A i \in 1 .. n : v[i].id = i - 1
    BY <1>1, <1>3
  <2> QED BY <1>1, <1>5, <2>1 DEF Numbered
<1>7. w = Reverse(v)
  <2>1. /\ Reverse(v) \in Seq(ExamRows) /\ Len(Reverse(v)) = n
        /\ \A i \in 1 .. n : Reverse(v)[i] = v[(n - i) + 1]
    BY <1>5, ReverseRows
  <2>2. \A i \in 1 .. n : (n - i) + 1 \in 1 .. n
    BY <1>1
  <2>3. \A i \in 1 .. n : w[i] = Reverse(v)[i]
    <3>1. SUFFICES ASSUME NEW i \in 1 .. n PROVE w[i] = Reverse(v)[i]
      OBVIOUS
    <3> DEFINE j == (n - i) + 1
    <3>2. j \in 1 .. n
      BY <2>2
    <3>3. m.exams[i] = d.exams[j] /\ Reverse(v)[i] = v[j]
      BY <1>2, <2>1
    <3> HIDE DEF j
    <3>4. /\ v[j] = IF d.exams[j].id = 0 THEN row ELSE d.exams[j]
          /\ w[i] = IF m.exams[i].id = 0 THEN row ELSE m.exams[i]
      BY <1>3, <3>2
    <3> QED BY <3>3, <3>4
  <2> QED BY <1>5, <2>1, <2>3, SeqEqual
<1>8. Alike([d EXCEPT !.exams = v], [m EXCEPT !.exams = w])
  BY <1>6, <1>7, PutExams
<1> QED BY <1>4, <1>8

\* What the readers of both stores find in them.
LEMMA AlikeReads ==
    ASSUME NEW d, NEW m, Alike(d, m)
    PROVE  /\ Found(m) <=> Found(d)
           /\ Exam(m) = Exam(d) /\ Exam(d) \in ExamRows /\ Exam(d).id = 0
           /\ m.device = d.device /\ m.session = d.session
           /\ m.questions = d.questions /\ m.testCases = d.testCases
           /\ OfList(m.checks) = OfTable(d.checks)
           /\ OfList(m.verifications) = OfTable(d.verifications)
           /\ Found(d) => m.candidates = d.candidates
           /\ \A t \in Turned : Len(m[t]) = Len(d[t])
<1>1. /\ Numbered(d.exams) /\ m.exams = Reverse(d.exams)
      /\ m.device = d.device /\ m.session = d.session
      /\ m.questions = d.questions /\ m.testCases = d.testCases
      /\ Found(d) => m.candidates = d.candidates
  BY DEF Alike, Same
<1>2. \A t \in Turned : OfList(m[t]) = OfTable(d[t]) /\ Len(m[t]) = Len(d[t])
  BY RowsReverse DEF Alike
<1>3. OfList(m.checks) = OfTable(d.checks) /\ OfList(m.verifications) = OfTable(d.verifications)
  BY <1>2 DEF Turned
<1> QED BY <1>1, <1>2, <1>3, FoundAlike, FirstExam

\* A sweep changes both stores alike.
LEMMA SweepBoth ==
    ASSUME NEW d, NEW m, Alike(d, m)
    PROVE  /\ Alike(SweptTable(d), SweptList(m))
           /\ Found(SweptTable(d)) <=> Found(d)
           /\ SweptTable(d).candidates = d.candidates
<1>1. m.device = d.device /\ Len(m.events) = Len(d.events)
  BY AlikeReads DEF Turned
<1>2. StaleDevice(m) <=> StaleDevice(d)
  BY <1>1 DEF StaleDevice
<1>3. CASE ~StaleDevice(d)
  BY <1>2, <1>3 DEF SweptTable, SweptList
<1>4. CASE StaleDevice(d)
  <2> DEFINE device == [d.device EXCEPT !.status = "DISCONNECTED"]
             e == Dropped(d)
             n == Dropped(m)
  <2>1. e = [d EXCEPT !["device"] = device] /\ n = [m EXCEPT !["device"] = device]
    BY <1>1 DEF Dropped
  <2> HIDE DEF device
  <2>2. "device" \in Same /\ "events" \in Turned
    BY DEF Same, Turned
  <2> HIDE DEF e, n
  <2>3. Alike(e, n)
    BY <2>1, <2>2, PutSame
  <2>4. e.exams = d.exams /\ e.candidates = d.candidates /\ e.events = d.events
        /\ n.events = m.events
    BY <2>1 DEF Alike, Columns, Turned
  <2> DEFINE row == NewEvent(d, "MISSED")
  <2>5. NewEvent(m, "MISSED") = row
    BY <1>1 DEF NewEvent
  <2> HIDE DEF row
  <2>6. Alike(AddLast(e, "events", row), AddFirst(n, "events", row))
    BY <2>2, <2>3, AddTurned
  <2>7. SweptTable(d) = AddLast(e, "events", row) /\ SweptList(m) = AddFirst(n, "events", row)
    BY <1>2, <1>4, <2>5 DEF SweptTable, SweptList, e, n, row
  <2>8. SweptTable(d).exams = d.exams /\ SweptTable(d).candidates = d.candidates
    <3>1. /\ AddLast(e, "events", row).exams = e.exams
          /\ AddLast(e, "events", row).candidates = e.candidates
      <4>1. Columns \subseteq DOMAIN e
        BY <2>3 DEF Alike
      <4> QED BY <4>1 DEF AddLast, Columns
    <3> QED BY <2>4, <2>7, <3>1
  <2> QED BY <2>6, <2>7, <2>8 DEF Found, Exam
<1> QED BY <1>3, <1>4

(* Until an exam is locked before it has a session, both stores answered the  *)
(* last operation alike and hold the same rows.                              *)
TwoInv ==
    /\ clock \in Nat /\ steps \in Nat /\ startedLocked \in BOOLEAN
    /\ ~startedLocked => answers[1] = answers[2] /\ Alike(tables, lists)

\* An operation that both stores answer alike.
LEMMA BothAnswerStep ==
    ASSUME TwoInv, NEW e, NEW n, NEW x, NEW y, steps' = steps + 1,
           tables' = e, lists' = n, answers' = <<x, y>>, UNCHANGED <<clock, startedLocked>>,
           ~startedLocked => x = y /\ Alike(e, n)
    PROVE  TwoInv'
  BY DEF TwoInv

\* An operation of the staff, which both stores refuse or neither does.
LEMMA StaffStep ==
    ASSUME TwoInv, NEW ok \in BOOLEAN, NEW fine \in BOOLEAN, NEW e, NEW n,
           Do(IF ok THEN Ok(e) ELSE Refused(tables), IF fine THEN Ok(n) ELSE Refused(lists)),
           UNCHANGED startedLocked,
           ~startedLocked => fine = ok /\ (ok => Alike(e, n))
    PROVE  TwoInv'
<1> DEFINE d == IF ok THEN Ok(e) ELSE Refused(tables)
           m == IF fine THEN Ok(n) ELSE Refused(lists)
<1>1. /\ steps' = steps + 1 /\ tables' = d.store /\ lists' = m.store
      /\ answers' = <<d.answer, m.answer>> /\ UNCHANGED <<clock, startedLocked>>
  BY DEF Do
<1>2. ~startedLocked => d.answer = m.answer /\ Alike(d.store, m.store)
  BY DEF TwoInv, Ok, Refused
<1> HIDE DEF d, m
<1> QED BY <1>1, <1>2, BothAnswerStep

-----------------------------------------------------------------------------
(* The operations of the staff. *)

\* The next number comes from the length, which the turned list shares.
LEMMA CreateExamStep == TwoInv /\ CreateExamInStore => TwoInv'
<1> SUFFICES ASSUME TwoInv, CreateExamInStore PROVE TwoInv'
  OBVIOUS
<1> DEFINE e == AddLast(tables, "exams", NewExam(tables))
           n == AddFirst(lists, "exams", NewExam(lists))
<1>1. /\ Do(IF TRUE THEN Ok(e) ELSE Refused(tables), IF TRUE THEN Ok(n) ELSE Refused(lists))
      /\ UNCHANGED startedLocked
  BY DEF CreateExamInStore, OfStaff
<1>2. ~startedLocked => Alike(e, n)
  BY AddExam DEF TwoInv
<1> HIDE DEF e, n
<1> QED BY <1>1, <1>2, StaffStep

\* A report is numbered by those that there are.
LEMMA ReportStep == TwoInv /\ SaveCompetencyReport => TwoInv'
<1> SUFFICES ASSUME TwoInv, SaveCompetencyReport PROVE TwoInv'
  OBVIOUS
<1> DEFINE e == AddLast(tables, "reports", NewReport(tables))
           n == AddFirst(lists, "reports", NewReport(lists))
<1>1. /\ Do(IF TRUE THEN Ok(e) ELSE Refused(tables), IF TRUE THEN Ok(n) ELSE Refused(lists))
      /\ UNCHANGED startedLocked
  BY DEF SaveCompetencyReport, OfStaff
<1>2. ASSUME ~startedLocked PROVE Alike(e, n)
  <2>1. NewReport(lists) = NewReport(tables) /\ "reports" \in Turned
    BY <1>2, AlikeReads DEF TwoInv, NewReport, Turned
  <2> QED BY <1>2, <2>1, AddTurned DEF TwoInv
<1> HIDE DEF e, n
<1> QED BY <1>1, <1>2, StaffStep

\* An exam that is there is there in both.
LEMMA FoundBoth == TwoInv /\ ~startedLocked =>
    Alike(tables, lists) /\ (Found(lists) = Found(tables))
  BY AlikeReads DEF TwoInv, Found

\* The same, of an operation on an exam that must be there.
LEMMA FoundStep ==
    ASSUME TwoInv, NEW e, NEW n,
           Do(IF Found(tables) THEN Ok(e) ELSE Refused(tables),
              IF Found(lists) THEN Ok(n) ELSE Refused(lists)),
           UNCHANGED startedLocked,
           ~startedLocked /\ Found(tables) => Alike(e, n)
    PROVE  TwoInv'
<1>1. Found(tables) \in BOOLEAN /\ Found(lists) \in BOOLEAN
  BY DEF Found
<1> QED BY <1>1, FoundBoth, StaffStep

\* Writing and deleting change the one row of the exam, wherever it stands.
LEMMA UpdateExamStep == TwoInv /\ UpdateExam => TwoInv'
<1> SUFFICES ASSUME TwoInv, UpdateExam PROVE TwoInv'
  OBVIOUS
<1> DEFINE row(s) == [Exam(s) EXCEPT !.text = steps + 1]
           e == SetExam(tables, row(tables))
           n == SetExam(lists, row(lists))
<1>1. /\ Do(IF Found(tables) THEN Ok(e) ELSE Refused(tables),
            IF Found(lists) THEN Ok(n) ELSE Refused(lists))
      /\ UNCHANGED startedLocked
  BY DEF UpdateExam, OfStaff
<1>2. ASSUME ~startedLocked, Found(tables) PROVE Alike(e, n)
  <2>1. /\ Alike(tables, lists) /\ Exam(lists) = Exam(tables) /\ Exam(tables) \in ExamRows
        /\ Exam(tables).id = 0
    BY <1>2, AlikeReads DEF TwoInv
  <2>2. row(lists) = row(tables) /\ row(tables) \in ExamRows /\ row(tables).id = 0
    BY <2>1 DEF TwoInv, ExamRows
  <2> HIDE DEF row
  <2> QED BY <1>2, <2>1, <2>2, SetExamBoth
<1> HIDE DEF e, n
<1> QED BY <1>1, <1>2, FoundStep

LEMMA DeleteExamStep == TwoInv /\ DeleteExam => TwoInv'
<1> SUFFICES ASSUME TwoInv, DeleteExam PROVE TwoInv'
  OBVIOUS
<1> DEFINE row(s) == [Exam(s) EXCEPT !.deleted = TRUE]
           e == SetExam(tables, row(tables))
           n == SetExam(lists, row(lists))
<1>1. /\ Do(IF Found(tables) THEN Ok(e) ELSE Refused(tables),
            IF Found(lists) THEN Ok(n) ELSE Refused(lists))
      /\ UNCHANGED startedLocked
  BY DEF DeleteExam, OfStaff
<1>2. ASSUME ~startedLocked, Found(tables) PROVE Alike(e, n)
  <2>1. /\ Alike(tables, lists) /\ Exam(lists) = Exam(tables) /\ Exam(tables) \in ExamRows
        /\ Exam(tables).id = 0
    BY <1>2, AlikeReads DEF TwoInv
  <2>2. row(lists) = row(tables) /\ row(tables) \in ExamRows /\ row(tables).id = 0
    BY <2>1 DEF ExamRows
  <2> HIDE DEF row
  <2> QED BY <1>2, <2>1, <2>2, SetExamBoth
<1> HIDE DEF e, n
<1> QED BY <1>1, <1>2, FoundStep

\* Questions, their test cases and candidates go to the end of both.
LEMMA AddQuestionStep == TwoInv /\ AddQuestion => TwoInv'
<1> SUFFICES ASSUME TwoInv, AddQuestion PROVE TwoInv'
  OBVIOUS
<1> DEFINE e == AddLast(tables, "questions", NewQuestion(tables))
           n == AddLast(lists, "questions", NewQuestion(lists))
<1>1. /\ Do(IF Found(tables) THEN Ok(e) ELSE Refused(tables),
            IF Found(lists) THEN Ok(n) ELSE Refused(lists))
      /\ UNCHANGED startedLocked
  BY DEF AddQuestion, OfStaff
<1>2. ASSUME ~startedLocked, Found(tables) PROVE Alike(e, n)
  <2>1. Alike(tables, lists) /\ NewQuestion(lists) = NewQuestion(tables)
    BY <1>2, AlikeReads DEF TwoInv, NewQuestion
  <2> QED BY <2>1, AddSame DEF Same
<1> HIDE DEF e, n
<1> QED BY <1>1, <1>2, FoundStep

LEMMA AddCandidateStep == TwoInv /\ AddCandidate => TwoInv'
<1> SUFFICES ASSUME TwoInv, AddCandidate PROVE TwoInv'
  OBVIOUS
<1> DEFINE e == AddLast(tables, "candidates", NewCandidate(tables))
           n == AddLast(lists, "candidates", NewCandidate(lists))
<1>1. /\ Do(IF Found(tables) THEN Ok(e) ELSE Refused(tables),
            IF Found(lists) THEN Ok(n) ELSE Refused(lists))
      /\ UNCHANGED startedLocked
  BY DEF AddCandidate, OfStaff
<1>2. ASSUME ~startedLocked, Found(tables) PROVE Alike(e, n)
  <2>1. Alike(tables, lists) /\ lists.candidates = tables.candidates
    BY <1>2, AlikeReads DEF TwoInv
  <2> DEFINE v == Append(tables.candidates, NewCandidate(tables))
  <2>2. e = [tables EXCEPT !.candidates = v] /\ n = [lists EXCEPT !.candidates = v]
    BY <2>1 DEF AddLast, NewCandidate
  <2> HIDE DEF v
  <2>3. Alike([tables EXCEPT !.candidates = v], [lists EXCEPT !.candidates = v])
    BY <2>1, PutCandidates
  <2> QED BY <2>2, <2>3, Zenon
<1> HIDE DEF e, n
<1> QED BY <1>1, <1>2, FoundStep

\* Logs and actions go to the end of a table and to the head of a list.
LEMMA InviteStep ==
    ASSUME NEW status
    PROVE  TwoInv /\ SendCandidateInviteEmail(status) => TwoInv'
<1> SUFFICES ASSUME TwoInv, SendCandidateInviteEmail(status) PROVE TwoInv'
  OBVIOUS
<1> DEFINE e == AddLast(tables, "logs", NewLog(status))
           n == AddFirst(lists, "logs", NewLog(status))
<1>1. /\ Do(IF Found(tables) THEN Ok(e) ELSE Refused(tables),
            IF Found(lists) THEN Ok(n) ELSE Refused(lists))
      /\ UNCHANGED startedLocked
  BY DEF SendCandidateInviteEmail, OfStaff
<1>2. ASSUME ~startedLocked, Found(tables) PROVE Alike(e, n)
  <2>1. "logs" \in Turned
    BY DEF Turned
  <2> QED BY <1>2, <2>1, AddTurned DEF TwoInv
<1> HIDE DEF e, n
<1> QED BY <1>1, <1>2, FoundStep

LEMMA ActionStep ==
    ASSUME NEW kind
    PROVE  TwoInv /\ CreateProctorAction(kind) => TwoInv'
<1> SUFFICES ASSUME TwoInv, CreateProctorAction(kind) PROVE TwoInv'
  OBVIOUS
<1> DEFINE e == AddLast(tables, "actions", NewAction(kind))
           n == AddFirst(lists, "actions", NewAction(kind))
<1>1. /\ Do(IF Found(tables) THEN Ok(e) ELSE Refused(tables),
            IF Found(lists) THEN Ok(n) ELSE Refused(lists))
      /\ UNCHANGED startedLocked
  BY DEF CreateProctorAction, OfStaff
<1>2. ASSUME ~startedLocked, Found(tables) PROVE Alike(e, n)
  <2>1. "actions" \in Turned
    BY DEF Turned
  <2> QED BY <1>2, <2>1, AddTurned DEF TwoInv
<1> HIDE DEF e, n
<1> QED BY <1>1, <1>2, FoundStep

LEMMA DeviceStep ==
    ASSUME NEW status
    PROVE  TwoInv /\ UpsertProctorDevice(status) => TwoInv'
<1> SUFFICES ASSUME TwoInv, UpsertProctorDevice(status) PROVE TwoInv'
  OBVIOUS
<1> DEFINE e == [tables EXCEPT !.device = DeviceRow(tables, status)]
           n == [lists EXCEPT !.device = DeviceRow(lists, status)]
<1>1. /\ Do(IF Found(tables) THEN Ok(e) ELSE Refused(tables),
            IF Found(lists) THEN Ok(n) ELSE Refused(lists))
      /\ UNCHANGED startedLocked
  BY DEF UpsertProctorDevice, OfStaff
<1>2. ASSUME ~startedLocked, Found(tables) PROVE Alike(e, n)
  <2>1. Alike(tables, lists) /\ lists.device = tables.device
    BY <1>2, AlikeReads DEF TwoInv
  <2> DEFINE row == DeviceRow(tables, status)
  <2>2. DeviceRow(lists, status) = row
    BY <2>1 DEF DeviceRow
  <2> HIDE DEF row
  <2>3. Alike([tables EXCEPT !["device"] = row], [lists EXCEPT !["device"] = row])
    BY <2>1, PutSame DEF Same
  <2> QED BY <2>2, <2>3 DEF row
<1> HIDE DEF e, n
<1> QED BY <1>1, <1>2, FoundStep

LEMMA TestCaseStep ==
    ASSUME NEW public
    PROVE  TwoInv /\ AddTestCase(public) => TwoInv'
<1> SUFFICES ASSUME TwoInv, AddTestCase(public) PROVE TwoInv'
  OBVIOUS
<1> DEFINE ok(s) == Found(s) /\ s.questions # <<>>
           e == AddLast(tables, "testCases", NewTestCase(public))
           n == AddLast(lists, "testCases", NewTestCase(public))
<1>1. /\ Do(IF ok(tables) THEN Ok(e) ELSE Refused(tables),
            IF ok(lists) THEN Ok(n) ELSE Refused(lists))
      /\ UNCHANGED startedLocked
  BY DEF AddTestCase, OfStaff
<1>2. ok(tables) \in BOOLEAN /\ ok(lists) \in BOOLEAN
  BY DEF Found
<1>3. ASSUME ~startedLocked PROVE ok(lists) = ok(tables) /\ Alike(e, n)
  <2>1. Alike(tables, lists) /\ (Found(lists) = Found(tables))
    BY <1>3, FoundBoth
  <2>2. lists.questions = tables.questions
    BY <2>1, AlikeReads
  <2> QED BY <2>1, <2>2, AddSame DEF Same
<1> HIDE DEF ok, e, n
<1> QED BY <1>1, <1>2, <1>3, StaffStep

\* Reading the live state sweeps the device first (platform-store.proctor.ts).
LEMMA LiveStateStep == TwoInv /\ GetLiveProctorState => TwoInv'
<1> SUFFICES ASSUME TwoInv, GetLiveProctorState PROVE TwoInv'
  OBVIOUS
<1> DEFINE e == SweptTable(tables)
           n == SweptList(lists)
           x == IF Found(tables) THEN "ok" ELSE "refused"
           y == IF Found(lists) THEN "ok" ELSE "refused"
<1>1. /\ steps' = steps + 1 /\ tables' = e /\ lists' = n /\ answers' = <<x, y>>
      /\ UNCHANGED <<clock, startedLocked>>
  BY DEF GetLiveProctorState, Do
<1>2. ~startedLocked => x = y /\ Alike(e, n)
  BY FoundBoth, SweepBoth
<1> HIDE DEF e, n, x, y
<1> QED BY <1>1, <1>2, BothAnswerStep

-----------------------------------------------------------------------------
(* The operations of candidates. *)

\* The row of a candidate is marked ready before the exam is looked for: without it
\* the table keeps the mark and the list is not assigned.
LEMMA ReadyStep == TwoInv /\ MarkCandidateReady => TwoInv'
<1> SUFFICES ASSUME TwoInv, MarkCandidateReady PROVE TwoInv'
  OBVIOUS
<1> DEFINE rows(s) == SetRow(s.candidates, [Candidate(s) EXCEPT !.status = "READY"])
           ready(s) == [s EXCEPT !.candidates = rows(s)]
           d == IF Found(tables) THEN Ok(ready(tables)) ELSE Refused(ready(tables))
           m == IF Found(lists) THEN Ok(ready(lists)) ELSE Refused(lists)
<1>1. Do(d, m) /\ UNCHANGED startedLocked
  BY DEF MarkCandidateReady, SetCandidate
<1>2. ASSUME ~startedLocked PROVE d.answer = m.answer /\ Alike(d.store, m.store)
  <2>1. Alike(tables, lists) /\ (Found(lists) = Found(tables))
    BY <1>2, FoundBoth
  <2> HIDE DEF rows
  <2>2. CASE Found(tables)
    <3>1. lists.candidates = tables.candidates
      BY <2>1, <2>2, AlikeReads
    <3>2. rows(lists) = rows(tables)
      BY <3>1 DEF rows, Candidate
    <3>3. Alike(ready(tables), ready(lists))
      BY <2>1, <3>2, PutCandidates
    <3> QED BY <2>1, <2>2, <3>3 DEF Ok
  <2>3. CASE ~Found(tables)
    <3>1. Alike(ready(tables), lists)
      BY <2>1, <2>3, PutCandidates
    <3> QED BY <2>1, <2>3, <3>1 DEF Refused
  <2> QED BY <2>2, <2>3
<1> HIDE DEF d, m
<1>3. /\ steps' = steps + 1 /\ tables' = d.store /\ lists' = m.store
      /\ answers' = <<d.answer, m.answer>> /\ UNCHANGED <<clock, startedLocked>>
  BY <1>1 DEF Do
<1> QED BY <1>2, <1>3, BothAnswerStep

\* An operation of a candidate, on what the sweep has left.
LEMMA CandidateStep ==
    ASSUME TwoInv, NEW ok \in BOOLEAN, NEW fine \in BOOLEAN, NEW e, NEW n,
           Do(CASE ~Found(tables) -> Refused(tables)
                [] Found(tables) /\ ~ok -> Refused(SweptTable(tables))
                [] OTHER -> Ok(e),
              CASE ~Found(lists) -> Refused(lists)
                [] Found(lists) /\ ~fine -> Refused(SweptList(lists))
                [] OTHER -> Ok(n)),
           UNCHANGED startedLocked,
           ~startedLocked /\ Found(tables) => fine = ok /\ Alike(e, n)
    PROVE  TwoInv'
<1> DEFINE d == CASE ~Found(tables) -> Refused(tables)
                  [] Found(tables) /\ ~ok -> Refused(SweptTable(tables))
                  [] OTHER -> Ok(e)
           m == CASE ~Found(lists) -> Refused(lists)
                  [] Found(lists) /\ ~fine -> Refused(SweptList(lists))
                  [] OTHER -> Ok(n)
<1>1. Do(d, m)
  OBVIOUS
<1>2. ASSUME ~startedLocked PROVE d.answer = m.answer /\ Alike(d.store, m.store)
  <2>1. Alike(tables, lists) /\ (Found(lists) = Found(tables))
    BY <1>2, FoundBoth
  <2>2. Alike(SweptTable(tables), SweptList(lists))
    BY <2>1, SweepBoth
  <2>3. CASE ~Found(tables)
    BY <2>1, <2>3 DEF Refused
  <2>4. CASE Found(tables) /\ ~ok
    BY <1>2, <2>1, <2>2, <2>4 DEF Refused
  <2>5. CASE Found(tables) /\ ok
    BY <1>2, <2>1, <2>5 DEF Ok
  <2> QED BY <2>3, <2>4, <2>5
<1> HIDE DEF d, m
<1>3. /\ steps' = steps + 1 /\ tables' = d.store /\ lists' = m.store
      /\ answers' = <<d.answer, m.answer>> /\ UNCHANGED <<clock, startedLocked>>
  BY <1>1 DEF Do
<1> QED BY <1>2, <1>3, BothAnswerStep

\* What the sweep leaves of an exam that is there.
LEMMA SweptBoth ==
    ASSUME TwoInv, ~startedLocked, Found(tables)
    PROVE  /\ Alike(SweptTable(tables), SweptList(lists)) /\ Found(SweptTable(tables))
           /\ SweptList(lists).candidates = SweptTable(tables).candidates
           /\ lists.candidates = tables.candidates
  BY FoundBoth, SweepBoth, AlikeReads

LEMMA EventStep == TwoInv /\ LogProctorEvent => TwoInv'
<1> SUFFICES ASSUME TwoInv, LogProctorEvent PROVE TwoInv'
  OBVIOUS
<1> DEFINE d == SweptTable(tables)
           m == SweptList(lists)
           e == AddLast(d, "events", NewEvent(d, "LOGGED"))
           n == AddFirst(m, "events", NewEvent(m, "LOGGED"))
<1>1. /\ Do(CASE ~Found(tables) -> Refused(tables)
              [] Found(tables) /\ ~TRUE -> Refused(SweptTable(tables))
              [] OTHER -> Ok(e),
            CASE ~Found(lists) -> Refused(lists)
              [] Found(lists) /\ ~TRUE -> Refused(SweptList(lists))
              [] OTHER -> Ok(n))
      /\ UNCHANGED startedLocked
  BY DEF LogProctorEvent, OfCandidate
<1>2. ASSUME ~startedLocked, Found(tables) PROVE Alike(e, n)
  <2> HIDE DEF d, m
  <2>1. Alike(d, m) /\ "events" \in Turned
    BY <1>2, SweptBoth DEF d, m, Turned
  <2>2. NewEvent(m, "LOGGED") = NewEvent(d, "LOGGED")
    BY <2>1, AlikeReads DEF NewEvent
  <2> QED BY <2>1, <2>2, AddTurned
<1> HIDE DEF e, n, d, m
<1> QED BY <1>1, <1>2, CandidateStep

\* A check or a verification is a new row, after the sweep.
LEMMA SaveCheckStep ==
    ASSUME NEW passed
    PROVE  TwoInv /\ SaveCandidateEnvironmentCheck(passed) => TwoInv'
<1> SUFFICES ASSUME TwoInv, SaveCandidateEnvironmentCheck(passed) PROVE TwoInv'
  OBVIOUS
<1> DEFINE e == AddLast(SweptTable(tables), "checks", NewCheck(passed))
           n == AddFirst(SweptList(lists), "checks", NewCheck(passed))
<1>1. /\ Do(CASE ~Found(tables) -> Refused(tables)
              [] Found(tables) /\ ~TRUE -> Refused(SweptTable(tables))
              [] OTHER -> Ok(e),
            CASE ~Found(lists) -> Refused(lists)
              [] Found(lists) /\ ~TRUE -> Refused(SweptList(lists))
              [] OTHER -> Ok(n))
      /\ UNCHANGED startedLocked
  BY DEF SaveCandidateEnvironmentCheck, OfCandidate
<1>2. ASSUME ~startedLocked, Found(tables) PROVE Alike(e, n)
  BY <1>2, SweptBoth, AddTurned DEF Turned
<1> HIDE DEF e, n
<1> QED BY <1>1, <1>2, CandidateStep

LEMMA ConsentStep == TwoInv /\ CreateCandidateIdentitySession => TwoInv'
<1> SUFFICES ASSUME TwoInv, CreateCandidateIdentitySession PROVE TwoInv'
  OBVIOUS
<1> DEFINE rows(s) == SetRow(s.candidates, [Candidate(s) EXCEPT !.consent = TRUE])
           d == SweptTable(tables)
           m == SweptList(lists)
           e == [d EXCEPT !.candidates = rows(d)]
           n == [m EXCEPT !.candidates = rows(m)]
<1>1. /\ Do(CASE ~Found(tables) -> Refused(tables)
              [] Found(tables) /\ ~TRUE -> Refused(SweptTable(tables))
              [] OTHER -> Ok(e),
            CASE ~Found(lists) -> Refused(lists)
              [] Found(lists) /\ ~TRUE -> Refused(SweptList(lists))
              [] OTHER -> Ok(n))
      /\ UNCHANGED startedLocked
  BY DEF CreateCandidateIdentitySession, OfCandidate, SetCandidate
<1>2. ASSUME ~startedLocked, Found(tables) PROVE Alike(e, n)
  <2> HIDE DEF d, m
  <2>1. Alike(d, m) /\ m.candidates = d.candidates
    BY <1>2, SweptBoth DEF d, m
  <2>2. rows(m) = rows(d)
    BY <2>1 DEF Candidate
  <2> HIDE DEF rows
  <2> QED BY <2>1, <2>2, PutCandidates
<1> HIDE DEF e, n, d, m
<1> QED BY <1>1, <1>2, CandidateStep

LEMMA VerifyStep ==
    ASSUME NEW verified
    PROVE  TwoInv /\ VerifyCandidateIdentity(verified) => TwoInv'
<1> SUFFICES ASSUME TwoInv, VerifyCandidateIdentity(verified) PROVE TwoInv'
  OBVIOUS
<1> DEFINE e == AddLast(SweptTable(tables), "verifications", NewVerification(verified))
           n == AddFirst(SweptList(lists), "verifications", NewVerification(verified))
           ok == Candidate(tables).consent = TRUE
           fine == Candidate(lists).consent = TRUE
<1>1. /\ Do(CASE ~Found(tables) -> Refused(tables)
              [] Found(tables) /\ ~ok -> Refused(SweptTable(tables))
              [] OTHER -> Ok(e),
            CASE ~Found(lists) -> Refused(lists)
              [] Found(lists) /\ ~fine -> Refused(SweptList(lists))
              [] OTHER -> Ok(n))
      /\ UNCHANGED startedLocked
  BY DEF VerifyCandidateIdentity, OfCandidate
<1>2. ASSUME ~startedLocked, Found(tables) PROVE fine = ok /\ Alike(e, n)
  <2>1. lists.candidates = tables.candidates
    BY <1>2, SweptBoth
  <2>2. fine = ok
    BY <2>1 DEF Candidate
  <2> QED BY <1>2, <2>2, SweptBoth, AddTurned DEF Turned
<1>3. ok \in BOOLEAN /\ fine \in BOOLEAN
  OBVIOUS
<1> HIDE DEF e, n, ok, fine
<1> QED BY <1>1, <1>2, <1>3, CandidateStep

\* Checks and verifications let pass in both, or in neither.
LEMMA UsableBoth ==
    ASSUME NEW d, NEW m, Alike(d, m)
    PROVE  /\ UsableList(m) = UsableTable(d)
           /\ UsableTable(d) => Found(d)
<1>1. UsableTable(d) => Found(d)
  BY DEF UsableTable, CanUseWorkspace
<1>2. CASE ~Found(d)
  <2>1. ~Found(m)
    BY <1>2, AlikeReads
  <2> QED BY <1>1, <1>2, <2>1 DEF UsableTable, UsableList, CanUseWorkspace
<1>3. CASE Found(d)
  <2>1. /\ Found(m) /\ m.candidates = d.candidates /\ m.device = d.device
        /\ OfList(m.checks) = OfTable(d.checks)
        /\ OfList(m.verifications) = OfTable(d.verifications)
    BY <1>3, AlikeReads
  <2>2. Candidate(m) = Candidate(d)
    BY <2>1 DEF Candidate
  <2>3. UsableList(m) = UsableTable(d)
    BY <1>3, <2>1, <2>2 DEF UsableTable, UsableList, CanUseWorkspace
  <2> QED BY <1>1, <2>3
<1> QED BY <1>2, <1>3

\* The newest action that bars or opens, from either end.
LEMMA BarredBoth ==
    ASSUME NEW d, NEW m, Alike(d, m)
    PROVE  Barred(OfList(Blocking(m.actions))) = Barred(OfTable(Blocking(d.actions)))
<1>1. IsRows(d.actions) /\ m.actions = Reverse(d.actions)
  BY DEF Alike, Turned
<1> DEFINE P == {x \in Range(d.actions) : x.type # "MEMO"}
           picked == Among(d.actions, P)
<1>2. Blocking(d.actions) = picked
  BY DEF Blocking
<1>3. Range(m.actions) = Range(d.actions)
  BY <1>1, RowsReverse
<1>4. Blocking(m.actions) = Among(m.actions, P)
  BY <1>3 DEF Blocking
<1> HIDE DEF P
<1>5. IsRows(picked) /\ Among(m.actions, P) = Reverse(picked)
  BY <1>1, RowsReverse
<1> HIDE DEF picked
<1>6. OfList(Reverse(picked)) = OfTable(picked)
  BY <1>5, RowsReverse
<1> QED BY <1>2, <1>4, <1>5, <1>6

\* A session is made for both, or there was one.
LEMMA EnsuredBoth ==
    ASSUME NEW d, NEW m, Alike(d, m), clock \in Nat
    PROVE  /\ Alike(Ensured(d), Ensured(m))
           /\ Ensured(d).session # None
           /\ Found(Ensured(d)) = Found(d)
           /\ d.session # None => Ensured(d) = d
<1>1. m.session = d.session
  BY AlikeReads
<1>2. CASE d.session # None
  BY <1>1, <1>2 DEF Ensured
<1>3. CASE d.session = None
  <2> DEFINE end == clock + ExamMinutes
  <2>1. end # None
    BY RowsAssumption
  <2>2. Ensured(d) = [d EXCEPT !["session"] = end] /\ Ensured(m) = [m EXCEPT !["session"] = end]
    BY <1>1, <1>3 DEF Ensured
  <2> HIDE DEF end
  <2>3. Alike([d EXCEPT !["session"] = end], [m EXCEPT !["session"] = end])
    BY PutSame DEF Same
  <2>4. [d EXCEPT !["session"] = end].session = end
        /\ [d EXCEPT !["session"] = end].exams = d.exams
    BY DEF Alike, Columns, Same
  <2>5. Found([d EXCEPT !["session"] = end]) = Found(d)
    BY <2>4 DEF Found, Exam
  <2> QED BY <1>3, <2>1, <2>2, <2>3, <2>4, <2>5
<1> QED BY <1>2, <1>3

\* Whether an exam was completed is read from no list.
LEMMA CompletedAlike ==
    ASSUME NEW d, NEW m, Alike(d, m), NEW x
    PROVE  /\ Alike([d EXCEPT !.completed = x], m)
           /\ [d EXCEPT !.completed = x].session = d.session
<1> DEFINE e == [d EXCEPT !.completed = x]
<1>1. /\ DOMAIN e = DOMAIN d
      /\ \A u \in Columns \ {"completed"} : e[u] = d[u]
  BY DEF Alike, Columns
<1>2. e.exams = d.exams /\ e.candidates = d.candidates /\ e.session = d.session
  BY <1>1 DEF Columns, Same
<1> HIDE DEF e
<1>3. Found(e) = Found(d)
  BY <1>2 DEF Found, Exam
<1>4. /\ \A u \in Turned : IsRows(e[u]) /\ m[u] = Reverse(e[u])
      /\ \A u \in Same : m[u] = e[u]
  BY <1>1 DEF Alike, Columns, Turned, Same
<1>5. Alike(e, m)
  BY <1>1, <1>2, <1>3, <1>4 DEF Alike
<1> QED BY <1>2, <1>5 DEF e

(* Both stores let a candidate in, or neither does.  They stay alike, unless a *)
(* refusal has left a session in the tables that the lists do not have.       *)
LEMMA OpenBoth ==
    ASSUME NEW d, NEW m, Alike(d, m), clock \in Nat
    PROVE  /\ OpenTable(d).answer = OpenList(m).answer
           /\ \/ Alike(OpenTable(d).store, OpenList(m).store)
              \/ OpenTable(d).store.session # None /\ OpenList(m).store.session = None
                 /\ OpenTable(d).answer = "refused"
           /\ OpenTable(d).answer = "ok" =>
                 Found(OpenTable(d).store) /\ Alike(OpenTable(d).store, OpenList(m).store)
<1> DEFINE usable == UsableTable(d) /\ HasQuestion(d)
           barred == Barred(OfTable(Blocking(d.actions)))
           late == Expired(d)
<1>1. (UsableList(m) /\ HasQuestion(m)) = usable
  BY UsableBoth, AlikeReads DEF HasQuestion
<1>2. Barred(OfList(Blocking(m.actions))) = barred
  BY BarredBoth
<1>3. m.session = d.session
  BY AlikeReads
<1>4. /\ Alike(Ensured(d), Ensured(m)) /\ Ensured(d).session # None
      /\ Found(Ensured(d)) = Found(d) /\ (d.session # None => Ensured(d) = d)
  BY EnsuredBoth
<1>5. Expired(m) = late
  <2>1. Ensured(m).session = Ensured(d).session
    BY <1>4, AlikeReads
  <2> QED BY <2>1 DEF Expired
<1>6. usable => Found(d)
  BY UsableBoth
<1>7. OpenTable(d) =
        IF ~usable THEN Refused(d) ELSE IF barred THEN Refused(Ensured(d))
        ELSE IF late THEN Refused([Ensured(d) EXCEPT !.completed = TRUE]) ELSE Ok(Ensured(d))
  BY DEF OpenTable
<1>8. OpenList(m) = IF usable /\ ~barred /\ ~late THEN Ok(Ensured(m)) ELSE Refused(m)
  BY <1>1, <1>2, <1>5 DEF OpenList
<1> HIDE DEF usable, barred, late
<1>9. CASE ~usable
  BY <1>7, <1>8, <1>9 DEF Refused
<1>10. CASE usable /\ barred
  <2>1. OpenTable(d) = Refused(Ensured(d)) /\ OpenList(m) = Refused(m)
    BY <1>7, <1>8, <1>10
  <2> QED BY <1>3, <1>4, <2>1 DEF Refused
<1>11. CASE usable /\ ~barred /\ late
  <2> DEFINE e == [Ensured(d) EXCEPT !.completed = TRUE]
  <2>1. OpenTable(d) = Refused(e) /\ OpenList(m) = Refused(m)
    BY <1>7, <1>8, <1>11
  <2>2. Alike(e, Ensured(m)) /\ e.session = Ensured(d).session
    BY <1>4, CompletedAlike
  <2>3. m.session # None => Ensured(m) = m
    BY DEF Ensured
  <2> HIDE DEF e
  <2> QED BY <1>3, <1>4, <2>1, <2>2, <2>3 DEF Refused
<1>12. CASE usable /\ ~barred /\ ~late
  <2>1. OpenTable(d) = Ok(Ensured(d)) /\ OpenList(m) = Ok(Ensured(m))
    BY <1>7, <1>8, <1>12
  <2> QED BY <1>4, <1>6, <1>12, <2>1 DEF Ok
<1> QED BY <1>9, <1>10, <1>11, <1>12

\* What the sweep leaves, of any exam.
LEMMA BeginBoth ==
    ASSUME NEW d, NEW m, Alike(d, m)
    PROVE  Alike(IF Found(d) THEN SweptTable(d) ELSE d, IF Found(m) THEN SweptList(m) ELSE m)
<1>1. Found(m) <=> Found(d)
  BY AlikeReads
<1> QED BY <1>1, SweepBoth

LEMMA WorkspaceStep == TwoInv /\ GetCandidateWorkspace => TwoInv'
<1> SUFFICES ASSUME TwoInv, GetCandidateWorkspace PROVE TwoInv'
  OBVIOUS
<1> DEFINE s == IF Found(tables) THEN SweptTable(tables) ELSE tables
           l == IF Found(lists) THEN SweptList(lists) ELSE lists
           d == IF UsableTable(s) THEN Ok(Ensured(s)) ELSE Refused(s)
           m == IF UsableList(l) THEN Ok(Ensured(l)) ELSE Refused(l)
<1>1. Do(d, m) /\ UNCHANGED startedLocked
  BY DEF GetCandidateWorkspace
<1>2. ASSUME ~startedLocked PROVE d.answer = m.answer /\ Alike(d.store, m.store)
  <2>1. Alike(s, l)
    BY <1>2, BeginBoth DEF TwoInv
  <2> HIDE DEF s, l
  <2>2. UsableList(l) = UsableTable(s) /\ Alike(Ensured(s), Ensured(l))
    BY <2>1, UsableBoth, EnsuredBoth DEF TwoInv
  <2> QED BY <2>1, <2>2 DEF Ok, Refused
<1> HIDE DEF d, m
<1>3. /\ steps' = steps + 1 /\ tables' = d.store /\ lists' = m.store
      /\ answers' = <<d.answer, m.answer>> /\ UNCHANGED <<clock, startedLocked>>
  BY <1>1 DEF Do
<1> QED BY <1>2, <1>3, BothAnswerStep

\* An operation in an open session, on what the opening has left.
OpenedTable == OpenTable(IF Found(tables) THEN SweptTable(tables) ELSE tables)
OpenedList  == OpenList(IF Found(lists) THEN SweptList(lists) ELSE lists)

LEMMA SessionStep ==
    ASSUME TwoInv, NEW e, NEW n,
           Do(IF OpenedTable.answer = "ok" THEN Ok(e) ELSE OpenedTable,
              IF OpenedList.answer = "ok" THEN Ok(n) ELSE OpenedList),
           startedLocked' =
               (startedLocked \/ (tables'.session # None /\ lists'.session = None)),
           ~startedLocked /\ Found(OpenedTable.store)
                          /\ Alike(OpenedTable.store, OpenedList.store) => Alike(e, n)
    PROVE  TwoInv'
<1> DEFINE d == IF OpenedTable.answer = "ok" THEN Ok(e) ELSE OpenedTable
           m == IF OpenedList.answer = "ok" THEN Ok(n) ELSE OpenedList
<1>1. /\ steps' = steps + 1 /\ tables' = d.store /\ lists' = m.store
      /\ answers' = <<d.answer, m.answer>> /\ clock' = clock
  BY DEF Do
<1>2. ASSUME ~startedLocked
      PROVE  /\ d.answer = m.answer
             /\ Alike(d.store, m.store) \/ (d.store.session # None /\ m.store.session = None)
  <2>1. /\ OpenedTable.answer = OpenedList.answer
        /\ \/ Alike(OpenedTable.store, OpenedList.store)
           \/ /\ OpenedTable.store.session # None /\ OpenedList.store.session = None
              /\ OpenedTable.answer = "refused"
        /\ OpenedTable.answer = "ok" =>
              Found(OpenedTable.store) /\ Alike(OpenedTable.store, OpenedList.store)
    BY <1>2, BeginBoth, OpenBoth DEF TwoInv, OpenedTable, OpenedList
  <2>2. CASE OpenedTable.answer = "ok"
    BY <1>2, <2>1, <2>2 DEF Ok
  <2>3. CASE OpenedTable.answer # "ok"
    BY <2>1, <2>3
  <2> QED BY <2>2, <2>3
<1> HIDE DEF d, m
<1>3. startedLocked' \in BOOLEAN /\ (~startedLocked' => ~startedLocked)
  BY DEF TwoInv
<1>4. ~startedLocked' => d.answer = m.answer /\ Alike(d.store, m.store)
  BY <1>1, <1>2, <1>3
<1> QED BY <1>1, <1>3, <1>4 DEF TwoInv

\* A draft takes the place of the document's earlier one and leaves those beside it.
LEMMA DraftStep ==
    ASSUME NEW doc, NEW STATE text PROVE TwoInv /\ SaveCandidateCodeDraft(doc, text) => TwoInv'
<1> SUFFICES ASSUME TwoInv, SaveCandidateCodeDraft(doc, text) PROVE TwoInv'
  OBVIOUS
<1> DEFINE row == NewDraft(doc, text)
           s == OpenedTable.store
           l == OpenedList.store
           v == Append(Beside(s.drafts, doc), row)
           w == <<row>> \o Beside(l.drafts, doc)
           e == [s EXCEPT !.drafts = v]
           n == [l EXCEPT !.drafts = w]
<1>1. /\ Do(IF OpenedTable.answer = "ok" THEN Ok(e) ELSE OpenedTable,
            IF OpenedList.answer = "ok" THEN Ok(n) ELSE OpenedList)
      /\ startedLocked' = (startedLocked \/ (tables'.session # None /\ lists'.session = None))
  BY DEF SaveCandidateCodeDraft, InOpenSession, OpenedTable, OpenedList
<1> HIDE DEF row, s, l
<1>2. ASSUME Alike(s, l) PROVE Alike(e, n)
  <2>1. IsRows(s.drafts) /\ l.drafts = Reverse(s.drafts) /\ "drafts" \in Turned
    BY <1>2 DEF Alike, Turned
  <2> DEFINE P == {x \in Range(s.drafts) : x.doc # doc}
             picked == Among(s.drafts, P)
  <2>2. Range(l.drafts) = Range(s.drafts)
    BY <2>1, RowsReverse
  <2>3. Beside(s.drafts, doc) = picked /\ Beside(l.drafts, doc) = Among(l.drafts, P)
    BY <2>2 DEF Beside
  <2> HIDE DEF P
  <2>4. IsRows(picked) /\ Among(l.drafts, P) = Reverse(picked)
    BY <2>1, RowsReverse
  <2> HIDE DEF picked
  <2>5. IsRows(v) /\ w = Reverse(v)
    BY <2>3, <2>4, RowsAppend
  <2> HIDE DEF v, w
  <2>6. Alike([s EXCEPT !["drafts"] = v], [l EXCEPT !["drafts"] = w])
    BY <1>2, <2>1, <2>5, PutTurned
  <2> QED BY <2>6
<1> HIDE DEF e, n
<1> QED BY <1>1, <1>2, SessionStep DEF s, l

\* A run is one row more, judged by the tests both stores have; a submission also
\* marks the candidate.
LEMMA RunStep == TwoInv /\ RunCandidateCode => TwoInv'
<1> SUFFICES ASSUME TwoInv, RunCandidateCode PROVE TwoInv'
  OBVIOUS
<1> DEFINE row(x) == NewExecution(x, QuestionTestCases(x, TRUE))
           s == OpenedTable.store
           l == OpenedList.store
           e == AddLast(s, "executions", row(s))
           n == AddFirst(l, "executions", row(l))
<1>1. /\ Do(IF OpenedTable.answer = "ok" THEN Ok(e) ELSE OpenedTable,
            IF OpenedList.answer = "ok" THEN Ok(n) ELSE OpenedList)
      /\ startedLocked' = (startedLocked \/ (tables'.session # None /\ lists'.session = None))
  BY DEF RunCandidateCode, InOpenSession, OpenedTable, OpenedList
<1> HIDE DEF s, l
<1>2. ASSUME Alike(s, l) PROVE Alike(e, n)
  <2>1. l.testCases = s.testCases /\ Len(l.executions) = Len(s.executions)
        /\ "executions" \in Turned
    BY <1>2, AlikeReads DEF Turned
  <2>2. row(l) = row(s)
    BY <2>1 DEF NewExecution, QuestionTestCases
  <2> HIDE DEF row
  <2> QED BY <1>2, <2>1, <2>2, AddTurned
<1> HIDE DEF e, n
<1> QED BY <1>1, <1>2, SessionStep DEF s, l

LEMMA SubmitStep == TwoInv /\ SubmitCandidateCode => TwoInv'
<1> SUFFICES ASSUME TwoInv, SubmitCandidateCode PROVE TwoInv'
  OBVIOUS
<1> DEFINE s == OpenedTable.store
           l == OpenedList.store
           s2 == AddLast(s, "submissions", Judged(s))
           l2 == AddFirst(l, "submissions", Judged(l))
           e == InProgress(s2)
           n == InProgress(l2)
<1>1. /\ Do(IF OpenedTable.answer = "ok" THEN Ok(e) ELSE OpenedTable,
            IF OpenedList.answer = "ok" THEN Ok(n) ELSE OpenedList)
      /\ startedLocked' = (startedLocked \/ (tables'.session # None /\ lists'.session = None))
  BY DEF SubmitCandidateCode, InOpenSession, OpenedTable, OpenedList
<1> HIDE DEF s, l
<1>2. ASSUME Alike(s, l), Found(s) PROVE Alike(e, n)
  <2>1. l.testCases = s.testCases /\ Len(l.submissions) = Len(s.submissions)
        /\ "submissions" \in Turned
    BY <1>2, AlikeReads DEF Turned
  <2>2. Judged(l) = Judged(s)
    BY <2>1 DEF Judged, NewSubmission, QuestionTestCases
  <2>3. Alike(s2, l2)
    BY <1>2, <2>1, <2>2, AddTurned
  <2>4. s2.exams = s.exams
    BY <1>2 DEF AddLast, Alike, Columns
  <2> HIDE DEF s2, l2
  <2>5. Found(s2)
    BY <1>2, <2>4 DEF Found, Exam
  <2>6. l2.candidates = s2.candidates
    BY <2>3, <2>5, AlikeReads
  <2> DEFINE v == SetRow(s2.candidates, [Candidate(s2) EXCEPT !.status = "IN_PROGRESS"])
  <2>7. e = [s2 EXCEPT !.candidates = v] /\ n = [l2 EXCEPT !.candidates = v]
    BY <2>6 DEF InProgress, SetCandidate, Candidate
  <2> HIDE DEF v
  <2>8. Alike([s2 EXCEPT !.candidates = v], [l2 EXCEPT !.candidates = v])
    BY <2>3, PutCandidates
  <2> QED BY <2>7, <2>8, Zenon
<1> HIDE DEF e, n
<1> QED BY <1>1, <1>2, SessionStep DEF s, l

-----------------------------------------------------------------------------
(* The invariant, and the theorem. *)

\* Both stores are seeded from the same data (createPlatformSeedData).
LEMMA SeedAlike ==
    ASSUME NEW candidate, NEW checks, checks \in {<<>>, <<[passed |-> TRUE]>>},
           NEW verifications, verifications \in {<<>>, <<[verified |-> TRUE]>>}, NEW device
    PROVE  Alike(SeedData(candidate, checks, verifications, device),
                 SeedData(candidate, checks, verifications, device))
<1> DEFINE s == SeedData(candidate, checks, verifications, device)
           exam == [id |-> 0, text |-> 0, deleted |-> FALSE]
<1>1. /\ Columns \subseteq DOMAIN s /\ s.exams = <<exam>>
      /\ s.checks = checks /\ s.verifications = verifications
      /\ \A t \in Turned \ {"checks", "verifications"} : s[t] = <<>>
  <2>1. Columns \subseteq DOMAIN s
    BY DEF SeedData, Columns, Turned, Same
  <2>2. /\ s.exams = <<exam>> /\ s.checks = checks /\ s.verifications = verifications
        /\ s.drafts = <<>> /\ s.executions = <<>> /\ s.submissions = <<>>
        /\ s.reports = <<>> /\ s.logs = <<>> /\ s.events = <<>> /\ s.actions = <<>>
    BY DEF SeedData
  <2> HIDE DEF s
  <2> QED BY <2>1, <2>2 DEF Turned
<1> HIDE DEF s
<1>2. \A x : <<x>> \in Seq({x}) /\ Len(<<x>>) = 1 /\ <<x>>[1] = x
  OBVIOUS
<1>3. ASSUME NEW x PROVE IsRows(<<x>>) /\ Reverse(<<x>>) = <<x>>
  <2>1. IsRows(<<x>>)
    BY <1>2 DEF IsRows
  <2>2. Reverse(<<x>>) = <<x>>
    BY DEF Reverse
  <2> QED BY <2>1, <2>2
<1>4. IsRows(<<>>) /\ Reverse(<<>>) = <<>>
  <2>1. <<>> \in Seq({})
    OBVIOUS
  <2>2. Reverse(<<>>) = <<>>
    BY DEF Reverse
  <2> QED BY <2>1, <2>2 DEF IsRows
<1>5. Numbered(s.exams) /\ s.exams = Reverse(s.exams)
  <2>1. exam \in ExamRows /\ exam.id = 0
    BY DEF ExamRows
  <2> HIDE DEF exam
  <2>2. <<exam>> \in Seq(ExamRows) /\ Len(<<exam>>) = 1 /\ <<exam>>[1] = exam
    BY <2>1
  <2> DEFINE rows == <<exam>>
  <2>3. rows = Reverse(rows)
    BY <1>3
  <2> HIDE DEF rows
  <2>4. Numbered(rows)
    BY <2>1, <2>2 DEF Numbered, rows
  <2> QED BY <1>1, <2>3, <2>4 DEF rows
<1>6. IsRows(checks) /\ Reverse(checks) = checks
  BY <1>3, <1>4
<1>7. IsRows(verifications) /\ Reverse(verifications) = verifications
  BY <1>3, <1>4
<1>8. \A t \in Turned : IsRows(s[t]) /\ s[t] = Reverse(s[t])
  <2>1. IsRows(s["checks"]) /\ s["checks"] = Reverse(s["checks"])
    BY <1>1, <1>6
  <2>2. IsRows(s["verifications"]) /\ s["verifications"] = Reverse(s["verifications"])
    BY <1>1, <1>7
  <2> QED BY <1>1, <1>4, <2>1, <2>2
<1>9. Alike(s, s)
  BY <1>1, <1>5, <1>8 DEF Alike
<1> QED BY <1>9 DEF s

LEMMA TwoBegins == TwoInit => TwoInv
<1> SUFFICES ASSUME TwoInit PROVE TwoInv
  OBVIOUS
<1>1. Alike(Invited, Invited) /\ Alike(Entered, Entered)
  BY SeedAlike DEF Invited, Entered
<1>2. lists = tables /\ (tables = Invited \/ tables = Entered)
  BY DEF TwoInit
<1>3. Alike(tables, lists)
  BY <1>1, <1>2
<1> QED BY <1>3 DEF TwoInit, TwoInv

LEMMA TwoStep == TwoInv /\ [TwoNext]_twoVars => TwoInv'
<1> SUFFICES ASSUME TwoInv, [TwoNext]_twoVars PROVE TwoInv'
  OBVIOUS
<1>1. CASE UNCHANGED twoVars
  BY <1>1 DEF TwoInv, twoVars
<1>2. CASE TimePasses
  BY <1>2 DEF TwoInv, TimePasses
<1>3. CASE TwoNext
  <2>1. CASE \/ CreateExamInStore \/ UpdateExam \/ DeleteExam \/ AddQuestion \/ AddCandidate
             \/ SaveCompetencyReport
    BY <2>1, CreateExamStep, UpdateExamStep, DeleteExamStep, AddQuestionStep,
       AddCandidateStep, ReportStep
  <2>2. CASE \/ GetLiveProctorState \/ MarkCandidateReady \/ LogProctorEvent
             \/ CreateCandidateIdentitySession \/ GetCandidateWorkspace
             \/ RunCandidateCode \/ SubmitCandidateCode
    BY <2>2, LiveStateStep, ReadyStep, EventStep, ConsentStep, WorkspaceStep, RunStep,
       SubmitStep
  <2>3. CASE \E truth \in BOOLEAN :
                \/ AddTestCase(truth) \/ SaveCandidateEnvironmentCheck(truth)
                \/ VerifyCandidateIdentity(truth)
    BY <2>3, TestCaseStep, SaveCheckStep, VerifyStep
  <2>4. CASE \E status \in {"SENT", "FAILED"} : SendCandidateInviteEmail(status)
    BY <2>4, InviteStep
  <2>5. CASE \E kind \in {"PAUSE_EXAM", "RESUME_EXAM", "MEMO"} : CreateProctorAction(kind)
    BY <2>5, ActionStep
  <2>6. CASE \E status \in {"CONNECTED", "DISCONNECTED"} : UpsertProctorDevice(status)
    BY <2>6, DeviceStep
  <2>7. CASE \E d \in Documents : SaveCandidateCodeDraft(d, steps)
    BY <2>7, DraftStep
  <2> QED BY <1>2, <1>3, <2>1, <2>2, <2>3, <2>4, <2>5, <2>6, <2>7 DEF TwoNext
<1> QED BY <1>1, <1>3

\* Alike is more than what StoresAgree compares.
LEMMA AlikeAgree == TwoInv => StoresAgree
<1> SUFFICES ASSUME TwoInv, ~startedLocked PROVE StoresAgree
  BY DEF StoresAgree
<1>1. Alike(tables, lists) /\ answers[1] = answers[2]
  BY DEF TwoInv
<1>2. ListExams(tables.exams) = ListExams(lists.exams)
  <2>1. Shown(lists.exams) = Shown(tables.exams)
    BY <1>1, FoundAlike DEF Alike, Shown
  <2> QED BY <2>1 DEF ListExams
<1>3. ASSUME Found(tables)
      PROVE  /\ ExamDetail(tables) = ExamDetail(lists)
             /\ \A t \in NewestFirst : Reverse(tables[t]) = lists[t]
             /\ \A t \in TakenOnly : Prefix(Reverse(tables[t])) = Prefix(lists[t])
             /\ OfTable(tables.checks) = OfList(lists.checks)
             /\ OfTable(tables.verifications) = OfList(lists.verifications)
             /\ tables.device = lists.device /\ tables.session = lists.session
  <2>1. ExamDetail(tables) = ExamDetail(lists)
    BY <1>1, <1>3, AlikeReads DEF ExamDetail
  <2>2. \A t \in Turned : Reverse(tables[t]) = lists[t]
    BY <1>1 DEF Alike
  <2>3. NewestFirst \subseteq Turned /\ TakenOnly \subseteq Turned
    BY DEF NewestFirst, TakenOnly, Turned
  <2>4. \A t \in TakenOnly : Prefix(Reverse(tables[t])) = Prefix(lists[t])
    BY <2>2, <2>3
  <2> QED BY <1>1, <2>1, <2>2, <2>3, <2>4, AlikeReads
<1> QED BY <1>1, <1>2, <1>3 DEF StoresAgree

(* Every operation of the store is written twice, as statements for the        *)
(* database and as assignments to the lists (platform-store.*.ts).  The two    *)
(* answer alike and show the same, for any number of operations, rows and      *)
(* documents, until an exam is locked before it has a session.                 *)
THEOREM BothStoresAgree == TwoSpec => []StoresAgree
<1> QED BY TwoBegins, TwoStep, AlikeAgree, PTL DEF TwoSpec

================================================================================
