-------------------------- MODULE TupleStoreProofs --------------------------
(***************************************************************************)
(* Proofs about TupleStore for any number of calls, tuples, tokens and     *)
(* instants.  IndInv is preserved by every action, one lemma each; the     *)
(* theorems follow from it.  Then the consistency-token guarantee of       *)
(* docs/CONSISTENCY.md, about PinnedCheck, which rests on TokensAscend.    *)
(***************************************************************************)
EXTENDS PinnedCheck, NumberLemmas

\* The empty store with nobody in it is consistent.
LEMMA InitHolds == Init => IndInv
<1>. SUFFICES ASSUME Init PROVE IndInv
  OBVIOUS
<1>1. TypeOK
  BY BoundsAssumption DEF Init, TypeOK, States
<1>2. LockHeld /\ Asked
  BY NullsAssumption DEF Init, LockHeld, Asked, Holding
<1>3. TokensAllocated /\ TokensAscend /\ NoTokenOvertaken
  BY DEF Init, TokensAllocated, TokensAscend, NoTokenOvertaken, Logged
<1>4. DecisionsHold
  BY DEF Init, DecisionsHold, Decided, Logged
<1>5. ReplyIsRecorded /\ AnswerIsRecorded
  BY DEF Init, ReplyIsRecorded, AnswerIsRecorded
<1>. QED  BY <1>1, <1>2, <1>3, <1>4, <1>5 DEF IndInv

\* The log row and the row change a COMMIT under the lock makes.
LandedEntry(c) == [token |-> token[c], op |-> req[c].op, fact |-> req[c].fact,
                   expiresAt |-> req[c].expiresAt,
                   changed |-> changed[c], existing |-> existing[c]]

LEMMA LandGrowsLog ==
    ASSUME IndInv, NEW c \in Calls, pc[c] \in Logged, Land(c)
    PROVE  /\ history' \in Seq(LogEntry)
           /\ Len(history) \in Nat
           /\ DOMAIN history = 1..Len(history)
           /\ DOMAIN history' = 1..(Len(history) + 1)
           /\ \A i \in 1..Len(history) : history'[i] = history[i]
           /\ history'[Len(history) + 1] = LandedEntry(c)
           /\ LandedEntry(c) \in LogEntry
           /\ rows' \in [Facts -> Expiries \cup {NoExpiry, None}]
           /\ lock' = None
<1>1. req[c] \in Request /\ pc[c] # "idle" /\ token[c] \in Tokens
  BY BoundsAssumption
  DEF IndInv, Asked, TypeOK, Logged, TokensAllocated, Tokens
<1>2. LandedEntry(c) \in LogEntry
  BY <1>1 DEF IndInv, TypeOK, LandedEntry, LogEntry, Request, Store!Requests, Store!Ops
<1>3. history \in Seq(LogEntry) /\ history' = Append(history, LandedEntry(c))
  BY DEF IndInv, TypeOK, Land, LandedEntry
<1>4. rows' \in [Facts -> Expiries \cup {NoExpiry, None}]
  BY <1>1 DEF IndInv, TypeOK, Land, Request, Store!Requests
<1>5. lock' = None
  BY DEF Land
<1>. QED  BY <1>2, <1>3, <1>4, <1>5

\* Tokens are numbers, so that they can be compared.
LEMMA TokensAreNumbers ==
    ASSUME IndInv
    PROVE  /\ seq \in Nat
           /\ \A i \in DOMAIN history : history[i] \in LogEntry /\ history[i].token \in Nat
           /\ \A c \in Calls : token[c] \in Nat
<1>1. history \in Seq(LogEntry) /\ seq \in 0..MaxToken /\ token \in [Calls -> 0..MaxToken]
  BY DEF IndInv, TypeOK
<1>2. \A i \in DOMAIN history : history[i] \in LogEntry
  BY <1>1
<1>3. \A e \in LogEntry : e.token \in Nat
  BY BoundsAssumption DEF LogEntry, Tokens
<1>. QED  BY <1>1, <1>2, <1>3, BoundsAssumption

\* Nobody else is in the middle of a transaction while a call commits.
LEMMA CommitterIsAlone ==
    ASSUME IndInv, NEW c \in Calls, pc[c] \in Logged
    PROVE  \A d \in Calls : pc[d] \in Holding => d = c
BY DEF IndInv, LockHeld, Logged, Holding

\* A call that starts holds nothing and has decided nothing.
LEMMA BeginPreserves ==
    ASSUME IndInv, NEW c \in Calls, NEW r \in Request, Begin(c, r)
    PROVE  IndInv'
<1>1. TypeOK'
  BY NullsAssumption, BoundsAssumption
  DEF IndInv, Begin, TypeOK, Asked, Tokens, Expiries, States, Holding, Request,
      Store!Requests, Store!Ops
<1>2. LockHeld' /\ Asked'
  BY NullsAssumption, BoundsAssumption
  DEF IndInv, Begin, TypeOK, LockHeld, Asked, Holding, States
<1>3. TokensAllocated' /\ TokensAscend' /\ NoTokenOvertaken'
  BY NullsAssumption, BoundsAssumption
  DEF IndInv, Begin, TypeOK, TokensAllocated, TokensAscend, NoTokenOvertaken,
      Logged, Tokens
<1>4. DecisionsHold'
  BY NullsAssumption, BoundsAssumption
  DEF IndInv, Begin, TypeOK, DecisionsHold, LockHeld, Decided, Logged, Holding,
      Store!Changes,      Store!Reported
<1>5. ReplyIsRecorded' /\ AnswerIsRecorded'
  BY NullsAssumption, BoundsAssumption
  DEF IndInv, Begin, TypeOK, ReplyIsRecorded, AnswerIsRecorded, Tokens
<1>. QED  BY <1>1, <1>2, <1>3, <1>4, <1>5 DEF IndInv

\* The lock is free when it is taken.
LEMMA AcquireWriteLogLockPreserves ==
    ASSUME IndInv, NEW c \in Calls, AcquireWriteLogLock(c)
    PROVE  IndInv'
<1>1. TypeOK'
  BY NullsAssumption, BoundsAssumption
  DEF IndInv, AcquireWriteLogLock, TypeOK, Asked, Tokens, Expiries, States,
      Holding, Request, Store!Requests, Store!Ops
<1>2. LockHeld' /\ Asked'
  BY NullsAssumption, BoundsAssumption
  DEF IndInv, AcquireWriteLogLock, TypeOK, LockHeld, Asked, Holding, States
<1>3. TokensAllocated' /\ TokensAscend' /\ NoTokenOvertaken'
  BY NullsAssumption, BoundsAssumption
  DEF IndInv, AcquireWriteLogLock, TypeOK, TokensAllocated, TokensAscend,
      NoTokenOvertaken, Logged, Tokens
<1>4. DecisionsHold'
  BY NullsAssumption, BoundsAssumption
  DEF IndInv, AcquireWriteLogLock, TypeOK, DecisionsHold, LockHeld, Decided,
      Logged, Holding, Store!Changes,      Store!Reported
<1>5. ReplyIsRecorded' /\ AnswerIsRecorded'
  BY NullsAssumption, BoundsAssumption
  DEF IndInv, AcquireWriteLogLock, TypeOK, ReplyIsRecorded, AnswerIsRecorded,
      Tokens
<1>. QED  BY <1>1, <1>2, <1>3, <1>4, <1>5 DEF IndInv

\* The insert decides on the rows no other call can change any more.
LEMMA InsertTuplePreserves ==
    ASSUME IndInv, NEW c \in Calls, InsertTuple(c)
    PROVE  IndInv'
<1>1. TypeOK'
  BY NullsAssumption, BoundsAssumption
  DEF IndInv, InsertTuple, TypeOK, Asked, Tokens, Expiries, States, Holding,
      Request, Store!Requests, Store!Ops
<1>2. LockHeld' /\ Asked'
  BY NullsAssumption, BoundsAssumption
  DEF IndInv, InsertTuple, TypeOK, LockHeld, Asked, Holding, States
<1>3. TokensAllocated' /\ TokensAscend' /\ NoTokenOvertaken'
  BY NullsAssumption, BoundsAssumption
  DEF IndInv, InsertTuple, TypeOK, TokensAllocated, TokensAscend,
      NoTokenOvertaken, Logged, Tokens
<1>4. DecisionsHold'
  BY NullsAssumption, BoundsAssumption
  DEF IndInv, InsertTuple, TypeOK, DecisionsHold, LockHeld, Decided, Logged,
      Holding, Store!Changes,      Store!Reported
<1>5. ReplyIsRecorded' /\ AnswerIsRecorded'
  BY NullsAssumption, BoundsAssumption
  DEF IndInv, InsertTuple, TypeOK, ReplyIsRecorded, AnswerIsRecorded, Tokens
<1>. QED  BY <1>1, <1>2, <1>3, <1>4, <1>5 DEF IndInv

\* The row the insert met is still there.
LEMMA ReadExistingPreserves ==
    ASSUME IndInv, NEW c \in Calls, ReadExisting(c)
    PROVE  IndInv'
<1>1. TypeOK'
  BY NullsAssumption, BoundsAssumption
  DEF IndInv, ReadExisting, TypeOK, Asked, Tokens, Expiries, States, Holding,
      Request, Store!Requests, Store!Ops
<1>2. LockHeld' /\ Asked'
  BY NullsAssumption, BoundsAssumption
  DEF IndInv, ReadExisting, TypeOK, LockHeld, Asked, Holding, States
<1>3. TokensAllocated' /\ TokensAscend' /\ NoTokenOvertaken'
  BY NullsAssumption, BoundsAssumption
  DEF IndInv, ReadExisting, TypeOK, TokensAllocated, TokensAscend,
      NoTokenOvertaken, Logged, Tokens
<1>4. DecisionsHold'
  BY NullsAssumption, BoundsAssumption
  DEF IndInv, ReadExisting, TypeOK, DecisionsHold, LockHeld, Decided, Logged,
      Holding, Store!Changes,      Store!Reported
<1>5. ReplyIsRecorded' /\ AnswerIsRecorded'
  BY NullsAssumption, BoundsAssumption
  DEF IndInv, ReadExisting, TypeOK, ReplyIsRecorded, AnswerIsRecorded, Tokens
<1>. QED  BY <1>1, <1>2, <1>3, <1>4, <1>5 DEF IndInv

\* The delete decides on the rows no other call can change any more.
LEMMA DeleteTuplePreserves ==
    ASSUME IndInv, NEW c \in Calls, DeleteTuple(c)
    PROVE  IndInv'
<1>1. TypeOK'
  BY NullsAssumption, BoundsAssumption
  DEF IndInv, DeleteTuple, TypeOK, Asked, Tokens, Expiries, States, Holding,
      Request, Store!Requests, Store!Ops
<1>2. LockHeld' /\ Asked'
  BY NullsAssumption, BoundsAssumption
  DEF IndInv, DeleteTuple, TypeOK, LockHeld, Asked, Holding, States
<1>3. TokensAllocated' /\ TokensAscend' /\ NoTokenOvertaken'
  BY NullsAssumption, BoundsAssumption
  DEF IndInv, DeleteTuple, TypeOK, TokensAllocated, TokensAscend,
      NoTokenOvertaken, Logged, Tokens
<1>4. DecisionsHold'
  BY NullsAssumption, BoundsAssumption
  DEF IndInv, DeleteTuple, TypeOK, DecisionsHold, LockHeld, Decided, Logged,
      Holding, Store!Changes,      Store!Reported
<1>5. ReplyIsRecorded' /\ AnswerIsRecorded'
  BY NullsAssumption, BoundsAssumption
  DEF IndInv, DeleteTuple, TypeOK, ReplyIsRecorded, AnswerIsRecorded, Tokens
<1>. QED  BY <1>1, <1>2, <1>3, <1>4, <1>5 DEF IndInv

\* The new token is larger than every token handed out before.
LEMMA InsertWriteLogPreserves ==
    ASSUME IndInv, NEW c \in Calls, InsertWriteLog(c)
    PROVE  IndInv'
<1>1. TypeOK'
  BY NullsAssumption, BoundsAssumption
  DEF IndInv, InsertWriteLog, TypeOK, Asked, Tokens, Expiries, States, Holding,
      Request, Store!Requests, Store!Ops
<1>2. LockHeld' /\ Asked'
  BY NullsAssumption, BoundsAssumption
  DEF IndInv, InsertWriteLog, TypeOK, LockHeld, Asked, Holding, States
<1>3. TokensAllocated'
  BY NullsAssumption, BoundsAssumption, TokensAreNumbers
  DEF IndInv, InsertWriteLog, TypeOK, TokensAllocated, Logged, Tokens
<1>4. TokensAscend'
  BY NullsAssumption, BoundsAssumption, TokensAreNumbers
  DEF IndInv, InsertWriteLog, TypeOK, TokensAscend
<1>5. NoTokenOvertaken'
  BY NullsAssumption, BoundsAssumption, TokensAreNumbers
  DEF IndInv, InsertWriteLog, TypeOK, TokensAllocated, NoTokenOvertaken, Logged,
      Tokens, LogEntry
<1>6. DecisionsHold'
  BY NullsAssumption, BoundsAssumption
  DEF IndInv, InsertWriteLog, TypeOK, DecisionsHold, LockHeld, Decided, Logged,
      Holding, Store!Changes,      Store!Reported
<1>7. ReplyIsRecorded' /\ AnswerIsRecorded'
  BY NullsAssumption, BoundsAssumption
  DEF IndInv, InsertWriteLog, TypeOK, ReplyIsRecorded, AnswerIsRecorded, Tokens
<1>. QED  BY <1>1, <1>2, <1>3, <1>4, <1>5, <1>6, <1>7 DEF IndInv

\* A COMMIT appends the only uncommitted token, the largest so far.
LEMMA CommitPreserves ==
    ASSUME IndInv, NEW c \in Calls, Commit(c)
    PROVE  IndInv'
<1>. pc[c] \in Logged /\ Land(c)
  BY DEF Commit, Logged
<1>1. /\ history' \in Seq(LogEntry)
      /\ Len(history) \in Nat
      /\ DOMAIN history = 1..Len(history)
      /\ DOMAIN history' = 1..(Len(history) + 1)
      /\ \A i \in 1..Len(history) : history'[i] = history[i]
      /\ history'[Len(history) + 1] = LandedEntry(c)
      /\ LandedEntry(c) \in LogEntry
      /\ rows' \in [Facts -> Expiries \cup {NoExpiry, None}]
      /\ lock' = None
  BY LandGrowsLog
<1>2. \A e \in Calls : pc[e] \in Holding => e = c
  BY CommitterIsAlone
<1>3. TypeOK'
  <2>1. history' \in Seq(LogEntry)
    BY <1>1
  <2>2. rows' \in [Facts -> Expiries \cup {NoExpiry, None}]
    BY <1>1
  <2>3. lock' \in Calls \cup {None}
    BY <1>1
  <2>. QED  BY <2>1, <2>2, <2>3, BoundsAssumption DEF IndInv, Commit, TypeOK, States
<1>4. LockHeld' /\ Asked'
  BY <1>1, <1>2, NullsAssumption DEF IndInv, Commit, TypeOK, LockHeld, Asked, Holding
<1>5. TokensAllocated'
  <2>1. \A i \in DOMAIN history' : history'[i].token <= seq
    BY <1>1, TokensAreNumbers DEF IndInv, TokensAllocated, LandedEntry
  <2>. QED  BY <2>1 DEF IndInv, Commit, TypeOK, TokensAllocated, Logged
<1>6. TokensAscend'
  <2>. SUFFICES ASSUME NEW i \in DOMAIN history', NEW j \in DOMAIN history', i < j
               PROVE  history'[i].token < history'[j].token
    BY DEF TokensAscend
  <2>1. i \in 1..Len(history)
    BY <1>1
  <2>2. CASE j \in 1..Len(history)
    BY <1>1, <2>1, <2>2 DEF IndInv, TokensAscend
  <2>3. CASE j = Len(history) + 1
    BY <1>1, <2>1, <2>3 DEF IndInv, NoTokenOvertaken, LandedEntry
  <2>. QED  BY <1>1, <2>2, <2>3
<1>7. NoTokenOvertaken'
  BY <1>2 DEF IndInv, Commit, TypeOK, NoTokenOvertaken, Logged, Holding
<1>8. DecisionsHold'
  BY <1>2 DEF IndInv, Commit, TypeOK, DecisionsHold, Decided, Logged, Holding
<1>9. ReplyIsRecorded' /\ AnswerIsRecorded'
  <2>1. \E i \in DOMAIN history' : /\ history'[i].token = token[c]
                                   /\ history'[i].changed = changed[c]
                                   /\ history'[i].existing = existing[c]
    BY <1>1 DEF LandedEntry
  <2>2. \A i \in DOMAIN history : i \in DOMAIN history' /\ history'[i] = history[i]
    BY <1>1
  <2>3. ReplyIsRecorded'
    BY <2>1, <2>2 DEF IndInv, Commit, TypeOK, ReplyIsRecorded
  <2>4. AnswerIsRecorded /\ UNCHANGED outcome
    BY DEF IndInv, Commit
  <2>5. AnswerIsRecorded'
    BY <2>2, <2>4 DEF AnswerIsRecorded
  <2>. QED  BY <2>3, <2>5
<1>. QED  BY <1>3, <1>4, <1>5, <1>6, <1>7, <1>8, <1>9 DEF IndInv

\* The answer given is the one already recorded.
LEMMA ReturnPreserves ==
    ASSUME IndInv, NEW c \in Calls, Return(c)
    PROVE  IndInv'
<1>1. TypeOK'
  BY NullsAssumption, BoundsAssumption
  DEF IndInv, Return, Finish, Leave, Reply, TypeOK, Asked, Tokens, Expiries,
      States, Holding, Request, Store!Requests, Store!Ops
<1>2. LockHeld' /\ Asked'
  BY NullsAssumption, BoundsAssumption
  DEF IndInv, Return, Finish, Leave, Reply, TypeOK, LockHeld, Asked, Holding,
      States
<1>3. TokensAllocated' /\ TokensAscend' /\ NoTokenOvertaken'
  BY NullsAssumption, BoundsAssumption
  DEF IndInv, Return, Finish, Leave, Reply, TypeOK, TokensAllocated, TokensAscend,
      NoTokenOvertaken, Logged, Tokens
<1>4. DecisionsHold'
  BY NullsAssumption, BoundsAssumption
  DEF IndInv, Return, Finish, Leave, Reply, TypeOK, DecisionsHold, LockHeld,
      Decided, Logged, Holding, Store!Changes,      Store!Reported
<1>5. ReplyIsRecorded' /\ AnswerIsRecorded'
  BY NullsAssumption, BoundsAssumption
  DEF IndInv, Return, Finish, Leave, Reply, TypeOK, ReplyIsRecorded,
      AnswerIsRecorded, Tokens
<1>. QED  BY <1>1, <1>2, <1>3, <1>4, <1>5 DEF IndInv

\* A lost answer takes nothing back.
LEMMA LoseAckPreserves ==
    ASSUME IndInv, NEW c \in Calls, LoseAck(c)
    PROVE  IndInv'
<1>1. TypeOK'
  BY NullsAssumption, BoundsAssumption
  DEF IndInv, LoseAck, Finish, Leave, Failed, TypeOK, Asked, Tokens, Expiries,
      States, Holding, Request, Store!Requests, Store!Ops
<1>2. LockHeld' /\ Asked'
  BY NullsAssumption, BoundsAssumption
  DEF IndInv, LoseAck, Finish, Leave, Failed, TypeOK, LockHeld, Asked, Holding,
      States
<1>3. TokensAllocated' /\ TokensAscend' /\ NoTokenOvertaken'
  BY NullsAssumption, BoundsAssumption
  DEF IndInv, LoseAck, Finish, Leave, Failed, TypeOK, TokensAllocated,
      TokensAscend, NoTokenOvertaken, Logged, Tokens
<1>4. DecisionsHold'
  BY NullsAssumption, BoundsAssumption
  DEF IndInv, LoseAck, Finish, Leave, Failed, TypeOK, DecisionsHold, LockHeld,
      Decided, Logged, Holding, Store!Changes,      Store!Reported
<1>5. ReplyIsRecorded' /\ AnswerIsRecorded'
  BY NullsAssumption, BoundsAssumption
  DEF IndInv, LoseAck, Finish, Leave, Failed, TypeOK, ReplyIsRecorded,
      AnswerIsRecorded, Tokens
<1>. QED  BY <1>1, <1>2, <1>3, <1>4, <1>5 DEF IndInv

\* A call that throws before its COMMIT leaves only its token behind.
LEMMA ThrowPreserves ==
    ASSUME IndInv, NEW c \in Calls, Throw(c)
    PROVE  IndInv'
<1>1. TypeOK'
  BY NullsAssumption, BoundsAssumption
  DEF IndInv, Throw, Release, Leave, Failed, TypeOK, Asked, Tokens, Expiries,
      States, Holding, Request, Store!Requests, Store!Ops
<1>2. LockHeld' /\ Asked'
  BY NullsAssumption, BoundsAssumption
  DEF IndInv, Throw, Release, Leave, Failed, TypeOK, LockHeld, Asked, Holding,
      States
<1>3. TokensAllocated' /\ TokensAscend' /\ NoTokenOvertaken'
  BY NullsAssumption, BoundsAssumption
  DEF IndInv, Throw, Release, Leave, Failed, TypeOK, TokensAllocated,
      TokensAscend, NoTokenOvertaken, Logged, Tokens
<1>4. DecisionsHold'
  BY NullsAssumption, BoundsAssumption
  DEF IndInv, Throw, Release, Leave, Failed, TypeOK, DecisionsHold, LockHeld,
      Decided, Logged, Holding, Store!Changes,      Store!Reported
<1>5. ReplyIsRecorded' /\ AnswerIsRecorded'
  BY NullsAssumption, BoundsAssumption
  DEF IndInv, Throw, Release, Leave, Failed, TypeOK, ReplyIsRecorded,
      AnswerIsRecorded, Tokens
<1>. QED  BY <1>1, <1>2, <1>3, <1>4, <1>5 DEF IndInv

\* The orphaned transaction keeps the lock.
LEMMA LoseConnectionPreserves ==
    ASSUME IndInv, NEW c \in Calls, LoseConnection(c)
    PROVE  IndInv'
<1>1. TypeOK'
  BY NullsAssumption, BoundsAssumption
  DEF IndInv, LoseConnection, Failed, TypeOK, Asked, Tokens, Expiries, States,
      Holding, Request, Store!Requests, Store!Ops
<1>2. LockHeld' /\ Asked'
  BY NullsAssumption, BoundsAssumption
  DEF IndInv, LoseConnection, Failed, TypeOK, LockHeld, Asked, Holding, States
<1>3. TokensAllocated' /\ TokensAscend' /\ NoTokenOvertaken'
  BY NullsAssumption, BoundsAssumption
  DEF IndInv, LoseConnection, Failed, TypeOK, TokensAllocated, TokensAscend,
      NoTokenOvertaken, Logged, Tokens
<1>4. DecisionsHold'
  BY NullsAssumption, BoundsAssumption
  DEF IndInv, LoseConnection, Failed, TypeOK, DecisionsHold, LockHeld, Decided,
      Logged, Holding, Store!Changes,      Store!Reported
<1>5. ReplyIsRecorded' /\ AnswerIsRecorded'
  BY NullsAssumption, BoundsAssumption
  DEF IndInv, LoseConnection, Failed, TypeOK, ReplyIsRecorded, AnswerIsRecorded,
      Tokens
<1>. QED  BY <1>1, <1>2, <1>3, <1>4, <1>5 DEF IndInv

\* An aborted orphan gives the lock back.
LEMMA ReapPreserves ==
    ASSUME IndInv, NEW c \in Calls, Reap(c)
    PROVE  IndInv'
<1>1. TypeOK'
  BY NullsAssumption, BoundsAssumption
  DEF IndInv, Reap, Release, Leave, TypeOK, Asked, Tokens, Expiries, States,
      Holding, Request, Store!Requests, Store!Ops
<1>2. LockHeld' /\ Asked'
  BY NullsAssumption, BoundsAssumption
  DEF IndInv, Reap, Release, Leave, TypeOK, LockHeld, Asked, Holding, States
<1>3. TokensAllocated' /\ TokensAscend' /\ NoTokenOvertaken'
  BY NullsAssumption, BoundsAssumption
  DEF IndInv, Reap, Release, Leave, TypeOK, TokensAllocated, TokensAscend,
      NoTokenOvertaken, Logged, Tokens
<1>4. DecisionsHold'
  BY NullsAssumption, BoundsAssumption
  DEF IndInv, Reap, Release, Leave, TypeOK, DecisionsHold, LockHeld, Decided,
      Logged, Holding, Store!Changes,      Store!Reported
<1>5. ReplyIsRecorded' /\ AnswerIsRecorded'
  BY NullsAssumption, BoundsAssumption
  DEF IndInv, Reap, Release, Leave, TypeOK, ReplyIsRecorded, AnswerIsRecorded,
      Tokens
<1>. QED  BY <1>1, <1>2, <1>3, <1>4, <1>5 DEF IndInv

\* A COMMIT that lands late is a COMMIT under the lock.
LEMMA LandOrphanPreserves ==
    ASSUME IndInv, NEW c \in Calls, LandOrphan(c)
    PROVE  IndInv'
<1>. pc[c] \in Logged /\ Land(c)
  BY DEF LandOrphan, Logged
<1>1. /\ history' \in Seq(LogEntry)
      /\ Len(history) \in Nat
      /\ DOMAIN history = 1..Len(history)
      /\ DOMAIN history' = 1..(Len(history) + 1)
      /\ \A i \in 1..Len(history) : history'[i] = history[i]
      /\ history'[Len(history) + 1] = LandedEntry(c)
      /\ LandedEntry(c) \in LogEntry
      /\ rows' \in [Facts -> Expiries \cup {NoExpiry, None}]
      /\ lock' = None
  BY LandGrowsLog
<1>2. \A e \in Calls : pc[e] \in Holding => e = c
  BY CommitterIsAlone
<1>3. TypeOK'
  <2>1. history' \in Seq(LogEntry)
    BY <1>1
  <2>2. rows' \in [Facts -> Expiries \cup {NoExpiry, None}]
    BY <1>1
  <2>3. lock' \in Calls \cup {None}
    BY <1>1
  <2>. QED  BY <2>1, <2>2, <2>3, BoundsAssumption DEF IndInv, LandOrphan, Leave, TypeOK, States
<1>4. LockHeld' /\ Asked'
  BY <1>1, <1>2, NullsAssumption DEF IndInv, LandOrphan, Leave, TypeOK, LockHeld, Asked, Holding
<1>5. TokensAllocated'
  <2>1. \A i \in DOMAIN history' : history'[i].token <= seq
    BY <1>1, TokensAreNumbers DEF IndInv, TokensAllocated, LandedEntry
  <2>. QED  BY <2>1 DEF IndInv, LandOrphan, Leave, TypeOK, TokensAllocated, Logged
<1>6. TokensAscend'
  <2>. SUFFICES ASSUME NEW i \in DOMAIN history', NEW j \in DOMAIN history', i < j
               PROVE  history'[i].token < history'[j].token
    BY DEF TokensAscend
  <2>1. i \in 1..Len(history)
    BY <1>1
  <2>2. CASE j \in 1..Len(history)
    BY <1>1, <2>1, <2>2 DEF IndInv, TokensAscend
  <2>3. CASE j = Len(history) + 1
    BY <1>1, <2>1, <2>3 DEF IndInv, NoTokenOvertaken, LandedEntry
  <2>. QED  BY <1>1, <2>2, <2>3
<1>7. NoTokenOvertaken'
  BY <1>2 DEF IndInv, LandOrphan, Leave, TypeOK, NoTokenOvertaken, Logged, Holding
<1>8. DecisionsHold'
  BY <1>2 DEF IndInv, LandOrphan, Leave, TypeOK, DecisionsHold, Decided, Logged, Holding
<1>9. ReplyIsRecorded' /\ AnswerIsRecorded'
  <2>1. \E i \in DOMAIN history' : /\ history'[i].token = token[c]
                                   /\ history'[i].changed = changed[c]
                                   /\ history'[i].existing = existing[c]
    BY <1>1 DEF LandedEntry
  <2>2. \A i \in DOMAIN history : i \in DOMAIN history' /\ history'[i] = history[i]
    BY <1>1
  <2>3. ReplyIsRecorded'
    BY <2>1, <2>2 DEF IndInv, LandOrphan, Leave, TypeOK, ReplyIsRecorded
  <2>4. AnswerIsRecorded /\ UNCHANGED outcome
    BY DEF IndInv, LandOrphan, Leave
  <2>5. AnswerIsRecorded'
    BY <2>2, <2>4 DEF AnswerIsRecorded
  <2>. QED  BY <2>3, <2>5
<1>. QED  BY <1>3, <1>4, <1>5, <1>6, <1>7, <1>8, <1>9 DEF IndInv


LEMMA NextPreserves == IndInv /\ [Next]_vars => IndInv'
<1>. SUFFICES ASSUME IndInv, [Next]_vars PROVE IndInv'
  OBVIOUS
<1>1. CASE UNCHANGED vars
  BY <1>1
  DEF IndInv, vars, TypeOK, LockHeld, Asked, TokensAllocated, TokensAscend, NoTokenOvertaken,
      DecisionsHold, ReplyIsRecorded, AnswerIsRecorded, Store!Changes, Store!Reported
<1>2. CASE Tick
  BY <1>2, BoundsAssumption
  DEF IndInv, Tick, callVars, TypeOK, LockHeld, Asked, TokensAllocated, TokensAscend,
      NoTokenOvertaken, DecisionsHold, ReplyIsRecorded, AnswerIsRecorded,
      Store!Changes, Store!Reported
<1>3. ASSUME NEW c \in Calls, Step(c) PROVE IndInv'
  BY <1>3, BeginPreserves, AcquireWriteLogLockPreserves, InsertTuplePreserves,
     ReadExistingPreserves, DeleteTuplePreserves, InsertWriteLogPreserves, CommitPreserves,
     ReturnPreserves, LoseAckPreserves, ThrowPreserves, LoseConnectionPreserves,
     ReapPreserves, LandOrphanPreserves
  DEF Step
<1>. QED  BY <1>1, <1>2, <1>3 DEF Next

\* Every reachable state of the store satisfies the inductive invariant.
THEOREM Invariance == Spec => []IndInv
BY InitHolds, NextPreserves, PTL DEF Spec

\* Every variable keeps its type.
THEOREM TypeCorrect == Spec => []TypeOK
<1>1. IndInv => TypeOK
  BY DEF IndInv
<1>. QED  BY <1>1, Invariance, PTL

\* Token order is commit order: no committed write ever carries a later token
\* than one that is still in flight.
THEOREM TokenOrder == Spec => []NoTokenOvertaken
<1>1. IndInv => NoTokenOvertaken
  BY DEF IndInv
<1>. QED  BY <1>1, Invariance, PTL

\* Every answer given to a caller is in the committed write_log.
THEOREM AnswersRecorded == Spec => []AnswerIsRecorded
<1>1. IndInv => AnswerIsRecorded
  BY DEF IndInv
<1>. QED  BY <1>1, Invariance, PTL

\* A COMMIT is one step of the abstract store.
LEMMA LandIsAtomic ==
    ASSUME IndInv, NEW c \in Calls, pc[c] \in Logged, Land(c)
    PROVE  Store!Next
<1>1. req[c] \in Store!Requests /\ token[c] \in Tokens
  BY BoundsAssumption DEF IndInv, Asked, TypeOK, Logged, TokensAllocated, Tokens, Request
<1>2. /\ changed[c] = Store!Changes(rows, req[c])
      /\ existing[c] = Store!Reported(rows, req[c])
  BY DEF IndInv, DecisionsHold, Logged, Decided
<1>3. Store!Entry(rows, req[c], token[c]) = LandedEntry(c)
  BY <1>2 DEF Store!Entry, LandedEntry
<1>4. history' = Append(history, Store!Entry(rows, req[c], token[c]))
  BY <1>3 DEF Land, LandedEntry
<1>5. rows' = Store!Apply(rows, Store!Entry(rows, req[c], token[c]))
  BY <1>3 DEF Land, LandedEntry, Store!Apply
<1>6. \A i \in DOMAIN history : history[i].token < token[c]
  BY DEF IndInv, NoTokenOvertaken
<1>. QED  BY <1>1, <1>4, <1>5, <1>6 DEF Store!Next, Store!Perform

\* Every step of the detailed store is a step of the abstract one or a stutter.
LEMMA StepIsAtomic == IndInv /\ [Next]_vars => [Store!Next]_<<rows, history>>
<1>. SUFFICES ASSUME IndInv, [Next]_vars PROVE [Store!Next]_<<rows, history>>
  OBVIOUS
<1>1. CASE UNCHANGED vars
  BY <1>1 DEF vars
<1>2. CASE Tick
  BY <1>2 DEF Tick
<1>3. ASSUME NEW c \in Calls, Commit(c) \/ LandOrphan(c) PROVE Store!Next
  BY <1>3, LandIsAtomic DEF Commit, LandOrphan, Logged
<1>4. ASSUME NEW c \in Calls, Step(c), ~Commit(c), ~LandOrphan(c)
      PROVE  UNCHANGED <<rows, history>>
  BY <1>4
  DEF Step, Begin, AcquireWriteLogLock, InsertTuple, ReadExisting, DeleteTuple,
      InsertWriteLog, Return, LoseAck, Finish, Throw, LoseConnection, Reap
<1>. QED  BY <1>1, <1>2, <1>3, <1>4 DEF Next

\* Seen from outside, every call takes effect at one instant with the answer
\* the rows give at that instant: TupleStore implements AtomicStore.
THEOREM Refinement == Spec => Atomic
<1>1. Init => Store!Init
  BY DEF Init, Store!Init
<1>. QED  BY <1>1, StepIsAtomic, Invariance, PTL DEF Spec, Atomic, Store!Spec

\* write_log only grows, at its end.
LEMMA LogGrows ==
    ASSUME IndInv, [Next]_vars
    PROVE  /\ Len(history) \in Nat /\ Len(history') \in Nat
           /\ Len(history) <= Len(history')
           /\ \A i \in 1..Len(history) : history'[i] = history[i]
<1>1. history \in Seq(LogEntry)
  BY DEF IndInv, TypeOK
<1>2. IndInv'
  BY NextPreserves
<1>3. history' \in Seq(LogEntry)
  BY <1>2 DEF IndInv, TypeOK
<1>4. CASE history' = history
  BY <1>1, <1>4
<1>5. ASSUME NEW r \in Store!Requests, NEW t \in Tokens, Store!Perform(r, t)
      PROVE  /\ Len(history) <= Len(history')
             /\ \A i \in 1..Len(history) : history'[i] = history[i]
  <2>1. history' = Append(history, Store!Entry(rows, r, t))
    BY <1>5 DEF Store!Perform
  <2>. QED  BY <1>1, <2>1
<1>6. [Store!Next]_<<rows, history>>
  BY StepIsAtomic
<1>. QED  BY <1>1, <1>3, <1>4, <1>5, <1>6 DEF Store!Next

-----------------------------------------------------------------------------
(* Pinned checks beside the write path. *)

\* The checks only read: a step of the composition is a step of the store.
LEMMA CSpecImplementsSpec == CSpec => Spec
<1>1. CInit => Init
  BY DEF CInit
<1>2. [CNext]_allVars => [Next]_vars
  BY DEF CNext, allVars, vars
<1>. QED  BY <1>1, <1>2, PTL DEF CSpec, Spec

\* The snapshot of a check lies within write_log, and the token of a pinned
\* check is observed in it.
PinHeld ==
    /\ cpc \in [Checks -> CheckStates]
    /\ verdict \in [Checks -> Verdicts]
    /\ pin \in [Checks -> 0..MaxToken \cup {None}]
    /\ snap \in [Checks -> [rows : [Facts -> Expiries \cup {NoExpiry, None}], upTo : Nat]
                             \cup {None}]
    /\ \A k \in Checks : cpc[k] = "preflight" => pin[k] # None
    /\ \A k \in Checks : cpc[k] = "walking" =>
         /\ snap[k] \in [rows : [Facts -> Expiries \cup {NoExpiry, None}], upTo : Nat]
         /\ snap[k].upTo <= Len(history)
         /\ pin[k] # None => Observed(pin[k], snap[k].upTo)

LEMMA PinHeldInitially == CInit => PinHeld
BY DEF CInit, CheckInit, PinHeld, CheckStates, Verdicts

\* A snapshot taken now is well formed.
LEMMA SnapshotTyped ==
    ASSUME IndInv
    PROVE  /\ Snapshot \in [rows : [Facts -> Expiries \cup {NoExpiry, None}], upTo : Nat]
           /\ Snapshot.upTo = Len(history)
           /\ Len(history) \in Nat
<1>1. history \in Seq(LogEntry) /\ rows \in [Facts -> Expiries \cup {NoExpiry, None}]
  BY DEF IndInv, TypeOK
<1>2. Len(history) \in Nat
  BY <1>1
<1>. QED  BY <1>1, <1>2 DEF Snapshot

\* A step of a writer extends write_log behind every snapshot.
LEMMA WriterKeepsPins ==
    ASSUME IndInv, PinHeld, [Next]_vars, UNCHANGED checkVars
    PROVE  PinHeld'
<1>1. /\ Len(history) \in Nat /\ Len(history') \in Nat
      /\ Len(history) <= Len(history')
      /\ \A i \in 1..Len(history) : history'[i] = history[i]
  BY LogGrows
<1>2. ASSUME NEW k \in Checks, cpc[k] = "walking", pin[k] # None
      PROVE  Observed(pin[k], snap[k].upTo)'
  <2>1. /\ snap[k].upTo \in Nat
        /\ snap[k].upTo <= Len(history)
        /\ Observed(pin[k], snap[k].upTo)
    BY <1>2 DEF PinHeld
  <2>2. PICK i \in 1..snap[k].upTo : pin[k] <= history[i].token
    BY <2>1 DEF Observed
  <2>3. i \in 1..Len(history)
    BY <1>1, <2>1
  <2>4. pin[k] <= history'[i].token
    BY <1>1, <2>2, <2>3
  <2>. QED  BY <2>4 DEF Observed, checkVars
<1>. QED  BY <1>1, <1>2 DEF PinHeld, checkVars

\* A check that ends keeps no snapshot.
LEMMA EndKeepsPins ==
    ASSUME PinHeld, NEW k \in Checks, NEW v \in Verdicts, EndCheck(k, v), UNCHANGED vars
    PROVE  PinHeld'
<1>1. /\ cpc' \in [Checks -> CheckStates]
      /\ verdict' \in [Checks -> Verdicts]
      /\ pin' \in [Checks -> 0..MaxToken \cup {None}]
      /\ snap' \in [Checks -> [rows : [Facts -> Expiries \cup {NoExpiry, None}], upTo : Nat]
                                \cup {None}]
  BY DEF PinHeld, EndCheck, CheckStates
<1>2. \A j \in Checks : cpc'[j] = "walking" =>
        cpc[j] = "walking" /\ snap'[j] = snap[j] /\ pin'[j] = pin[j]
  BY DEF PinHeld, EndCheck
<1>4. \A j \in Checks : cpc'[j] = "preflight" => pin'[j] # None
  BY DEF PinHeld, EndCheck
<1>3. history' = history
  BY DEF vars
<1>. QED  BY <1>1, <1>2, <1>3, <1>4 DEF PinHeld, Observed

\* A step of a check leaves write_log alone and anchors only an observed pin.
LEMMA CheckKeepsPins ==
    ASSUME IndInv, PinHeld, NEW k \in Checks, CheckStep(k), UNCHANGED vars
    PROVE  PinHeld'
<1>0. history' = history
  BY DEF vars
<1>1. ASSUME NEW p \in 0..MaxToken \cup {None}, StartCheck(k, p) PROVE PinHeld'
  <2>1. cpc' \in [Checks -> CheckStates] /\ pin' \in [Checks -> 0..MaxToken \cup {None}]
    BY <1>1 DEF StartCheck, PinHeld, CheckStates
  <2>2. snap' = snap /\ verdict' \in [Checks -> Verdicts]
    BY <1>1 DEF StartCheck, PinHeld, Verdicts
  <2>3. \A j \in Checks : cpc'[j] = "walking" => cpc[j] = "walking" /\ pin'[j] = pin[j]
    BY <1>1 DEF StartCheck, PinHeld
  <2>4. \A j \in Checks : cpc'[j] = "preflight" => pin'[j] # None
    BY <1>1 DEF StartCheck, PinHeld
  <2>. QED  BY <1>0, <2>1, <2>2, <2>3, <2>4 DEF PinHeld, Observed
<1>2. CASE cpc' = [cpc EXCEPT ![k] = "opening"] /\ UNCHANGED <<pin, snap, verdict>>
  BY <1>0, <1>2 DEF PinHeld, Observed, CheckStates
<1>3. CASE BeginRepeatableRead(k)
  BY <1>0, <1>3 DEF BeginRepeatableRead, PinHeld, Observed, CheckStates
<1>4. ASSUME cpc' = [cpc EXCEPT ![k] = "walking"],
             snap' = [snap EXCEPT ![k] = Snapshot],
             pin[k] # None => Observed(pin[k], Len(history)),
             UNCHANGED <<pin, verdict>>
      PROVE  PinHeld'
  <2>1. /\ Snapshot \in [rows : [Facts -> Expiries \cup {NoExpiry, None}], upTo : Nat]
        /\ Snapshot.upTo = Len(history)
        /\ Len(history) \in Nat
    BY SnapshotTyped
  <2>2. cpc' \in [Checks -> CheckStates]
    BY <1>4 DEF PinHeld, CheckStates
  <2>3. snap'[k] = Snapshot /\ \A j \in Checks \ {k} : snap'[j] = snap[j] /\ cpc'[j] = cpc[j]
    BY <1>4 DEF PinHeld
  <2>. QED  BY <1>0, <1>4, <2>1, <2>2, <2>3 DEF PinHeld, Observed
<1>5. ASSUME NEW f \in Facts, ReadTuples(k, f), cpc[k] = "walking" PROVE PinHeld'
  BY <1>0, <1>5 DEF ReadTuples, PinHeld, Observed
<1>6. ASSUME NEW f \in Facts, ReadTuples(k, f), cpc[k] = "open" PROVE PinHeld'
  BY <1>4, <1>6 DEF ReadTuples
<1>7. ASSUME NEW v \in Verdicts, EndCheck(k, v) PROVE PinHeld'
  BY <1>7, EndKeepsPins
<1>8. "answered" \in Verdicts /\ "notObserved" \in Verdicts /\ "error" \in Verdicts
  BY DEF Verdicts
<1>. QED  BY <1>1, <1>2, <1>3, <1>4, <1>5, <1>6, <1>7, <1>8
          DEF CheckStep, AssertTokenObserved, AnchorSnapshot, ReadTuples, Answer, CheckThrows

LEMMA PinsInvariant == CSpec => [](IndInv /\ PinHeld)
<1>1. CSpec => []IndInv
  BY CSpecImplementsSpec, Invariance, PTL
<1>2. IndInv /\ PinHeld /\ [CNext]_allVars => PinHeld'
  <2>. SUFFICES ASSUME IndInv, PinHeld, [CNext]_allVars PROVE PinHeld'
    OBVIOUS
  <2>1. CASE UNCHANGED allVars
    BY <2>1, WriterKeepsPins DEF allVars
  <2>2. CASE Next /\ UNCHANGED checkVars
    BY <2>2, WriterKeepsPins
  <2>3. CASE (\E k \in Checks : CheckStep(k)) /\ UNCHANGED vars
    BY <2>3, CheckKeepsPins
  <2>. QED  BY <2>1, <2>2, <2>3 DEF CNext
<1>. QED  BY <1>1, <1>2, PinHeldInitially, PTL DEF CSpec

\* A check pinned to token T never ignores a write with token <= T, not even
\* one that commits after the check has taken its snapshot.
THEOREM PinnedGuarantee == CSpec => []PinnedSeesEverythingUpToToken
<1>1. ASSUME IndInv, PinHeld PROVE PinnedSeesEverythingUpToToken
  <2>. SUFFICES ASSUME NEW k \in Checks, cpc[k] = "walking", pin[k] # None,
                       NEW j \in DOMAIN history, history[j].token <= pin[k]
                PROVE  j <= snap[k].upTo
    BY DEF PinnedSeesEverythingUpToToken
  <2>1. snap[k].upTo \in Nat /\ Observed(pin[k], snap[k].upTo) /\ pin[k] \in Nat
    BY <1>1, BoundsAssumption DEF PinHeld
  <2>2. PICK i \in 1..snap[k].upTo : pin[k] <= history[i].token
    BY <2>1 DEF Observed
  <2>3. history \in Seq(LogEntry) /\ snap[k].upTo <= Len(history)
    BY <1>1 DEF IndInv, TypeOK, PinHeld
  <2>4. i \in DOMAIN history /\ j \in Nat /\ i \in Nat
    BY <2>1, <2>3
  <2>5. history[i].token \in Nat /\ history[j].token \in Nat
    BY <1>1, <2>4, TokensAreNumbers
  <2>6. ~(i < j)
    BY <1>1, <2>1, <2>2, <2>4, <2>5 DEF IndInv, TokensAscend
  <2>. QED  BY <2>1, <2>2, <2>4, <2>6
<1>. QED  BY <1>1, PinsInvariant, PTL

\* A token that was handed to a caller is never refused as not yet observed.
THEOREM AcknowledgedGuarantee == CSpec => AcknowledgedTokenIsObserved
<1>1. ASSUME IndInv, PinHeld, [CNext]_allVars PROVE RefusesOnlyUnknownTokens
  <2>. SUFFICES ASSUME NEW k \in Checks, verdict'[k] = "notObserved",
                       verdict[k] # "notObserved", NEW c \in Calls,
                       outcome[c] # None, outcome[c].ok
                PROVE  outcome[c].token < pin[k]
    BY DEF RefusesOnlyUnknownTokens
  <2>1. PICK j \in Checks : CheckStep(j)
    BY <1>1 DEF CNext, allVars, checkVars
  <2>2. j = k /\ pin[k] \in 0..MaxToken /\ ~Observed(pin[k], Len(history))
    <3>1. verdict \in [Checks -> Verdicts]
      BY <1>1 DEF PinHeld
    <3>2. ASSUME NEW v, EndCheck(j, v) PROVE j = k /\ v = "notObserved"
      BY <3>1, <3>2 DEF EndCheck
    <3>3. ~ \E p \in 0..MaxToken \cup {None} : StartCheck(j, p)
      BY <3>1 DEF StartCheck
    <3>4. UNCHANGED verdict \/ \E v \in Verdicts : EndCheck(j, v)
      BY <2>1, <3>3
      DEF CheckStep, AssertTokenObserved, BeginRepeatableRead, AnchorSnapshot, ReadTuples,
          Answer, CheckThrows, Verdicts
    <3>5. j = k
      BY <3>2, <3>4
    <3>6. pin[k] # None /\ ~Observed(pin[k], Len(history))
      BY <1>1, <2>1, <3>2, <3>3, <3>5
      DEF PinHeld, CheckStep, AssertTokenObserved, BeginRepeatableRead, AnchorSnapshot,
          ReadTuples, Answer, CheckThrows
    <3>. QED  BY <1>1, <3>5, <3>6 DEF PinHeld
  <2>3. PICK i \in DOMAIN history : history[i].token = outcome[c].token
    BY <1>1 DEF IndInv, AnswerIsRecorded
  <2>4. history[i].token \in Nat /\ i \in 1..Len(history)
    BY <1>1, TokensAreNumbers DEF IndInv, TypeOK
  <2>. QED  BY <2>2, <2>3, <2>4, BoundsAssumption DEF Observed
<1>. QED  BY <1>1, PinsInvariant, PTL DEF AcknowledgedTokenIsObserved, CSpec

-----------------------------------------------------------------------------
Stored == [Facts -> Expiries \cup {NoExpiry, None}]
NothingStored == [f \in Facts |-> None]

\* What an entry of write_log, without its caller's answer, does to the rows.
Redo(rs, e) == [rs EXCEPT ![e.fact] = IF e.op = "delete" THEN None
                                      ELSE IF @ = None THEN e.expiresAt ELSE @]

\* RowsAt over any write_log.
Replay(h, n) ==
    LET at[k \in 0..n] ==
          IF k = 0 THEN [f \in Facts |-> None]
          ELSE LET e == h[k]
               IN  [at[k - 1] EXCEPT ![e.fact] =
                      IF e.op = "delete" THEN None
                      ELSE IF @ = None THEN e.expiresAt ELSE @]
    IN  at[n]

LEMMA RedoTyped ==
    ASSUME NEW rs \in Stored, NEW e \in LogEntry
    PROVE  Redo(rs, e) \in Stored
BY DEF Stored, Redo, LogEntry

\* The recursion of RowsAt is well defined and runs entry by entry.
LEMMA ReplayRuns ==
    ASSUME NEW h \in Seq(LogEntry), NEW n \in 0..Len(h)
    PROVE  \E at \in [0..n -> Stored] :
               /\ at[0] = NothingStored
               /\ \A k \in 1..n : at[k] = Redo(at[k - 1], h[k])
               /\ Replay(h, n) = at[n]
<1> DEFINE s == [k \in 1..n |-> [rs \in Stored |-> Redo(rs, h[k])]]
           Body(f) == [k \in 0..n |->
                         IF k = 0 THEN NothingStored ELSE Redo(f[k - 1], h[k])]
           at == CHOOSE f : f = Body(f)
<1>0. n \in Nat
  OBVIOUS
<1>1. n \in Nat /\ \A k \in 1..n : h[k] \in LogEntry
  OBVIOUS
<1>2. s \in [1..n -> [Stored -> Stored]]
  BY <1>1, RedoTyped
<1>3. NothingStored \in Stored
  BY DEF NothingStored, Stored
<1>4. PICK a \in [0..n -> Stored] :
        a[0] = NothingStored /\ \A k \in 1..n : a[k] = s[k][a[k - 1]]
  <2> HIDE DEF s
  <2> QED BY <1>1, <1>2, <1>3, RecursionDefines
<1>5. \A k \in 1..n : a[k] = Redo(a[k - 1], h[k])
  BY <1>1, <1>4
<1>6. a = Body(a)
  <2>1. \A k \in 0..n : a[k] = IF k = 0 THEN NothingStored ELSE Redo(a[k - 1], h[k])
    BY <1>1, <1>4, <1>5
  <2> QED BY <2>1
<1>7. at = Body(at)
  <2> HIDE DEF Body
  <2> QED BY <1>6
<1>8. \A k \in 0..n : at[k] = a[k]
  <2>1. /\ at[0] = NothingStored
        /\ \A k \in 1..n : at[k] = Redo(at[k - 1], h[k])
    <3> HIDE DEF at
    <3> QED BY <1>1, <1>7
  <2> HIDE DEF at, s, Body
  <2> DEFINE T == { k \in 0..n : at[k] = a[k] }
  <2>2. 0 \in T /\ \A k \in 1..n : k - 1 \in T => k \in T
    BY <1>0, <1>4, <1>5, <2>1
  <2>3. 0..n \subseteq T
    <3> HIDE DEF T
    <3> QED BY <1>0, <2>2, Along
  <2> QED BY <2>3
<1>9. Replay(h, n) = at[n]
  BY DEF Replay, Redo, NothingStored
<1>10. Replay(h, n) = a[n]
  <2> HIDE DEF at
  <2> QED BY <1>1, <1>8, <1>9
<1> QED BY <1>4, <1>5, <1>10

LEMMA ReplayStep ==
    ASSUME NEW h \in Seq(LogEntry), NEW n \in 1..Len(h)
    PROVE  Replay(h, n) = Redo(Replay(h, n - 1), h[n])
<1>0. n - 1 \in Nat
  OBVIOUS
<1>1. n \in 0..Len(h) /\ n - 1 \in 0..Len(h) /\ n - 1 \in 0..(n - 1)
  OBVIOUS
<1>2. PICK a \in [0..n -> Stored] :
        /\ a[0] = NothingStored
        /\ \A k \in 1..n : a[k] = Redo(a[k - 1], h[k])
        /\ Replay(h, n) = a[n]
  BY <1>1, ReplayRuns
<1>3. PICK b \in [0..(n - 1) -> Stored] :
        /\ b[0] = NothingStored
        /\ \A k \in 1..(n - 1) : b[k] = Redo(b[k - 1], h[k])
        /\ Replay(h, n - 1) = b[n - 1]
  BY <1>1, ReplayRuns
<1>4. \A k \in 1..(n - 1) : b[k - 1] = a[k - 1] => b[k] = a[k]
  BY <1>1, <1>2, <1>3
<1>5. b[0] = a[0]
  BY <1>2, <1>3
<1> DEFINE T == { k \in 0..(n - 1) : b[k] = a[k] }
<1>6. 0..(n - 1) \subseteq T
  <2>1. 0 \in T /\ \A k \in 1..(n - 1) : k - 1 \in T => k \in T
    BY <1>0, <1>4, <1>5
  <2> HIDE DEF T
  <2> QED BY <1>0, <2>1, Along
<1>7. b[n - 1] = a[n - 1]
  BY <1>1, <1>6
<1> QED BY <1>2, <1>3, <1>7

LEMMA ReplayOfPrefix ==
    ASSUME NEW h \in Seq(LogEntry), NEW g \in Seq(LogEntry),
           NEW n \in 0..Len(h), n <= Len(g), \A i \in 1..n : g[i] = h[i]
    PROVE  Replay(g, n) = Replay(h, n)
<1>0. n \in Nat
  OBVIOUS
<1>1. n \in 0..n /\ n \in 0..Len(g)
  OBVIOUS
<1>2. PICK a \in [0..n -> Stored] :
        /\ a[0] = NothingStored
        /\ \A k \in 1..n : a[k] = Redo(a[k - 1], h[k])
        /\ Replay(h, n) = a[n]
  BY ReplayRuns
<1>3. PICK b \in [0..n -> Stored] :
        /\ b[0] = NothingStored
        /\ \A k \in 1..n : b[k] = Redo(b[k - 1], g[k])
        /\ Replay(g, n) = b[n]
  BY <1>1, ReplayRuns
<1>4. \A k \in 1..n : b[k - 1] = a[k - 1] => b[k] = a[k]
  BY <1>2, <1>3
<1>5. b[0] = a[0]
  BY <1>2, <1>3
<1> DEFINE T == { k \in 0..n : b[k] = a[k] }
<1>6. 0..n \subseteq T
  <2>1. 0 \in T /\ \A k \in 1..n : k - 1 \in T => k \in T
    BY <1>0, <1>4, <1>5
  <2> HIDE DEF T
  <2> QED BY <1>0, <2>1, Along
<1> QED BY <1>1, <1>2, <1>3, <1>6
\* Replay is what RowsAt is.
LEMMA RowsAtIsReplay == \A n : RowsAt(n) = Replay(history, n)
BY DEF RowsAt, Replay

\* The rows are what write_log makes of an empty table.
RowsFollowLog == rows = Replay(history, Len(history))

LEMMA RowsFollowInitially == Init => RowsFollowLog
<1> SUFFICES ASSUME Init PROVE RowsFollowLog
  OBVIOUS
<1>1. history = << >> /\ rows = NothingStored
  BY DEF Init, NothingStored
<1>2. << >> \in Seq(LogEntry) /\ Len(<< >>) = 0 /\ 0 \in 0..0
  OBVIOUS
<1>3. Replay(<< >>, 0) = NothingStored
  BY <1>2, ReplayRuns
<1> QED BY <1>1, <1>2, <1>3 DEF RowsFollowLog

LEMMA RowsKeepFollowing ==
    ASSUME IndInv, RowsFollowLog, [Next]_vars
    PROVE  RowsFollowLog'
<1>1. history \in Seq(LogEntry) /\ history' \in Seq(LogEntry)
  BY NextPreserves DEF IndInv, TypeOK
<1>2. CASE UNCHANGED <<rows, history>>
  BY <1>2 DEF RowsFollowLog
<1>3. ASSUME NEW r \in Store!Requests, NEW t \in Tokens, Store!Perform(r, t)
      PROVE  RowsFollowLog'
  <2> DEFINE e == Store!Entry(rows, r, t)
             n == Len(history)
  <2>1. history' = Append(history, e) /\ rows' = Store!Apply(rows, e)
    BY <1>3 DEF Store!Perform
  <2>2. /\ n \in Nat /\ Len(history') = n + 1 /\ history'[n + 1] = e
        /\ \A i \in 1..n : history[i] = history'[i]
    BY <1>1, <2>1
  <2>3. n \in 0..Len(history') /\ n <= Len(history) /\ n + 1 \in 1..Len(history')
        /\ n + 1 - 1 = n
    BY <2>2
  <2> HIDE DEF n
  <2>4. Replay(history, n) = Replay(history', n)
    BY <1>1, <2>2, <2>3, ReplayOfPrefix
  <2>5. Replay(history', n + 1) = Redo(Replay(history', n), e)
    <3>1. Replay(history', n + 1) = Redo(Replay(history', n + 1 - 1), history'[n + 1])
      BY <1>1, <2>3, ReplayStep
    <3> QED BY <2>2, <2>3, <3>1
  <2>6. Redo(rows, e) = Store!Apply(rows, e)
    BY DEF Redo, Store!Apply, Store!Entry, Store!Changes, Store!Requests, Store!Ops
  <2>7. rows = Replay(history, n)
    BY DEF RowsFollowLog, n
  <2> QED BY <2>1, <2>2, <2>4, <2>5, <2>6, <2>7 DEF RowsFollowLog
<1> QED BY <1>2, <1>3, StepIsAtomic DEF Store!Next

\* What a check has read so far is what its snapshot says, and its snapshot is
\* the rows of a point of write_log that it has not started after.
ReadsHold ==
    /\ CheckTypeOK
    /\ \A k \in Checks : from[k] <= Len(history)
    /\ \A k \in Checks : cpc[k] # "walking" => seen[k] = NothingSeen
    /\ \A k \in Checks : cpc[k] = "walking" =>
         /\ from[k] <= snap[k].upTo
         /\ snap[k].rows = Replay(history, snap[k].upTo)
         /\ \A f \in Facts : seen[k][f] # None =>
                               seen[k][f] = Live(snap[k].rows[f], asOf[k])

LEMMA ReadsHoldInitially == CInit => ReadsHold
<1> SUFFICES ASSUME CInit PROVE ReadsHold
  OBVIOUS
<1>1. CheckTypeOK
  BY BoundsAssumption DEF CInit, CheckInit, CheckTypeOK, CheckStates, Verdicts, NothingSeen
<1> QED BY <1>1 DEF CInit, Init, CheckInit, ReadsHold

LEMMA WriterKeepsReads ==
    ASSUME IndInv, PinHeld, ReadsHold, [Next]_vars, UNCHANGED checkVars
    PROVE  ReadsHold'
<1>1. /\ Len(history) \in Nat /\ Len(history') \in Nat
      /\ Len(history) <= Len(history')
      /\ \A i \in 1..Len(history) : history'[i] = history[i]
  BY LogGrows
<1>2. history \in Seq(LogEntry) /\ history' \in Seq(LogEntry)
  BY NextPreserves DEF IndInv, TypeOK
<1>3. CheckTypeOK'
  BY DEF ReadsHold, CheckTypeOK, checkVars
<1>4. ASSUME NEW k \in Checks PROVE from'[k] <= Len(history')
  BY <1>1 DEF ReadsHold, CheckTypeOK, checkVars
<1>5. ASSUME NEW k \in Checks, cpc[k] = "walking"
      PROVE  snap[k].rows = Replay(history', snap[k].upTo)
  <2>1. snap[k].upTo \in Nat /\ snap[k].upTo <= Len(history)
    BY <1>5 DEF PinHeld
  <2>2. /\ snap[k].upTo \in 0..Len(history) /\ snap[k].upTo <= Len(history')
        /\ \A i \in 1..snap[k].upTo : history'[i] = history[i]
    BY <1>1, <2>1
  <2>3. Replay(history', snap[k].upTo) = Replay(history, snap[k].upTo)
    BY <1>2, <2>2, ReplayOfPrefix
  <2> QED BY <1>5, <2>3 DEF ReadsHold
<1> QED BY <1>3, <1>4, <1>5 DEF ReadsHold, checkVars

LEMMA EndKeepsReads ==
    ASSUME ReadsHold, NEW k \in Checks, NEW v \in Verdicts, EndCheck(k, v), UNCHANGED vars
    PROVE  ReadsHold'
<1>1. CheckTypeOK'
  BY BoundsAssumption DEF ReadsHold, CheckTypeOK, EndCheck, CheckStates, NothingSeen
<1>2. /\ cpc'[k] = "idle" /\ from'[k] = 0 /\ seen'[k] = NothingSeen
      /\ \A j \in Checks \ {k} : /\ cpc'[j] = cpc[j] /\ from'[j] = from[j]
                                 /\ snap'[j] = snap[j] /\ seen'[j] = seen[j]
                                 /\ asOf'[j] = asOf[j]
  BY DEF ReadsHold, CheckTypeOK, EndCheck
<1>3. history' = history
  BY DEF vars
<1> QED BY <1>1, <1>2, <1>3 DEF ReadsHold

\* A snapshot taken now, and the reads from it.
LEMMA AnchorKeepsReads ==
    ASSUME IndInv, RowsFollowLog, ReadsHold, NEW k \in Checks, UNCHANGED vars,
           cpc[k] = "open", cpc' = [cpc EXCEPT ![k] = "walking"],
           snap' = [snap EXCEPT ![k] = Snapshot],
           \/ UNCHANGED seen
           \/ \E f \in Facts : seen' = [seen EXCEPT ![k][f] = Live(Snapshot.rows[f], asOf[k])],
           UNCHANGED <<pin, from, asOf, verdict>>
    PROVE  ReadsHold'
<1>1. /\ Snapshot \in [rows : [Facts -> Expiries \cup {NoExpiry, None}], upTo : Nat]
      /\ Snapshot.upTo = Len(history) /\ Snapshot.rows = rows
  BY SnapshotTyped DEF Snapshot
<1>2. CheckTypeOK'
  <2>1. \A f \in Facts : Live(Snapshot.rows[f], asOf[k]) \in BOOLEAN
    BY DEF Live
  <2>2. cpc' \in [Checks -> CheckStates]
    BY DEF ReadsHold, CheckTypeOK, CheckStates
  <2>3. snap' \in [Checks -> [rows : [Facts -> Expiries \cup {NoExpiry, None}], upTo : Nat]
                             \cup {None}]
    BY <1>1 DEF ReadsHold, CheckTypeOK
  <2>4. seen' \in [Checks -> [Facts -> BOOLEAN \cup {None}]]
    <3>1. ASSUME NEW f \in Facts, NEW b \in BOOLEAN, seen' = [seen EXCEPT ![k][f] = b]
          PROVE  seen' \in [Checks -> [Facts -> BOOLEAN \cup {None}]]
      BY <3>1 DEF ReadsHold, CheckTypeOK
    <3>2. seen \in [Checks -> [Facts -> BOOLEAN \cup {None}]]
      BY DEF ReadsHold, CheckTypeOK
    <3> QED BY <2>1, <3>1, <3>2
  <2> QED BY <2>2, <2>3, <2>4 DEF ReadsHold, CheckTypeOK
<1>3. history' = history
  BY DEF vars
<1>4. /\ cpc'[k] = "walking" /\ snap'[k] = Snapshot
      /\ \A j \in Checks \ {k} : /\ cpc'[j] = cpc[j] /\ snap'[j] = snap[j]
                                 /\ seen'[j] = seen[j]
  BY DEF ReadsHold, CheckTypeOK
<1>5. seen[k] = NothingSeen
  BY DEF ReadsHold
<1>6. ASSUME NEW f \in Facts, seen'[k][f] # None
      PROVE  seen'[k][f] = Live(Snapshot.rows[f], asOf[k])
  BY <1>5, <1>6 DEF ReadsHold, CheckTypeOK, NothingSeen
<1> QED BY <1>1, <1>2, <1>3, <1>4, <1>6 DEF ReadsHold, RowsFollowLog

LEMMA CheckKeepsReads ==
    ASSUME IndInv, RowsFollowLog, ReadsHold, NEW k \in Checks, CheckStep(k), UNCHANGED vars
    PROVE  ReadsHold'
<1>0. history' = history /\ now \in 0..MaxNow
  BY DEF vars, IndInv, TypeOK
<1>1. ASSUME NEW p \in 0..MaxToken \cup {None}, StartCheck(k, p) PROVE ReadsHold'
  <2>1. CheckTypeOK'
    BY <1>1 DEF IndInv, TypeOK, ReadsHold, CheckTypeOK, StartCheck, CheckStates, Verdicts
  <2>2. /\ cpc[k] = "idle" /\ cpc'[k] # "walking" /\ from'[k] = Len(history)
        /\ snap' = snap /\ seen' = seen /\ asOf' = asOf
        /\ \A j \in Checks \ {k} : cpc'[j] = cpc[j] /\ from'[j] = from[j]
    BY <1>1 DEF ReadsHold, CheckTypeOK, StartCheck
  <2>3. Len(history) \in Nat
    BY DEF IndInv, TypeOK
  <2> QED BY <1>0, <2>1, <2>2, <2>3 DEF ReadsHold
<1>2. CASE /\ cpc[k] \in {"preflight", "opening"}
           /\ cpc' \in {[cpc EXCEPT ![k] = "opening"], [cpc EXCEPT ![k] = "open"]}
           /\ asOf' \in {asOf, [asOf EXCEPT ![k] = now]}
           /\ UNCHANGED <<pin, from, snap, seen, verdict>>
  <2>1. CheckTypeOK'
    BY <1>0, <1>2 DEF ReadsHold, CheckTypeOK, CheckStates
  <2>2. /\ cpc[k] # "walking" /\ cpc'[k] # "walking"
        /\ \A j \in Checks \ {k} : cpc'[j] = cpc[j] /\ asOf'[j] = asOf[j]
    BY <1>2 DEF ReadsHold, CheckTypeOK
  <2> QED BY <1>0, <1>2, <2>1, <2>2 DEF ReadsHold
<1>3. ASSUME AnchorSnapshot(k), cpc' = [cpc EXCEPT ![k] = "walking"],
             snap' = [snap EXCEPT ![k] = Snapshot], UNCHANGED <<pin, from, asOf, seen, verdict>>
      PROVE  ReadsHold'
  BY <1>3, AnchorKeepsReads DEF AnchorSnapshot
<1>4. ASSUME NEW f \in Facts, ReadTuples(k, f), cpc[k] = "open" PROVE ReadsHold'
  BY <1>4, AnchorKeepsReads DEF ReadTuples
<1>5. ASSUME NEW f \in Facts, ReadTuples(k, f), cpc[k] = "walking" PROVE ReadsHold'
  <2>1. CheckTypeOK'
    <3>1. Live(snap[k].rows[f], asOf[k]) \in BOOLEAN
      BY DEF Live
    <3> QED BY <1>5, <3>1 DEF ReadsHold, CheckTypeOK, ReadTuples
  <2>2. /\ cpc' = cpc /\ snap' = snap /\ from' = from /\ asOf' = asOf
        /\ seen'[k][f] = Live(snap[k].rows[f], asOf[k])
        /\ \A g \in Facts \ {f} : seen'[k][g] = seen[k][g]
        /\ \A j \in Checks \ {k} : seen'[j] = seen[j]
    BY <1>5 DEF ReadTuples, ReadsHold, CheckTypeOK
  <2> QED BY <1>0, <1>5, <2>1, <2>2 DEF ReadsHold
<1>6. ASSUME NEW v \in Verdicts, EndCheck(k, v) PROVE ReadsHold'
  BY <1>6, EndKeepsReads
<1>7. "answered" \in Verdicts /\ "notObserved" \in Verdicts /\ "error" \in Verdicts
  BY DEF Verdicts
<1>8. ASSUME AssertTokenObserved(k) PROVE ReadsHold'
  BY <1>2, <1>6, <1>7, <1>8 DEF AssertTokenObserved
<1>9. ASSUME BeginRepeatableRead(k) PROVE ReadsHold'
  BY <1>2, <1>9 DEF BeginRepeatableRead
<1>10. ASSUME AnchorSnapshot(k) PROVE ReadsHold'
  BY <1>3, <1>6, <1>7, <1>10 DEF AnchorSnapshot
<1>11. ASSUME NEW f \in Facts, ReadTuples(k, f) PROVE ReadsHold'
  BY <1>4, <1>5, <1>11 DEF ReadTuples
<1> QED BY <1>1, <1>6, <1>7, <1>8, <1>9, <1>10, <1>11 DEF CheckStep, Answer, CheckThrows

CheckInv == IndInv /\ RowsFollowLog /\ PinHeld /\ ReadsHold

LEMMA CheckInvariance == CSpec => []CheckInv
<1>1. CInit => RowsFollowLog /\ ReadsHold
  BY RowsFollowInitially, ReadsHoldInitially DEF CInit
<1>2. CheckInv /\ [CNext]_allVars => RowsFollowLog' /\ ReadsHold'
  <2> SUFFICES ASSUME CheckInv, [CNext]_allVars PROVE RowsFollowLog' /\ ReadsHold'
    OBVIOUS
  <2>1. RowsFollowLog'
    <3>1. [Next]_vars
      BY DEF CNext, allVars, vars
    <3> QED BY <3>1, RowsKeepFollowing DEF CheckInv
  <2>2. CASE UNCHANGED allVars
    BY <2>1, <2>2, WriterKeepsReads DEF allVars, CheckInv
  <2>3. CASE Next /\ UNCHANGED checkVars
    BY <2>1, <2>3, WriterKeepsReads DEF CheckInv
  <2>4. CASE (\E k \in Checks : CheckStep(k)) /\ UNCHANGED vars
    BY <2>1, <2>4, CheckKeepsReads DEF CheckInv
  <2> QED BY <2>1, <2>2, <2>3, <2>4 DEF CNext
<1> QED BY <1>1, <1>2, PinsInvariant, PTL DEF CSpec, CheckInv

\* The variables of the checks keep their types.
THEOREM CheckTypeCorrect == CSpec => []CheckTypeOK
<1>1. CheckInv => CheckTypeOK
  BY DEF CheckInv, ReadsHold
<1> QED BY <1>1, CheckInvariance, PTL

\* Whatever a check has read so far is the store as write_log had made it at
\* one instant since the check was asked for, whatever commits meanwhile.
THEOREM OneState == CSpec => []ReadsOneState
<1>1. ASSUME CheckInv PROVE ReadsOneState
  <2> SUFFICES ASSUME NEW k \in Checks, cpc[k] = "walking"
               PROVE  \E n \in from[k]..Len(history) :
                        \A f \in Facts : seen[k][f] # None =>
                                           seen[k][f] = Live(RowsAt(n)[f], asOf[k])
    BY DEF ReadsOneState
  <2>1. snap[k].upTo \in Nat /\ snap[k].upTo <= Len(history) /\ from[k] <= snap[k].upTo
    BY <1>1 DEF CheckInv, PinHeld, ReadsHold
  <2>2. from[k] \in Nat /\ Len(history) \in Nat
    BY <1>1 DEF CheckInv, IndInv, TypeOK, ReadsHold, CheckTypeOK
  <2>3. snap[k].upTo \in from[k]..Len(history)
    BY <2>1, <2>2
  <2>4. \A f \in Facts : seen[k][f] # None =>
                           seen[k][f] = Live(RowsAt(snap[k].upTo)[f], asOf[k])
    BY <1>1, RowsAtIsReplay DEF CheckInv, ReadsHold
  <2> QED BY <2>3, <2>4
<1> QED BY <1>1, CheckInvariance, PTL
=============================================================================
