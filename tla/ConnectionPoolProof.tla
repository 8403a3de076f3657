------------------------ MODULE ConnectionPoolProof -------------------------
(***************************************************************************)
(* For any requests and any size of the pool: no session is left open, and *)
(* a loop that waits for a connection while nobody is closing a session    *)
(* waits until the pool's timeout.                                         *)
(***************************************************************************)
EXTENDS ConnectionPool, FiniteSetTheorems, TLAPS

(* Who may hold a connection, who occupies the loop, and what a thread may *)
(* be doing: nothing but its one query.                                    *)
HoldersAreBusy ==
    \A r \in held : mode[r] \in {"running", "awaiting", "returned", "closing"}
LoopIsTheirs ==
    /\ loop # Free => mode[loop] = "running" /\ OnLoop(loop)
    /\ \A r \in Requests : mode[r] = "running" /\ OnLoop(r) => loop = r
    /\ \A r \in Requests : mode[r] = "awaiting" => OnLoop(r)
ThreadsOnlyRead ==
    \A r \in Requests : ~OnLoop(r) => todo[r] \in {<<>>, <<"take">>}

IInv ==
    /\ PoolTypeOK
    /\ IsFiniteSet(held)
    /\ HoldersAreBusy
    /\ LoopIsTheirs
    /\ ThreadsOnlyRead

(* What a handler is given to do is made of the steps the model knows, and *)
(* a read is one query (the CASE of Handler).                              *)
LEMMA HandlerType ==
    ASSUME NEW k \in Kinds
    PROVE  /\ Handler(k) \in Seq(Step)
           /\ k = "read" => Handler(k) = <<"take">>
<1>1. <<"take">> \in Seq(Step) /\ CreateSteps \in Seq(Step)
  BY DEF CreateSteps, Step
<1>2. <<"take">> \o CreateSteps \in Seq(Step)
  BY <1>1
<1>3. DecideSteps \in Seq(Step) /\ <<"take", "call">> \in Seq(Step)
  BY DEF DecideSteps, Step
<1>. QED
  BY <1>1, <1>2, <1>3 DEF Handler, Kinds

(* A connection that is free is taken within the size of the pool.         *)
LEMMA TakeFits ==
    ASSUME IInv, NEW r \in Requests, TakeConnection(r)
    PROVE  IsFiniteSet(held') /\ Cardinality(held') <= PoolSize
<1>1. /\ IsFiniteSet(held \cup {r})
      /\ Cardinality(held \cup {r}) \in {Cardinality(held), Cardinality(held) + 1}
      /\ Cardinality(held) \in Nat
  BY FS_AddElement, FS_CardinalityType DEF IInv
<1>. QED
  BY <1>1, PoolAssumption DEF TakeConnection

(* A connection that is given back leaves the pool within its size.        *)
LEMMA GiveBackFits ==
    ASSUME IInv, NEW r \in Requests, held' = held \ {r}
    PROVE  IsFiniteSet(held') /\ Cardinality(held') <= PoolSize
<1>1. /\ IsFiniteSet(held \ {r})
      /\ Cardinality(held \ {r}) \in {Cardinality(held), Cardinality(held) - 1}
      /\ Cardinality(held) \in Nat
  BY FS_RemoveElement, FS_CardinalityType DEF IInv
<1>. QED
  BY <1>1, PoolAssumption DEF IInv, PoolTypeOK

LEMMA InitEstablishes == Init => IInv
<1>. SUFFICES ASSUME Init PROVE IInv
  OBVIOUS
<1>1. IsFiniteSet({}) /\ Cardinality({}) = 0
  BY FS_EmptySet
<1>2. PoolTypeOK
  BY <1>1, PoolAssumption DEF Init, PoolTypeOK, Free
<1>. QED
  BY <1>1, <1>2 DEF Init, IInv, HoldersAreBusy, LoopIsTheirs, ThreadsOnlyRead

(* Every step of every request preserves the invariant.                    *)
LEMMA StepPreserves == IInv /\ [Next]_vars => IInv'
<1>. SUFFICES ASSUME IInv, [Next]_vars PROVE IInv'
  OBVIOUS
<1>. USE FreeAssumption DEF IInv, PoolTypeOK, HoldersAreBusy, LoopIsTheirs, ThreadsOnlyRead
<1>1. CASE UNCHANGED vars
  BY <1>1 DEF vars, OnLoop
<1>2. ASSUME NEW r \in Requests, Arrive(r) PROVE IInv'
  BY <1>2 DEF Arrive, Moves, OnLoop
<1>3. ASSUME NEW r \in Requests, Begin(r) PROVE IInv'
  <2>1. Handler(Kind[r]) \in Seq(Step) /\ (~OnLoop(r) => Handler(Kind[r]) = <<"take">>)
    BY HandlerType, KindAssumption DEF OnLoop
  <2>. QED
    BY <1>3, <2>1 DEF Begin, Moves, OnLoop
<1>4. ASSUME NEW r \in Requests, TakeConnection(r) PROVE IInv'
  <2>1. IsFiniteSet(held') /\ Cardinality(held') <= PoolSize
    BY <1>4, TakeFits
  <2>2. todo' \in [Requests -> Seq(Step)] /\ ThreadsOnlyRead'
    BY <1>4 DEF TakeConnection, About, Did, OnLoop
  <2>. QED
    BY <1>4, <2>1, <2>2 DEF TakeConnection, About, OnLoop
<1>5. ASSUME NEW r \in Requests, mode[r] \in {"running", "awaiting"}, Raises(r)
      PROVE  IInv'
  BY <1>5 DEF Raises, Moves, LeavesLoop, OnLoop
<1>6. ASSUME NEW r \in Requests, Commit(r) PROVE IInv'
  <2>1. IsFiniteSet(held') /\ Cardinality(held') <= PoolSize
    BY <1>6, GiveBackFits DEF Commit
  <2>2. todo' \in [Requests -> Seq(Step)] /\ ThreadsOnlyRead'
    BY <1>6 DEF Commit, About, Did, OnLoop
  <2>. QED
    BY <1>6, <2>1, <2>2 DEF Commit, About, OnLoop
<1>7. ASSUME NEW r \in Requests, CallTemporal(r) PROVE IInv'
  <2>1. OnLoop(r) /\ loop = r
    BY <1>7 DEF CallTemporal, About, OnLoop
  <2>2. todo' \in [Requests -> Seq(Step)] /\ ThreadsOnlyRead'
    BY <1>7 DEF CallTemporal, About, Did, OnLoop
  <2>. QED
    BY <1>7, <2>1, <2>2 DEF CallTemporal, About, Moves, OnLoop
<1>8. ASSUME NEW r \in Requests, Resume(r) PROVE IInv'
  BY <1>8 DEF Resume, Moves, OnLoop
<1>9. ASSUME NEW r \in Requests, Return(r) PROVE IInv'
  BY <1>9 DEF Return, Moves, LeavesLoop, OnLoop
<1>10. ASSUME NEW r \in Requests, BeginClose(r) PROVE IInv'
  BY <1>10 DEF BeginClose, Moves, OnLoop
<1>11. ASSUME NEW r \in Requests, Close(r) PROVE IInv'
  <2>1. IsFiniteSet(held') /\ Cardinality(held') <= PoolSize
    BY <1>11, GiveBackFits DEF Close
  <2>. QED
    BY <1>11, <2>1 DEF Close, Moves, OnLoop
<1>. QED
  BY <1>1, <1>2, <1>3, <1>4, <1>5, <1>6, <1>7, <1>8, <1>9, <1>10, <1>11
  DEF Next, Runs, TakenUp, CheckoutTimesOut, About, ResumeRaises

THEOREM Invariance == Spec => []IInv
<1>. QED
  BY InitEstablishes, StepPreserves, PTL DEF Spec

(* The pool is never overdrawn, and every request is where its handler     *)
(* can take it: the connections held fit pool_size and max_overflow.       *)
THEOREM PoolIsTyped == Spec => []PoolTypeOK
<1>1. IInv => PoolTypeOK
  BY DEF IInv
<1>. QED
  BY <1>1, Invariance, PTL

(* A request that is over, or has not begun, holds no connection           *)
(* (the finally clause of get_session).                                    *)
THEOREM NothingIsLeaked == Spec => []NothingLeaks
<1>1. IInv => NothingLeaks
  BY DEF IInv, PoolTypeOK, HoldersAreBusy, NothingLeaks
<1>. QED
  BY <1>1, Invariance, PTL

(* A checkout that stops the event loop while no session is being closed   *)
(* is not satisfied by anybody: it ends with the timeout of the pool.      *)
THEOREM StuckUntilTheTimeout == Spec => StuckUntilTimeout
<1>1. ASSUME IInv, [Next]_vars
      PROVE  [Stuck => Stuck' \/ answer'[loop] = "error"]_vars
  <2>. SUFFICES ASSUME Stuck, ~UNCHANGED vars
                PROVE  Stuck' \/ answer'[loop] = "error"
    OBVIOUS
  <2>. USE <1>1, FreeAssumption
       DEF IInv, PoolTypeOK, HoldersAreBusy, LoopIsTheirs, ThreadsOnlyRead, Stuck, About
  <2>1. PICK r \in Requests :
           Arrive(r) \/ Runs(r) \/ TakenUp(r)
    BY DEF Next
  <2>2. CASE Arrive(r)
    BY <2>2 DEF Arrive, Moves
  <2>3. CASE Begin(r) \/ Resume(r) \/ ResumeRaises(r) \/ BeginClose(r)
    BY <2>3 DEF Begin, Resume, ResumeRaises, BeginClose
  <2>4. CASE TakeConnection(r)
    BY <2>4, PoolAssumption DEF TakeConnection
  <2>5. CASE CheckoutTimesOut(r)
    BY <2>5 DEF CheckoutTimesOut, Raises, Moves, LeavesLoop
  <2>6. CASE Commit(r) \/ CallTemporal(r)
    BY <2>6 DEF Commit, CallTemporal, OnLoop
  <2>7. CASE Return(r)
    BY <2>7 DEF Return, Moves, LeavesLoop
  <2>8. CASE Close(r)
    <3>1. held' = held /\ r # loop
      BY <2>8 DEF Close
    <3>. QED
      BY <2>8, <3>1 DEF Close, Moves
  <2>. QED
    BY <2>1, <2>2, <2>3, <2>4, <2>5, <2>6, <2>7, <2>8 DEF Runs, TakenUp
<1>. QED
  BY <1>1, Invariance, PTL DEF Spec, StuckUntilTimeout
=============================================================================
