--------------------------- MODULE ConnectionPool ---------------------------
(***************************************************************************)
(* The sessions of the API process on their engine's bounded pool. The     *)
(* async handlers run on the one event loop and use their session without  *)
(* awaiting it: a checkout that has to wait stops the loop. The def        *)
(* handlers run in threads. A session holds a connection from its first    *)
(* statement to its next commit or to its close, and every session is      *)
(* closed by get_session in a thread that the loop has to start. A handler *)
(* holds a connection while it awaits Temporal.                            *)
(* The pool and the loop are SQLAlchemy's and FastAPI's, as the code uses  *)
(* them: PoolSize stands for pool_size + max_overflow, 15 by default, and  *)
(* a checkout gives up after pool_timeout.                                 *)
(***************************************************************************)
EXTENDS Naturals, Sequences, FiniteSets

CONSTANTS
    Requests,         \* the requests that may be open at once
    Kind,             \* what each of them asks for
    PoolSize

Kinds == {"create", "decide", "repeat", "read", "health"}

ASSUME KindAssumption == Kind \in [Requests -> Kinds]
ASSUME PoolAssumption == PoolSize \in Nat \ {0}

VARIABLES
    mode,             \* where each request is
    todo,             \* what its handler has still to do with its session
    answer,           \* whether it has failed
    held,             \* the requests whose session holds a connection
    loop              \* the request whose handler occupies the event loop

vars == <<mode, todo, answer, held, loop>>

Free == "free"
ASSUME FreeAssumption == Free \notin Requests

Step == {"take", "commit", "call"}

(* The statements of a handler. A commit is followed by a refresh, which   *)
(* takes a connection again.                                               *)
CreateSteps == <<"commit", "take", "call", "commit", "take">>
DecideSteps == <<"take", "commit", "take", "call">>

Handler(kind) ==
    CASE kind = "create" -> <<"take">> \o CreateSteps
      [] kind = "decide" -> DecideSteps
      [] kind = "repeat" -> <<"take", "call">>
      [] kind = "read"   -> <<"take">>
      [] kind = "health" -> <<>>

OnLoop(r) == Kind[r] # "read"

PoolTypeOK ==
    /\ mode \in [Requests -> {"absent", "queued", "running", "awaiting",
                              "returned", "closing"}]
    /\ todo \in [Requests -> Seq(Step)]
    /\ answer \in [Requests -> {"ok", "error"}]
    /\ held \subseteq Requests /\ Cardinality(held) <= PoolSize
    /\ loop \in Requests \cup {Free}

Init ==
    /\ mode = [r \in Requests |-> "absent"]
    /\ todo = [r \in Requests |-> <<>>]
    /\ answer = [r \in Requests |-> "ok"]
    /\ held = {}
    /\ loop = Free

-----------------------------------------------------------------------------
Moves(r, to) == mode' = [mode EXCEPT ![r] = to]
LeavesLoop(r) == loop' = IF loop = r THEN Free ELSE loop

Arrive(r) ==
    /\ mode[r] = "absent"
    /\ Moves(r, "queued")
    /\ UNCHANGED <<todo, answer, held, loop>>

(* The loop calls an async handler, or hands another one to a thread.      *)
Begin(r) ==
    /\ mode[r] = "queued"
    /\ loop = Free
    /\ Moves(r, "running")
    /\ todo' = [todo EXCEPT ![r] = Handler(Kind[r])]
    /\ answer' = [answer EXCEPT ![r] = "ok"]
    /\ loop' = IF OnLoop(r) THEN r ELSE Free
    /\ UNCHANGED held

About(r, step) == mode[r] = "running" /\ todo[r] # <<>> /\ Head(todo[r]) = step
Did(r) == todo' = [todo EXCEPT ![r] = Tail(@)]

(* Mutant of TakeConnection: one connection more than the pool has.        *)
TakesOneMore(r) ==
    /\ About(r, "take")
    /\ Cardinality(held) <= PoolSize
    /\ held' = held \cup {r}
    /\ Did(r)
    /\ UNCHANGED <<mode, answer, loop>>

TakeConnection(r) ==
    /\ About(r, "take")
    /\ Cardinality(held) < PoolSize
    /\ held' = held \cup {r}
    /\ Did(r)
    /\ UNCHANGED <<mode, answer, loop>>

(* The handler raises; what it has committed before stays.                 *)
Raises(r) ==
    /\ Moves(r, "returned")
    /\ todo' = [todo EXCEPT ![r] = <<>>]
    /\ answer' = [answer EXCEPT ![r] = "error"]
    /\ LeavesLoop(r)
    /\ UNCHANGED held

(* Mutant of CheckoutTimesOut: a checkout that timed out is tried again.   *)
CheckoutRetried(r) ==
    /\ About(r, "take")
    /\ Cardinality(held) = PoolSize
    /\ UNCHANGED vars

(* No handler catches the pool's TimeoutError.                             *)
CheckoutTimesOut(r) ==
    /\ About(r, "take")
    /\ Cardinality(held) = PoolSize
    /\ Raises(r)

Commit(r) ==
    /\ About(r, "commit")
    /\ held' = held \ {r}
    /\ Did(r)
    /\ UNCHANGED <<mode, answer, loop>>

(* The handler awaits Temporal, the connection of its refresh in hand.     *)
CallTemporal(r) ==
    /\ About(r, "call")
    /\ Moves(r, "awaiting")
    /\ Did(r)
    /\ loop' = Free
    /\ UNCHANGED <<answer, held>>

(* Temporal answers, or its failure is one that the handler goes on from.  *)
Resume(r) ==
    /\ mode[r] = "awaiting"
    /\ loop = Free
    /\ Moves(r, "running")
    /\ loop' = r
    /\ UNCHANGED <<todo, answer, held>>

(* WorkflowSignalError becomes a 502; a start that fails otherwise than by *)
(* WorkflowStartError raises too.                                          *)
ResumeRaises(r) ==
    /\ mode[r] = "awaiting"
    /\ loop = Free
    /\ Raises(r)

(* Mutant of Return: a def handler closes its session itself.              *)
ReadClosesItself(r) ==
    /\ mode[r] = "running" /\ todo[r] = <<>>
    /\ Moves(r, "returned")
    /\ LeavesLoop(r)
    /\ held' = IF OnLoop(r) THEN held ELSE held \ {r}
    /\ UNCHANGED <<todo, answer>>

Return(r) ==
    /\ mode[r] = "running" /\ todo[r] = <<>>
    /\ Moves(r, "returned")
    /\ LeavesLoop(r)
    /\ UNCHANGED <<todo, answer, held>>

(* The loop starts the thread that runs get_session to its end.            *)
BeginClose(r) ==
    /\ mode[r] = "returned"
    /\ loop = Free
    /\ Moves(r, "closing")
    /\ UNCHANGED <<todo, answer, held, loop>>

(* Mutant of Close: without finally, an error leaves the session open.     *)
CloseUnlessRaised(r) ==
    /\ mode[r] = "closing"
    /\ Moves(r, "absent")
    /\ held' = IF answer[r] = "error" THEN held ELSE held \ {r}
    /\ UNCHANGED <<todo, answer, loop>>

Close(r) ==
    /\ mode[r] = "closing"
    /\ Moves(r, "absent")
    /\ held' = held \ {r}
    /\ UNCHANGED <<todo, answer, loop>>

-----------------------------------------------------------------------------
(* What a running handler, or the thread that closes its session, does.    *)
Runs(r) == TakeConnection(r) \/ CheckoutTimesOut(r) \/ Commit(r)
           \/ CallTemporal(r) \/ Return(r) \/ Close(r)

(* What the loop takes up when it is free.                                 *)
TakenUp(r) == Begin(r) \/ Resume(r) \/ ResumeRaises(r) \/ BeginClose(r)

Next == \E r \in Requests : Arrive(r) \/ Runs(r) \/ TakenUp(r)

Spec == Init /\ [][Next]_vars

(* A handler that runs goes on, and a checkout ends in a connection or in  *)
(* the timeout; Temporal's client answers or gives up; the loop takes what *)
(* is ready in turn, so that what is ready again and again is taken.       *)
FairSpec ==
    /\ Spec
    /\ \A r \in Requests : WF_vars(Runs(r)) /\ SF_vars(TakenUp(r))
-----------------------------------------------------------------------------
(* Whatever raised on the way, a request that is over holds no connection, *)
(* and neither does one that has not begun, so that the pool is whole when *)
(* the process is quiet.                                                   *)
NothingLeaks ==
    \A r \in Requests : mode[r] \in {"absent", "queued"} => r \notin held

(* The event loop waits for a connection, and nobody is about to close one.*)
Stuck ==
    /\ loop # Free
    /\ About(loop, "take")
    /\ Cardinality(held) = PoolSize
    /\ \A r \in held : mode[r] # "closing"

(* Such a wait is in vain: those that hold the connections need the loop   *)
(* to go on, even those whose work is done, so that it ends with an error  *)
(* of the request that waits, and only then.                               *)
StuckUntilTimeout ==
    [][Stuck => Stuck' \/ answer'[loop] = "error"]_vars

(* Every request is answered and gone in the end, even when as many hold a *)
(* connection and await Temporal as the pool has connections, and health   *)
(* checks are answered behind them.                                        *)
EveryRequestEnds ==
    \A r \in Requests : mode[r] = "queued" ~> mode[r] = "absent"
=============================================================================
