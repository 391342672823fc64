------------------------------ MODULE ErrState ------------------------------
(***************************************************************************)
(* The floating-point error state: one mode per category and thread         *)
(* (`thread_local! STATE`), one registrant per thread (`CALLBACK`), and the *)
(* `errstate` objects, whose single `saved` slot is shared by every thread  *)
(* and every recursive call that enters the same object.                    *)
(*                                                                          *)
(* Threads interleave between Python calls (each call below holds the GIL). *)
(* What Python itself guarantees is the `scope` of each thread: `with`      *)
(* blocks and callbacks end in the reverse order of their beginning, also   *)
(* when an exception unwinds them.                                          *)
(***************************************************************************)
EXTENDS Integers, Sequences

CONSTANTS
    Threads,      \* OS threads
    Objects,      \* errstate objects
    Cats,         \* error categories
    Modes,        \* the modes the callers use
    Default,      \* DEFAULT_STATE
    Keep,         \* a category an errstate or seterr call leaves alone
    Overrides,    \* what each errstate object sets
    NoState,      \* the empty `saved` slot
    NoObject,     \* the scope of a callback has no errstate object
    Shared,       \* whether an object may be entered again while it is entered
    MaxDepth      \* bound on the nesting of scopes

States == [Cats -> Modes]
Changes == [Cats -> Modes \cup {Keep}]

ASSUME ErrStateAssumption ==
    /\ Default \in States
    /\ Overrides \in [Objects -> Changes]
    /\ Keep \notin Modes
    /\ NoState \notin States
    /\ NoObject \notin Objects
    /\ Shared \in BOOLEAN
    /\ MaxDepth \in Nat

VARIABLES
    state,     \* STATE of each thread
    handler,   \* whether the thread has a registrant (`seterrcall`)
    saved,     \* the `saved` slot of each errstate object
    scope,     \* open `with` blocks and callbacks of each thread; `before` is a
               \* history field: the state when the block was entered
    raising    \* threads with an exception under way

err_vars == <<state, handler, saved, scope, raising>>

Frames == [object : Objects \cup {NoObject}, before : States]

Depth(t) == Len(scope[t])
Top(t) == scope[t][Depth(t)]
Pop(t) == [scope EXCEPT ![t] = SubSeq(@, 1, Len(@) - 1)]
Push(t, o) == [scope EXCEPT ![t] = Append(@, [object |-> o, before |-> state[t]])]

\* Some thread is inside a block of the errstate object o.
Entered(o) == \E t \in Threads : \E d \in 1..Depth(t) : scope[t][d].object = o

\* The state s with the categories of ch that are given.
Apply(s, ch) == [c \in Cats |-> IF ch[c] = Keep THEN s[c] ELSE ch[c]]

ErrInit ==
    /\ state = [t \in Threads |-> Default]
    /\ handler = [t \in Threads |-> FALSE]
    /\ saved = [o \in Objects |-> NoState]
    /\ scope = [t \in Threads |-> <<>>]
    /\ raising = {}

-----------------------------------------------------------------------------
\* `seterr(...)`: all keywords parse or nothing changes.
SetErr(t, ch) ==
    /\ t \notin raising
    /\ state' = [state EXCEPT ![t] = Apply(@, ch)]
    /\ UNCHANGED <<handler, saved, scope, raising>>

\* `seterrcall(f)` and `seterrcall(None)`.
SetErrCall(t, has) ==
    /\ t \notin raising
    /\ handler' = [handler EXCEPT ![t] = has]
    /\ UNCHANGED <<state, saved, scope, raising>>

\* Mutation of EnterBlock: the slot gets the new state.
EnterSavesNew(t, o) ==
    /\ t \notin raising
    /\ Shared \/ ~Entered(o)
    /\ Depth(t) < MaxDepth
    /\ saved' = [saved EXCEPT ![o] = Apply(state[t], Overrides[o])]
    /\ state' = [state EXCEPT ![t] = Apply(@, Overrides[o])]
    /\ scope' = Push(t, o)
    /\ UNCHANGED <<handler, raising>>

\* `with es:`, or a call of a function decorated with es.
EnterBlock(t, o) ==
    /\ t \notin raising
    /\ Shared \/ ~Entered(o)
    /\ Depth(t) < MaxDepth
    /\ saved' = [saved EXCEPT ![o] = state[t]]
    /\ state' = [state EXCEPT ![t] = Apply(@, Overrides[o])]
    /\ scope' = Push(t, o)
    /\ UNCHANGED <<handler, raising>>

\* Mutation of ExitBlock: the slot is read and not taken.
ExitKeepsSlot(t) ==
    /\ Depth(t) > 0 /\ Top(t).object # NoObject
    /\ state' = [state EXCEPT ![t] = saved[Top(t).object]]
    /\ scope' = Pop(t)
    /\ UNCHANGED <<handler, saved, raising>>

\* The innermost block ends, normally or by an exception: `__exit__` takes the
\* saved state, if there is one, and makes it the state of the calling thread.
ExitBlock(t) ==
    /\ Depth(t) > 0 /\ Top(t).object # NoObject
    /\ LET o == Top(t).object
       IN  /\ state' = IF saved[o] = NoState THEN state
                       ELSE [state EXCEPT ![t] = saved[o]]
           /\ saved' = [saved EXCEPT ![o] = NoState]
    /\ scope' = Pop(t)
    /\ UNCHANGED <<handler, raising>>

\* `signal`: the category c fired in an operation of thread t, and an exception
\* comes of it: mode 'raise', a warning that a filter turns into an exception,
\* or no registrant.  Modes 'ignore' and 'print' change nothing here.
SignalRaises(t, c) ==
    /\ t \notin raising
    /\ \/ state[t][c] \in {"raise", "warn"}
       \/ state[t][c] \in {"call", "log"} /\ ~handler[t]
    /\ raising' = raising \cup {t}
    /\ UNCHANGED <<state, handler, saved, scope>>

\* The modes that run user code: the hook that shows a warning, the registrant.
Calling(t) == IF handler[t] THEN {"warn", "call", "log"} ELSE {"warn"}

\* `signal` runs user code, which may call everything in this module before it
\* returns.
SignalCalls(t, c) ==
    /\ t \notin raising
    /\ state[t][c] \in Calling(t)
    /\ Depth(t) < MaxDepth
    /\ scope' = Push(t, NoObject)
    /\ UNCHANGED <<state, handler, saved, raising>>

\* The user code returns, or its exception passes through `signal`.
CallbackEnds(t) ==
    /\ Depth(t) > 0 /\ Top(t).object = NoObject
    /\ scope' = Pop(t)
    /\ UNCHANGED <<state, handler, saved, raising>>

\* User code catches the exception in the scope it has reached.
Catch(t) ==
    /\ t \in raising
    /\ raising' = raising \ {t}
    /\ UNCHANGED <<state, handler, saved, scope>>

Step(t) ==
    \/ \E ch \in Changes : SetErr(t, ch)
    \/ \E has \in BOOLEAN : SetErrCall(t, has)
    \/ \E o \in Objects : EnterBlock(t, o)
    \/ ExitBlock(t)
    \/ \E c \in Cats : SignalRaises(t, c) \/ SignalCalls(t, c)
    \/ CallbackEnds(t)
    \/ Catch(t)

ErrNext == \E t \in Threads : Step(t)

ErrSpec == ErrInit /\ [][ErrNext]_err_vars

-----------------------------------------------------------------------------
ErrTypeOK ==
    /\ state \in [Threads -> States]
    /\ handler \in [Threads -> BOOLEAN]
    /\ saved \in [Objects -> States \cup {NoState}]
    /\ scope \in [Threads -> Seq(Frames)]
    /\ raising \subseteq Threads

\* The slot of an errstate object is the state its open block started from: it
\* is full exactly while the block is open, in whatever thread, so no `__exit__`
\* finds it empty or another block's.
SavedIsScope ==
    /\ \A o \in Objects : saved[o] # NoState => Entered(o)
    /\ \A t \in Threads : \A d \in 1..Depth(t) :
          scope[t][d].object # NoObject =>
             saved[scope[t][d].object] = scope[t][d].before

\* "State is restored to whatever it was before the call once the decorated
\* function returns, exception or not": leaving a block gives the thread the
\* state it had when it entered that block, whatever ran inside (seterr,
\* callbacks, other blocks, other threads).
RestoresOnExit ==
    [][\A t \in Threads :
          (Len(scope'[t]) < Len(scope[t]) /\ Top(t).object # NoObject)
          => state'[t] = Top(t).before]_err_vars
=============================================================================
