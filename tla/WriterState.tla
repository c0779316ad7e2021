---------------------------- MODULE WriterState ----------------------------
(***************************************************************************)
(* The handshake on Writer::state in db/write_thread.cc: a thread waits on *)
(* its own Writer in AwaitState, spinning and then blocking on a mutex and *)
(* condition variable that it makes only when it blocks, while others set  *)
(* the state with SetState.  A Writer waits once or twice: for its role in *)
(* a batch group, and for the parallel group to be completed.              *)
(*                                                                         *)
(* The Writer is on the waiter's stack, so nothing of it, its mutex least  *)
(* of all, may be touched once the last wait has returned.                 *)
(***************************************************************************)
EXTENDS Naturals, Sequences

CONSTANT Wakes   \* the sequences of states a writer may be set to

VARIABLES
  wakes,          \* states this writer is set to, in order
  state,          \* Writer::state
  made_waitable,  \* the mutex and condition variable are constructed
  mutex,          \* who holds StateMutex: "waiter", "waker" or "none"
  apc,            \* the waiter, in AwaitState and BlockingAwaitState
  loaded,         \* the waiter's local copy of the state
  waits,          \* waits that have returned
  wpc,            \* the waker, in SetState
  wloaded,        \* the waker's local copy of the state
  sets            \* calls of SetState that have returned

waiter == <<apc, loaded, waits>>
waker == <<wpc, wloaded, sets>>
handshake == <<wakes, state, made_waitable, mutex, waiter, waker>>

States == {"INIT", "GROUP_LEADER", "PARALLEL_FOLLOWER", "COMPLETED"}

\* The goal mask of the wait under way.
Goal == IF waits = 0 THEN {"GROUP_LEADER", "PARALLEL_FOLLOWER", "COMPLETED"}
        ELSE {"COMPLETED"}

HandshakeTypeOK ==
  /\ wakes \in Wakes
  /\ state \in States \cup {"LOCKED_WAITING"}
  /\ made_waitable \in BOOLEAN
  /\ mutex \in {"none", "waiter", "waker"}
  /\ apc \in {"spin", "create", "load", "swap", "lock", "check", "blocked",
             "met", "returned"}
  /\ loaded \in States \cup {"LOCKED_WAITING"}
  /\ waits \in 0..Len(wakes)
  /\ wpc \in {"idle", "swap", "lock", "store", "notify", "unlock"}
  /\ wloaded \in States \cup {"LOCKED_WAITING"}
  /\ sets \in 0..Len(wakes)

HandshakeInit ==
  /\ wakes \in Wakes
  /\ state = "INIT"
  /\ made_waitable = FALSE
  /\ mutex = "none"
  /\ apc = "spin"
  /\ loaded = "INIT"
  /\ waits = 0
  /\ wpc = "idle"
  /\ wloaded = "INIT"
  /\ sets = 0

-----------------------------------------------------------------------------
(***************************************************************************)
(* The waiter.                                                             *)
(***************************************************************************)
\* One load of the spinning or yielding loop; how long a thread spins depends
\* on clocks and statistics, so it may give up at any load.
Spin ==
  /\ apc = "spin"
  /\ loaded' = state
  /\ apc' \in IF state \in Goal THEN {"met"} ELSE {"spin", "create"}
  /\ UNCHANGED <<wakes, state, made_waitable, mutex, waits, waker>>

CreateMutex ==
  /\ apc = "create"
  /\ made_waitable' = TRUE
  /\ apc' = "load"
  /\ UNCHANGED <<wakes, state, mutex, loaded, waits, waker>>

LoadState ==
  /\ apc = "load"
  /\ loaded' = state
  /\ apc' = IF state \in Goal THEN "met" ELSE "swap"
  /\ UNCHANGED <<wakes, state, made_waitable, mutex, waits, waker>>

\* compare_exchange_strong to STATE_LOCKED_WAITING; a failure updates the copy.
SwapWaiting ==
  /\ apc = "swap"
  /\ \/ /\ state = loaded
        /\ state' = "LOCKED_WAITING"
        /\ apc' = "lock"
        /\ UNCHANGED loaded
     \/ /\ state # loaded
        /\ loaded' = state
        /\ apc' = "met"
        /\ UNCHANGED state
  /\ UNCHANGED <<wakes, made_waitable, mutex, waits, waker>>

Lock ==
  /\ apc = "lock"
  /\ mutex = "none"
  /\ mutex' = "waiter"
  /\ apc' = "check"
  /\ UNCHANGED <<wakes, state, made_waitable, loaded, waits, waker>>

\* The predicate of the condition variable's wait.
CheckWaiting ==
  /\ apc = "check"
  /\ mutex' = "none"
  /\ \/ state = "LOCKED_WAITING" /\ apc' = "blocked" /\ UNCHANGED loaded
     \/ state # "LOCKED_WAITING" /\ apc' = "met" /\ loaded' = state
  /\ UNCHANGED <<wakes, state, made_waitable, waits, waker>>

SpuriousWakeup ==
  /\ apc = "blocked"
  /\ apc' = "lock"
  /\ UNCHANGED <<wakes, state, made_waitable, mutex, loaded, waits, waker>>

\* AwaitState returns; after the last wait the Writer is destroyed.
Return ==
  /\ apc = "met"
  /\ waits' = waits + 1
  /\ apc' = IF waits' = Len(wakes) THEN "returned" ELSE "spin"
  /\ UNCHANGED <<wakes, state, made_waitable, mutex, loaded, waker>>

Waiter == Spin \/ CreateMutex \/ LoadState \/ SwapWaiting \/ Lock \/ CheckWaiting
          \/ Return

-----------------------------------------------------------------------------
(***************************************************************************)
(* The waker.  A state is set for a wait that has begun or will.           *)
(***************************************************************************)
SetState ==
  /\ wpc = "idle"
  /\ sets < Len(wakes)
  /\ sets = waits
  /\ wloaded' = state
  /\ wpc' = IF state = "LOCKED_WAITING" THEN "lock" ELSE "swap"
  /\ UNCHANGED <<wakes, state, made_waitable, mutex, waiter, sets>>

SwapState ==
  /\ wpc = "swap"
  /\ \/ /\ state = wloaded
        /\ state' = wakes[sets + 1]
        /\ wpc' = "idle"
        /\ sets' = sets + 1
        /\ UNCHANGED wloaded
     \/ /\ state # wloaded
        /\ wloaded' = state
        /\ wpc' = "lock"
        /\ UNCHANGED <<state, sets>>
  /\ UNCHANGED <<wakes, made_waitable, mutex, waiter>>

WakerLock ==
  /\ wpc = "lock"
  /\ mutex = "none"
  /\ mutex' = "waker"
  /\ wpc' = "store"
  /\ UNCHANGED <<wakes, state, made_waitable, waiter, wloaded, sets>>

WakerStore ==
  /\ wpc = "store"
  /\ state' = wakes[sets + 1]
  /\ wpc' = "notify"
  /\ UNCHANGED <<wakes, made_waitable, mutex, waiter, wloaded, sets>>

WakerNotify ==
  /\ wpc = "notify"
  /\ apc' = IF apc = "blocked" THEN "lock" ELSE apc
  /\ wpc' = "unlock"
  /\ UNCHANGED <<wakes, state, made_waitable, mutex, loaded, waits, wloaded, sets>>

WakerUnlock ==
  /\ wpc = "unlock"
  /\ mutex' = "none"
  /\ wpc' = "idle"
  /\ sets' = sets + 1
  /\ UNCHANGED <<wakes, state, made_waitable, waiter, wloaded>>

Waker == SetState \/ SwapState \/ WakerLock \/ WakerStore \/ WakerNotify
         \/ WakerUnlock

HandshakeNext == Waiter \/ SpuriousWakeup \/ Waker

HandshakeSpec == HandshakeInit /\ [][HandshakeNext]_handshake

-----------------------------------------------------------------------------
\* The waker touches the mutex and condition variable only after they are
\* constructed and before the waiter returns and destroys them.
MutexAlive ==
  wpc \in {"lock", "store", "notify", "unlock"} =>
    made_waitable /\ apc # "returned"

\* The assertion that ends BlockingAwaitState and AwaitState: a wait returns
\* the state it was waiting for, and that state is the one that was set.
WaitReturnsGoal == apc = "met" => loaded \in Goal /\ loaded = wakes[waits + 1]
=============================================================================
