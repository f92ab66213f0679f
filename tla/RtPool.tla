-------------------------------- MODULE RtPool --------------------------------
(***************************************************************************)
(* The concurrency runtime of compiled programs, the C source that         *)
(* src/crates/tuo-runtime/src/effect.rs generates: the fork-join           *)
(* tuo_rt_par_map over POSIX threads, and the channels and mutexes its     *)
(* tasks communicate through.                                              *)
(*                                                                         *)
(* A program is main's own calls of the runtime, then one par_map over     *)
(* tasks that are straight-line sequences of such calls.  A call is one    *)
(* step: the handle it looks up under the registry lock never becomes      *)
(* invalid again, and everything else it does, until it returns or waits,  *)
(* it does under the channel's lock or on a node nobody else can reach.    *)
(***************************************************************************)
EXTENDS Integers, Sequences, FiniteSets, Functions, FiniteSetsExt, SequencesExt

CONSTANTS
  Cap,         \* SYNC_REGISTRY_CAP: channels, and mutexes, there can be
  MaxThreads,  \* the most threads a par_map uses (64 in the code)
  Workers,     \* the number of workers the program asks for
  Main,        \* the calls main makes before par_map
  Tasks,       \* Tasks[i]: the calls task i makes, i from 1
  CanFail      \* the workers whose pthread_create may fail

(* The error result of every call (-1 in the code), and a null pointer. *)
SyncError == -1
Null      == 0

N == Len(Tasks)

(* workers < 1 behaves as 1, and never more threads than tasks.            *)
W == Min({Max({Workers, 1}), N, MaxThreads})

ASSUME PoolAssumption ==
  /\ Cap \in Nat /\ MaxThreads \in Nat \ {0} /\ Workers \in Int /\ N \in Nat \ {0}
  /\ CanFail \subseteq 1..(W - 1)

(* Thread 0 is the caller.  Task number 0 stands for main's own calls.     *)
Threads == 0..(W - 1)
Code(task) == IF task = 0 THEN Main ELSE Tasks[task]

(* The calls a program can be made of; a "drain" is a loop over recv.      *)
Instructions ==
  [op : {"chan_new", "mutex_new"}]
  \cup [op : {"send"}, chan : Int, value : Int]
  \cup [op : {"recv", "drain", "close"}, chan : Int]
  \cup [op : {"lock", "unlock"}, mutex : Int]

ASSUME ProgramAssumption ==
  \A task \in 0..N : Code(task) \in Seq(Instructions)

VARIABLES
  phase,    \* where the caller is in tuo_rt_par_map
  next,     \* its loop variable: the worker it starts or joins next
  started,  \* the workers that got a thread
  at,       \* where each thread is, and what its calls returned so far
  results,  \* what its calls returned, for each task that returned
  chans,    \* the channels: head and tail of a list of nodes, closed
  nodes,    \* the allocated nodes
  owner     \* the mutexes: who holds each, or Nobody

poolVars == <<phase, next, started>>
syncVars == <<chans, nodes, owner>>
vars     == <<phase, next, started, at, results, chans, nodes, owner>>

Nobody == -1

(* Handles count from 0, sequences from 1.                                 *)
IsChan(h)  == h \in 0..(Len(chans) - 1)
IsMutex(h) == h \in 0..(Len(owner) - 1)
Chan(h)    == chans[h + 1]

(* A thread is off, runs the call `pc` of `task`, or waits in it on a      *)
(* condition variable until it is woken.                                   *)
Off == [mode |-> "off"]

(* Task number w + 1 is the first of the partition of worker w.            *)
Begin(task) == [mode |-> "run", task |-> task, pc |-> 1, log |-> <<>>]

Active(t) == at[t].mode # "off"
Op(t)     == Code(at[t].task)[at[t].pc]

(* Thread t is about to make, or to go on with, a call of one of the kinds. *)
Calls(t, kinds) ==
  /\ at[t].mode \in {"run", "woken"}
  /\ at[t].pc <= Len(Code(at[t].task))
  /\ Op(t).op \in kinds

Init ==
  /\ phase = "main"
  /\ next = 1
  /\ started = {}
  /\ at = [t \in Threads |-> IF t = 0 THEN Begin(0) ELSE Off]
  /\ results = [task \in {} |-> <<>>]
  /\ chans = <<>>
  /\ nodes = [n \in {} |-> Null]
  /\ owner = <<>>

-----------------------------------------------------------------------------
(* The calls.                                                              *)

(* The call of thread t returns r; a drain repeats its receive until that  *)
(* fails.                                                                  *)
Returned(t, r) ==
  LET again == Op(t).op = "drain" /\ r # SyncError
  IN [at[t] EXCEPT !.mode = "run", !.pc = IF again THEN @ ELSE @ + 1,
                   !.log = Append(@, [call |-> Op(t), ret |-> r])]

Return(t, r) == at' = [at EXCEPT ![t] = Returned(t, r)]

(* The call of t returns r and wakes the threads of `woken`.               *)
ReturnAndWake(t, r, woken) ==
  at' = [u \in Threads |-> IF u = t THEN Returned(t, r)
                           ELSE IF u \in woken THEN [at[u] EXCEPT !.mode = "woken"]
                           ELSE at[u]]

Fail(t) == Return(t, SyncError) /\ UNCHANGED syncVars

(* The threads in pthread_cond_wait on channel h.                          *)
Waiting(h) == {t \in Threads : at[t].mode = "wait" /\ Op(t).chan = h}

ChanNew(t) ==
  /\ Calls(t, {"chan_new"})
  /\ \/ Len(chans) >= Cap /\ Fail(t)
     \/ /\ Len(chans) < Cap
        /\ chans' = Append(chans, [head |-> Null, tail |-> Null, closed |-> FALSE])
        /\ Return(t, Len(chans))
        /\ UNCHANGED <<nodes, owner>>

(* tuo_rt_alloc, which never returns null: some node not in use.           *)
FreeNode == CHOOSE n \in 1..(Cardinality(DOMAIN nodes) + 1) : n \notin DOMAIN nodes

Allocated(heap, n, v) ==
  [m \in DOMAIN heap \cup {n} |-> IF m = n THEN [value |-> v, link |-> Null] ELSE heap[m]]

Linked(heap, n, to) == IF n = Null THEN heap ELSE [heap EXCEPT ![n].link = to]

(* A bug: a waiter is only woken when the channel was empty.               *)
SignalledIfEmpty(h) ==
  IF Waiting(h) = {} \/ Chan(h).head # Null THEN {{}} ELSE {{t} : t \in Waiting(h)}

(* pthread_cond_signal wakes one of the waiters, if there is one.          *)
Signalled(h) == IF Waiting(h) = {} THEN {{}} ELSE {{t} : t \in Waiting(h)}

ChanSend(t) ==
  /\ Calls(t, {"send"})
  /\ LET h == Op(t).chan
         v == Op(t).value
         n == FreeNode
     IN \/ (~IsChan(h) \/ v < 0) /\ Fail(t)
        \/ /\ IsChan(h) /\ v >= 0
           /\ Chan(h).closed /\ Fail(t)
        \/ /\ IsChan(h) /\ v >= 0
           /\ ~Chan(h).closed
           /\ nodes' = Linked(Allocated(nodes, n, v), Chan(h).tail, n)
           /\ chans' = [chans EXCEPT ![h + 1].head = IF Chan(h).tail = Null THEN n ELSE @,
                                     ![h + 1].tail = n]
           /\ \E woken \in Signalled(h) : ReturnAndWake(t, 0, woken)
           /\ UNCHANGED owner

(* A bug: the tail of an emptied list goes on pointing at the last node.   *)
UnlinkedKeepsTail(heap, c) == [c EXCEPT !.head = heap[c.head].link]

(* The list without its head.                                              *)
Unlinked(heap, c) ==
  [c EXCEPT !.head = heap[c.head].link,
            !.tail = IF heap[c.head].link = Null THEN Null ELSE @]

ChanRecv(t) ==
  /\ Calls(t, {"recv", "drain"})
  /\ LET h == Op(t).chan
     IN \/ ~IsChan(h) /\ Fail(t)
        \/ /\ IsChan(h)
           /\ Chan(h).head = Null /\ ~Chan(h).closed
           /\ at' = [at EXCEPT ![t].mode = "wait"]
           /\ UNCHANGED syncVars
        \/ /\ IsChan(h)
           /\ Chan(h).head = Null /\ Chan(h).closed
           /\ Fail(t)
        \/ /\ IsChan(h)
           /\ Chan(h).head # Null
           /\ chans' = [chans EXCEPT ![h + 1] = Unlinked(nodes, @)]
           /\ nodes' = Restrict(nodes, DOMAIN nodes \ {Chan(h).head})
           /\ Return(t, nodes[Chan(h).head].value)
           /\ UNCHANGED owner

(* A waiter may wake for no reason; its loop looks again.                  *)
SpuriousWakeup(t) ==
  /\ at[t].mode = "wait"
  /\ at' = [at EXCEPT ![t].mode = "woken"]
  /\ UNCHANGED <<poolVars, results, syncVars>>

(* A bug: closing signals one waiter instead of all.                       *)
BroadcastToOne(h) == IF Waiting(h) = {} THEN {} ELSE {Min(Waiting(h))}

Broadcast(h) == Waiting(h)

ChanClose(t) ==
  /\ Calls(t, {"close"})
  /\ LET h == Op(t).chan
     IN \/ ~IsChan(h) /\ Fail(t)
        \/ /\ IsChan(h)
           /\ chans' = [chans EXCEPT ![h + 1].closed = TRUE]
           /\ ReturnAndWake(t, 0, Broadcast(h))
           /\ UNCHANGED <<nodes, owner>>

MutexNew(t) ==
  /\ Calls(t, {"mutex_new"})
  /\ \/ Len(owner) >= Cap /\ Fail(t)
     \/ /\ Len(owner) < Cap
        /\ owner' = Append(owner, Nobody)
        /\ Return(t, Len(owner))
        /\ UNCHANGED <<chans, nodes>>

(* The mutexes check errors: relocking fails, locking a held one blocks.   *)
MutexLock(t) ==
  /\ Calls(t, {"lock"})
  /\ LET m == Op(t).mutex
     IN \/ ~IsMutex(m) /\ Fail(t)
        \/ /\ IsMutex(m)
           /\ owner[m + 1] = t /\ Fail(t)
        \/ /\ IsMutex(m)
           /\ owner[m + 1] = Nobody
           /\ owner' = [owner EXCEPT ![m + 1] = t]
           /\ Return(t, 0)
           /\ UNCHANGED <<chans, nodes>>

(* A bug: a mutex without error checking lets any thread unlock it.        *)
AnyoneUnlocks(t, m) == owner[m + 1] # Nobody

MayUnlock(t, m) == owner[m + 1] = t

MutexUnlock(t) ==
  /\ Calls(t, {"unlock"})
  /\ LET m == Op(t).mutex
     IN \/ ~IsMutex(m) /\ Fail(t)
        \/ /\ IsMutex(m)
           /\ ~MayUnlock(t, m) /\ Fail(t)
        \/ /\ IsMutex(m)
           /\ MayUnlock(t, m)
           /\ owner' = [owner EXCEPT ![m + 1] = Nobody]
           /\ Return(t, 0)
           /\ UNCHANGED <<chans, nodes>>

Call(t) ==
  /\ \/ ChanNew(t) \/ ChanSend(t) \/ ChanRecv(t) \/ ChanClose(t)
     \/ MutexNew(t) \/ MutexLock(t) \/ MutexUnlock(t)
  /\ UNCHANGED <<poolVars, results>>

(* A bug: workers step through the tasks one by one.                       *)
FollowingByOne(task) == task + 1

(* Partitions are round-robin.                                             *)
Following(task) == task + W

(* tuo_rt_par_run: a task returned; go on with the next of the partition,  *)
(* or leave.                                                               *)
TaskReturns(t) ==
  /\ at[t].mode = "run"
  /\ at[t].pc > Len(Code(at[t].task))
  /\ LET task == at[t].task
     IN /\ results' = [done \in DOMAIN results \cup {task} |->
                       IF done = task THEN at[t].log ELSE results[done]]
        /\ at' = [at EXCEPT ![t] = IF task # 0 /\ Following(task) <= N THEN Begin(Following(task)) ELSE Off]
  /\ UNCHANGED <<poolVars, syncVars>>

-----------------------------------------------------------------------------
(* tuo_rt_par_map, on the caller's thread.                                 *)

EnterParMap ==
  /\ phase = "main" /\ ~Active(0)
  /\ phase' = "spawn"
  /\ UNCHANGED <<next, started, at, results, syncVars>>

StartWorker ==
  /\ phase = "spawn" /\ ~Active(0) /\ next < W
  /\ next' = next + 1
  /\ \/ /\ started' = started \cup {next}
        /\ at' = [at EXCEPT ![next] = Begin(next + 1)]
     \/ /\ next \in CanFail            \* run that partition inline
        /\ at' = [at EXCEPT ![0] = Begin(next + 1)]
        /\ UNCHANGED started
  /\ UNCHANGED <<phase, results, syncVars>>

RunOwnPartition ==
  /\ phase = "spawn" /\ ~Active(0) /\ next = W
  /\ phase' = "join"
  /\ next' = 1
  /\ at' = [at EXCEPT ![0] = Begin(1)]
  /\ UNCHANGED <<started, results, syncVars>>

(* A bug: the last worker is not joined.                                   *)
JoinedAllButLast == next >= W - 1

JoinedAll == next = W

JoinWorker ==
  /\ phase = "join" /\ ~Active(0) /\ ~JoinedAll
  /\ next \in started => ~Active(next)
  /\ next' = next + 1
  /\ UNCHANGED <<phase, started, at, results, syncVars>>

LeaveParMap ==
  /\ phase = "join" /\ ~Active(0) /\ JoinedAll
  /\ phase' = "returned"
  /\ UNCHANGED <<next, started, at, results, syncVars>>

Caller == EnterParMap \/ StartWorker \/ RunOwnPartition \/ JoinWorker \/ LeaveParMap

Thread(t) == Call(t) \/ TaskReturns(t)

Next ==
  \/ Caller
  \/ \E t \in Threads : Thread(t) \/ SpuriousWakeup(t)

(* The operating system runs every thread that can move.                   *)
Spec ==
  /\ Init
  /\ [][Next]_vars
  /\ WF_vars(Caller)
  /\ \A t \in Threads : WF_vars(Thread(t))

-----------------------------------------------------------------------------
(* The nodes s make up the list that starts at node n.                     *)
IsList(heap, s, n) ==
  /\ n = IF s = <<>> THEN Null ELSE s[1]
  /\ \A i \in DOMAIN s : heap[s[i]].link = IF i = Len(s) THEN Null ELSE s[i + 1]

NodesFrom(heap, n) ==
  CHOOSE s \in SeqOf(DOMAIN heap, Cardinality(DOMAIN heap)) : IsList(heap, s, n)

(* The values in the channels, oldest first.                               *)
QueuesIn(heap, cs) ==
  [c \in DOMAIN cs |->
    LET s == NodesFrom(heap, cs[c].head) IN [i \in DOMAIN s |-> heap[s[i]].value]]

Queues == QueuesIn(nodes, chans)

Payloads ==
  {call.value : call \in {c \in UNION {Range(Code(task)) : task \in 0..N} : c.op = "send" /\ c.value >= 0}}

(* The calls of a task that returned, whether or not it still runs.        *)
Log(task) ==
  LET running == {t \in Threads : Active(t) /\ at[t].task = task}
  IN IF running # {} THEN at[CHOOSE t \in running : TRUE].log
     ELSE IF task \in DOMAIN results THEN results[task] ELSE <<>>

(* The calls that returned: call number i of a task, whenever that was.    *)
ReturnedCalls == UNION {{<<task, i>> : i \in DOMAIN Log(task)} : task \in 0..N}

Entry(c) == Log(c[1])[c[2]]

(* As the callers see it: the sends of v that returned 0, the receives     *)
(* that returned v.                                                        *)
Accepts(e, c, v) == e.call.op = "send" /\ e.call.chan = c - 1 /\ e.call.value = v /\ e.ret = 0
Obtains(e, c, v) == e.call.op \in {"recv", "drain"} /\ e.call.chan = c - 1 /\ e.ret = v

Sent(c, v)     == Cardinality({call \in ReturnedCalls : Accepts(Entry(call), c, v)})
Received(c, v) == Cardinality({call \in ReturnedCalls : Obtains(Entry(call), c, v)})

Channels == INSTANCE Fifo WITH
  queues   <- Queues,
  closed   <- [c \in DOMAIN chans |-> chans[c].closed],
  sent     <- [c \in DOMAIN chans |-> [v \in Payloads |-> Sent(c, v)]],
  received <- [c \in DOMAIN chans |-> [v \in Payloads |-> Received(c, v)]]

(***************************************************************************)
(* The lists of nodes, seen through what the calls return, are the FIFO    *)
(* channels of ADR-0015, whatever threads send, receive, wait and close at *)
(* once: "no task lost, none run twice" (concurrent-worker's main.tuo).    *)
(***************************************************************************)
ImplementsFifo == Channels!Spec

(***************************************************************************)
(* No wakeup is lost: a receiver sleeps only while its channel is open and *)
(* each value in it is already owed to a thread that was woken.            *)
(***************************************************************************)
NoLostWakeup ==
  \A h \in 0..(Len(chans) - 1) :
    Waiting(h) # {} =>
      /\ ~Chan(h).closed
      /\ Len(Queues[h + 1]) <= Cardinality({t \in Threads : at[t].mode = "woken" /\ Op(t).chan = h})

(* The mutexes thread t holds as far as it can tell: the last of its calls *)
(* on m that returned 0, in this task, was a lock.                         *)
BelievesToHold(t, m) ==
  /\ Active(t)
  /\ \E i \in DOMAIN at[t].log :
       /\ at[t].log[i].call.op = "lock" /\ at[t].log[i].call.mutex = m /\ at[t].log[i].ret = 0
       /\ \A j \in (i + 1)..Len(at[t].log) :
            ~(at[t].log[j].call.op = "unlock" /\ at[t].log[j].call.mutex = m /\ at[t].log[j].ret = 0)

(***************************************************************************)
(* A mutex excludes: what a thread was told by its own calls is enough to  *)
(* know that it, and no other thread, is in the critical section.          *)
(***************************************************************************)
LocksExclude ==
  \A m \in 0..(Len(owner) - 1), t \in Threads : BelievesToHold(t, m) => owner[m + 1] = t

(***************************************************************************)
(* Every task is run by one thread, once, whichever workers got a thread.  *)
(***************************************************************************)
EachTaskOnce ==
  \A t \in Threads : Active(t) =>
    /\ at[t].task \notin DOMAIN results
    /\ \A u \in Threads \ {t} : Active(u) => at[u].task # at[t].task

(***************************************************************************)
(* Structured fork-join: when par_map returns no thread is left, and the   *)
(* result of every task is in its slot.                                    *)
(***************************************************************************)
NothingOutlivesTheCall ==
  phase = "returned" =>
    /\ \A t \in Threads : ~Active(t)
    /\ DOMAIN results = 0..N

(***************************************************************************)
(* par_map returns.  Of a worker whose thread cannot be started the code   *)
(* says "run that partition inline instead - the result is identical, only *)
(* less parallel" (effect.rs:468-470).                                    *)
(***************************************************************************)
ParMapReturns == <>(phase = "returned")
===============================================================================
