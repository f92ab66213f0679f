----------------------------- MODULE RtPoolProofs -----------------------------
(***************************************************************************)
(* RtPool for every program, any number of workers and whichever of them   *)
(* get no thread: every task is run once, nothing outlives par_map, a lock *)
(* excludes, no wakeup is lost, and the lists of nodes implement the       *)
(* abstract channels.                                                      *)
(***************************************************************************)
EXTENDS RtPool, FiniteSetTheorems, FunctionTheorems, SequenceTheorems, WellFoundedInduction, TLAPS

(* The size of the pool is between one thread and one thread per task.     *)
LEMMA PoolSize ==
  /\ N \in Nat \ {0}
  /\ W \in Nat \ {0} /\ W <= N
  /\ Threads = 0..(W - 1)
  /\ CanFail \subseteq 1..(W - 1)
<1> DEFINE most == Max({Workers, 1})
<1>1. most \in Nat \ {0}
  <2>1. \E x \in {Workers, 1} : \A y \in {Workers, 1} : x >= y
    BY PoolAssumption
  <2>2. most \in {Workers, 1} /\ \A y \in {Workers, 1} : most >= y
    BY <2>1 DEF Max
  <2> QED BY <2>2, PoolAssumption
<1> HIDE DEF most
<1>2. N \in Nat \ {0} /\ MaxThreads \in Nat \ {0}
  BY PoolAssumption
<1>3. \E x \in {most, N, MaxThreads} : \A y \in {most, N, MaxThreads} : x =< y
  <2>1. CASE most =< N /\ most =< MaxThreads BY <1>1, <1>2, <2>1
  <2>2. CASE N =< most /\ N =< MaxThreads BY <1>1, <1>2, <2>2
  <2>3. CASE MaxThreads =< most /\ MaxThreads =< N BY <1>1, <1>2, <2>3
  <2> QED BY <1>1, <1>2, <2>1, <2>2, <2>3
<1>4. W \in {most, N, MaxThreads} /\ \A y \in {most, N, MaxThreads} : W =< y
  BY <1>3 DEF W, Min, most
<1> QED BY <1>1, <1>2, <1>4, PoolAssumption DEF Threads

(* Division with remainder, and that it is unique.                         *)
LEMMA Division ==
  ASSUME NEW w \in Nat \ {0}, NEW x \in Nat
  PROVE  x = w * (x \div w) + (x % w) /\ x \div w \in Nat /\ x % w \in 0..(w - 1)
OBVIOUS

(* Quotient and remainder are determined.                                  *)
LEMMA DivisionUnique ==
  ASSUME NEW w \in Nat \ {0}, NEW q \in Nat, NEW r \in 0..(w - 1),
         NEW p \in Nat, NEW s \in 0..(w - 1), w * q + r = w * p + s
  PROVE  r = s /\ p = q
<1>1. CASE p = q
  BY <1>1
<1>2. CASE p > q
  <2>1. w * (p - q) >= w BY <1>2
  <2>2. w * p - w * q = w * (p - q) OBVIOUS
  <2> QED BY <2>1, <2>2
<1>3. CASE q > p
  <2>1. w * (q - p) >= w BY <1>3
  <2>2. w * q - w * p = w * (q - p) OBVIOUS
  <2> QED BY <2>1, <2>2
<1> QED BY <1>1, <1>2, <1>3

(* A step of w stays in the residue class, and no shorter one does.        *)
LEMMA StepsStayInClass ==
  ASSUME NEW w \in Nat \ {0}, NEW x \in Nat
  PROVE  (x + w) % w = x % w
<1> DEFINE q == x \div w
           p == (x + w) \div w
           r == x % w
           s == (x + w) % w
<1>1. x = w * q + r /\ q \in Nat /\ r \in 0..(w - 1)
  BY Division
<1>2. x + w = w * p + s /\ p \in Nat /\ s \in 0..(w - 1)
  <2>1. x + w \in Nat OBVIOUS
  <2> QED BY <2>1, Division
<1> HIDE DEF q, p, r, s
<1>3. w * (q + 1) + r = w * p + s /\ q + 1 \in Nat
  BY <1>1, <1>2
<1>4. r = s
  BY <1>1, <1>2, <1>3, DivisionUnique
<1> QED BY <1>4 DEF r, s

(* Two numbers of a residue class are at least w apart.                    *)
LEMMA ClassesAreSparse ==
  ASSUME NEW w \in Nat \ {0}, NEW x \in Nat, NEW y \in Nat,
         x % w = y % w, x =< y, y < x + w
  PROVE  x = y
<1> DEFINE q == x \div w
           p == y \div w
           r == x % w
<1>1. x = w * q + r /\ q \in Nat /\ r \in 0..(w - 1)
  BY Division
<1>2. y = w * p + r /\ p \in Nat
  BY Division
<1> HIDE DEF q, p, r
<1>3. CASE p > q
  <2>1. w * (p - q) >= w BY <1>3, <1>1, <1>2
  <2>2. w * p - w * q = w * (p - q) BY <1>1, <1>2
  <2> QED BY <2>1, <2>2, <1>1, <1>2
<1>4. CASE q > p
  <2>1. w * (q - p) >= w BY <1>4, <1>1, <1>2
  <2>2. w * q - w * p = w * (q - p) BY <1>1, <1>2
  <2> QED BY <2>1, <2>2, <1>1, <1>2
<1>5. CASE p = q
  BY <1>5, <1>1, <1>2
<1> QED BY <1>1, <1>2, <1>3, <1>4, <1>5

(* The partition a task belongs to, which is the number of its worker.     *)
Home(task) == (task - 1) % W

(* A task is in the partition Following stays in, and skips none of it.    *)
LEMMA Partitions ==
  ASSUME NEW i \in 1..N
  PROVE  /\ Home(i) \in 0..(W - 1) /\ Home(i) < i
         /\ Following(i) <= N => Following(i) \in 1..N /\ Home(Following(i)) = Home(i)
         /\ \A j \in 1..N : Home(j) = Home(i) =>
              /\ ~(i < j /\ j < Following(i))
<1>1. W \in Nat \ {0} /\ N \in Nat
  BY PoolSize
<1> DEFINE w == W
<1> HIDE DEF w
<1>2. w \in Nat \ {0} /\ i - 1 \in Nat
  BY <1>1 DEF w
<1>3. (i - 1) % w \in 0..(w - 1) /\ (i - 1) % w < i
  BY <1>2, <1>1
<1>4. (i - 1 + w) % w = (i - 1) % w
  BY <1>2, StepsStayInClass
<1>5. i - 1 + w = i + w - 1
  BY <1>2
<1>6. ASSUME NEW j \in 1..N, (j - 1) % w = (i - 1) % w, i < j, j < i + w
      PROVE  FALSE
  <2>1. j - 1 \in Nat /\ i - 1 =< j - 1 /\ j - 1 < i - 1 + w
    BY <1>1, <1>2, <1>6
  <2>2. i - 1 = j - 1
    BY <1>2, <1>6, <2>1, ClassesAreSparse
  <2> QED BY <1>6, <2>2, <1>1
<1>7. w = W
  BY DEF w
<1>8. Following(i) = i + w
  BY <1>7 DEF Following
<1> QED BY <1>1, <1>2, <1>3, <1>4, <1>5, <1>6, <1>7, <1>8 DEF Home

(* Partition p begins with task p + 1.                                     *)
LEMMA FirstOfPartition ==
  ASSUME NEW p \in 0..(W - 1)
  PROVE  p + 1 \in 1..N /\ Home(p + 1) = p
<1>1. W \in Nat \ {0} /\ N \in Nat /\ W <= N
  BY PoolSize
<1> DEFINE w == W
<1> HIDE DEF w
<1>2. w \in Nat \ {0} /\ p \in 0..(w - 1) /\ w = W
  BY <1>1 DEF w
<1>3. p % w = p /\ p + 1 - 1 = p
  BY <1>2
<1> QED BY <1>1, <1>2, <1>3 DEF Home

-----------------------------------------------------------------------------
(* What a thread that is not off knows of itself.                          *)
IsRunning(r) ==
  /\ r = [mode |-> r.mode, task |-> r.task, pc |-> r.pc, log |-> r.log]
  /\ r.mode \in {"run", "wait", "woken"}
  /\ r.task \in 0..N /\ r.pc \in Nat \ {0}
  /\ r.log \in Seq(Range(r.log))

ThreadsOK ==
  /\ at = [t \in Threads |-> at[t]]
  /\ \A t \in Threads : at[t] = Off \/ IsRunning(at[t])

(* An Off thread is not active, a running one is.                          *)
LEMMA Modes ==
  ASSUME NEW r
  PROVE  /\ r = Off => r.mode = "off"
         /\ IsRunning(r) => r.mode # "off"
BY DEF Off, IsRunning

(* A log stays a log when a call is added.                                 *)
LEMMA LogsGrow ==
  ASSUME NEW s, s \in Seq(Range(s)), NEW e
  PROVE  /\ Append(s, e) \in Seq(Range(Append(s, e)))
         /\ Len(s) \in Nat
         /\ Len(Append(s, e)) = Len(s) + 1
         /\ \A i \in 1..Len(s) : Append(s, e)[i] = s[i]
         /\ Append(s, e)[Len(s) + 1] = e
         /\ DOMAIN s = 1..Len(s)
         /\ DOMAIN Append(s, e) = 1..(Len(s) + 1)
<1> DEFINE a == Append(s, e)
           S == Range(s) \cup {e}
<1>1. s \in Seq(S)
  OBVIOUS
<1>2. e \in S
  OBVIOUS
<1> HIDE DEF S
<1>3. /\ a \in Seq(S) /\ Len(s) \in Nat /\ Len(a) = Len(s) + 1
      /\ \A i \in 1..Len(s) : a[i] = s[i]
      /\ a[Len(s) + 1] = e
      /\ DOMAIN s = 1..Len(s) /\ DOMAIN a = 1..(Len(s) + 1)
  BY <1>1, <1>2
<1>4. \A i \in 1..Len(a) : a[i] \in Range(a)
  BY <1>3 DEF Range
<1>5. a \in Seq(Range(a))
  BY <1>3, <1>4
<1> QED BY <1>3, <1>5

(* What a call that returns r does to the thread that made it.             *)
LEMMA ReturnedShape ==
  ASSUME NEW t \in Threads, IsRunning(at[t]), NEW r
  PROVE  /\ IsRunning(Returned(t, r))
         /\ Returned(t, r).mode = "run" /\ Returned(t, r).task = at[t].task
         /\ Returned(t, r).log = Append(at[t].log, [call |-> Op(t), ret |-> r])
<1> DEFINE a == at[t]
           log == Append(a.log, [call |-> Op(t), ret |-> r])
           pc == IF Op(t).op = "drain" /\ r # SyncError THEN a.pc ELSE a.pc + 1
<1>1. /\ a = [mode |-> a.mode, task |-> a.task, pc |-> a.pc, log |-> a.log]
      /\ a.task \in 0..N /\ pc \in Nat \ {0}
  BY DEF IsRunning
<1>2. Returned(t, r) = [a EXCEPT !.mode = "run", !.pc = pc, !.log = log]
  BY DEF Returned
<1>3. log \in Seq(Range(log))
  BY LogsGrow DEF IsRunning
<1> HIDE DEF pc, log, a
<1>4. Returned(t, r) = [mode |-> "run", task |-> a.task, pc |-> pc, log |-> log]
  BY <1>1, <1>2
<1>5. /\ Returned(t, r).mode = "run" /\ Returned(t, r).task = a.task
      /\ Returned(t, r).pc = pc /\ Returned(t, r).log = log
  BY <1>4
<1> QED BY <1>1, <1>3, <1>4, <1>5 DEF IsRunning, a, log

(* A change of mode is all that waiting and being woken are.               *)
LEMMA ModeShape ==
  ASSUME NEW a, IsRunning(a), NEW m \in {"run", "wait", "woken"}
  PROVE  /\ IsRunning([a EXCEPT !.mode = m])
         /\ [a EXCEPT !.mode = m].mode = m
         /\ [a EXCEPT !.mode = m].task = a.task
         /\ [a EXCEPT !.mode = m].pc = a.pc
         /\ [a EXCEPT !.mode = m].log = a.log
<1> DEFINE b == [a EXCEPT !.mode = m]
<1>1. a = [mode |-> a.mode, task |-> a.task, pc |-> a.pc, log |-> a.log]
  BY DEF IsRunning
<1>2. b = [mode |-> m, task |-> a.task, pc |-> a.pc, log |-> a.log]
  BY <1>1
<1> HIDE DEF b
<1>3. b.mode = m /\ b.task = a.task /\ b.pc = a.pc /\ b.log = a.log
  BY <1>2
<1> QED BY <1>2, <1>3 DEF IsRunning, b

(* The step moves no thread to another task, on or off.                    *)
SameTasks ==
  \A u \in Threads : /\ Active(u)' <=> Active(u)
                     /\ Active(u) => at'[u].task = at[u].task

(* Thread t learns that its call returned r, if it returned at all; no     *)
(* other thread learns anything.                                           *)
Learns(t, r) == at'[t].log = Append(at[t].log, [call |-> Op(t), ret |-> r])

OthersLearnNothing(t) ==
  \A u \in Threads \ {t} : Active(u) => at'[u].log = at[u].log

(* A call that returns and wakes others moves nobody to another task.      *)
LEMMA WakesShape ==
  ASSUME ThreadsOK, NEW t \in Threads, at[t].mode \in {"run", "woken"}, NEW r,
         NEW woken, \A u \in woken : u \in Threads /\ at[u].mode = "wait",
         ReturnAndWake(t, r, woken)
  PROVE  ThreadsOK' /\ SameTasks /\ Learns(t, r) /\ OthersLearnNothing(t)
<1>1. /\ at' = [u \in Threads |-> at'[u]]
      /\ at'[t] = Returned(t, r)
      /\ \A u \in Threads \ {t} : at'[u] = IF u \in woken THEN [at[u] EXCEPT !.mode = "woken"] ELSE at[u]
  BY DEF ReturnAndWake
<1>2. IsRunning(at[t])
  BY DEF ThreadsOK, Off
<1>3. /\ IsRunning(at'[t]) /\ at'[t].task = at[t].task /\ Learns(t, r)
  BY <1>1, <1>2, ReturnedShape DEF Learns
<1>4. ASSUME NEW u \in Threads \ {t}
      PROVE  /\ at'[u] = Off \/ IsRunning(at'[u])
             /\ at'[u] = Off <=> at[u] = Off
             /\ IsRunning(at[u]) => at'[u].task = at[u].task /\ at'[u].log = at[u].log
  <2>1. CASE u \in woken
    <3>1. IsRunning(at[u]) /\ at[u] # Off
      BY <2>1 DEF ThreadsOK, Off
    <3>2. at'[u] = [at[u] EXCEPT !.mode = "woken"]
      BY <1>1, <2>1
    <3> DEFINE a == at[u]
               b == [a EXCEPT !.mode = "woken"]
    <3>3. IsRunning(b) /\ b.task = a.task /\ b.log = a.log
      <4> HIDE DEF a
      <4>1. IsRunning(a) BY <3>1 DEF a
      <4> QED BY <4>1, ModeShape
    <3>4. at'[u] = b /\ a = at[u]
      BY <3>2
    <3> HIDE DEF a, b
    <3>5. IsRunning(at'[u]) /\ at'[u].task = at[u].task /\ at'[u].log = at[u].log
      BY <3>3, <3>4
    <3> QED BY <3>1, <3>5, Modes
  <2>2. CASE u \notin woken
    BY <1>1, <2>2 DEF ThreadsOK
  <2> QED BY <2>1, <2>2
<1>5. \A u \in Threads : /\ Active(u) <=> at[u] # Off
                         /\ Active(u) <=> IsRunning(at[u])
  BY Modes DEF ThreadsOK, Active
<1>6. \A u \in Threads : Active(u)' <=> at'[u] # Off
  <2>1. \A u \in Threads : at'[u] = Off \/ IsRunning(at'[u])
    BY <1>3, <1>4
  <2> QED BY <2>1, Modes DEF Active
<1>7. ThreadsOK'
  BY <1>1, <1>3, <1>4 DEF ThreadsOK, IsRunning
<1>8. SameTasks
  <2> SUFFICES ASSUME NEW u \in Threads
               PROVE  (Active(u)' <=> Active(u)) /\ (Active(u) => at'[u].task = at[u].task)
    BY DEF SameTasks
  <2>1. CASE u = t BY <1>2, <1>3, <1>5, <1>6, <2>1, Modes
  <2>2. CASE u # t BY <1>4, <1>5, <1>6, <2>2
  <2> QED BY <2>1, <2>2
<1>9. OthersLearnNothing(t)
  BY <1>4, <1>5 DEF OthersLearnNothing
<1> QED BY <1>3, <1>7, <1>8, <1>9

(* The same of a call that wakes nobody.                                   *)
LEMMA ReturnsShape ==
  ASSUME ThreadsOK, NEW t \in Threads, at[t].mode \in {"run", "woken"}, NEW r, Return(t, r)
  PROVE  ThreadsOK' /\ SameTasks /\ Learns(t, r) /\ OthersLearnNothing(t)
<1>1. ReturnAndWake(t, r, {})
  BY DEF Return, ReturnAndWake, ThreadsOK
<1> QED BY <1>1, WakesShape

(* Going to wait, and waking for no reason.                                *)
LEMMA ModeStepShape ==
  ASSUME ThreadsOK, NEW t \in Threads, at[t].mode # "off",
         NEW m \in {"run", "wait", "woken"}, at' = [at EXCEPT ![t].mode = m]
  PROVE  /\ ThreadsOK' /\ SameTasks
         /\ \A u \in Threads : Active(u) => at'[u].log = at[u].log
<1>1. /\ at' = [u \in Threads |-> at'[u]]
      /\ at'[t] = [at[t] EXCEPT !.mode = m]
      /\ \A u \in Threads \ {t} : at'[u] = at[u]
  BY DEF ThreadsOK
<1>2. IsRunning(at[t])
  BY DEF ThreadsOK, Off
<1>3. IsRunning(at'[t]) /\ at'[t].task = at[t].task /\ at'[t].log = at[t].log
  BY <1>1, <1>2, ModeShape
<1>4. Active(t) /\ Active(t)'
  BY <1>3, Modes DEF Active
<1>5. ThreadsOK'
  BY <1>1, <1>3 DEF ThreadsOK, IsRunning
<1>6. SameTasks /\ \A u \in Threads : Active(u) => at'[u].log = at[u].log
  BY <1>1, <1>3, <1>4 DEF SameTasks, Active
<1> QED BY <1>5, <1>6

(* What a call may do to the mutexes, and what its thread learns of it.    *)
LeavesMutexes(t) ==
  /\ UNCHANGED owner
  /\ \/ at'[t].log = at[t].log
     \/ Learns(t, SyncError)
     \/ Op(t).op \notin {"lock", "unlock"} /\ \E r : Learns(t, r)

AddsMutex(t) ==
  /\ owner' = Append(owner, Nobody)
  /\ Op(t).op = "mutex_new" /\ \E r : Learns(t, r)

TakesMutex(t) ==
  /\ Op(t).op = "lock" /\ IsMutex(Op(t).mutex)
  /\ owner[Op(t).mutex + 1] = Nobody
  /\ owner' = [owner EXCEPT ![Op(t).mutex + 1] = t]
  /\ Learns(t, 0)

GivesMutexBack(t) ==
  /\ Op(t).op = "unlock" /\ IsMutex(Op(t).mutex)
  /\ owner[Op(t).mutex + 1] = t
  /\ owner' = [owner EXCEPT ![Op(t).mutex + 1] = Nobody]
  /\ Learns(t, 0)

UsesMutexes(t) == LeavesMutexes(t) \/ AddsMutex(t) \/ TakesMutex(t) \/ GivesMutexBack(t)

Shape(t) ==
  /\ ThreadsOK' /\ SameTasks /\ OthersLearnNothing(t)
  /\ UsesMutexes(t)

(* A failing call uses no mutex.                                           *)
LEMMA FailShape ==
  ASSUME ThreadsOK, NEW t \in Threads, at[t].mode \in {"run", "woken"}, Fail(t)
  PROVE  Shape(t)
<1>1. Return(t, SyncError) /\ UNCHANGED owner
  BY DEF Fail, syncVars
<1>2. ThreadsOK' /\ SameTasks /\ Learns(t, SyncError) /\ OthersLearnNothing(t)
  BY <1>1, ReturnsShape
<1> QED BY <1>1, <1>2 DEF Shape, UsesMutexes, LeavesMutexes

(* A call about channels that returns or waits.                            *)
LEMMA ChannelShape ==
  ASSUME ThreadsOK, NEW t \in Threads, at[t].mode \in {"run", "woken"},
         ChanNew(t) \/ ChanSend(t) \/ ChanRecv(t) \/ ChanClose(t)
  PROVE  Shape(t)
<1>1. CASE Fail(t)
  BY <1>1, FailShape
<1>2. Op(t).op \notin {"lock", "unlock"}
  BY DEF ChanNew, ChanSend, ChanRecv, ChanClose, Calls
<1>3. ASSUME NEW r, Return(t, r), UNCHANGED owner
      PROVE  Shape(t)
  <2>1. ThreadsOK' /\ SameTasks /\ Learns(t, r) /\ OthersLearnNothing(t)
    BY <1>3, ReturnsShape
  <2> QED BY <1>2, <1>3, <2>1 DEF Shape, UsesMutexes, LeavesMutexes
<1>4. ASSUME NEW r, NEW woken, \A u \in woken : u \in Threads /\ at[u].mode = "wait",
             ReturnAndWake(t, r, woken), UNCHANGED owner
      PROVE  Shape(t)
  <2>1. ThreadsOK' /\ SameTasks /\ Learns(t, r) /\ OthersLearnNothing(t)
    BY <1>4, WakesShape
  <2> QED BY <1>2, <1>4, <2>1 DEF Shape, UsesMutexes, LeavesMutexes
<1>5. \A h : \A u \in Waiting(h) : u \in Threads /\ at[u].mode = "wait"
  BY DEF Waiting
<1>6. CASE ChanNew(t)
  BY <1>1, <1>3, <1>6 DEF ChanNew
<1>7. CASE ChanSend(t)
  <2>1. \A h : \A woken \in Signalled(h) : \A u \in woken : u \in Threads /\ at[u].mode = "wait"
    BY <1>5 DEF Signalled
  <2>2. Fail(t) \/ \E woken \in Signalled(Op(t).chan) : ReturnAndWake(t, 0, woken) /\ UNCHANGED owner
    BY <1>7 DEF ChanSend
  <2> QED BY <1>1, <1>4, <2>1, <2>2
<1>8. CASE ChanClose(t)
  <2>1. Fail(t) \/ (ReturnAndWake(t, 0, Waiting(Op(t).chan)) /\ UNCHANGED owner)
    BY <1>8 DEF ChanClose, Broadcast
  <2> QED BY <1>1, <1>4, <1>5, <2>1
<1>9. CASE ChanRecv(t)
  <2>1. CASE at' = [at EXCEPT ![t].mode = "wait"] /\ UNCHANGED owner
    <3>1. at[t].mode # "off"
      OBVIOUS
    <3>2. ThreadsOK' /\ SameTasks /\ \A u \in Threads : Active(u) => at'[u].log = at[u].log
      BY <2>1, <3>1, ModeStepShape
    <3> QED BY <2>1, <3>1, <3>2 DEF Shape, UsesMutexes, LeavesMutexes, OthersLearnNothing, Active
  <2>2. \/ Fail(t)
        \/ at' = [at EXCEPT ![t].mode = "wait"] /\ UNCHANGED owner
        \/ Return(t, nodes[Chan(Op(t).chan).head].value) /\ UNCHANGED owner
    BY <1>9 DEF ChanRecv, syncVars
  <2> QED BY <1>1, <1>3, <2>1, <2>2
<1> QED BY <1>6, <1>7, <1>8, <1>9

(* A call about mutexes that returns.                                      *)
LEMMA MutexShape ==
  ASSUME ThreadsOK, NEW t \in Threads, at[t].mode \in {"run", "woken"},
         MutexNew(t) \/ MutexLock(t) \/ MutexUnlock(t)
  PROVE  Shape(t)
<1>1. CASE Fail(t)
  BY <1>1, FailShape
<1>2. ASSUME NEW r, Return(t, r)
      PROVE  ThreadsOK' /\ SameTasks /\ Learns(t, r) /\ OthersLearnNothing(t)
  BY <1>2, ReturnsShape
<1>3. CASE MutexNew(t)
  <2>1. CASE ~Fail(t)
    <3>1. Op(t).op = "mutex_new" /\ owner' = Append(owner, Nobody) /\ Return(t, Len(owner))
      BY <1>3, <2>1 DEF MutexNew, Calls
    <3> QED BY <1>2, <3>1 DEF Shape, UsesMutexes, AddsMutex
  <2> QED BY <1>1, <2>1
<1>4. CASE MutexLock(t)
  <2>1. CASE ~Fail(t)
    <3>1. /\ Op(t).op = "lock" /\ IsMutex(Op(t).mutex) /\ owner[Op(t).mutex + 1] = Nobody
          /\ owner' = [owner EXCEPT ![Op(t).mutex + 1] = t] /\ Return(t, 0)
      BY <1>4, <2>1 DEF MutexLock, Calls
    <3> QED BY <1>2, <3>1 DEF Shape, UsesMutexes, TakesMutex
  <2> QED BY <1>1, <2>1
<1>5. CASE MutexUnlock(t)
  <2>1. CASE ~Fail(t)
    <3>1. /\ Op(t).op = "unlock" /\ IsMutex(Op(t).mutex) /\ owner[Op(t).mutex + 1] = t
          /\ owner' = [owner EXCEPT ![Op(t).mutex + 1] = Nobody] /\ Return(t, 0)
      BY <1>5, <2>1 DEF MutexUnlock, Calls, MayUnlock
    <3> QED BY <1>2, <3>1 DEF Shape, UsesMutexes, GivesMutexBack
  <2> QED BY <1>1, <2>1
<1> QED BY <1>3, <1>4, <1>5

(* Any call.                                                               *)
LEMMA CallShape ==
  ASSUME ThreadsOK, NEW t \in Threads, Call(t)
  PROVE  /\ Shape(t) /\ Active(t)
         /\ UNCHANGED <<phase, next, started, results>>
<1>1. at[t].mode \in {"run", "woken"}
  BY DEF Call, ChanNew, ChanSend, ChanRecv, ChanClose, MutexNew, MutexLock, MutexUnlock, Calls
<1>2. UNCHANGED <<phase, next, started, results>>
  BY DEF Call, poolVars
<1>3. Shape(t)
  BY <1>1, ChannelShape, MutexShape DEF Call
<1> QED BY <1>1, <1>2, <1>3 DEF Active

-----------------------------------------------------------------------------
(***************************************************************************)
(* The lock a thread believes to hold exists and is registered to it.      *)
(***************************************************************************)
LocksOK ==
  /\ owner \in Seq(Threads \cup {Nobody})
  /\ \A t \in Threads, m \in Nat : BelievesToHold(t, m) => m < Len(owner) /\ owner[m + 1] = t

(* The believer's last word on m: a lock, with no unlock after it.         *)
LEMMA BeliefIsInTheLog ==
  ASSUME NEW t \in Threads, Active(t), Active(t)', at'[t].log = at[t].log, NEW m
  PROVE  BelievesToHold(t, m)' => BelievesToHold(t, m)
BY DEF BelievesToHold

(* What a thread believes after a call it made, it believed before or was  *)
(* told just now.                                                          *)
LEMMA BeliefAfterACall ==
  ASSUME ThreadsOK, NEW t \in Threads, Active(t), Active(t)', NEW r, Learns(t, r),
         NEW m, BelievesToHold(t, m)'
  PROVE  \/ Op(t).op = "lock" /\ Op(t).mutex = m /\ r = 0
         \/ /\ BelievesToHold(t, m)
            /\ ~(Op(t).op = "unlock" /\ Op(t).mutex = m /\ r = 0)
<1> DEFINE s == at[t].log
           e == [call |-> Op(t), ret |-> r]
           Says(x, op) == x.call.op = op /\ x.call.mutex = m /\ x.ret = 0
<1>1. s \in Seq(Range(s))
  BY Modes DEF ThreadsOK, IsRunning, Active
<1>2. at'[t].log = Append(s, e)
  BY DEF Learns
<1>3. e.call = Op(t) /\ e.ret = r
  OBVIOUS
<1> HIDE DEF s, e
<1>4. /\ Len(s) \in Nat /\ Len(Append(s, e)) = Len(s) + 1
      /\ \A i \in 1..Len(s) : Append(s, e)[i] = s[i]
      /\ Append(s, e)[Len(s) + 1] = e
      /\ DOMAIN s = 1..Len(s) /\ DOMAIN Append(s, e) = 1..(Len(s) + 1)
  BY <1>1, LogsGrow
<1>5. PICK i \in 1..(Len(s) + 1) :
        /\ Says(Append(s, e)[i], "lock")
        /\ \A j \in (i + 1)..(Len(s) + 1) : ~Says(Append(s, e)[j], "unlock")
  BY <1>2, <1>4 DEF BelievesToHold
<1>6. CASE i = Len(s) + 1
  BY <1>3, <1>4, <1>5, <1>6
<1>7. CASE i \in 1..Len(s)
  <2>1. Says(s[i], "lock") /\ \A j \in (i + 1)..Len(s) : ~Says(s[j], "unlock")
    BY <1>4, <1>5, <1>7
  <2>2. BelievesToHold(t, m)
    BY <2>1, <1>4, <1>7 DEF BelievesToHold, s
  <2>3. ~Says(e, "unlock")
    BY <1>4, <1>5, <1>7
  <2> QED BY <2>2, <2>3, <1>3
<1> QED BY <1>4, <1>6, <1>7

(* What the other threads believe, and what is true of it, does not change *)
(* when thread t uses a mutex that is free or its own.                     *)
LEMMA LocksStep ==
  ASSUME ThreadsOK, LocksOK, NEW t \in Threads, Active(t), Shape(t)
  PROVE  LocksOK'
<1>1. /\ \A u \in Threads : Active(u)' <=> Active(u)
      /\ \A u \in Threads \ {t} : \A m : BelievesToHold(u, m)' => BelievesToHold(u, m)
  <2>1. \A u \in Threads : Active(u)' <=> Active(u)
    BY DEF Shape, SameTasks
  <2>2. ASSUME NEW u \in Threads \ {t}, NEW m, BelievesToHold(u, m)'
        PROVE  BelievesToHold(u, m)
    <3>1. Active(u) /\ Active(u)'
      BY <2>1, <2>2 DEF BelievesToHold
    <3>2. at'[u].log = at[u].log
      BY <3>1 DEF Shape, OthersLearnNothing
    <3> QED BY <2>2, <3>1, <3>2, BeliefIsInTheLog
  <2> QED BY <2>1, <2>2
<1>2. /\ Len(owner) \in Nat /\ DOMAIN owner = 1..Len(owner)
      /\ \A k \in 1..Len(owner) : owner[k] \in Threads \cup {Nobody}
      /\ t # Nobody /\ Nobody \notin Threads
  BY PoolSize DEF LocksOK, Nobody
<1>3. ASSUME NEW r, Learns(t, r), NEW m, BelievesToHold(t, m)'
      PROVE  \/ Op(t).op = "lock" /\ Op(t).mutex = m /\ r = 0
             \/ /\ BelievesToHold(t, m)
                /\ ~(Op(t).op = "unlock" /\ Op(t).mutex = m /\ r = 0)
  BY <1>1, <1>3, BeliefAfterACall
<1>4. CASE LeavesMutexes(t)
  <2>1. ASSUME NEW m, BelievesToHold(t, m)'
        PROVE  BelievesToHold(t, m)
    <3>1. CASE at'[t].log = at[t].log
      BY <1>1, <2>1, <3>1, BeliefIsInTheLog
    <3>2. CASE Learns(t, SyncError)
      BY <1>3, <2>1, <3>2 DEF SyncError
    <3>3. ASSUME Op(t).op \notin {"lock", "unlock"}, NEW r, Learns(t, r)
          PROVE  BelievesToHold(t, m)
      BY <1>3, <2>1, <3>3
    <3> QED BY <1>4, <3>1, <3>2, <3>3 DEF LeavesMutexes
  <2> QED BY <1>1, <1>4, <2>1 DEF LeavesMutexes, LocksOK
<1>5. CASE AddsMutex(t)
  <2>1. ASSUME NEW m, BelievesToHold(t, m)'
        PROVE  BelievesToHold(t, m)
    BY <1>3, <1>5, <2>1 DEF AddsMutex
  <2>2. /\ owner' \in Seq(Threads \cup {Nobody})
        /\ Len(owner') = Len(owner) + 1
        /\ \A k \in 1..Len(owner) : owner'[k] = owner[k]
    BY <1>2, <1>5 DEF AddsMutex, LocksOK
  <2>3. ASSUME NEW u \in Threads, NEW m \in Nat, BelievesToHold(u, m)'
        PROVE  m < Len(owner') /\ owner'[m + 1] = u
    <3>1. BelievesToHold(u, m)
      BY <1>1, <2>1, <2>3
    <3>2. m < Len(owner) /\ owner[m + 1] = u
      BY <3>1 DEF LocksOK
    <3> QED BY <1>2, <2>2, <3>2
  <2> QED BY <2>2, <2>3 DEF LocksOK
<1>6. CASE TakesMutex(t)
  <2> DEFINE h == Op(t).mutex
  <2>1. /\ h \in Nat /\ h < Len(owner) /\ owner[h + 1] = Nobody
        /\ owner' = [owner EXCEPT ![h + 1] = t]
    BY <1>2, <1>6 DEF TakesMutex, IsMutex
  <2>2. ASSUME NEW m, BelievesToHold(t, m)'
        PROVE  m = h \/ BelievesToHold(t, m)
    BY <1>3, <1>6, <2>2 DEF TakesMutex
  <2> HIDE DEF h
  <2>3. /\ owner' \in Seq(Threads \cup {Nobody}) /\ Len(owner') = Len(owner)
        /\ owner'[h + 1] = t
        /\ \A k \in 1..Len(owner) : k # h + 1 => owner'[k] = owner[k]
    BY <1>2, <2>1 DEF LocksOK
  <2>4. ASSUME NEW u \in Threads, NEW m \in Nat, BelievesToHold(u, m)'
        PROVE  m < Len(owner') /\ owner'[m + 1] = u
    <3>1. CASE u = t /\ m = h
      BY <2>1, <2>3, <3>1
    <3>2. CASE BelievesToHold(u, m)
      <4>1. m < Len(owner) /\ owner[m + 1] = u
        BY <3>2 DEF LocksOK
      <4>2. m # h
        BY <4>1, <2>1, <1>2
      <4> QED BY <1>2, <2>1, <2>3, <4>1, <4>2
    <3> QED BY <1>1, <2>2, <2>4, <3>1, <3>2
  <2> QED BY <2>3, <2>4 DEF LocksOK
<1>7. CASE GivesMutexBack(t)
  <2> DEFINE h == Op(t).mutex
  <2>1. /\ h \in Nat /\ h < Len(owner) /\ owner[h + 1] = t
        /\ owner' = [owner EXCEPT ![h + 1] = Nobody]
    BY <1>2, <1>7 DEF GivesMutexBack, IsMutex
  <2>2. ASSUME NEW m, BelievesToHold(t, m)'
        PROVE  m # h /\ BelievesToHold(t, m)
    BY <1>3, <1>7, <2>2 DEF GivesMutexBack
  <2> HIDE DEF h
  <2>3. /\ owner' \in Seq(Threads \cup {Nobody}) /\ Len(owner') = Len(owner)
        /\ \A k \in 1..Len(owner) : k # h + 1 => owner'[k] = owner[k]
    BY <1>2, <2>1 DEF LocksOK
  <2>4. ASSUME NEW u \in Threads, NEW m \in Nat, BelievesToHold(u, m)'
        PROVE  m < Len(owner') /\ owner'[m + 1] = u
    <3>1. BelievesToHold(u, m) /\ (u = t => m # h)
      BY <1>1, <2>2, <2>4
    <3>2. m < Len(owner) /\ owner[m + 1] = u
      BY <3>1 DEF LocksOK
    <3>3. m # h
      BY <2>1, <3>1, <3>2
    <3> QED BY <1>2, <2>1, <2>3, <3>2, <3>3
  <2> QED BY <2>3, <2>4 DEF LocksOK
<1> QED BY <1>4, <1>5, <1>6, <1>7 DEF Shape, UsesMutexes

(* A thread that is put on another task, or off, has heard nothing yet.    *)
LEMMA FreshThreadsBelieveNothing ==
  ASSUME LocksOK, UNCHANGED owner,
         \A u \in Threads : at'[u] = at[u] \/ at'[u] = Off \/ \E task : at'[u] = Begin(task)
  PROVE  LocksOK'
<1> SUFFICES ASSUME NEW u \in Threads, NEW m \in Nat, BelievesToHold(u, m)'
             PROVE  BelievesToHold(u, m)
  BY DEF LocksOK
<1>1. CASE at'[u] = at[u]
  BY <1>1 DEF BelievesToHold, Active
<1>2. CASE at'[u] = Off
  BY <1>2 DEF BelievesToHold, Active, Off
<1>3. ASSUME NEW task, at'[u] = Begin(task)
      PROVE  FALSE
  <2>1. at'[u].log = <<>>
    BY <1>3 DEF Begin
  <2> QED BY <2>1 DEF BelievesToHold
<1> QED BY <1>1, <1>2, <1>3

-----------------------------------------------------------------------------
(* A thread works on a task of the pool, and so on a partition.            *)
Works(t) == Active(t) /\ at[t].task # 0

(* The partitions par_map has handed out.                                  *)
Begun(p) ==
  \/ phase = "spawn" /\ p \in 1..(next - 1)
  \/ phase \in {"join", "returned"}

(* Who runs a partition: its worker if it got a thread, else the caller.   *)
RunnerOf(p) == IF p \in started THEN p ELSE 0

PhasesOK ==
  /\ phase \in {"main", "spawn", "join", "returned"}
  /\ next \in 1..W
  /\ started \subseteq 1..(W - 1)
  /\ \A p \in started : Begun(p)
  /\ phase = "main" => next = 1

(* main's own calls come first, and are done when the pool begins.         *)
MainOK ==
  /\ DOMAIN results \subseteq 0..N
  /\ 0 \in DOMAIN results <=> ~(phase = "main" /\ Active(0))
  /\ \A t \in Threads : Active(t) /\ at[t].task = 0 => t = 0 /\ phase = "main"

(* A thread works on a partition that was handed to it; the caller, on the *)
(* last one it handed out.                                                 *)
RunnersOK ==
  \A t \in Threads : Works(t) =>
    /\ at[t].task \in 1..N
    /\ Begun(Home(at[t].task))
    /\ t = RunnerOf(Home(at[t].task))

CallerOK ==
  /\ phase \in {"main", "returned"} => ~Works(0)
  /\ phase = "join" /\ Works(0) => next = 1
  /\ phase = "returned" => next = W
  /\ phase \in {"join", "returned"} => \A p \in 1..(next - 1) : ~Active(p)

(* The tasks with a result are, in each partition handed out, those before *)
(* the one that somebody works on, or all of them.                         *)
ProgressOK ==
  \A i \in 1..N :
    i \in DOMAIN results <=>
      /\ Begun(Home(i))
      /\ \A t \in Threads : Works(t) /\ Home(at[t].task) = Home(i) => i < at[t].task

WorkOK == PhasesOK /\ MainOK /\ RunnersOK /\ CallerOK /\ ProgressOK

(* Calls and wakeups move nobody to another task.                          *)
LEMMA SameTasksKeepWork ==
  ASSUME WorkOK, SameTasks, UNCHANGED <<phase, next, started, results>>
  PROVE  WorkOK'
<1>1. \A p : (Begun(p)' <=> Begun(p)) /\ (RunnerOf(p)' = RunnerOf(p))
  BY DEF Begun, RunnerOf
<1>2. \A t \in Threads : /\ Active(t)' <=> Active(t)
                         /\ Active(t) => at'[t].task = at[t].task
                         /\ Works(t)' <=> Works(t)
  BY DEF SameTasks, Works
<1>3. 0 \in Threads /\ \A p \in 1..(next - 1) : p \in Threads
  BY PoolSize DEF WorkOK, PhasesOK
<1>4. PhasesOK'
  BY <1>1 DEF WorkOK, PhasesOK
<1>5. MainOK'
  BY <1>2, <1>3 DEF WorkOK, MainOK
<1>6. RunnersOK'
  BY <1>1, <1>2 DEF WorkOK, RunnersOK, Works
<1>7. CallerOK'
  BY <1>2, <1>3 DEF WorkOK, CallerOK
<1>8. ProgressOK'
  BY <1>1, <1>2 DEF WorkOK, ProgressOK, Works
<1> QED BY <1>4, <1>5, <1>6, <1>7, <1>8 DEF WorkOK

(* A task that is begun is the first of the partition.                     *)
LEMMA BeginShape ==
  ASSUME NEW task \in 0..N
  PROVE  /\ IsRunning(Begin(task)) /\ Begin(task).task = task
         /\ Begin(task).mode # "off"
<1> DEFINE r == Begin(task)
<1>1. r = [mode |-> "run", task |-> task, pc |-> 1, log |-> <<>>]
  BY DEF Begin
<1>2. r.mode = "run" /\ r.task = task /\ r.pc = 1 /\ r.log = <<>>
  BY <1>1
<1>3. <<>> \in Seq(Range(<<>>))
  OBVIOUS
<1> HIDE DEF r
<1>4. IsRunning(r) /\ r.task = task /\ r.mode # "off"
  BY <1>1, <1>2, <1>3 DEF IsRunning
<1> QED BY <1>4 DEF r

(* Two threads never work on one partition.                                *)
LEMMA OneRunner ==
  ASSUME WorkOK, NEW t \in Threads, NEW u \in Threads, Works(t), Works(u),
         Home(at[t].task) = Home(at[u].task)
  PROVE  t = u
BY DEF WorkOK, RunnersOK

(* A task of the pool returns: its result is in, and its thread goes on    *)
(* with the next of the partition.                                         *)
LEMMA TaskReturnsKeepsWork ==
  ASSUME ThreadsOK, WorkOK, NEW t \in Threads, TaskReturns(t)
  PROVE  ThreadsOK' /\ WorkOK'
<1> DEFINE i == at[t].task
           after == IF i # 0 /\ Following(i) <= N THEN Begin(Following(i)) ELSE Off
<1>1. /\ Active(t) /\ i \in 0..N
  BY DEF TaskReturns, Active, ThreadsOK, IsRunning, Off
<1>2. /\ UNCHANGED <<phase, next, started>>
      /\ DOMAIN results' = DOMAIN results \cup {i}
      /\ at' = [u \in Threads |-> at'[u]]
      /\ at'[t] = after
      /\ \A u \in Threads \ {t} : at'[u] = at[u]
  BY DEF TaskReturns, poolVars, ThreadsOK
<1>3. i # 0 => i \in 1..N
  BY <1>1, PoolSize
<1>4. after = Off \/ (i # 0 /\ Following(i) \in 1..N /\ after = Begin(Following(i)))
  BY <1>3, Partitions
<1>5. /\ after = Off \/ IsRunning(after)
      /\ after # Off => after.task = Following(i) /\ Following(i) \in 1..N
      /\ after.mode # "off" <=> after # Off
  BY <1>4, BeginShape, Modes DEF Off
<1>6. ThreadsOK'
  BY <1>2, <1>5 DEF ThreadsOK, IsRunning
<1>7. /\ \A p : (Begun(p)' <=> Begun(p)) /\ (RunnerOf(p)' = RunnerOf(p))
      /\ \A u \in Threads \ {t} : (Active(u)' <=> Active(u)) /\ (Works(u)' <=> Works(u))
      /\ Active(t)' <=> after # Off
      /\ Works(t)' <=> after # Off
  BY <1>2, <1>5, PoolSize DEF Begun, RunnerOf, Active, Works
<1>8. 0 \in Threads /\ \A p \in 1..(next - 1) : p \in Threads
  BY PoolSize DEF WorkOK, PhasesOK
<1>9. i = 0 => t = 0 /\ phase = "main" /\ after = Off
  BY <1>1 DEF WorkOK, MainOK
<1>10. i # 0 => /\ Works(t) /\ Begun(Home(i)) /\ t = RunnerOf(Home(i))
  BY <1>1 DEF WorkOK, RunnersOK, Works
<1>11. after # Off => /\ i # 0 /\ Following(i) \in 1..N /\ Home(Following(i)) = Home(i)
  BY <1>3, <1>4, Partitions
<1>12. PhasesOK'
  BY <1>2, <1>7 DEF WorkOK, PhasesOK
<1>13. MainOK'
  <2>1. DOMAIN results' \subseteq 0..N
    BY <1>1, <1>2 DEF WorkOK, MainOK
  <2>2. 0 \in DOMAIN results' <=> ~(phase' = "main" /\ Active(0)')
    <3>1. CASE i = 0 BY <1>2, <1>7, <1>9, <3>1
    <3>2. CASE i # 0
      <4>1. phase # "main"
        BY <1>10, <3>2 DEF Begun
      <4> QED BY <1>2, <3>2, <4>1 DEF WorkOK, MainOK
    <3> QED BY <3>1, <3>2
  <2>3. ASSUME NEW u \in Threads, Active(u)', at'[u].task = 0
        PROVE  u = 0 /\ phase' = "main"
    <3>1. u # t
      BY <1>2, <1>5, <1>7, <1>11, <2>3, PoolSize
    <3> QED BY <1>2, <1>7, <2>3, <3>1 DEF WorkOK, MainOK
  <2> QED BY <2>1, <2>2, <2>3 DEF MainOK
<1>14. RunnersOK'
  <2> SUFFICES ASSUME NEW u \in Threads, Works(u)'
               PROVE  /\ at'[u].task \in 1..N
                      /\ Begun(Home(at'[u].task))
                      /\ u = RunnerOf(Home(at'[u].task))
    BY <1>2 DEF RunnersOK, Home, Begun, RunnerOf
  <2>1. CASE u = t
    BY <1>2, <1>5, <1>7, <1>10, <1>11, <2>1
  <2>2. CASE u # t
    BY <1>2, <1>7, <2>2 DEF WorkOK, RunnersOK
  <2> QED BY <2>1, <2>2
<1>15. CallerOK'
  <2>1. \A u \in Threads : Active(u)' => Active(u)
    BY <1>1, <1>7
  <2>2. Works(0)' => Works(0)
    BY <1>7, <1>8, <1>10, <1>11
  <2> QED BY <1>2, <1>8, <2>1, <2>2 DEF WorkOK, CallerOK
<1>16. ProgressOK'
  <2> SUFFICES ASSUME NEW j \in 1..N
               PROVE  j \in DOMAIN results' <=>
                        /\ Begun(Home(j))
                        /\ \A u \in Threads : Works(u)' /\ Home(at'[u].task) = Home(j) => j < at'[u].task
    BY <1>7 DEF ProgressOK, Home, Begun
  <2>1. j \in DOMAIN results <=>
          /\ Begun(Home(j))
          /\ \A u \in Threads : Works(u) /\ Home(at[u].task) = Home(j) => j < at[u].task
    BY DEF WorkOK, ProgressOK
  <2>2. CASE i = 0 \/ Home(j) # Home(i)
    <3>1. j \in DOMAIN results' <=> j \in DOMAIN results
      BY <1>2, <2>2, PoolSize
    <3>2. ASSUME NEW u \in Threads
          PROVE  (Works(u) /\ Home(at[u].task) = Home(j)) <=> (Works(u)' /\ Home(at'[u].task) = Home(j))
      <4>1. CASE u = t
        BY <1>2, <1>5, <1>7, <1>9, <1>11, <2>2, <4>1 DEF Works
      <4>2. CASE u # t
        BY <1>2, <1>7, <4>2
      <4> QED BY <4>1, <4>2
    <3>3. ASSUME NEW u \in Threads, Works(u), Home(at[u].task) = Home(j)
          PROVE  at'[u] = at[u]
      BY <1>2, <2>2, <3>3 DEF Works
    <3> QED BY <2>1, <3>1, <3>2, <3>3
  <2>3. CASE i # 0 /\ Home(j) = Home(i)
    <3>1. \A u \in Threads : Works(u) /\ Home(at[u].task) = Home(j) => u = t
      BY <1>10, <2>3, OneRunner
    <3>2. j \in DOMAIN results <=> j < i
      BY <1>10, <2>1, <2>3, <3>1
    <3>3. j \in DOMAIN results' <=> j =< i
      BY <1>1, <1>2, <3>2, PoolSize
    <3>4. \A u \in Threads : Works(u)' /\ Home(at'[u].task) = Home(j) => u = t
      BY <1>2, <1>7, <3>1
    <3>5. ~(i < j /\ j < Following(i))
      BY <1>3, <2>3, Partitions
    <3>6. i < Following(i) /\ Following(i) \in Nat
      BY <1>3, <2>3, PoolSize DEF Following
    <3>7. CASE after = Off
      <4>1. N < Following(i)
        BY <1>4, <2>3, <3>6, <3>7, <1>5, BeginShape, PoolSize, Modes DEF Off
      <4>2. j =< i
        BY <1>3, <2>3, <3>5, <3>6, <4>1, PoolSize
      <4> QED BY <1>7, <1>10, <2>3, <3>3, <3>4, <3>7, <4>2
    <3>8. CASE after # Off
      <4>1. at'[t].task = Following(i) /\ Works(t)' /\ Home(Following(i)) = Home(j)
        BY <1>2, <1>5, <1>7, <1>11, <2>3, <3>8
      <4>2. j =< i <=> j < Following(i)
        BY <1>3, <2>3, <3>5, <3>6, PoolSize
      <4> QED BY <1>10, <2>3, <3>3, <3>4, <4>1, <4>2
    <3> QED BY <3>7, <3>8
  <2> QED BY <2>2, <2>3
<1> QED BY <1>6, <1>12, <1>13, <1>14, <1>15, <1>16 DEF WorkOK

(* Putting an idle thread on the first task of a partition nobody began:   *)
(* what it takes, for StartWorker and for the caller's own partition.      *)
LEMMA HandingOut ==
  ASSUME ThreadsOK, WorkOK, NEW p \in 0..(W - 1), NEW t \in Threads,
         at' = [at EXCEPT ![t] = Begin(p + 1)], UNCHANGED results,
         ~Active(t), ~Begun(p), 0 \in DOMAIN results,
         t = RunnerOf(p)',
         \A q \in 0..(W - 1) : Begun(q)' <=> Begun(q) \/ q = p,
         \A q \in 0..(W - 1) : Begun(q) => RunnerOf(q)' = RunnerOf(q)
  PROVE  /\ ThreadsOK' /\ MainOK' /\ RunnersOK' /\ ProgressOK'
         /\ Works(t)' /\ Home(at'[t].task) = p
         /\ \A u \in Threads \ {t} : at'[u] = at[u]
<1>1. /\ p + 1 \in 1..N /\ Home(p + 1) = p
      /\ IsRunning(Begin(p + 1)) /\ Begin(p + 1).task = p + 1 /\ Begin(p + 1).mode # "off"
  <2>1. p + 1 \in 0..N /\ p + 1 \in 1..N /\ Home(p + 1) = p
    BY FirstOfPartition, PoolSize
  <2> QED BY <2>1, BeginShape
<1>2. /\ at' = [u \in Threads |-> at'[u]] /\ at'[t] = Begin(p + 1)
      /\ \A u \in Threads \ {t} : at'[u] = at[u]
  BY DEF ThreadsOK
<1>3. /\ \A u \in Threads \ {t} : (Active(u)' <=> Active(u)) /\ (Works(u)' <=> Works(u))
      /\ Active(t)' /\ Works(t)' /\ ~Works(t)
  BY <1>1, <1>2, PoolSize DEF Active, Works
<1>4. ThreadsOK'
  BY <1>1, <1>2 DEF ThreadsOK, IsRunning
<1>5. \A u \in Threads : ~(Active(u) /\ at[u].task = 0)
  BY DEF WorkOK, MainOK
<1>6. \A u \in Threads : ~(Active(u)' /\ at'[u].task = 0)
  BY <1>1, <1>2, <1>3, <1>5, PoolSize
<1>7. MainOK'
  <2>1. 0 \in Threads
    BY PoolSize
  <2>2. ~(phase' = "main" /\ Active(0)')
    <3>1. Begun(p)'
      OBVIOUS
    <3> QED BY <3>1 DEF Begun
  <2> QED BY <1>6, <2>1, <2>2 DEF WorkOK, MainOK
<1>8. \A u \in Threads : Works(u) => /\ at[u].task \in 1..N
                                    /\ Home(at[u].task) \in 0..(W - 1)
                                    /\ Home(at[u].task) # p
                                    /\ Begun(Home(at[u].task)) /\ u = RunnerOf(Home(at[u].task))
  BY Partitions DEF WorkOK, RunnersOK
<1>9. \A u \in Threads : Works(u)' =>
        \E q \in 0..(W - 1) : /\ q = Home(at'[u].task) /\ at'[u].task \in 1..N
                             /\ Begun(q)' /\ u = RunnerOf(q)'
  <2> SUFFICES ASSUME NEW u \in Threads, Works(u)'
               PROVE  \E q \in 0..(W - 1) : /\ q = Home(at'[u].task) /\ at'[u].task \in 1..N
                                           /\ Begun(q)' /\ u = RunnerOf(q)'
    OBVIOUS
  <2>1. CASE u = t
    BY <1>1, <1>2, <2>1
  <2>2. CASE u # t
    <3>1. Works(u) /\ at'[u] = at[u]
      BY <1>2, <1>3, <2>2
    <3> QED BY <1>8, <3>1
  <2> QED BY <2>1, <2>2
<1>10. RunnersOK'
  BY <1>9 DEF RunnersOK, Home, Begun, RunnerOf
<1>11. ASSUME NEW j \in 1..N
       PROVE  j \in DOMAIN results <=>
                \E q \in 0..(W - 1) :
                  /\ q = Home(j) /\ Begun(q)'
                  /\ \A u \in Threads : Works(u)' /\ Home(at'[u].task) = q => j < at'[u].task
  <2>1. Home(j) \in 0..(W - 1) /\ Home(j) < j
    BY Partitions
  <2>2. j \in DOMAIN results <=>
          /\ Begun(Home(j))
          /\ \A u \in Threads : Works(u) /\ Home(at[u].task) = Home(j) => j < at[u].task
    BY DEF WorkOK, ProgressOK
  <2>3. CASE Home(j) = p
    <3>1. j \notin DOMAIN results
      BY <2>2, <2>3
    <3>2. ~(j < p + 1)
      BY <2>1, <2>3, PoolSize
    <3> QED BY <1>1, <1>2, <1>3, <2>3, <3>1, <3>2
  <2>4. CASE Home(j) # p
    <3>1. Begun(Home(j))' <=> Begun(Home(j))
      <4> DEFINE q == Home(j)
      <4>1. q \in 0..(W - 1) /\ q # p
        BY <2>1, <2>4
      <4> HIDE DEF q
      <4>2. Begun(q)' <=> Begun(q)
        BY <4>1
      <4>3. q' = q /\ q = Home(j)
        BY DEF q, Home
      <4> QED BY <4>2, <4>3 DEF Begun
    <3>2. ASSUME NEW u \in Threads
          PROVE  /\ Works(u) /\ Home(at[u].task) = Home(j) <=> Works(u)' /\ Home(at'[u].task) = Home(j)
                 /\ Works(u) /\ Home(at[u].task) = Home(j) => at'[u] = at[u]
      <4>1. CASE u = t
        BY <1>1, <1>2, <1>3, <2>4, <4>1
      <4>2. CASE u # t
        BY <1>2, <1>3, <4>2
      <4> QED BY <4>1, <4>2
    <3> QED BY <2>1, <2>2, <3>1, <3>2 DEF Begun, Home
  <2> QED BY <2>3, <2>4
<1>12. ProgressOK'
  <2> SUFFICES ASSUME NEW j \in 1..N, NEW q, q = Home(j)
               PROVE  j \in DOMAIN results' <=>
                        /\ Begun(q)'
                        /\ \A u \in Threads : Works(u)' /\ Home(at'[u].task) = q => j < at'[u].task
    BY DEF ProgressOK, Home, Begun
  <2>1. q \in 0..(W - 1)
    BY Partitions
  <2> QED BY <1>11, <2>1
<1> QED BY <1>1, <1>2, <1>3, <1>4, <1>7, <1>10, <1>12

(* The caller's steps that hand out nothing.                               *)
LEMMA IdleStep ==
  ASSUME ThreadsOK, WorkOK, UNCHANGED <<started, at, results>>,
         \A p : Begun(p)' <=> Begun(p),
         phase' # "main", ~(phase = "main" /\ Active(0)),
         PhasesOK', CallerOK'
  PROVE  ThreadsOK' /\ WorkOK'
<1>1. \A p : (Begun(p)' <=> Begun(p)) /\ RunnerOf(p)' = RunnerOf(p)
  BY DEF RunnerOf
<1>2. ThreadsOK'
  BY DEF ThreadsOK, IsRunning
<1>3. \A t \in Threads : (Active(t)' <=> Active(t)) /\ (Works(t)' <=> Works(t))
  BY DEF Active, Works
<1>4. MainOK'
  BY <1>3 DEF WorkOK, MainOK
<1>5. RunnersOK'
  BY <1>1, <1>3 DEF WorkOK, RunnersOK
<1>6. ProgressOK'
  BY <1>1, <1>3 DEF WorkOK, ProgressOK
<1> QED BY <1>2, <1>4, <1>5, <1>6 DEF WorkOK

(* The worker that is started next is not running yet.                     *)
LEMMA NextIsIdle ==
  ASSUME WorkOK, phase = "spawn", next < W, next \in Threads, ~Active(0)
  PROVE  ~Active(next)
<1> SUFFICES ASSUME Active(next) PROVE FALSE
  OBVIOUS
<1>1. next \in Nat \ {0} /\ next \notin started
  BY PoolSize DEF WorkOK, PhasesOK, Begun
<1>2. Works(next)
  BY DEF WorkOK, MainOK, Works
<1>3. next = RunnerOf(Home(at[next].task))
  BY <1>2 DEF WorkOK, RunnersOK
<1> QED BY <1>1, <1>3 DEF RunnerOf

(* The caller keeps the work in order.                                     *)
LEMMA CallerKeepsWork ==
  ASSUME ThreadsOK, WorkOK, Caller
  PROVE  ThreadsOK' /\ WorkOK'
<1>1. /\ W \in Nat \ {0} /\ 0 \in Threads /\ Threads = 0..(W - 1)
      /\ next \in 1..W
  BY PoolSize DEF WorkOK, PhasesOK
<1>2. CASE EnterParMap
  <2>1. /\ phase = "main" /\ ~Active(0) /\ phase' = "spawn" /\ next = 1
        /\ UNCHANGED <<next, started, at, results>>
    BY <1>2 DEF EnterParMap, syncVars, WorkOK, PhasesOK
  <2>2. \A p : Begun(p)' <=> Begun(p)
    BY <2>1 DEF Begun
  <2>3. PhasesOK'
    BY <2>1, <2>2 DEF WorkOK, PhasesOK
  <2>4. CallerOK'
    BY <2>1 DEF CallerOK
  <2> QED BY <2>1, <2>2, <2>3, <2>4, IdleStep
<1>3. CASE JoinWorker
  <2>1. /\ phase = "join" /\ phase' = "join" /\ next' = next + 1 /\ next # W /\ ~Active(0)
        /\ next \in started => ~Active(next)
        /\ UNCHANGED <<started, at, results>>
    BY <1>3 DEF JoinWorker, JoinedAll, syncVars
  <2>2. \A p : Begun(p)' <=> Begun(p)
    BY <2>1 DEF Begun
  <2>3. PhasesOK'
    BY <1>1, <2>1, <2>2 DEF WorkOK, PhasesOK
  <2>4. ~Active(next)
    <3> SUFFICES ASSUME Active(next) PROVE FALSE
      OBVIOUS
    <3>1. next \in Threads /\ next # 0
      BY <1>1, <2>1
    <3>2. Works(next)
      BY <2>1, <3>1 DEF WorkOK, MainOK, Works
    <3>3. next = RunnerOf(Home(at[next].task))
      BY <3>1, <3>2 DEF WorkOK, RunnersOK
    <3> QED BY <2>1, <3>1, <3>3 DEF RunnerOf
  <2>5. CallerOK'
    BY <1>1, <2>1, <2>4 DEF WorkOK, CallerOK, Works, Active
  <2> QED BY <2>1, <2>2, <2>3, <2>5, IdleStep
<1>4. CASE LeaveParMap
  <2>1. /\ phase = "join" /\ phase' = "returned" /\ next = W /\ ~Active(0)
        /\ UNCHANGED <<next, started, at, results>>
    BY <1>4 DEF LeaveParMap, JoinedAll, syncVars
  <2>2. \A p : Begun(p)' <=> Begun(p)
    BY <2>1 DEF Begun
  <2>3. PhasesOK'
    BY <1>1, <2>1, <2>2 DEF WorkOK, PhasesOK
  <2>4. CallerOK'
    BY <1>1, <2>1 DEF WorkOK, CallerOK, Works, Active
  <2> QED BY <2>1, <2>2, <2>3, <2>4, IdleStep
<1>5. CASE StartWorker
  <2>1. /\ phase = "spawn" /\ phase' = "spawn" /\ next < W /\ next' = next + 1 /\ ~Active(0)
        /\ UNCHANGED results
        /\ next \in 0..(W - 1) /\ next \in Threads
    BY <1>1, <1>5 DEF StartWorker, syncVars
  <2> PICK p \in 0..(W - 1) : p = next
    BY <2>1
  <2>2. \/ started' = started \cup {p} /\ at' = [at EXCEPT ![p] = Begin(p + 1)]
        \/ started' = started /\ at' = [at EXCEPT ![0] = Begin(p + 1)]
    BY <1>5 DEF StartWorker
  <2>3. /\ ~Begun(p) /\ p \notin started
        /\ 0 \in DOMAIN results
        /\ \A q \in 0..(W - 1) : Begun(q)' <=> Begun(q) \/ q = p
        /\ \A q \in 0..(W - 1) : Begun(q) => q # p
    BY <1>1, <2>1 DEF Begun, WorkOK, PhasesOK, MainOK
  <2>4. \A q \in 0..(W - 1) : Begun(q) => RunnerOf(q)' = RunnerOf(q)
    BY <2>2, <2>3 DEF RunnerOf
  <2>5. ~Active(p)
    BY <2>1, NextIsIdle
  <2>6. PhasesOK'
    <3>1. started' \subseteq started \cup {p}
      BY <2>2
    <3>2. started \subseteq 1..(W - 1) /\ \A q \in started : Begun(q)
      BY DEF WorkOK, PhasesOK
    <3>3. started' \subseteq 1..(W - 1) /\ \A q \in started' : Begun(q)'
      BY <1>1, <2>1, <2>3, <3>1, <3>2
    <3> QED BY <1>1, <2>1, <3>3 DEF PhasesOK
  <2>7. CallerOK'
    BY <2>1 DEF CallerOK
  <2>8. ThreadsOK' /\ MainOK' /\ RunnersOK' /\ ProgressOK'
    <3>1. CASE started' = started \cup {p} /\ at' = [at EXCEPT ![p] = Begin(p + 1)]
      <4>1. p = RunnerOf(p)'
        BY <3>1 DEF RunnerOf
      <4> QED BY <2>1, <2>3, <2>4, <2>5, <3>1, <4>1, HandingOut
    <3>2. CASE started' = started /\ at' = [at EXCEPT ![0] = Begin(p + 1)]
      <4>1. 0 = RunnerOf(p)'
        BY <2>3, <3>2 DEF RunnerOf
      <4> QED BY <1>1, <2>1, <2>3, <2>4, <3>2, <4>1, HandingOut
    <3> QED BY <2>2, <3>1, <3>2
  <2> QED BY <2>6, <2>7, <2>8 DEF WorkOK
<1>6. CASE RunOwnPartition
  <2>1. /\ phase = "spawn" /\ phase' = "join" /\ next = W /\ next' = 1 /\ ~Active(0)
        /\ UNCHANGED <<started, results>>
        /\ at' = [at EXCEPT ![0] = Begin(0 + 1)]
    BY <1>6 DEF RunOwnPartition, syncVars
  <2>2. /\ ~Begun(0) /\ 0 \notin started
        /\ 0 \in DOMAIN results
        /\ \A q \in 0..(W - 1) : Begun(q)' <=> Begun(q) \/ q = 0
    BY <1>1, <2>1 DEF Begun, WorkOK, PhasesOK, MainOK
  <2>3. /\ \A q \in 0..(W - 1) : Begun(q) => RunnerOf(q)' = RunnerOf(q)
        /\ 0 = RunnerOf(0)'
    BY <2>1, <2>2 DEF RunnerOf
  <2>4. 0 \in 0..(W - 1)
    BY <1>1
  <2>5. ThreadsOK' /\ MainOK' /\ RunnersOK' /\ ProgressOK'
    BY <1>1, <2>1, <2>2, <2>3, <2>4, HandingOut
  <2>6. PhasesOK'
    BY <1>1, <2>1 DEF WorkOK, PhasesOK, Begun
  <2>7. CallerOK'
    BY <2>1 DEF CallerOK
  <2> QED BY <2>5, <2>6, <2>7 DEF WorkOK
<1> QED BY <1>2, <1>3, <1>4, <1>5, <1>6 DEF Caller

-----------------------------------------------------------------------------
(* The invariant: what threads are, who works on what, who holds what.     *)
IInv == ThreadsOK /\ WorkOK /\ LocksOK

(* It holds at the start.                                                  *)
LEMMA InitInvariant == Init => IInv
<1> SUFFICES ASSUME Init PROVE IInv
  OBVIOUS
<1>1. /\ W \in Nat \ {0} /\ N \in Nat \ {0} /\ 0 \in Threads /\ Threads = 0..(W - 1)
      /\ phase = "main" /\ next = 1 /\ started = {} /\ DOMAIN results = {} /\ owner = <<>>
      /\ at = [t \in Threads |-> at[t]]
      /\ at[0] = Begin(0) /\ \A t \in Threads \ {0} : at[t] = Off
  BY PoolSize DEF Init
<1>2. IsRunning(Begin(0)) /\ Begin(0).task = 0 /\ Begin(0).mode # "off" /\ Begin(0).log = <<>>
  <2>1. 0 \in 0..N
    BY <1>1
  <2> QED BY <2>1, BeginShape DEF Begin
<1>3. ThreadsOK
  BY <1>1, <1>2 DEF ThreadsOK
<1>4. \A t \in Threads : ~Works(t) /\ (Active(t) <=> t = 0)
  BY <1>1, <1>2 DEF Works, Active, Off
<1>5. \A p : ~Begun(p)
  BY <1>1 DEF Begun
<1>6. WorkOK
  BY <1>1, <1>4, <1>5 DEF WorkOK, PhasesOK, MainOK, RunnersOK, CallerOK, ProgressOK
<1>7. LocksOK
  BY <1>1, <1>2, <1>4 DEF LocksOK, BelievesToHold
<1> QED BY <1>3, <1>6, <1>7 DEF IInv

(* Every step keeps it.                                                    *)
LEMMA NextInvariant == IInv /\ [Next]_vars => IInv'
<1> SUFFICES ASSUME IInv, [Next]_vars PROVE IInv'
  OBVIOUS
<1> USE DEF IInv
<1>1. ASSUME NEW t \in Threads, Call(t)
      PROVE  IInv'
  <2>1. Shape(t) /\ Active(t) /\ UNCHANGED <<phase, next, started, results>>
    BY <1>1, CallShape
  <2>2. LocksOK'
    BY <2>1, LocksStep
  <2> QED BY <2>1, <2>2, SameTasksKeepWork DEF Shape
<1>2. ASSUME NEW t \in Threads, TaskReturns(t)
      PROVE  IInv'
  <2>1. UNCHANGED owner /\ \A u \in Threads : at'[u] = at[u] \/ at'[u] = Off \/ \E task : at'[u] = Begin(task)
    BY <1>2 DEF TaskReturns, syncVars, ThreadsOK
  <2> QED BY <1>2, <2>1, TaskReturnsKeepsWork, FreshThreadsBelieveNothing
<1>3. ASSUME NEW t \in Threads, SpuriousWakeup(t)
      PROVE  IInv'
  <2>1. /\ at[t].mode # "off" /\ at' = [at EXCEPT ![t].mode = "woken"]
        /\ UNCHANGED <<phase, next, started, results, owner>>
    BY <1>3 DEF SpuriousWakeup, poolVars, syncVars
  <2>2. ThreadsOK' /\ SameTasks /\ \A u \in Threads : Active(u) => at'[u].log = at[u].log
    BY <2>1, ModeStepShape
  <2>3. \A u \in Threads, m \in Nat : BelievesToHold(u, m)' => BelievesToHold(u, m)
    <3> SUFFICES ASSUME NEW u \in Threads, NEW m \in Nat, BelievesToHold(u, m)'
                 PROVE  BelievesToHold(u, m)
      OBVIOUS
    <3>1. Active(u) /\ Active(u)'
      BY <2>2 DEF SameTasks, BelievesToHold
    <3> QED BY <2>2, <3>1, BeliefIsInTheLog
  <2>4. LocksOK'
    BY <2>1, <2>3 DEF LocksOK
  <2> QED BY <2>1, <2>2, <2>4, SameTasksKeepWork
<1>4. ASSUME Caller
      PROVE  IInv'
  <2>1. UNCHANGED owner /\ \A u \in Threads : at'[u] = at[u] \/ at'[u] = Off \/ \E task : at'[u] = Begin(task)
    BY <1>4 DEF Caller, EnterParMap, StartWorker, RunOwnPartition, JoinWorker, LeaveParMap, syncVars, ThreadsOK
  <2> QED BY <1>4, <2>1, CallerKeepsWork, FreshThreadsBelieveNothing
<1>5. CASE UNCHANGED vars
  <2>1. ThreadsOK' /\ LocksOK'
    BY <1>5 DEF vars, ThreadsOK, IsRunning, LocksOK, BelievesToHold, Active
  <2>2. SameTasks
    BY <1>5 DEF vars, SameTasks, Active
  <2> QED BY <1>5, <2>1, <2>2, SameTasksKeepWork DEF vars
<1> QED BY <1>1, <1>2, <1>3, <1>4, <1>5 DEF Next, Thread

(* The invariant of the pool and its mutexes holds in every reachable      *)
(* state.                                                                  *)
THEOREM PoolInvariance == Spec => []IInv
BY InitInvariant, NextInvariant, PTL DEF Spec

(* No two threads are on one task, and no task is begun that has a result. *)
LEMMA TasksAreOwned == IInv => EachTaskOnce
<1> SUFFICES ASSUME IInv, NEW t \in Threads, Active(t)
             PROVE  /\ at[t].task \notin DOMAIN results
                    /\ \A u \in Threads \ {t} : Active(u) => at[u].task # at[t].task
  BY DEF EachTaskOnce
<1>1. CASE at[t].task = 0
  BY <1>1 DEF IInv, WorkOK, MainOK
<1>2. CASE at[t].task # 0
  <2>1. Works(t) /\ at[t].task \in 1..N
    BY <1>2 DEF Works, IInv, WorkOK, RunnersOK
  <2>2. at[t].task \notin DOMAIN results
    BY <2>1, PoolSize DEF IInv, WorkOK, ProgressOK
  <2>3. ASSUME NEW u \in Threads \ {t}, Active(u), at[u].task = at[t].task
        PROVE  FALSE
    <3>1. Works(u)
      BY <1>2, <2>3 DEF Works
    <3> QED BY <2>1, <2>3, <3>1, OneRunner DEF IInv
  <2> QED BY <2>2, <2>3
<1> QED BY <1>1, <1>2

(* Round-robin partitions cover the tasks without overlap, whatever the    *)
(* number of workers (tuo_rt_par_run).                                     *)
THEOREM TasksRunOnce == Spec => []EachTaskOnce
BY TasksAreOwned, PoolInvariance, PTL

(* The join waits for every worker and the caller runs what got no thread, *)
(* so par_map returns only with every task done and every thread gone.     *)
THEOREM ForkJoinIsStructured == Spec => []NothingOutlivesTheCall
<1>1. IInv => NothingOutlivesTheCall
  <2> SUFFICES ASSUME IInv, phase = "returned"
               PROVE  (\A t \in Threads : ~Active(t)) /\ DOMAIN results = 0..N
    BY DEF NothingOutlivesTheCall
  <2>1. /\ W \in Nat \ {0} /\ N \in Nat \ {0} /\ Threads = 0..(W - 1) /\ next = W
    BY PoolSize DEF IInv, WorkOK, CallerOK
  <2>2. \A t \in Threads \ {0} : ~Active(t)
    BY <2>1 DEF IInv, WorkOK, CallerOK
  <2>3. ~Active(0)
    BY <2>1 DEF IInv, WorkOK, CallerOK, MainOK, Works
  <2>4. \A i \in 1..N : i \in DOMAIN results
    BY <2>2, <2>3 DEF IInv, WorkOK, ProgressOK, Begun, Works
  <2>5. 0 \in DOMAIN results /\ DOMAIN results \subseteq 0..N
    BY DEF IInv, WorkOK, MainOK
  <2>6. \A i \in 0..N : i \in DOMAIN results
    BY <2>1, <2>4, <2>5
  <2>7. DOMAIN results = 0..N
    BY <2>5, <2>6
  <2> QED BY <2>2, <2>3, <2>7
<1> QED BY <1>1, PoolInvariance, PTL

(* Error-checking mutexes exclude: a thread whose own calls told it that   *)
(* it holds a mutex is the one the mutex is registered to.                 *)
THEOREM MutexesExclude == Spec => []LocksExclude
<1>1. IInv => LocksExclude
  <2> SUFFICES ASSUME IInv, NEW m \in 0..(Len(owner) - 1), NEW t \in Threads, BelievesToHold(t, m)
               PROVE  owner[m + 1] = t
    BY DEF LocksExclude
  <2>1. m \in Nat
    BY DEF IInv, LocksOK
  <2> QED BY <2>1 DEF IInv, LocksOK
<1> QED BY <1>1, PoolInvariance, PTL

-----------------------------------------------------------------------------
(* The channels' lists of nodes.                                           *)

(* A nonempty set of numbers has a least one.                              *)
LEMMA LeastOne ==
  ASSUME NEW S, S \subseteq Nat, S # {}
  PROVE  \E n \in S : \A k \in S : n <= k
<1>1. IsWellFoundedOn(OpToRel(<, Nat), Nat)
  BY NatLessThanWellFounded
<1>2. PICK n \in S : \A k \in S : ~ (<<k, n>> \in OpToRel(<, Nat))
  BY <1>1, WFMin, Zenon
<1>3. \A k \in S : n <= k
  <2>1. ASSUME NEW k \in S PROVE n <= k
    <3>1. n \in Nat /\ k \in Nat
      OBVIOUS
    <3>2. ~ (k < n)
      BY <1>2, <3>1 DEF OpToRel
    <3> QED BY <3>1, <3>2
  <2> QED BY <2>1
<1> QED BY <1>3

(* The heap and the channels, as values.                                   *)
HeapOK(heap) ==
  /\ IsFiniteSet(DOMAIN heap) /\ DOMAIN heap \subseteq Nat \ {0}
  /\ heap \in [DOMAIN heap -> [value : Payloads, link : Nat]]

Ends(s, c) == c.tail = IF s = <<>> THEN Null ELSE s[Len(s)]

(* The lists L of the channels cs: each is linked from head to tail, and   *)
(* no node is in two places.                                               *)
Chained(heap, cs, L) ==
  /\ cs \in Seq([head : Nat, tail : Nat, closed : BOOLEAN])
  /\ L \in [DOMAIN cs -> Seq(DOMAIN heap)]
  /\ \A c \in DOMAIN cs : IsList(heap, L[c], cs[c].head) /\ Ends(L[c], cs[c])
  /\ \A c, d \in DOMAIN cs : \A i \in DOMAIN L[c], j \in DOMAIN L[d] :
       L[c][i] = L[d][j] => c = d /\ i = j

(* Queue c with one value more, and with one less.                         *)
Longer(queues, c, v) == [queues EXCEPT ![c] = Append(@, v)]
Shorter(queues, c)   == [queues EXCEPT ![c] = Tail(@)]

(* The values in the nodes s.                                              *)
Values(heap, s) == [i \in DOMAIN s |-> heap[s[i]].value]

(* The k nodes s lead from n to the end.                                   *)
Path(heap, n, s, k) ==
  /\ n = IF k = 0 THEN Null ELSE s[1]
  /\ \A i \in 1..k : s[i] # Null /\ heap[s[i]].link = IF i = k THEN Null ELSE s[i + 1]

(* Following the links gives one list.                                     *)
LEMMA OnePath ==
  ASSUME NEW heap, NEW n, NEW s, NEW k \in Nat, NEW q, NEW m \in Nat,
         Path(heap, n, s, k), Path(heap, n, q, m)
  PROVE  k = m /\ \A i \in 1..k : s[i] = q[i]
<1> USE DEF Path
<1> DEFINE bad == {i \in Nat : i \in 1..k /\ i \in 1..m /\ s[i] # q[i]}
<1>1. bad = {}
  <2> SUFFICES ASSUME bad # {} PROVE FALSE
    OBVIOUS
  <2>1. PICK i \in bad : \A j \in bad : i <= j
    BY LeastOne
  <2>2. i \in Nat /\ i \in 1..k /\ i \in 1..m /\ s[i] # q[i]
    OBVIOUS
  <2>3. CASE i = 1
    BY <2>2, <2>3
  <2>4. CASE i # 1
    <3>1. i - 1 \in 1..k /\ i - 1 \in 1..m /\ i - 1 \in Nat /\ i - 1 # k /\ i - 1 # m
      BY <2>2, <2>4
    <3>2. i - 1 \notin bad
      BY <2>1, <2>2, <3>1
    <3>3. s[i - 1] = q[i - 1]
      BY <3>1, <3>2
    <3>4. heap[s[i - 1]].link = s[i] /\ heap[q[i - 1]].link = q[i]
      BY <2>2, <3>1
    <3> QED BY <2>2, <3>3, <3>4
  <2> QED BY <2>3, <2>4
<1>2. \A i \in Nat : i \in 1..k /\ i \in 1..m => s[i] = q[i]
  BY <1>1
<1> HIDE DEF bad
<1>3. CASE k < m
  <2>1. CASE k = 0
    BY <1>3, <2>1
  <2>2. CASE k # 0
    <3>1. k \in 1..k /\ k \in 1..m /\ k + 1 \in 1..m
      BY <1>3, <2>2
    <3> QED BY <1>2, <1>3, <3>1
  <2> QED BY <2>1, <2>2
<1>4. CASE m < k
  <2>1. CASE m = 0
    BY <1>4, <2>1
  <2>2. CASE m # 0
    <3>1. m \in 1..k /\ m \in 1..m /\ m + 1 \in 1..k
      BY <1>4, <2>2
    <3> QED BY <1>2, <1>4, <3>1
  <2> QED BY <2>1, <2>2
<1>5. CASE k = m
  BY <1>2, <1>5
<1> QED BY <1>3, <1>4, <1>5

(* The sequence of nodes from n to the end is determined.                  *)
LEMMA OneList ==
  ASSUME NEW heap, DOMAIN heap \subseteq Nat \ {0}, NEW n,
         NEW s \in Seq(DOMAIN heap), IsList(heap, s, n),
         NEW q \in Seq(DOMAIN heap), IsList(heap, q, n)
  PROVE  s = q
<1> DEFINE D == DOMAIN heap
<1>1. s \in Seq(D) /\ q \in Seq(D) /\ Null \notin D
  BY DEF Null
<1> HIDE DEF D
<1>2. PICK k \in Nat : k = Len(s)
  BY <1>1
<1>3. PICK m \in Nat : m = Len(q)
  BY <1>1
<1>4. /\ DOMAIN s = 1..k /\ DOMAIN q = 1..m
      /\ \A i \in 1..k : s[i] # Null
      /\ \A i \in 1..m : q[i] # Null
      /\ s = <<>> <=> k = 0
      /\ q = <<>> <=> m = 0
  BY <1>1, <1>2, <1>3
<1>5. Path(heap, n, s, k)
  BY <1>2, <1>4 DEF IsList, Path
<1>6. Path(heap, n, q, m)
  BY <1>3, <1>4 DEF IsList, Path
<1>7. k = m /\ \A i \in 1..k : s[i] = q[i]
  BY <1>5, <1>6, OnePath
<1> QED BY <1>1, <1>2, <1>3, <1>4, <1>7

(* It is the list the search finds: as no node is repeated, it is no       *)
(* longer than the heap is large.                                          *)
LEMMA ListFound ==
  ASSUME NEW heap, HeapOK(heap), NEW n,
         NEW s \in Seq(DOMAIN heap), IsList(heap, s, n),
         \A i, j \in DOMAIN s : s[i] = s[j] => i = j
  PROVE  NodesFrom(heap, n) = s
<1> DEFINE D == DOMAIN heap
           k == Cardinality(D)
<1>1. IsFiniteSet(D) /\ k \in Nat
  BY FS_CardinalityType DEF HeapOK
<1>2. Len(s) \in Nat /\ DOMAIN s = 1..Len(s) /\ s \in [1..Len(s) -> D]
  OBVIOUS
<1>3. s \in Injection(1..Len(s), D)
  BY <1>2, Fun_IsInj
<1>4. Cardinality(1..Len(s)) <= k
  BY <1>1, <1>3, FS_Injection
<1>5. Cardinality(1..Len(s)) = Len(s)
  BY <1>2, FS_Interval
<1> HIDE DEF D, k
<1>6. s \in SeqOf(D, k)
  <2>1. Len(s) \in 0..k
    BY <1>1, <1>2, <1>4, <1>5
  <2> QED BY <1>2, <2>1 DEF SeqOf
<1>7. ASSUME NEW q \in SeqOf(D, k), IsList(heap, q, n)
      PROVE  q = s
  <2>1. PICK m \in 0..k : q \in [1..m -> D]
    BY DEF SeqOf
  <2>2. q \in Seq(D)
    BY <1>1, <2>1
  <2> QED BY <1>7, <2>2, OneList DEF HeapOK, D
<1> QED BY <1>6, <1>7 DEF NodesFrom, D, k

(* The queues are the values of the lists.                                 *)
LEMMA QueuesAre ==
  ASSUME NEW heap, HeapOK(heap), NEW cs, NEW L, Chained(heap, cs, L)
  PROVE  QueuesIn(heap, cs) = [c \in DOMAIN cs |-> Values(heap, L[c])]
<1>1. ASSUME NEW c \in DOMAIN cs
      PROVE  NodesFrom(heap, cs[c].head) = L[c]
  <2>1. /\ L[c] \in Seq(DOMAIN heap) /\ IsList(heap, L[c], cs[c].head)
        /\ \A i, j \in DOMAIN L[c] : L[c][i] = L[c][j] => i = j
    BY DEF Chained
  <2> QED BY <2>1, ListFound
<1> QED BY <1>1 DEF QueuesIn, Values

(* A send: the new node, and the last of the list pointing at it.          *)
LEMMA LinkedHeap ==
  ASSUME NEW heap, HeapOK(heap), NEW n \in Nat \ {0}, n \notin DOMAIN heap, NEW v \in Payloads,
         NEW last, last = Null \/ last \in DOMAIN heap, NEW new,
         new = Linked(Allocated(heap, n, v), last, n)
  PROVE  /\ HeapOK(new)
         /\ DOMAIN new = DOMAIN heap \cup {n}
         /\ new[n].value = v /\ new[n].link = Null
         /\ \A m \in DOMAIN heap : /\ new[m].value = heap[m].value
                                  /\ new[m].link = IF m = last THEN n ELSE heap[m].link
<1> DEFINE D == DOMAIN heap
           E == D \cup {n}
           C == [value : Payloads, link : Nat]
           mid == [m \in E |-> IF m = n THEN [value |-> v, link |-> Null] ELSE heap[m]]
<1>1. IsFiniteSet(D) /\ D \subseteq Nat \ {0} /\ heap \in [D -> C] /\ n \notin D
  BY DEF HeapOK
<1>2. IsFiniteSet(E) /\ E \subseteq Nat \ {0}
  BY <1>1, FS_AddElement
<1>3. [value |-> v, link |-> Null] \in C
  BY DEF Null
<1>4. mid \in [E -> C] /\ mid[n] = [value |-> v, link |-> Null] /\ \A m \in D : mid[m] = heap[m]
  <2> HIDE DEF C
  <2> QED BY <1>1, <1>3
<1>5. new = IF last = Null THEN mid ELSE [mid EXCEPT ![last].link = n]
  BY DEF Linked, Allocated
<1>6. last = Null \/ last \in D
  OBVIOUS
<1> HIDE DEF D, E, mid
<1>7. CASE last = Null
  <2>1. new = mid
    BY <1>5, <1>7
  <2>2. last \notin D
    BY <1>1, <1>7 DEF Null
  <2>3. new \in [E -> C] /\ DOMAIN new = E
    BY <1>4, <2>1
  <2>4. HeapOK(new)
    BY <1>2, <2>3 DEF HeapOK
  <2>5. new[n].value = v /\ new[n].link = Null
    BY <1>4, <2>1
  <2>6. \A m \in D : new[m] = heap[m] /\ m # last
    BY <1>4, <2>1, <2>2
  <2> QED BY <2>3, <2>4, <2>5, <2>6 DEF D, E
<1>8. CASE last \in D
  <2>1. last # Null /\ last # n /\ last \in E
    BY <1>1, <1>8 DEF Null, E
  <2>2. new = [mid EXCEPT ![last].link = n]
    BY <1>5, <2>1
  <2>3. mid[last] \in C
    BY <1>4, <2>1
  <2>4. [mid[last] EXCEPT !.link = n] \in C
    BY <2>3
  <2>5. new = [mid EXCEPT ![last] = [mid[last] EXCEPT !.link = n]]
    BY <2>2
  <2>6. new \in [E -> C] /\ DOMAIN new = E
    <3> HIDE DEF C
    <3> QED BY <1>4, <2>4, <2>5
  <2>7. /\ new[last] = [mid[last] EXCEPT !.link = n]
        /\ \A m \in E : m # last => new[m] = mid[m]
    BY <1>4, <2>1, <2>5
  <2>8. new[last].link = n /\ new[last].value = mid[last].value
    BY <2>3, <2>7
  <2>9. HeapOK(new)
    BY <1>2, <2>6 DEF HeapOK
  <2>10. /\ new[n].value = v /\ new[n].link = Null
    <3>1. new[n] = mid[n]
      BY <2>1, <2>7 DEF E
    <3> QED BY <1>4, <3>1
  <2>11. ASSUME NEW m \in D
         PROVE  new[m].value = heap[m].value /\ new[m].link = IF m = last THEN n ELSE heap[m].link
    <3>1. CASE m = last
      BY <1>4, <2>8, <3>1
    <3>2. CASE m # last
      BY <1>4, <2>7, <3>2 DEF E
    <3> QED BY <3>1, <3>2
  <2> QED BY <2>6, <2>9, <2>10, <2>11 DEF D, E
<1> QED BY <1>6, <1>7, <1>8

(* What a sequence over D is made of.                                      *)
LEMMA ListFacts ==
  ASSUME NEW D, NEW s \in Seq(D)
  PROVE  /\ Len(s) \in Nat /\ DOMAIN s = 1..Len(s)
         /\ s = <<>> <=> Len(s) = 0
         /\ \A i \in 1..Len(s) : s[i] \in D
OBVIOUS

(* The list of a channel after a value was linked to its end.              *)
LEMMA LongerList ==
  ASSUME NEW D, NEW s \in Seq(D), NEW heap, NEW head, IsList(heap, s, head), Null \notin D,
         NEW last, last = IF s = <<>> THEN Null ELSE s[Len(s)],
         NEW n, n \notin D, n # Null,
         \A i, j \in DOMAIN s : s[i] = s[j] => i = j,
         NEW new, new[n].link = Null,
         \A m \in D : new[m].link = IF m = last THEN n ELSE heap[m].link
  PROVE  IsList(new, Append(s, n), IF last = Null THEN n ELSE head)
<1> DEFINE a == Append(s, n)
           start == IF last = Null THEN n ELSE head
<1>1. PICK k \in Nat : k = Len(s) /\ DOMAIN s = 1..k /\ (s = <<>> <=> k = 0) /\ \A i \in 1..k : s[i] \in D
  BY ListFacts
<1>2. /\ Len(a) = k + 1 /\ DOMAIN a = 1..(k + 1) /\ a # <<>>
      /\ a[k + 1] = n /\ \A i \in 1..k : a[i] = s[i]
  <2>1. PICK S : s \in Seq(S) /\ n \in S
    <3>1. s \in Seq(D \cup {n}) /\ n \in D \cup {n}
      OBVIOUS
    <3> QED BY <3>1
  <2>2. a \in Seq(S) /\ Len(a) = Len(s) + 1 /\ a[Len(s) + 1] = n /\ \A i \in 1..Len(s) : a[i] = s[i]
    BY ONLY <2>1, AppendProperties DEF a
  <2> HIDE DEF a
  <2>3. Len(a) = k + 1 /\ a[k + 1] = n /\ \A i \in 1..k : a[i] = s[i]
    BY <1>1, <2>2
  <2>4. DOMAIN a = 1..(k + 1) /\ a # <<>>
    BY <1>1, <2>2, <2>3
  <2> QED BY <2>3, <2>4
<1>3. /\ head = IF k = 0 THEN Null ELSE s[1]
      /\ \A i \in 1..k : heap[s[i]].link = IF i = k THEN Null ELSE s[i + 1]
      /\ last = IF k = 0 THEN Null ELSE s[k]
  BY <1>1 DEF IsList
<1> HIDE DEF a
<1>4. start = a[1]
  <2>1. CASE k = 0
    BY <1>2, <1>3, <2>1
  <2>2. CASE k # 0
    <3>1. 1 \in 1..k /\ k \in 1..k
      BY <2>2
    <3>2. last # Null /\ head = s[1]
      BY <1>1, <1>3, <2>2, <3>1
    <3> QED BY <1>2, <3>1, <3>2
  <2> QED BY <2>1, <2>2
<1>5. ASSUME NEW i \in 1..(k + 1)
      PROVE  new[a[i]].link = IF i = k + 1 THEN Null ELSE a[i + 1]
  <2>1. CASE i = k + 1
    BY <1>2, <2>1
  <2>2. CASE i = k /\ k # 0
    <3>1. a[i] = last /\ last \in D
      BY <1>1, <1>2, <1>3, <2>2
    <3> QED BY <1>2, <2>2, <3>1
  <2>3. CASE i # k /\ i # k + 1
    <3>1. i \in 1..k /\ i + 1 \in 1..k /\ k \in 1..k
      BY <2>3
    <3>2. s[i] # s[k] /\ s[i] \in D
      BY <1>1, <2>3, <3>1
    <3>3. new[s[i]].link = s[i + 1]
      BY <1>3, <2>3, <3>1, <3>2
    <3> QED BY <1>2, <2>3, <3>1, <3>3
  <2> QED BY <2>1, <2>2, <2>3
<1>6. IsList(new, a, start)
  BY <1>2, <1>4, <1>5 DEF IsList
<1> QED BY <1>6 DEF a

(* Lists that no link of was changed.                                      *)
LEMMA SameList ==
  ASSUME NEW D, NEW s \in Seq(D), NEW heap, NEW head, IsList(heap, s, head),
         NEW new, \A i \in DOMAIN s : new[s[i]].link = heap[s[i]].link
  PROVE  IsList(new, s, head)
BY DEF IsList

(* The channels, and the heap, with a last node n in channel c.            *)
WithLast(cs, c, n)        == [cs EXCEPT ![c].head = IF cs[c].tail = Null THEN n ELSE @, ![c].tail = n]
HeapWith(heap, cs, c, n, v) == Linked(Allocated(heap, n, v), cs[c].tail, n)

(* What a send does to the lists.                                          *)
LEMMA SendAppends ==
  ASSUME NEW heap, HeapOK(heap), NEW cs, NEW L, Chained(heap, cs, L), NEW c \in DOMAIN cs,
         NEW n \in Nat \ {0}, n \notin DOMAIN heap, NEW v \in Payloads,
         NEW new, new = HeapWith(heap, cs, c, n, v),
         NEW after, after = WithLast(cs, c, n)
  PROVE  /\ HeapOK(new) /\ \E M : Chained(new, after, M)
         /\ Len(after) = Len(cs) /\ \A d \in DOMAIN cs : after[d].closed = cs[d].closed
         /\ QueuesIn(new, after) = Longer(QueuesIn(heap, cs), c, v)
<1> USE DEF WithLast, HeapWith
<1> DEFINE D == DOMAIN heap
           E == D \cup {n}
           R == [head : Nat, tail : Nat, closed : BOOLEAN]
           last == cs[c].tail
           s == L[c]
           M == [L EXCEPT ![c] = Append(s, n)]
<1>1. /\ cs \in Seq(R) /\ L \in [DOMAIN cs -> Seq(D)]
      /\ \A d \in DOMAIN cs : L[d] \in Seq(D) /\ IsList(heap, L[d], cs[d].head) /\ Ends(L[d], cs[d])
      /\ \A d, e \in DOMAIN cs : \A i \in DOMAIN L[d], j \in DOMAIN L[e] :
           L[d][i] = L[e][j] => d = e /\ i = j
  BY DEF Chained
<1>2. Null \notin D /\ n # Null /\ n \notin D
  BY DEF HeapOK, Null
<1>3. /\ s \in Seq(D) /\ Len(s) \in Nat /\ DOMAIN s = 1..Len(s) /\ \A i \in 1..Len(s) : s[i] \in D
      /\ last = IF s = <<>> THEN Null ELSE s[Len(s)]
      /\ s # <<>> => Len(s) \in DOMAIN s
      /\ last = Null \/ last \in D
  <2>1. s \in Seq(D) /\ Ends(s, cs[c]) /\ last = cs[c].tail
    BY <1>1
  <2> HIDE DEF s, D, last
  <2>2. Len(s) \in Nat /\ DOMAIN s = 1..Len(s) /\ (s = <<>> <=> Len(s) = 0) /\ \A i \in 1..Len(s) : s[i] \in D
    BY <2>1, ListFacts
  <2>3. last = IF s = <<>> THEN Null ELSE s[Len(s)]
    BY <2>1 DEF Ends
  <2>4. s # <<>> => Len(s) \in DOMAIN s
    BY <2>2
  <2> QED BY <2>1, <2>2, <2>3, <2>4
<1>4. /\ HeapOK(new) /\ DOMAIN new = E
      /\ new[n].value = v /\ new[n].link = Null
      /\ \A m \in D : /\ new[m].value = heap[m].value
                      /\ new[m].link = IF m = last THEN n ELSE heap[m].link
  <2>1. (last = Null \/ last \in DOMAIN heap) /\ new = Linked(Allocated(heap, n, v), last, n)
    BY <1>3
  <2> HIDE DEF last
  <2>2. n \in Nat \ {0} /\ n \notin DOMAIN heap
    OBVIOUS
  <2> QED BY <2>1, <2>2, LinkedHeap
<1>5. /\ after \in Seq(R) /\ DOMAIN after = DOMAIN cs
      /\ after[c].head = (IF last = Null THEN n ELSE cs[c].head) /\ after[c].tail = n
      /\ \A d \in DOMAIN cs : d # c => after[d] = cs[d]
      /\ Len(after) = Len(cs) /\ after[c].closed = cs[c].closed
  <2> DEFINE r == [cs[c] EXCEPT !.head = IF last = Null THEN n ELSE @, !.tail = n]
  <2>1. cs[c] \in R
    <3> HIDE DEF R
    <3> QED BY <1>1
  <2>2. r \in R /\ r.head = (IF last = Null THEN n ELSE cs[c].head) /\ r.tail = n
        /\ r.closed = cs[c].closed
    BY <2>1
  <2>3. after = [cs EXCEPT ![c] = r]
    OBVIOUS
  <2>4. n \in Nat /\ after[c] = r
    BY <2>3
  <2> HIDE DEF r, R, last
  <2>5. after \in Seq(R) /\ DOMAIN after = DOMAIN cs /\ Len(after) = Len(cs)
    <3>1. c \in 1..Len(cs) /\ cs \in Seq(R) /\ r \in R
      BY <1>1, <2>2
    <3>2. [cs EXCEPT ![c] = r] \in Seq(R) /\ Len([cs EXCEPT ![c] = r]) = Len(cs)
      BY ONLY <3>1, ExceptSeq
    <3>3. after \in Seq(R) /\ Len(after) = Len(cs)
      BY <2>3, <3>2
    <3> QED BY <3>1, <3>3
  <2>6. \A d \in DOMAIN cs : d # c => after[d] = cs[d]
    BY <2>3
  <2> QED BY <2>2, <2>4, <2>5, <2>6
<1> HIDE DEF D, E, R, last, s
<1>6. /\ M[c] = Append(s, n) /\ \A d \in DOMAIN cs : d # c => M[d] = L[d]
      /\ M \in [DOMAIN cs -> Seq(E)]
  <2>1. Append(s, n) \in Seq(E)
    BY <1>3 DEF E
  <2>2. \A d \in DOMAIN cs : L[d] \in Seq(E)
    BY <1>1 DEF E
  <2> QED BY <1>1, <2>1, <2>2
<1>7. /\ Len(M[c]) = Len(s) + 1 /\ DOMAIN M[c] = 1..(Len(s) + 1)
      /\ M[c][Len(s) + 1] = n /\ \A i \in 1..Len(s) : M[c][i] = s[i]
  BY <1>3, <1>6 DEF E
<1>8. IsList(new, M[c], after[c].head) /\ Ends(M[c], after[c])
  <2>1. IsList(heap, s, cs[c].head)
    BY <1>1 DEF s
  <2>2. \A i, j \in DOMAIN s : s[i] = s[j] => i = j
    BY <1>1 DEF s
  <2>3. /\ new[n].link = Null /\ \A m \in D : new[m].link = IF m = last THEN n ELSE heap[m].link
        /\ s \in Seq(D) /\ last = IF s = <<>> THEN Null ELSE s[Len(s)]
    BY <1>3, <1>4
  <2>5. IsList(new, Append(s, n), IF last = Null THEN n ELSE cs[c].head)
    BY <1>2, <2>1, <2>2, <2>3, LongerList
  <2>4. Ends(M[c], after[c])
    BY <1>3, <1>5, <1>7 DEF Ends
  <2> QED BY <1>5, <1>6, <2>4, <2>5
<1>9. ASSUME NEW d \in DOMAIN cs, d # c
      PROVE  /\ IsList(new, M[d], after[d].head) /\ Ends(M[d], after[d])
             /\ \A i \in DOMAIN M[d] : M[d][i] \in D
  <2>1. L[d] \in Seq(D) /\ IsList(heap, L[d], cs[d].head) /\ Ends(L[d], cs[d])
    BY <1>1
  <2>2. \A i \in DOMAIN L[d] : L[d][i] \in D
    BY <2>1
  <2>3. ASSUME NEW i \in DOMAIN L[d]
        PROVE  new[L[d][i]].link = heap[L[d][i]].link
    <3>1. CASE s = <<>>
      BY <1>2, <1>3, <1>4, <2>2, <3>1
    <3>2. CASE s # <<>>
      <4>1. L[d][i] # s[Len(s)]
        BY <1>1, <1>3, <1>9, <3>2 DEF s
      <4> QED BY <1>3, <1>4, <2>2, <3>2, <4>1
    <3> QED BY <3>1, <3>2
  <2>4. IsList(new, L[d], cs[d].head)
    BY <2>1, <2>3, SameList
  <2> QED BY <1>5, <1>6, <1>9, <2>1, <2>2, <2>4
<1>10. \A d, e \in DOMAIN cs : \A i \in DOMAIN M[d], j \in DOMAIN M[e] :
           M[d][i] = M[e][j] => d = e /\ i = j
  <2> SUFFICES ASSUME NEW d \in DOMAIN cs, NEW e \in DOMAIN cs,
                      NEW i \in DOMAIN M[d], NEW j \in DOMAIN M[e], M[d][i] = M[e][j]
               PROVE  d = e /\ i = j
    OBVIOUS
  <2>1. \A k \in 1..Len(s) : M[c][k] \in D
    BY <1>3, <1>7
  <2>2. CASE d = c /\ e = c
    <3>1. CASE i = Len(s) + 1 \/ j = Len(s) + 1
      BY <1>2, <1>3, <1>7, <2>1, <2>2, <3>1
    <3>2. CASE i \in 1..Len(s) /\ j \in 1..Len(s)
      <4>1. L[c][i] = L[c][j] /\ i \in DOMAIN L[c] /\ j \in DOMAIN L[c]
        BY <1>3, <1>7, <2>2, <3>2 DEF s
      <4> QED BY <1>1, <2>2, <4>1
    <3> QED BY <1>3, <1>7, <2>2, <3>1, <3>2
  <2>3. CASE d = c /\ e # c
    <3>1. M[e][j] \in D /\ M[e][j] = L[e][j] /\ j \in DOMAIN L[e]
      BY <1>6, <1>9, <2>3
    <3>2. i \in 1..Len(s)
      BY <1>2, <1>3, <1>7, <2>3, <3>1
    <3>3. M[c][i] = L[c][i] /\ i \in DOMAIN L[c]
      BY <1>3, <1>7, <3>2 DEF s
    <3> QED BY <1>1, <2>3, <3>1, <3>3
  <2>4. CASE d # c /\ e = c
    <3>1. M[d][i] \in D /\ M[d][i] = L[d][i] /\ i \in DOMAIN L[d]
      BY <1>6, <1>9, <2>4
    <3>2. j \in 1..Len(s)
      BY <1>2, <1>3, <1>7, <2>4, <3>1
    <3>3. M[c][j] = L[c][j] /\ j \in DOMAIN L[c]
      BY <1>3, <1>7, <3>2 DEF s
    <3> QED BY <1>1, <2>4, <3>1, <3>3
  <2>5. CASE d # c /\ e # c
    BY <1>1, <1>6, <2>5
  <2> QED BY <2>2, <2>3, <2>4, <2>5
<1> HIDE DEF M
<1>11. Chained(new, after, M)
  <2>1. after \in Seq([head : Nat, tail : Nat, closed : BOOLEAN])
    BY <1>5 DEF R
  <2>2. M \in [DOMAIN after -> Seq(DOMAIN new)]
    BY <1>4, <1>5, <1>6
  <2>3. \A d \in DOMAIN after : IsList(new, M[d], after[d].head) /\ Ends(M[d], after[d])
    BY <1>5, <1>8, <1>9
  <2>4. \A d, e \in DOMAIN after : \A i \in DOMAIN M[d], j \in DOMAIN M[e] :
          M[d][i] = M[e][j] => d = e /\ i = j
    BY <1>5, <1>10
  <2> QED BY ONLY <2>1, <2>2, <2>3, <2>4 DEF Chained
<1>12. /\ QueuesIn(heap, cs) = [d \in DOMAIN cs |-> Values(heap, L[d])]
       /\ QueuesIn(new, after) = [d \in DOMAIN cs |-> Values(new, M[d])]
  <2>1. QueuesIn(heap, cs) = [d \in DOMAIN cs |-> Values(heap, L[d])]
    BY QueuesAre
  <2>2. QueuesIn(new, after) = [d \in DOMAIN after |-> Values(new, M[d])]
    <3>1. HeapOK(new) /\ Chained(new, after, M)
      BY <1>4, <1>11
    <3> QED BY ONLY <3>1, QueuesAre
  <2> QED BY <1>5, <2>1, <2>2
<1>13. Values(new, M[c]) = Append(Values(heap, s), v)
  <2> PICK k \in Nat : k = Len(s)
    BY <1>3
  <2>1. Values(new, M[c]) = [i \in 1..(k + 1) |-> new[M[c][i]].value]
    BY <1>7 DEF Values
  <2>2. Values(heap, s) = [i \in 1..k |-> heap[s[i]].value]
    BY <1>3 DEF Values
  <2>3. ASSUME NEW i \in 1..(k + 1)
        PROVE  new[M[c][i]].value = IF i = k + 1 THEN v ELSE heap[s[i]].value
    <3>1. CASE i = k + 1
      BY <1>4, <1>7, <3>1
    <3>2. CASE i # k + 1
      <4>1. i \in 1..k
        BY <3>2
      <4>2. M[c][i] = s[i] /\ s[i] \in D
        BY <1>3, <1>7, <4>1
      <4> QED BY <1>4, <3>2, <4>2
    <3> QED BY <3>1, <3>2
  <2>4. \A i \in 1..k : heap[s[i]].value \in Payloads
    BY <1>3 DEF HeapOK, D
  <2> DEFINE q == Values(heap, s)
  <2>5. q \in Seq(Payloads) /\ Len(q) = k /\ \A i \in 1..k : q[i] = heap[s[i]].value
    BY <2>2, <2>4
  <2> HIDE DEF q
  <2>6. /\ Append(q, v) \in Seq(Payloads) /\ Len(Append(q, v)) = k + 1
        /\ Append(q, v)[k + 1] = v /\ \A i \in 1..k : Append(q, v)[i] = q[i]
    BY <2>5, AppendProperties
  <2>7. Append(q, v) = [i \in 1..(k + 1) |-> Append(q, v)[i]]
    <3> DEFINE a == Append(q, v)
    <3>1. a \in Seq(Payloads) /\ Len(a) = k + 1
      BY <2>6
    <3> HIDE DEF a
    <3>2. a = [i \in 1..(k + 1) |-> a[i]]
      BY <3>1
    <3> QED BY <3>2 DEF a
  <2>8. ASSUME NEW i \in 1..(k + 1)
        PROVE  Append(q, v)[i] = new[M[c][i]].value
    <3>1. CASE i = k + 1
      BY <2>3, <2>6, <3>1
    <3>2. CASE i # k + 1
      <4>1. i \in 1..k
        BY <3>2
      <4> QED BY <2>3, <2>5, <2>6, <3>2, <4>1
    <3> QED BY <3>1, <3>2
  <2> QED BY <2>1, <2>7, <2>8 DEF q
<1>14. ASSUME NEW d \in DOMAIN cs, d # c
       PROVE  Values(new, M[d]) = Values(heap, L[d])
  <2>1. M[d] = L[d] /\ \A i \in DOMAIN L[d] : L[d][i] \in D
    BY <1>6, <1>9, <1>14
  <2>2. \A i \in DOMAIN L[d] : new[L[d][i]].value = heap[L[d][i]].value
    BY <1>4, <2>1
  <2> QED BY <2>1, <2>2 DEF Values
<1>15. QueuesIn(new, after) = [QueuesIn(heap, cs) EXCEPT ![c] = Append(@, v)]
  <2> DEFINE Q == QueuesIn(heap, cs)
  <2>1. Q = [d \in DOMAIN cs |-> Q[d]] /\ Q[c] = Values(heap, s) /\ \A d \in DOMAIN cs : Q[d] = Values(heap, L[d])
    BY <1>12 DEF s
  <2>2. QueuesIn(new, after) = [d \in DOMAIN cs |-> IF d = c THEN Append(Q[c], v) ELSE Q[d]]
    <3>1. ASSUME NEW d \in DOMAIN cs
          PROVE  Values(new, M[d]) = IF d = c THEN Append(Q[c], v) ELSE Q[d]
      BY <1>13, <1>14, <2>1
    <3> HIDE DEF Q
    <3> QED BY <1>12, <3>1
  <2> HIDE DEF Q
  <2>3. [Q EXCEPT ![c] = Append(@, v)] = [d \in DOMAIN cs |-> IF d = c THEN Append(Q[c], v) ELSE Q[d]]
    BY <2>1
  <2> QED BY <2>2, <2>3 DEF Q
<1> QED BY <1>4, <1>5, <1>11, <1>15 DEF Longer

(* The list of a channel after its head was taken off.                     *)
NoRepeats(s) == \A i, j \in DOMAIN s : s[i] = s[j] => i = j

KeepsLinks(new, heap, S) == \A m \in S : new[m].link = heap[m].link

(* The list without its head.                                              *)
LEMMA ShorterList ==
  ASSUME NEW D, NEW s \in Seq(D), NEW heap, NEW head, IsList(heap, s, head), head # Null, Null \notin D,
         NoRepeats(s), NEW new, KeepsLinks(new, heap, D \ {head})
  PROVE  /\ s # <<>>
         /\ Tail(s) \in Seq(D \ {head}) /\ IsList(new, Tail(s), heap[head].link)
         /\ Len(Tail(s)) = Len(s) - 1 /\ \A i \in 1..(Len(s) - 1) : Tail(s)[i] = s[i + 1]
<1>1. PICK k \in Nat : k = Len(s) /\ DOMAIN s = 1..k /\ (s = <<>> <=> k = 0) /\ \A i \in 1..k : s[i] \in D
  BY ListFacts
<1>2. /\ head = IF k = 0 THEN Null ELSE s[1]
      /\ \A i \in 1..k : heap[s[i]].link = IF i = k THEN Null ELSE s[i + 1]
  BY <1>1 DEF IsList
<1>3. s # <<>> /\ k # 0 /\ head = s[1] /\ 1 \in 1..k
  BY <1>1, <1>2
<1> DEFINE a == Tail(s)
<1>4. a \in Seq(D) /\ Len(a) = k - 1 /\ \A i \in 1..(k - 1) : a[i] = s[i + 1]
  BY <1>1, <1>3, HeadTailProperties
<1> HIDE DEF a
<1>5. DOMAIN a = 1..(k - 1) /\ (a = <<>> <=> k = 1) /\ a = [i \in 1..(k - 1) |-> a[i]]
  BY <1>1, <1>3, <1>4
<1>6. \A i \in 1..(k - 1) : i + 1 \in 1..k /\ s[i + 1] # head
  BY <1>1, <1>3 DEF NoRepeats
<1>7. \A i \in 1..(k - 1) : a[i] \in D \ {head}
  BY <1>1, <1>4, <1>6
<1>8. a \in Seq(D \ {head})
  BY <1>1, <1>3, <1>5, <1>7
<1>9. heap[head].link = IF a = <<>> THEN Null ELSE a[1]
  <2>1. CASE k = 1
    BY <1>2, <1>3, <1>5, <2>1
  <2>2. CASE k # 1
    <3>1. 1 \in 1..(k - 1) /\ heap[head].link = s[1 + 1]
      BY <1>2, <1>3, <2>2
    <3> QED BY <1>4, <1>5, <2>2, <3>1
  <2> QED BY <2>1, <2>2
<1>10. ASSUME NEW i \in 1..(k - 1)
       PROVE  new[a[i]].link = IF i = k - 1 THEN Null ELSE a[i + 1]
  <2>1. new[a[i]].link = heap[s[i + 1]].link
    BY <1>4, <1>7 DEF KeepsLinks
  <2>2. heap[s[i + 1]].link = IF i + 1 = k THEN Null ELSE s[i + 1 + 1]
    BY <1>2, <1>6
  <2>3. CASE i = k - 1
    BY <2>1, <2>2, <2>3, <1>1
  <2>4. CASE i # k - 1
    <3>1. i + 1 \in 1..(k - 1) /\ i + 1 # k
      BY <2>4, <1>1
    <3> QED BY <2>1, <2>2, <2>4, <3>1, <1>4
  <2> QED BY <2>3, <2>4
<1>11. IsList(new, a, heap[head].link)
  BY <1>4, <1>5, <1>9, <1>10 DEF IsList
<1> QED BY <1>1, <1>3, <1>4, <1>8, <1>11 DEF a

(* The channels, and the heap, without the head of channel c.              *)
WithoutHead(heap, cs, c)    == [cs EXCEPT ![c] = Unlinked(heap, @)]
HeapWithout(heap, cs, c) == Restrict(heap, DOMAIN heap \ {cs[c].head})

(* What a receive does to the lists.                                       *)
LEMMA ReceiveTakesHead ==
  ASSUME NEW heap, HeapOK(heap), NEW cs, NEW L, Chained(heap, cs, L), NEW c \in DOMAIN cs,
         cs[c].head # Null,
         NEW new, new = HeapWithout(heap, cs, c),
         NEW after, after = WithoutHead(heap, cs, c)
  PROVE  /\ HeapOK(new) /\ \E M : Chained(new, after, M)
         /\ Len(after) = Len(cs) /\ \A d \in DOMAIN cs : after[d].closed = cs[d].closed
         /\ QueuesIn(heap, cs)[c] \in Seq(Payloads) /\ QueuesIn(heap, cs)[c] # <<>>
         /\ heap[cs[c].head].value = Head(QueuesIn(heap, cs)[c])
         /\ QueuesIn(new, after) = Shorter(QueuesIn(heap, cs), c)
<1> USE DEF WithoutHead, HeapWithout
<1> DEFINE D == DOMAIN heap
           head == cs[c].head
           E == D \ {head}
           R == [head : Nat, tail : Nat, closed : BOOLEAN]
           s == L[c]
           M == [L EXCEPT ![c] = Tail(s)]
           r == Unlinked(heap, cs[c])
<1>1. /\ cs \in Seq(R) /\ L \in [DOMAIN cs -> Seq(D)]
      /\ \A d \in DOMAIN cs : L[d] \in Seq(D) /\ IsList(heap, L[d], cs[d].head) /\ Ends(L[d], cs[d])
      /\ \A d, e \in DOMAIN cs : \A i \in DOMAIN L[d], j \in DOMAIN L[e] :
           L[d][i] = L[e][j] => d = e /\ i = j
  BY DEF Chained
<1>2. Null \notin D /\ head # Null
  BY DEF HeapOK, Null
<1>3. PICK k \in Nat : /\ k = Len(s) /\ DOMAIN s = 1..k /\ \A i \in 1..k : s[i] \in D
                       /\ s \in Seq(D)
  <2>1. s \in Seq(D)
    BY <1>1
  <2> HIDE DEF s, D
  <2> QED BY <2>1, ListFacts
<1>4. /\ new = [m \in E |-> heap[m]] /\ DOMAIN new = E
      /\ \A m \in E : new[m] = heap[m]
  BY DEF Restrict
<1>5. /\ s # <<>> /\ k # 0 /\ head = s[1]
      /\ Tail(s) \in Seq(E) /\ IsList(new, Tail(s), heap[head].link)
      /\ Len(Tail(s)) = k - 1 /\ \A i \in 1..(k - 1) : Tail(s)[i] = s[i + 1]
      /\ (IF heap[head].link = Null THEN Null ELSE s[k])
           = IF Tail(s) = <<>> THEN Null ELSE Tail(s)[k - 1]
  <2>1. s \in Seq(D) /\ IsList(heap, s, head) /\ NoRepeats(s)
    BY <1>1 DEF NoRepeats
  <2>2. KeepsLinks(new, heap, D \ {head})
    BY <1>4 DEF KeepsLinks
  <2> HIDE DEF s, D, head
  <2>3. s # <<>> /\ Tail(s) \in Seq(D \ {head}) /\ IsList(new, Tail(s), heap[head].link)
    BY <1>2, <2>1, <2>2, ShorterList
  <2>4. Len(Tail(s)) = k - 1 /\ \A i \in 1..(k - 1) : Tail(s)[i] = s[i + 1]
    BY <1>2, <1>3, <2>1, <2>2, ShorterList
  <2>5. k # 0 /\ head = s[1]
    BY <1>3, <2>1, <2>3 DEF IsList
  <2>6. (IF heap[head].link = Null THEN Null ELSE s[k])
          = IF Tail(s) = <<>> THEN Null ELSE Tail(s)[k - 1]
    <3> DEFINE a == Tail(s)
               link == heap[head].link
    <3>1. a \in Seq(D \ {head}) /\ Len(a) = k - 1 /\ IsList(new, a, link)
      BY <2>3, <2>4
    <3> HIDE DEF a, link
    <3>2. CASE k = 1
      <4>1. a = <<>>
        BY <3>1, <3>2
      <4> QED BY <3>1, <4>1 DEF IsList, a, link
    <3>3. CASE k # 1
      <4>1. a # <<>> /\ 1 \in 1..Len(a) /\ k - 1 \in 1..(k - 1) /\ k - 1 + 1 = k
        BY <1>3, <2>5, <3>1, <3>3
      <4>2. link = a[1] /\ a[1] \in D
        BY <3>1, <4>1 DEF IsList
      <4>3. a[k - 1] = s[k]
        BY <2>4, <4>1 DEF a
      <4> QED BY <1>2, <4>1, <4>2, <4>3 DEF a, link
    <3> QED BY <3>2, <3>3
  <2> QED BY <2>3, <2>4, <2>5, <2>6 DEF D
<1>6. cs[c].tail = s[k] /\ head \in D
  <2>1. Ends(s, cs[c]) /\ 1 \in 1..k
    BY <1>1, <1>5, <1>3
  <2> QED BY <2>1, <1>3, <1>5 DEF Ends
<1>7. /\ r.head = heap[head].link /\ r.closed = cs[c].closed
      /\ r.tail = IF Tail(s) = <<>> THEN Null ELSE Tail(s)[k - 1]
      /\ r \in R
  <2>1. cs[c] \in R
    <3> HIDE DEF R
    <3> QED BY <1>1
  <2>2. heap[head].link \in Nat
    BY <1>6 DEF HeapOK
  <2>3. r = [cs[c] EXCEPT !.head = heap[head].link, !.tail = IF heap[head].link = Null THEN Null ELSE @]
    BY DEF Unlinked
  <2>4. /\ r.head = heap[head].link /\ r.closed = cs[c].closed
        /\ r.tail = IF heap[head].link = Null THEN Null ELSE cs[c].tail
        /\ r \in R
    <3> HIDE DEF r, head
    <3> QED BY <2>1, <2>2, <2>3 DEF Null
  <2> QED BY <1>5, <1>6, <2>4
<1>8. /\ after \in Seq(R) /\ Len(after) = Len(cs) /\ DOMAIN after = DOMAIN cs
      /\ after[c] = r /\ \A d \in DOMAIN cs : d # c => after[d] = cs[d]
  <2>1. after = [cs EXCEPT ![c] = r]
    OBVIOUS
  <2> HIDE DEF R, r
  <2>2. c \in 1..Len(cs) /\ cs \in Seq(R) /\ r \in R
    BY <1>1, <1>7
  <2>3. [cs EXCEPT ![c] = r] \in Seq(R) /\ Len([cs EXCEPT ![c] = r]) = Len(cs)
    BY ONLY <2>2, ExceptSeq
  <2>4. after \in Seq(R) /\ Len(after) = Len(cs)
    BY <2>1, <2>3
  <2>5. after[c] = r /\ \A d \in DOMAIN cs : d # c => after[d] = cs[d]
    BY <2>1
  <2> QED BY <2>2, <2>4, <2>5
<1>9. HeapOK(new)
  <2>1. IsFiniteSet(E)
    BY FS_RemoveElement DEF HeapOK
  <2>2. E \subseteq Nat \ {0}
    BY DEF HeapOK
  <2>3. new \in [E -> [value : Payloads, link : Nat]]
    BY <1>4 DEF HeapOK
  <2> QED BY <1>4, <2>1, <2>2, <2>3 DEF HeapOK
<1> HIDE DEF D, E, R, r, s, head
<1>10. ASSUME NEW d \in DOMAIN cs, d # c
       PROVE  /\ L[d] \in Seq(E) /\ IsList(new, L[d], cs[d].head)
              /\ \A i \in DOMAIN L[d] : L[d][i] \in E
  <2>1. L[d] \in Seq(D) /\ IsList(heap, L[d], cs[d].head)
    BY <1>1
  <2>2. ASSUME NEW i \in DOMAIN L[d]
        PROVE  L[d][i] \in E
    <3>1. L[d][i] \in D
      BY <2>1
    <3>2. 1 \in DOMAIN s
      BY <1>3, <1>5
    <3>3. L[d][i] # s[1]
      BY <1>1, <1>10, <3>2 DEF s
    <3> QED BY <1>5, <3>1, <3>3 DEF E
  <2>3. \A i \in DOMAIN L[d] : new[L[d][i]].link = heap[L[d][i]].link
    BY <1>4, <2>2
  <2>4. IsList(new, L[d], cs[d].head)
    BY <2>1, <2>3, SameList
  <2>5. L[d] \in Seq(E)
    <3>1. Len(L[d]) \in Nat /\ DOMAIN L[d] = 1..Len(L[d]) /\ L[d] = [i \in 1..Len(L[d]) |-> L[d][i]]
      BY <2>1
    <3> QED BY <2>2, <3>1
  <2> QED BY <2>2, <2>4, <2>5
<1>11. /\ M[c] = Tail(s) /\ \A d \in DOMAIN cs : d # c => M[d] = L[d]
       /\ M \in [DOMAIN cs -> Seq(E)]
  BY <1>1, <1>5, <1>10
<1>12. /\ DOMAIN M[c] = 1..(k - 1) /\ Len(M[c]) = k - 1 /\ \A i \in 1..(k - 1) : M[c][i] = s[i + 1] /\ i + 1 \in 1..k
  <2>1. M[c] \in Seq(E)
    BY <1>11
  <2> QED BY <1>3, <1>5, <1>11, <2>1
<1>13. ASSUME NEW d \in DOMAIN cs
       PROVE  IsList(new, M[d], after[d].head) /\ Ends(M[d], after[d])
  <2>1. CASE d = c
    BY <1>5, <1>7, <1>8, <1>11, <1>12, <2>1 DEF Ends
  <2>2. CASE d # c
    BY <1>1, <1>8, <1>10, <1>11, <2>2
  <2> QED BY <2>1, <2>2
<1>14. \A d, e \in DOMAIN cs : \A i \in DOMAIN M[d], j \in DOMAIN M[e] :
           M[d][i] = M[e][j] => d = e /\ i = j
  <2> SUFFICES ASSUME NEW d \in DOMAIN cs, NEW e \in DOMAIN cs,
                      NEW i \in DOMAIN M[d], NEW j \in DOMAIN M[e], M[d][i] = M[e][j]
               PROVE  d = e /\ i = j
    OBVIOUS
  <2>1. \A x \in 1..(k - 1) : M[c][x] = L[c][x + 1] /\ x + 1 \in DOMAIN L[c]
    BY <1>3, <1>12 DEF s
  <2>2. CASE d = c /\ e = c
    <3>1. i \in 1..(k - 1) /\ j \in 1..(k - 1)
      BY <1>12, <2>2
    <3>2. i + 1 = j + 1
      BY <1>1, <2>1, <2>2, <3>1
    <3> QED BY <2>2, <3>1, <3>2
  <2>3. CASE d = c /\ e # c
    BY <1>1, <1>11, <1>12, <2>1, <2>3
  <2>4. CASE d # c /\ e = c
    BY <1>1, <1>11, <1>12, <2>1, <2>4
  <2>5. CASE d # c /\ e # c
    BY <1>1, <1>11, <2>5
  <2> QED BY <2>2, <2>3, <2>4, <2>5
<1> HIDE DEF M
<1>15. Chained(new, after, M)
  BY <1>4, <1>8, <1>11, <1>13, <1>14 DEF Chained, R
<1>16. /\ QueuesIn(heap, cs) = [d \in DOMAIN cs |-> Values(heap, L[d])]
       /\ QueuesIn(new, after) = [d \in DOMAIN cs |-> Values(new, M[d])]
  <2>1. QueuesIn(heap, cs) = [d \in DOMAIN cs |-> Values(heap, L[d])]
    BY QueuesAre
  <2>2. QueuesIn(new, after) = [d \in DOMAIN after |-> Values(new, M[d])]
    <3>1. HeapOK(new) /\ Chained(new, after, M)
      BY <1>9, <1>15
    <3> QED BY ONLY <3>1, QueuesAre
  <2> QED BY <1>8, <2>1, <2>2
<1> DEFINE q == Values(heap, s)
<1>17. q \in Seq(Payloads) /\ Len(q) = k /\ \A i \in 1..k : q[i] = heap[s[i]].value
  <2>1. q = [i \in 1..k |-> heap[s[i]].value]
    BY <1>3 DEF Values
  <2>2. \A i \in 1..k : heap[s[i]].value \in Payloads
    BY <1>3 DEF HeapOK, D
  <2> QED BY <2>1, <2>2
<1>18. q # <<>> /\ Head(q) = heap[head].value
  <2> HIDE DEF q
  <2>1. 1 \in 1..k /\ q[1] = heap[head].value
    BY <1>3, <1>5, <1>17
  <2> QED BY <1>17, <2>1
<1>19. Values(new, M[c]) = Tail(q)
  <2>1. Values(new, M[c]) = [i \in 1..(k - 1) |-> new[M[c][i]].value]
    BY <1>12 DEF Values
  <2> DEFINE a == Tail(q)
  <2>2. a \in Seq(Payloads) /\ Len(a) = k - 1 /\ \A i \in 1..(k - 1) : a[i] = q[i + 1]
    <3> HIDE DEF q
    <3> QED BY <1>17, <1>18, HeadTailProperties
  <2> HIDE DEF a, q
  <2>3. a = [i \in 1..(k - 1) |-> a[i]]
    BY <2>2
  <2>4. ASSUME NEW i \in 1..(k - 1)
        PROVE  a[i] = new[M[c][i]].value
    <3>1. M[c][i] = s[i + 1] /\ i + 1 \in 1..k /\ M[c][i] \in E
      BY <1>11, <1>12
    <3>2. a[i] = heap[s[i + 1]].value
      BY <1>17, <2>2, <3>1
    <3>3. new[M[c][i]] = heap[s[i + 1]]
      BY <1>4, <3>1
    <3> QED BY <3>2, <3>3
  <2> QED BY <2>1, <2>3, <2>4 DEF a
<1>20. ASSUME NEW d \in DOMAIN cs, d # c
       PROVE  Values(new, M[d]) = Values(heap, L[d])
  <2>1. M[d] = L[d] /\ \A i \in DOMAIN L[d] : L[d][i] \in E
    BY <1>10, <1>11, <1>20
  <2>2. \A i \in DOMAIN L[d] : new[L[d][i]].value = heap[L[d][i]].value
    BY <1>4, <2>1
  <2> QED BY <2>1, <2>2 DEF Values
<1>21. /\ QueuesIn(new, after) = [QueuesIn(heap, cs) EXCEPT ![c] = Tail(@)]
       /\ QueuesIn(heap, cs)[c] = q
  <2> DEFINE Q == QueuesIn(heap, cs)
  <2>1. Q = [d \in DOMAIN cs |-> Q[d]] /\ Q[c] = q /\ \A d \in DOMAIN cs : Q[d] = Values(heap, L[d])
    BY <1>16 DEF s
  <2>2. QueuesIn(new, after) = [d \in DOMAIN cs |-> IF d = c THEN Tail(Q[c]) ELSE Q[d]]
    <3>1. ASSUME NEW d \in DOMAIN cs
          PROVE  Values(new, M[d]) = IF d = c THEN Tail(Q[c]) ELSE Q[d]
      BY <1>19, <1>20, <2>1
    <3> HIDE DEF Q
    <3> QED BY <1>16, <3>1
  <2> HIDE DEF Q, q
  <2>3. [Q EXCEPT ![c] = Tail(@)] = [d \in DOMAIN cs |-> IF d = c THEN Tail(Q[c]) ELSE Q[d]]
    BY <2>1
  <2> QED BY <2>1, <2>2, <2>3 DEF Q
<1> HIDE DEF q
<1>22. \A d \in DOMAIN cs : after[d].closed = cs[d].closed
  BY <1>7, <1>8
<1> QED BY <1>8, <1>9, <1>15, <1>17, <1>18, <1>21, <1>22 DEF head, Shorter

(* The queues are a sequence of sequences of what is sent.                 *)
LEMMA QueuesType ==
  ASSUME NEW heap, HeapOK(heap), NEW cs, NEW L, Chained(heap, cs, L)
  PROVE  /\ QueuesIn(heap, cs) \in Seq(Seq(Payloads)) /\ Len(QueuesIn(heap, cs)) = Len(cs)
         /\ Len(cs) \in Nat /\ DOMAIN cs = 1..Len(cs)
         /\ \A c \in DOMAIN cs : cs[c].head = Null <=> QueuesIn(heap, cs)[c] = <<>>
<1>1. QueuesIn(heap, cs) = [c \in DOMAIN cs |-> Values(heap, L[c])]
  BY QueuesAre
<1>2. Len(cs) \in Nat /\ DOMAIN cs = 1..Len(cs)
  BY DEF Chained
<1>3. ASSUME NEW c \in DOMAIN cs
      PROVE  Values(heap, L[c]) \in Seq(Payloads) /\ (cs[c].head = Null <=> Values(heap, L[c]) = <<>>)
  <2> DEFINE D == DOMAIN heap
             s == L[c]
             head == cs[c].head
  <2>1. s \in Seq(D) /\ IsList(heap, s, head) /\ heap \in [D -> [value : Payloads, link : Nat]] /\ Null \notin D
    BY DEF Chained, HeapOK, Null
  <2> HIDE DEF D, s, head
  <2> PICK k \in Nat : k = Len(s) /\ DOMAIN s = 1..k /\ (s = <<>> <=> k = 0) /\ \A i \in 1..k : s[i] \in D
    BY <2>1, ListFacts
  <2>2. Values(heap, s) = [i \in 1..k |-> heap[s[i]].value]
    BY DEF Values
  <2>3. \A i \in 1..k : heap[s[i]].value \in Payloads
    BY <2>1
  <2>4. Values(heap, s) \in Seq(Payloads) /\ Len(Values(heap, s)) = k
    BY <2>2, <2>3
  <2>5. Values(heap, s) = <<>> <=> k = 0
    <3> DEFINE q == Values(heap, s)
    <3>1. q \in Seq(Payloads) /\ Len(q) = k
      BY <2>4
    <3> HIDE DEF q
    <3> QED BY <3>1, ListFacts DEF q
  <2>6. head = Null <=> k = 0
    <3>1. CASE k = 0
      BY <2>1, <3>1 DEF IsList
    <3>2. CASE k # 0
      <4>1. 1 \in 1..k /\ s # <<>>
        BY <3>2
      <4> QED BY <2>1, <3>2, <4>1 DEF IsList
    <3> QED BY <3>1, <3>2
  <2> QED BY <2>4, <2>5, <2>6 DEF s, head
<1>4. QueuesIn(heap, cs) \in Seq(Seq(Payloads)) /\ Len(QueuesIn(heap, cs)) = Len(cs)
  BY <1>1, <1>2, <1>3
<1> QED BY <1>1, <1>2, <1>3, <1>4

(* The channels with a new one.                                            *)
WithNew(cs) == Append(cs, [head |-> Null, tail |-> Null, closed |-> FALSE])

Keeps(cs, after) == \A d \in DOMAIN cs : after[d] = cs[d]

(* A new channel is empty.                                                 *)
LEMMA NewIsEmpty ==
  ASSUME NEW heap, HeapOK(heap), NEW cs, NEW L, Chained(heap, cs, L),
         NEW after, after = WithNew(cs)
  PROVE  /\ \E M : Chained(heap, after, M)
         /\ Len(after) = Len(cs) + 1 /\ after[Len(cs) + 1].closed = FALSE
         /\ Keeps(cs, after)
         /\ QueuesIn(heap, after) = Append(QueuesIn(heap, cs), <<>>)
<1> DEFINE R == [head : Nat, tail : Nat, closed : BOOLEAN]
           r == [head |-> Null, tail |-> Null, closed |-> FALSE]
<1>1. /\ cs \in Seq(R) /\ L \in [DOMAIN cs -> Seq(DOMAIN heap)]
      /\ \A d \in DOMAIN cs : IsList(heap, L[d], cs[d].head) /\ Ends(L[d], cs[d])
      /\ \A d, e \in DOMAIN cs : \A i \in DOMAIN L[d], j \in DOMAIN L[e] :
           L[d][i] = L[e][j] => d = e /\ i = j
  BY DEF Chained
<1>2. r \in R /\ r.head = Null /\ r.tail = Null /\ r.closed = FALSE
  BY DEF Null
<1>3. after = Append(cs, r)
  BY DEF WithNew
<1> HIDE DEF R, r
<1>4. PICK k \in Nat : k = Len(cs) /\ DOMAIN cs = 1..k
  BY <1>1
<1>5. /\ after \in Seq(R) /\ Len(after) = k + 1 /\ DOMAIN after = 1..(k + 1)
      /\ after[k + 1] = r /\ \A d \in 1..k : after[d] = cs[d]
  BY <1>1, <1>2, <1>3, <1>4, AppendProperties
<1> DEFINE M == [d \in 1..(k + 1) |-> IF d = k + 1 THEN <<>> ELSE L[d]]
<1>6. M[k + 1] = <<>> /\ \A d \in 1..k : M[d] = L[d]
  OBVIOUS
<1>7. M \in [DOMAIN after -> Seq(DOMAIN heap)]
  <2> DEFINE S == Seq(DOMAIN heap)
  <2>1. <<>> \in S /\ \A d \in 1..k : L[d] \in S
    BY <1>1, <1>4
  <2> HIDE DEF S
  <2>2. \A d \in 1..(k + 1) : (IF d = k + 1 THEN <<>> ELSE L[d]) \in S
    BY <2>1
  <2> QED BY <1>5, <2>2 DEF S
<1> HIDE DEF M
<1>8. ASSUME NEW d \in DOMAIN after
      PROVE  IsList(heap, M[d], after[d].head) /\ Ends(M[d], after[d])
  <2>1. CASE d = k + 1
    <3>1. M[d] = <<>> /\ after[d] = r
      BY <1>5, <1>6, <2>1
    <3> QED BY <1>2, <3>1 DEF IsList, Ends
  <2>2. CASE d \in 1..k
    <3>1. M[d] = L[d] /\ after[d] = cs[d]
      BY <1>5, <1>6, <2>2
    <3> QED BY <1>1, <1>4, <2>2, <3>1
  <2> QED BY <1>5, <2>1, <2>2
<1>9. \A d, e \in DOMAIN after : \A i \in DOMAIN M[d], j \in DOMAIN M[e] :
        M[d][i] = M[e][j] => d = e /\ i = j
  <2>1. \A d \in DOMAIN after : \A i \in DOMAIN M[d] : d \in DOMAIN cs /\ M[d] = L[d]
    BY <1>4, <1>5, <1>6
  <2> QED BY <1>1, <2>1
<1>10. Chained(heap, after, M)
  BY <1>5, <1>7, <1>8, <1>9 DEF Chained, R
<1> DEFINE Q == QueuesIn(heap, cs)
<1>11. /\ Q \in Seq(Seq(Payloads)) /\ Len(Q) = k
       /\ \A d \in 1..k : Q[d] = Values(heap, L[d])
       /\ QueuesIn(heap, after) = [d \in 1..(k + 1) |-> Values(heap, M[d])]
  <2>1. QueuesIn(heap, after) = [d \in DOMAIN after |-> Values(heap, M[d])]
    BY ONLY <1>10, HeapOK(heap), QueuesAre
  <2>2. Q = [d \in DOMAIN cs |-> Values(heap, L[d])] /\ Q \in Seq(Seq(Payloads)) /\ Len(Q) = Len(cs)
    BY QueuesAre, QueuesType
  <2> QED BY <1>4, <1>5, <2>1, <2>2
<1>12. QueuesIn(heap, after) = Append(Q, <<>>)
  <2> DEFINE a == Append(Q, <<>>)
  <2> HIDE DEF Q
  <2>1. a \in Seq(Seq(Payloads)) /\ Len(a) = k + 1 /\ a[k + 1] = <<>> /\ \A d \in 1..k : a[d] = Q[d]
    BY <1>11, AppendProperties
  <2> HIDE DEF a
  <2>2. a = [d \in 1..(k + 1) |-> a[d]]
    BY <2>1
  <2>3. ASSUME NEW d \in 1..(k + 1)
        PROVE  a[d] = Values(heap, M[d])
    <3>1. CASE d = k + 1
      BY <1>6, <2>1, <3>1 DEF Values
    <3>2. CASE d \in 1..k
      BY <1>6, <1>11, <2>1, <3>2
    <3> QED BY <3>1, <3>2
  <2> QED BY <1>11, <2>2, <2>3 DEF a
<1> QED BY <1>2, <1>4, <1>5, <1>10, <1>12 DEF Keeps

(* The channels with c closed.                                             *)
WithClosed(cs, c) == [cs EXCEPT ![c].closed = TRUE]

(* Closing a channel leaves its values.                                    *)
LEMMA CloseKeepsValues ==
  ASSUME NEW heap, HeapOK(heap), NEW cs, NEW L, Chained(heap, cs, L), NEW c \in DOMAIN cs,
         NEW after, after = WithClosed(cs, c)
  PROVE  /\ Chained(heap, after, L)
         /\ Len(after) = Len(cs)
         /\ after[c].closed = TRUE /\ \A d \in DOMAIN cs : d # c => after[d] = cs[d]
         /\ QueuesIn(heap, after) = QueuesIn(heap, cs)
<1> USE DEF WithClosed
<1> DEFINE R == [head : Nat, tail : Nat, closed : BOOLEAN]
           r == [cs[c] EXCEPT !.closed = TRUE]
<1>1. cs \in Seq(R)
  BY DEF Chained
<1>2. r \in R /\ r.head = cs[c].head /\ r.tail = cs[c].tail /\ r.closed = TRUE
  <2>1. cs[c] \in R
    <3> HIDE DEF R
    <3> QED BY <1>1
  <2> QED BY <2>1
<1>3. after = [cs EXCEPT ![c] = r]
  OBVIOUS
<1> HIDE DEF R, r
<1>4. /\ after \in Seq(R) /\ Len(after) = Len(cs) /\ DOMAIN after = DOMAIN cs
      /\ after[c] = r /\ \A d \in DOMAIN cs : d # c => after[d] = cs[d]
  <2>1. c \in 1..Len(cs) /\ cs \in Seq(R) /\ r \in R
    BY <1>1, <1>2
  <2>2. [cs EXCEPT ![c] = r] \in Seq(R) /\ Len([cs EXCEPT ![c] = r]) = Len(cs)
    BY ONLY <2>1, ExceptSeq
  <2>3. after[c] = r /\ \A d \in DOMAIN cs : d # c => after[d] = cs[d]
    BY <1>3
  <2> QED BY <1>3, <2>1, <2>2, <2>3
<1>5. \A d \in DOMAIN cs : after[d].head = cs[d].head /\ after[d].tail = cs[d].tail
  BY <1>2, <1>4
<1>6. Chained(heap, after, L)
  BY <1>4, <1>5 DEF Chained, Ends, R
<1>7. QueuesIn(heap, after) = QueuesIn(heap, cs)
  BY <1>4, <1>5 DEF QueuesIn
<1> QED BY <1>2, <1>4, <1>6, <1>7

-----------------------------------------------------------------------------
(* What the channels' calls do and return.                                 *)

(* The allocator's node is a new one: not every number up to one more than *)
(* the size of the heap is in use.                                         *)
LEMMA FreshNode ==
  ASSUME HeapOK(nodes)
  PROVE  FreeNode \in Nat \ {0} /\ FreeNode \notin DOMAIN nodes
<1> DEFINE D == DOMAIN nodes
           k == Cardinality(D)
<1>1. IsFiniteSet(D) /\ k \in Nat
  BY FS_CardinalityType DEF HeapOK
<1>2. \E n \in 1..(k + 1) : n \notin D
  <2> SUFFICES ASSUME 1..(k + 1) \subseteq D PROVE FALSE
    OBVIOUS
  <2>1. Cardinality(1..(k + 1)) <= k
    BY <1>1, FS_Subset
  <2>2. Cardinality(1..(k + 1)) = k + 1
    <3> HIDE DEF k
    <3>1. 1 \in Int /\ k + 1 \in Int /\ ~(1 > k + 1) /\ k + 1 - 1 + 1 = k + 1
      BY <1>1
    <3> QED BY <3>1, FS_Interval
  <2> HIDE DEF k
  <2> QED BY <1>1, <2>1, <2>2
<1> HIDE DEF k
<1>3. FreeNode \in 1..(k + 1) /\ FreeNode \notin D
  BY <1>2 DEF FreeNode, k
<1> QED BY <1>1, <1>3

-----------------------------------------------------------------------------
(* What the calls of each task returned, as one value.                     *)
LogOf(a, r, task) ==
  LET running == {t \in Threads : a[t].mode # "off" /\ a[t].task = task}
  IN IF running # {} THEN a[CHOOSE t \in running : TRUE].log
     ELSE IF task \in DOMAIN r THEN r[task] ELSE <<>>

Logs == [task \in 0..N |-> Log(task)]

CallsIn(G) == UNION {{<<task, i>> : i \in DOMAIN G[task]} : task \in 0..N}

SentIn(G, c, v)     == {call \in CallsIn(G) : Accepts(G[call[1]][call[2]], c, v)}
ReceivedIn(G, c, v) == {call \in CallsIn(G) : Obtains(G[call[1]][call[2]], c, v)}

(* A call that changed a channel.                                          *)
Counts(e) ==
  \/ e.call.op = "send" /\ e.ret = 0
  \/ e.call.op \in {"recv", "drain"} /\ e.ret # SyncError

(* Logs are sequences, of finitely many calls, and those that changed a    *)
(* channel are about one of the n there are.                               *)
LogsOK(G, n) ==
  /\ G = [task \in 0..N |-> G[task]]
  /\ \A task \in 0..N : G[task] \in Seq(Range(G[task]))
  /\ IsFiniteSet(CallsIn(G))
  /\ \A call \in CallsIn(G) :
       Counts(G[call[1]][call[2]]) => G[call[1]][call[2]].call.chan \in 0..(n - 1)

(* The counts of the model are those over the logs.                        *)
LEMMA LogsAre ==
  /\ Logs = [task \in 0..N |-> LogOf(at, results, task)]
  /\ \A c, v : /\ Sent(c, v) = Cardinality(SentIn(Logs, c, v))
               /\ Received(c, v) = Cardinality(ReceivedIn(Logs, c, v))
<1>1. \A task : Log(task) = LogOf(at, results, task)
  BY DEF Log, LogOf, Active
<1>2. ReturnedCalls = CallsIn(Logs)
  BY DEF ReturnedCalls, CallsIn, Logs
<1>3. \A call \in CallsIn(Logs) : Entry(call) = Logs[call[1]][call[2]]
  <2> SUFFICES ASSUME NEW task \in 0..N, NEW i \in DOMAIN Logs[task]
               PROVE  Entry(<<task, i>>) = Logs[<<task, i>>[1]][<<task, i>>[2]]
    BY DEF CallsIn
  <2> QED BY DEF Entry, Logs
<1>4. ASSUME NEW c, NEW v
      PROVE  Sent(c, v) = Cardinality(SentIn(Logs, c, v)) /\ Received(c, v) = Cardinality(ReceivedIn(Logs, c, v))
  <2>1. {call \in ReturnedCalls : Accepts(Entry(call), c, v)} = SentIn(Logs, c, v)
    BY <1>2, <1>3 DEF SentIn
  <2>2. {call \in ReturnedCalls : Obtains(Entry(call), c, v)} = ReceivedIn(Logs, c, v)
    BY <1>2, <1>3 DEF ReceivedIn
  <2> QED BY <2>1, <2>2 DEF Sent, Received
<1> QED BY <1>1, <1>4 DEF Logs

(* One thread at most runs a task, and none runs a task with a result.     *)
Alone(a, r) ==
  \A t \in Threads : a[t].mode # "off" =>
    /\ a[t].task \notin DOMAIN r
    /\ \A u \in Threads \ {t} : a[u].mode # "off" => a[u].task # a[t].task

(* The log of a task that runs is its thread's.                            *)
LEMMA LogOfRunning ==
  ASSUME NEW a, NEW r, Alone(a, r), NEW t \in Threads, a[t].mode # "off"
  PROVE  LogOf(a, r, a[t].task) = a[t].log
<1> DEFINE running == {u \in Threads : a[u].mode # "off" /\ a[u].task = a[t].task}
<1>1. running = {t}
  BY DEF Alone
<1>2. (CHOOSE u \in running : TRUE) = t
  BY <1>1
<1> QED BY <1>1, <1>2 DEF LogOf

(* The log of a task that does not run is its result, or nothing.          *)
LEMMA LogOfOther ==
  ASSUME NEW a, NEW r, NEW task, \A u \in Threads : a[u].mode # "off" => a[u].task # task
  PROVE  LogOf(a, r, task) = IF task \in DOMAIN r THEN r[task] ELSE <<>>
<1>1. {u \in Threads : a[u].mode # "off" /\ a[u].task = task} = {}
  OBVIOUS
<1> QED BY <1>1 DEF LogOf

(* The threads a after the call e of t: no other changed its task or log.  *)
Called(a, b, t, e) ==
  /\ \A u \in Threads : /\ a[u].mode # "off" <=> b[u].mode # "off"
                        /\ a[u].mode # "off" => b[u].task = a[u].task
  /\ \A u \in Threads \ {t} : a[u].mode # "off" => b[u].log = a[u].log
  /\ b[t].log = Append(a[t].log, e)

(* A call that returned is added to the log of its task.                   *)
LEMMA LogGrows ==
  ASSUME NEW a, NEW r, Alone(a, r), NEW b, NEW t \in Threads, a[t].mode # "off", NEW e,
         Called(a, b, t, e), NEW task
  PROVE  LogOf(b, r, task) = IF task = a[t].task THEN Append(LogOf(a, r, task), e) ELSE LogOf(a, r, task)
<1> USE DEF Called
<1>1. Alone(b, r)
  BY DEF Alone
<1>2. CASE \E u \in Threads : a[u].mode # "off" /\ a[u].task = task
  <2> PICK u \in Threads : a[u].mode # "off" /\ a[u].task = task
    BY <1>2
  <2>1. b[u].mode # "off" /\ b[u].task = task
    OBVIOUS
  <2>2. LogOf(b, r, task) = b[u].log
    BY <1>1, <2>1, LogOfRunning
  <2>3. LogOf(a, r, task) = a[u].log
    BY LogOfRunning
  <2>4. CASE u = t
    BY <2>2, <2>3, <2>4
  <2>5. CASE u # t
    BY <2>2, <2>3, <2>5 DEF Alone
  <2> QED BY <2>4, <2>5
<1>3. CASE \A u \in Threads : a[u].mode # "off" => a[u].task # task
  <2>1. \A u \in Threads : b[u].mode # "off" => b[u].task # task
    BY <1>3
  <2>2. LogOf(b, r, task) = IF task \in DOMAIN r THEN r[task] ELSE <<>>
    BY <2>1, LogOfOther
  <2>3. LogOf(a, r, task) = IF task \in DOMAIN r THEN r[task] ELSE <<>>
    BY <1>3, LogOfOther
  <2> QED BY <1>3, <2>2, <2>3
<1> QED BY <1>2, <1>3

(* A step in which no call returns leaves every log.                       *)
LEMMA LogStays ==
  ASSUME NEW a, NEW r, Alone(a, r), NEW b,
         \A u \in Threads : /\ a[u].mode # "off" <=> b[u].mode # "off"
                            /\ a[u].mode # "off" => b[u].task = a[u].task /\ b[u].log = a[u].log,
         NEW task
  PROVE  LogOf(b, r, task) = LogOf(a, r, task)
<1>1. Alone(b, r)
  BY DEF Alone
<1>2. CASE \E u \in Threads : a[u].mode # "off" /\ a[u].task = task
  <2> PICK u \in Threads : a[u].mode # "off" /\ a[u].task = task
    BY <1>2
  <2>1. b[u].mode # "off" /\ b[u].task = task /\ b[u].log = a[u].log
    OBVIOUS
  <2>2. LogOf(b, r, task) = b[u].log
    BY <1>1, <2>1, LogOfRunning
  <2>3. LogOf(a, r, task) = a[u].log
    BY LogOfRunning
  <2> QED BY <2>1, <2>2, <2>3
<1>3. CASE \A u \in Threads : a[u].mode # "off" => a[u].task # task
  <2>1. \A u \in Threads : b[u].mode # "off" => b[u].task # task
    BY <1>3
  <2>2. LogOf(b, r, task) = IF task \in DOMAIN r THEN r[task] ELSE <<>>
    BY <2>1, LogOfOther
  <2>3. LogOf(a, r, task) = IF task \in DOMAIN r THEN r[task] ELSE <<>>
    BY <1>3, LogOfOther
  <2> QED BY <2>2, <2>3
<1> QED BY <1>2, <1>3

(* A thread is put on a task nobody ran, or off; if it ran one, the log is *)
(* now the result of that.                                                 *)
Moves(a, r, b, q, t) ==
  /\ \A u \in Threads \ {t} : b[u] = a[u]
  /\ b[t].mode # "off" => b[t].log = <<>> /\ (a[t].mode # "off" => a[t].task # b[t].task)
  /\ \/ a[t].mode = "off" /\ q = r
     \/ /\ a[t].mode # "off"
        /\ q = [done \in DOMAIN r \cup {a[t].task} |-> IF done = a[t].task THEN a[t].log ELSE r[done]]

(* Logs do not depend on whether their task still runs.                    *)
LEMMA LogMoves ==
  ASSUME NEW a, NEW r, Alone(a, r), NEW b, NEW q, Alone(b, q), NEW t \in Threads,
         Moves(a, r, b, q, t), NEW task
  PROVE  LogOf(b, q, task) = LogOf(a, r, task)
<1> USE DEF Moves
<1>1. CASE a[t].mode # "off" /\ task = a[t].task
  <2>1. LogOf(a, r, task) = a[t].log
    BY <1>1, LogOfRunning
  <2>2. task \in DOMAIN q /\ q[task] = a[t].log
    BY <1>1
  <2>3. \A u \in Threads : b[u].mode # "off" => b[u].task # task
    BY <2>2 DEF Alone
  <2>4. LogOf(b, q, task) = IF task \in DOMAIN q THEN q[task] ELSE <<>>
    BY <2>3, LogOfOther
  <2> QED BY <2>1, <2>2, <2>4
<1>2. CASE b[t].mode # "off" /\ task = b[t].task
  <2>1. LogOf(b, q, task) = <<>>
    BY <1>2, LogOfRunning
  <2>2. task \notin DOMAIN q /\ \A u \in Threads \ {t} : b[u].mode # "off" => b[u].task # task
    BY <1>2 DEF Alone
  <2>3. task \notin DOMAIN r /\ \A u \in Threads : a[u].mode # "off" => a[u].task # task
    BY <1>2, <2>2
  <2>4. LogOf(a, r, task) = IF task \in DOMAIN r THEN r[task] ELSE <<>>
    BY <2>3, LogOfOther
  <2> QED BY <2>1, <2>3, <2>4
<1>3. CASE ~(a[t].mode # "off" /\ task = a[t].task) /\ ~(b[t].mode # "off" /\ task = b[t].task)
  <2>1. task \in DOMAIN q <=> task \in DOMAIN r
    BY <1>3
  <2>2. task \in DOMAIN r => q[task] = r[task]
    BY <1>3
  <2>3. {u \in Threads : b[u].mode # "off" /\ b[u].task = task} = {u \in Threads : a[u].mode # "off" /\ a[u].task = task}
    BY <1>3
  <2>4. CASE \E u \in Threads : a[u].mode # "off" /\ a[u].task = task
    <3> PICK u \in Threads : a[u].mode # "off" /\ a[u].task = task
      BY <2>4
    <3>1. u # t /\ b[u] = a[u]
      BY <1>3
    <3>2. LogOf(a, r, task) = a[u].log
      BY LogOfRunning
    <3>3. LogOf(b, q, task) = b[u].log
      BY <3>1, LogOfRunning
    <3> QED BY <3>1, <3>2, <3>3
  <2>5. CASE \A u \in Threads : a[u].mode # "off" => a[u].task # task
    <3>1. \A u \in Threads : b[u].mode # "off" => b[u].task # task
      BY <2>3, <2>5
    <3>2. LogOf(b, q, task) = IF task \in DOMAIN q THEN q[task] ELSE <<>>
      BY <3>1, LogOfOther
    <3>3. LogOf(a, r, task) = IF task \in DOMAIN r THEN r[task] ELSE <<>>
      BY <2>5, LogOfOther
    <3> QED BY <2>1, <2>2, <3>2, <3>3
  <2> QED BY <2>4, <2>5
<1> QED BY <1>1, <1>2, <1>3

(* The logs G after the call e of task k, and what that adds to the counts *)
(* of calls.                                                               *)
WithCall(G, k, e) == [task \in 0..N |-> IF task = k THEN Append(G[k], e) ELSE G[task]]

About(e, n) == Counts(e) => e.call.chan \in 0..(n - 1)

Adds(G, H, e) ==
  \A c, v : /\ Cardinality(SentIn(G, c, v)) \in Nat
            /\ Cardinality(ReceivedIn(G, c, v)) \in Nat
            /\ Cardinality(SentIn(H, c, v))
                 = IF Accepts(e, c, v) THEN Cardinality(SentIn(G, c, v)) + 1
                   ELSE Cardinality(SentIn(G, c, v))
            /\ Cardinality(ReceivedIn(H, c, v))
                 = IF Obtains(e, c, v) THEN Cardinality(ReceivedIn(G, c, v)) + 1
                   ELSE Cardinality(ReceivedIn(G, c, v))

(* One more returned call counts for what it did, and for nothing else.    *)
LEMMA CallAdded ==
  ASSUME NEW G, NEW n \in Nat, LogsOK(G, n), NEW k \in 0..N, NEW e, NEW H, H = WithCall(G, k, e),
         NEW m \in Nat, n <= m, About(e, m)
  PROVE  LogsOK(H, m) /\ Adds(G, H, e)
<1> USE DEF About
<1> DEFINE l == Len(G[k])
           new == <<k, l + 1>>
<1>1. G[k] \in Seq(Range(G[k]))
  BY DEF LogsOK
<1>2. /\ l \in Nat /\ DOMAIN G[k] = 1..l
      /\ Append(G[k], e) \in Seq(Range(Append(G[k], e)))
      /\ \A i \in 1..l : Append(G[k], e)[i] = G[k][i]
      /\ Append(G[k], e)[l + 1] = e
      /\ DOMAIN Append(G[k], e) = 1..(l + 1)
  BY <1>1, LogsGrow
<1>3. /\ H = [task \in 0..N |-> H[task]] /\ H[k] = Append(G[k], e)
      /\ \A task \in 0..N : task # k => H[task] = G[task]
  BY DEF WithCall
<1> HIDE DEF l
<1>4. /\ \A call : call \in CallsIn(G) <=> \E task \in 0..N : \E i \in DOMAIN G[task] : call = <<task, i>>
      /\ \A call : call \in CallsIn(H) <=> \E task \in 0..N : \E i \in DOMAIN H[task] : call = <<task, i>>
  BY DEF CallsIn
<1>5. new \notin CallsIn(G)
  <2> SUFFICES ASSUME new \in CallsIn(G) PROVE FALSE
    OBVIOUS
  <2>1. PICK task \in 0..N : \E i \in DOMAIN G[task] : new = <<task, i>>
    BY <1>4
  <2>2. PICK i \in DOMAIN G[task] : <<k, l + 1>> = <<task, i>>
    BY <2>1
  <2>3. task = k /\ i = l + 1
    BY <2>2
  <2> QED BY <1>2, <2>2, <2>3
<1>6. CallsIn(H) = CallsIn(G) \cup {new}
  <2>1. ASSUME NEW task \in 0..N, NEW i \in DOMAIN H[task]
        PROVE  <<task, i>> \in CallsIn(G) \cup {new}
    <3>1. CASE task # k
      BY <1>3, <1>4, <3>1
    <3>2. CASE task = k /\ i \in 1..l
      BY <1>2, <1>4, <3>2
    <3>3. CASE task = k /\ i = l + 1
      BY <3>3
    <3> QED BY <1>2, <1>3, <3>1, <3>2, <3>3
  <2>2. ASSUME NEW task \in 0..N, NEW i \in DOMAIN G[task]
        PROVE  <<task, i>> \in CallsIn(H)
    <3>1. i \in DOMAIN H[task]
      BY <1>2, <1>3
    <3> QED BY <1>4, <3>1
  <2>3. new \in CallsIn(H)
    <3>1. l + 1 \in DOMAIN H[k]
      BY <1>2, <1>3
    <3> QED BY <1>4, <3>1
  <2> QED BY <1>4, <2>1, <2>2, <2>3
<1>7. /\ H[new[1]][new[2]] = e
      /\ \A call \in CallsIn(G) : H[call[1]][call[2]] = G[call[1]][call[2]]
  <2>1. H[k][l + 1] = e /\ new[1] = k /\ new[2] = l + 1
    BY <1>2, <1>3
  <2>2. ASSUME NEW task \in 0..N, NEW i \in DOMAIN G[task]
        PROVE  H[task][i] = G[task][i]
    BY <1>2, <1>3
  <2>3. ASSUME NEW call \in CallsIn(G)
        PROVE  H[call[1]][call[2]] = G[call[1]][call[2]]
    <3>1. PICK task \in 0..N : \E i \in DOMAIN G[task] : call = <<task, i>>
      BY <1>4
    <3>2. PICK i \in DOMAIN G[task] : call = <<task, i>>
      BY <3>1
    <3>3. call[1] = task /\ call[2] = i
      BY <3>2
    <3> QED BY <2>2, <3>3
  <2> QED BY <2>1, <2>3
<1> HIDE DEF new
<1>8. LogsOK(H, m)
  <2>1. IsFiniteSet(CallsIn(H))
    <3>1. IsFiniteSet(CallsIn(G))
      BY DEF LogsOK
    <3>2. IsFiniteSet(CallsIn(G) \cup {new})
      BY <3>1, FS_AddElement
    <3> QED BY <1>6, <3>2
  <2>2. \A task \in 0..N : H[task] \in Seq(Range(H[task]))
    BY <1>2, <1>3 DEF LogsOK
  <2>3. ASSUME NEW call \in CallsIn(H), Counts(H[call[1]][call[2]])
        PROVE  H[call[1]][call[2]].call.chan \in 0..(m - 1)
    <3>1. CASE call = new
      BY <1>7, <2>3, <3>1
    <3>2. CASE call \in CallsIn(G)
      <4>1. G[call[1]][call[2]].call.chan \in 0..(n - 1)
        BY <1>7, <2>3, <3>2 DEF LogsOK
      <4>2. n - 1 <= m - 1
        OBVIOUS
      <4>3. H[call[1]][call[2]] = G[call[1]][call[2]]
        BY <1>7, <3>2
      <4> DEFINE ch == G[call[1]][call[2]].call.chan
      <4>4. ch \in 0..(n - 1)
        BY <4>1
      <4> HIDE DEF ch
      <4>5. ch \in 0..(m - 1)
        BY <4>2, <4>4
      <4> QED BY <4>3, <4>5 DEF ch
    <3> QED BY <1>6, <3>1, <3>2
  <2> QED BY <1>3, <2>1, <2>2, <2>3 DEF LogsOK
<1>9. ASSUME NEW A, A \subseteq CallsIn(G), NEW B, B = A \/ B = A \cup {new}
      PROVE  /\ Cardinality(A) \in Nat
             /\ B = A => Cardinality(B) = Cardinality(A)
             /\ B = A \cup {new} => Cardinality(B) = Cardinality(A) + 1
  <2>1. IsFiniteSet(A) /\ new \notin A
    BY <1>5, <1>9, FS_Subset DEF LogsOK
  <2> QED BY <2>1, FS_AddElement, FS_CardinalityType
<1>10. ASSUME NEW c, NEW v
       PROVE  /\ Cardinality(SentIn(G, c, v)) \in Nat
              /\ Cardinality(SentIn(H, c, v))
                   = IF Accepts(e, c, v) THEN Cardinality(SentIn(G, c, v)) + 1
                     ELSE Cardinality(SentIn(G, c, v))
  <2>1. SentIn(G, c, v) \subseteq CallsIn(G)
    BY DEF SentIn
  <2>2. SentIn(H, c, v) = IF Accepts(e, c, v) THEN SentIn(G, c, v) \cup {new} ELSE SentIn(G, c, v)
    BY <1>5, <1>6, <1>7 DEF SentIn
  <2> QED BY <1>9, <2>1, <2>2
<1>11. ASSUME NEW c, NEW v
       PROVE  /\ Cardinality(ReceivedIn(G, c, v)) \in Nat
              /\ Cardinality(ReceivedIn(H, c, v))
                   = IF Obtains(e, c, v) THEN Cardinality(ReceivedIn(G, c, v)) + 1
                     ELSE Cardinality(ReceivedIn(G, c, v))
  <2>1. ReceivedIn(G, c, v) \subseteq CallsIn(G)
    BY DEF ReceivedIn
  <2>2. ReceivedIn(H, c, v) = IF Obtains(e, c, v) THEN ReceivedIn(G, c, v) \cup {new} ELSE ReceivedIn(G, c, v)
    BY <1>5, <1>6, <1>7 DEF ReceivedIn
  <2> QED BY <1>9, <2>1, <2>2
<1> QED BY <1>8, <1>10, <1>11 DEF Adds

(* Nothing was sent to or received from a channel there is not.            *)
LEMMA NothingCounted ==
  ASSUME NEW G, NEW n \in Nat, LogsOK(G, n), NEW v, v # SyncError
  PROVE  Cardinality(SentIn(G, n + 1, v)) = 0 /\ Cardinality(ReceivedIn(G, n + 1, v)) = 0
<1>1. ASSUME NEW call \in CallsIn(G)
      PROVE  ~Accepts(G[call[1]][call[2]], n + 1, v) /\ ~Obtains(G[call[1]][call[2]], n + 1, v)
  <2> DEFINE e == G[call[1]][call[2]]
  <2>1. Counts(e) => e.call.chan \in 0..(n - 1)
    BY DEF LogsOK
  <2>2. e.call.chan \in 0..(n - 1) => e.call.chan # n + 1 - 1
    OBVIOUS
  <2> HIDE DEF e
  <2>3. ~Accepts(e, n + 1, v)
    BY <2>1, <2>2 DEF Accepts, Counts
  <2>4. ~Obtains(e, n + 1, v)
    BY <2>1, <2>2 DEF Obtains, Counts
  <2> QED BY <2>3, <2>4 DEF e
<1>2. SentIn(G, n + 1, v) = {} /\ ReceivedIn(G, n + 1, v) = {}
  BY <1>1 DEF SentIn, ReceivedIn
<1> QED BY <1>2, FS_EmptySet

-----------------------------------------------------------------------------
(* The threads that wait for channel h, and those woken to look again.     *)
Woken(h) == {t \in Threads : at[t].mode = "woken" /\ Op(t).chan = h}

(* Only receivers wait, for a channel there is.                            *)
WaitersOK ==
  \A t \in Threads : at[t].mode \in {"wait", "woken"} => Op(t).op \in {"recv", "drain"} /\ IsChan(Op(t).chan)

Awaits(t) == at[t].mode \in {"wait", "woken"}

(* A call of t that returns, and whom it wakes.                            *)
LEMMA AfterReturn ==
  ASSUME ThreadsOK, NEW t \in Threads, at[t].mode \in {"run", "woken"}, NEW r,
         NEW woken, \A u \in woken : u \in Threads /\ at[u].mode = "wait",
         ReturnAndWake(t, r, woken)
  PROVE  /\ \A u \in Threads : Awaits(u)' => Awaits(u) /\ Op(u)' = Op(u)
         /\ \A h : /\ Waiting(h)' = Waiting(h) \ woken
                   /\ Woken(h)' = (Woken(h) \ {t}) \cup (Waiting(h) \cap woken)
<1>1. /\ at'[t] = Returned(t, r)
      /\ \A u \in Threads \ {t} : at'[u] = IF u \in woken THEN [at[u] EXCEPT !.mode = "woken"] ELSE at[u]
  BY DEF ReturnAndWake
<1>2. at'[t].mode = "run"
  <2>1. IsRunning(at[t])
    BY DEF ThreadsOK, Off
  <2> QED BY <1>1, <2>1, ReturnedShape
<1>3. ASSUME NEW u \in Threads \ {t}
      PROVE  /\ Op(u)' = Op(u)
             /\ at'[u].mode = IF u \in woken THEN "woken" ELSE at[u].mode
  <2>1. CASE u \in woken
    <3> DEFINE a == at[u]
               b == [a EXCEPT !.mode = "woken"]
    <3>1. at'[u] = b /\ a = at[u]
      BY <1>1, <2>1
    <3>2. IsRunning(a)
      BY <2>1 DEF ThreadsOK, Off
    <3>3. b.mode = "woken" /\ b.task = a.task /\ b.pc = a.pc
      <4> HIDE DEF a
      <4> QED BY <3>2, ModeShape
    <3> HIDE DEF a, b
    <3> QED BY <2>1, <3>1, <3>3 DEF Op, Code
  <2>2. CASE u \notin woken
    BY <1>1, <2>2 DEF Op, Code
  <2> QED BY <2>1, <2>2
<1>4. \A u \in Threads : Awaits(u)' => Awaits(u) /\ Op(u)' = Op(u)
  BY <1>2, <1>3 DEF Awaits
<1>5. ASSUME NEW h
      PROVE  /\ Waiting(h)' = Waiting(h) \ woken
             /\ Woken(h)' = (Woken(h) \ {t}) \cup (Waiting(h) \cap woken)
  <2>1. \A u \in Threads : u \in Waiting(h)' <=> u \in Waiting(h) /\ u \notin woken
    BY <1>2, <1>3 DEF Waiting
  <2>2. \A u \in Threads : u \in Woken(h)' <=> (u \in Woken(h) /\ u # t) \/ (u \in Waiting(h) /\ u \in woken)
    BY <1>2, <1>3 DEF Waiting, Woken
  <2> QED BY <2>1, <2>2 DEF Waiting, Woken
<1> QED BY <1>4, <1>5

(* A thread goes to wait, or wakes for no reason.                          *)
LEMMA AfterModeStep ==
  ASSUME ThreadsOK, NEW t \in Threads, at[t].mode # "off",
         NEW m \in {"wait", "woken"}, at' = [at EXCEPT ![t].mode = m]
  PROVE  /\ at'[t].mode = m /\ \A u \in Threads : Op(u)' = Op(u) /\ (u # t => at'[u] = at[u])
<1>1. /\ at'[t] = [at[t] EXCEPT !.mode = m]
      /\ \A u \in Threads \ {t} : at'[u] = at[u]
  BY DEF ThreadsOK
<1>2. IsRunning(at[t])
  BY DEF ThreadsOK, Off
<1> DEFINE a == at[t]
           b == [a EXCEPT !.mode = m]
<1>3. at'[t] = b /\ a = at[t]
  BY <1>1
<1>4. b.mode = m /\ b.task = a.task /\ b.pc = a.pc
  <2> HIDE DEF a
  <2>1. IsRunning(a) BY <1>2 DEF a
  <2> QED BY <2>1, ModeShape
<1> HIDE DEF a, b
<1> QED BY <1>1, <1>3, <1>4 DEF Op, Code

(* Sets of threads are finite.                                             *)
LEMMA ThreadsAreFew ==
  /\ IsFiniteSet(Threads)
  /\ \A S : S \subseteq Threads => IsFiniteSet(S) /\ Cardinality(S) \in Nat
<1>1. IsFiniteSet(Threads)
  <2>1. 0 \in Int /\ W - 1 \in Int /\ Threads = 0..(W - 1)
    BY PoolSize
  <2> QED BY <2>1, FS_Interval
<1> QED BY <1>1, FS_Subset, FS_CardinalityType

(* The values in a channel somebody waits for are owed to others.          *)
Owed(waiting, woken, isClosed, queue) ==
  waiting # {} => ~isClosed /\ Len(queue) <= Cardinality(woken)

(* No wakeup is lost: what is in a channel is owed.                        *)
LEMMA OwedTo ==
  NoLostWakeup <=>
    \A h \in 0..(Len(chans) - 1) : Owed(Waiting(h), Woken(h), Chan(h).closed, Queues[h + 1])
BY DEF NoLostWakeup, Owed, Woken

(* What is sent is a number that is not negative, and is in the program.   *)
LEMMA PayloadsAre ==
  /\ Payloads \subseteq Nat
  /\ \A task \in 0..N : \A i \in 1..Len(Code(task)) :
       Code(task)[i].op = "send" /\ Code(task)[i].value >= 0 => Code(task)[i].value \in Payloads
<1>1. ASSUME NEW task \in 0..N
      PROVE  /\ \A i \in 1..Len(Code(task)) : Code(task)[i] \in Range(Code(task))
             /\ \A x \in Range(Code(task)) : x \in Instructions
  <2> DEFINE s == Code(task)
  <2>1. s \in Seq(Instructions)
    BY ProgramAssumption
  <2> HIDE DEF s
  <2>2. DOMAIN s = 1..Len(s) /\ \A i \in 1..Len(s) : s[i] \in Instructions
    BY <2>1
  <2> QED BY <2>2 DEF s, Range
<1> DEFINE sends == {x \in UNION {Range(Code(task)) : task \in 0..N} : x.op = "send" /\ x.value >= 0}
<1>2. \A x \in sends : x.value \in Nat
  <2> SUFFICES ASSUME NEW x \in sends PROVE x.value \in Nat
    OBVIOUS
  <2>1. x \in Instructions /\ x.op = "send" /\ x.value >= 0
    BY <1>1
  <2>2. x \in [op : {"send"}, chan : Int, value : Int]
    BY <2>1 DEF Instructions
  <2>3. x.value \in Int
    BY <2>2
  <2> QED BY <2>1, <2>3
<1>3. Payloads = {x.value : x \in sends}
  BY DEF Payloads
<1>4. ASSUME NEW task \in 0..N, NEW i \in 1..Len(Code(task)),
             Code(task)[i].op = "send", Code(task)[i].value >= 0
      PROVE  Code(task)[i].value \in Payloads
  <2>1. Code(task)[i] \in sends
    BY <1>1, <1>4
  <2> QED BY <1>3, <2>1
<1> QED BY <1>2, <1>3, <1>4

(* The counts that the abstract channels keep, of n channels.              *)
SentBy(G, n)     == [c \in 1..n |-> [v \in Payloads |-> Cardinality(SentIn(G, c, v))]]
ReceivedBy(G, n) == [c \in 1..n |-> [v \in Payloads |-> Cardinality(ReceivedIn(G, c, v))]]

(* A call that does not count changes no count.                            *)
LEMMA Uncounted ==
  ASSUME NEW G, NEW H, NEW e, Adds(G, H, e), ~Counts(e), NEW n
  PROVE  SentBy(H, n) = SentBy(G, n) /\ ReceivedBy(H, n) = ReceivedBy(G, n)
<1>1. ASSUME NEW c, NEW v \in Payloads
      PROVE  /\ Cardinality(SentIn(H, c, v)) = Cardinality(SentIn(G, c, v))
             /\ Cardinality(ReceivedIn(H, c, v)) = Cardinality(ReceivedIn(G, c, v))
  <2>1. v # SyncError
    BY PayloadsAre DEF SyncError
  <2>2. ~Accepts(e, c, v) /\ ~Obtains(e, c, v)
    BY <2>1 DEF Accepts, Obtains, Counts
  <2> QED BY <2>2 DEF Adds
<1> QED BY <1>1 DEF SentBy, ReceivedBy

Grid(F, n) ==
  /\ F = [d \in 1..n |-> F[d]]
  /\ \A d \in 1..n : F[d] = [v \in Payloads |-> F[d][v]]

(* K is F with one more at c, x.                                           *)
OneMore(F, K, n, c, x) ==
  \A d \in 1..n, v \in Payloads : K[d][v] = IF d = c /\ v = x THEN F[d][v] + 1 ELSE F[d][v]

Bumped(F, c, x) == [F EXCEPT ![c][x] = @ + 1]

(* A send, or a receive, of value x is counted for its channel and for x.  *)
LEMMA CountedOnce ==
  ASSUME NEW G, NEW H, NEW e, Adds(G, H, e), NEW n \in Nat, NEW c \in 1..n, NEW x \in Payloads
  PROVE  /\ (\A d \in 1..n, v \in Payloads : Accepts(e, d, v) <=> d = c /\ v = x)
              => SentBy(H, n) = Bumped(SentBy(G, n), c, x)
         /\ (\A d \in 1..n, v \in Payloads : ~Accepts(e, d, v)) => SentBy(H, n) = SentBy(G, n)
         /\ (\A d \in 1..n, v \in Payloads : Obtains(e, d, v) <=> d = c /\ v = x)
              => ReceivedBy(H, n) = Bumped(ReceivedBy(G, n), c, x)
         /\ (\A d \in 1..n, v \in Payloads : ~Obtains(e, d, v)) => ReceivedBy(H, n) = ReceivedBy(G, n)
<1>1. ASSUME NEW F, NEW K,
             Grid(F, n), Grid(K, n), OneMore(F, K, n, c, x)
      PROVE  K = Bumped(F, c, x)
  <2> DEFINE g == [F[c] EXCEPT ![x] = @ + 1]
  <2>1. g = [v \in Payloads |-> IF v = x THEN F[c][x] + 1 ELSE F[c][v]]
    BY <1>1 DEF Grid
  <2>2. K[c] = g
    BY <1>1, <2>1 DEF Grid, OneMore
  <2>3. \A d \in 1..n : d # c => K[d] = F[d]
    BY <1>1 DEF Grid, OneMore
  <2>4. [F EXCEPT ![c] = g] = [d \in 1..n |-> IF d = c THEN g ELSE F[d]]
    <3> HIDE DEF g
    <3> QED BY <1>1 DEF Grid
  <2> HIDE DEF g
  <2>5. K = [F EXCEPT ![c] = g]
    BY <1>1, <2>2, <2>3, <2>4 DEF Grid
  <2> QED BY <2>5 DEF g, Bumped
<1>2. \A T : /\ Grid(SentBy(T, n), n) /\ Grid(ReceivedBy(T, n), n)
             /\ \A d \in 1..n, v \in Payloads : /\ SentBy(T, n)[d][v] = Cardinality(SentIn(T, d, v))
                                                /\ ReceivedBy(T, n)[d][v] = Cardinality(ReceivedIn(T, d, v))
  BY DEF SentBy, ReceivedBy, Grid
<1>3. ASSUME \A d \in 1..n, v \in Payloads : Accepts(e, d, v) <=> d = c /\ v = x
      PROVE  SentBy(H, n) = Bumped(SentBy(G, n), c, x)
  <2>1. OneMore(SentBy(G, n), SentBy(H, n), n, c, x)
    BY <1>2, <1>3 DEF Adds, OneMore
  <2> QED BY <1>1, <1>2, <2>1
<1>4. ASSUME \A d \in 1..n, v \in Payloads : Obtains(e, d, v) <=> d = c /\ v = x
      PROVE  ReceivedBy(H, n) = Bumped(ReceivedBy(G, n), c, x)
  <2>1. OneMore(ReceivedBy(G, n), ReceivedBy(H, n), n, c, x)
    BY <1>2, <1>4 DEF Adds, OneMore
  <2> QED BY <1>1, <1>2, <2>1
<1>5. ASSUME \A d \in 1..n, v \in Payloads : ~Accepts(e, d, v)
      PROVE  SentBy(H, n) = SentBy(G, n)
  BY <1>5 DEF Adds, SentBy
<1>6. ASSUME \A d \in 1..n, v \in Payloads : ~Obtains(e, d, v)
      PROVE  ReceivedBy(H, n) = ReceivedBy(G, n)
  BY <1>6 DEF Adds, ReceivedBy
<1> QED BY <1>3, <1>4, <1>5, <1>6

-----------------------------------------------------------------------------
ChannelsOK == HeapOK(nodes) /\ \E L : Chained(nodes, chans, L)

(* The invariant of the channels: how they are stored, who waits for them, *)
(* what is owed to whom, and what the calls on them returned.              *)
SyncInv == ChannelsOK /\ WaitersOK /\ NoLostWakeup /\ LogsOK(Logs, Len(chans))

(* What the invariant says of types.                                       *)
LEMMA ChannelTypes ==
  ASSUME ChannelsOK
  PROVE  /\ Len(chans) \in Nat /\ DOMAIN chans = 1..Len(chans)
         /\ chans \in Seq([head : Nat, tail : Nat, closed : BOOLEAN])
         /\ Queues \in Seq(Seq(Payloads)) /\ Len(Queues) = Len(chans)
         /\ \A h : IsChan(h) => /\ h \in Nat /\ h + 1 \in DOMAIN chans
                                /\ Chan(h) = chans[h + 1]
                                /\ Chan(h).head = Null <=> Queues[h + 1] = <<>>
<1> PICK L : Chained(nodes, chans, L)
  BY DEF ChannelsOK
<1>1. /\ Len(chans) \in Nat /\ DOMAIN chans = 1..Len(chans)
      /\ Queues \in Seq(Seq(Payloads)) /\ Len(Queues) = Len(chans)
      /\ \A c \in DOMAIN chans : chans[c].head = Null <=> Queues[c] = <<>>
  BY QueuesType DEF ChannelsOK, Queues
<1>2. chans \in Seq([head : Nat, tail : Nat, closed : BOOLEAN])
  BY DEF Chained
<1>3. \A h : IsChan(h) => h \in Nat /\ h + 1 \in 1..Len(chans)
  BY <1>1 DEF IsChan
<1> QED BY <1>1, <1>2, <1>3 DEF Chan

(* The mapping to the abstract counts.                                     *)
CountsMatch ==
  /\ Logs = [task \in 0..N |-> LogOf(at, results, task)]
  /\ [c \in DOMAIN chans |-> [v \in Payloads |-> Sent(c, v)]]
       = [c \in DOMAIN chans |-> [v \in Payloads |-> Cardinality(SentIn(Logs, c, v))]]
  /\ [c \in DOMAIN chans |-> [v \in Payloads |-> Received(c, v)]]
       = [c \in DOMAIN chans |-> [v \in Payloads |-> Cardinality(ReceivedIn(Logs, c, v))]]

(* The mapped counts are those over the logs.                              *)
LEMMA CountsDoMatch == CountsMatch
BY LogsAre DEF CountsMatch

(* The same of the next state.                                             *)
LEMMA MatchesThen == CountsMatch'
BY CountsDoMatch, PTL

(* The mapping of both states of a step, over the logs.                    *)
LEMMA Mapped ==
  ASSUME ChannelsOK, ChannelsOK'
  PROVE  /\ DOMAIN chans = 1..Len(chans) /\ DOMAIN chans' = 1..Len(chans')
         /\ [c \in DOMAIN chans |-> [v \in Payloads |-> Sent(c, v)]] = SentBy(Logs, Len(chans))
         /\ [c \in DOMAIN chans |-> [v \in Payloads |-> Received(c, v)]] = ReceivedBy(Logs, Len(chans))
         /\ [c \in DOMAIN chans |-> [v \in Payloads |-> Sent(c, v)]]' = SentBy(Logs', Len(chans'))
         /\ [c \in DOMAIN chans |-> [v \in Payloads |-> Received(c, v)]]' = ReceivedBy(Logs', Len(chans'))
         /\ Channels!vars = <<Queues, [c \in DOMAIN chans |-> chans[c].closed],
                              SentBy(Logs, Len(chans)), ReceivedBy(Logs, Len(chans))>>
         /\ Channels!vars' = <<Queues', [c \in DOMAIN chans' |-> chans'[c].closed],
                               SentBy(Logs', Len(chans')), ReceivedBy(Logs', Len(chans'))>>
<1>1. DOMAIN chans = 1..Len(chans)
  BY ChannelTypes
<1>2. DOMAIN chans' = 1..Len(chans')
  BY DEF ChannelsOK, Chained
<1>3. CountsMatch /\ CountsMatch'
  BY CountsDoMatch, MatchesThen
<1> QED BY <1>1, <1>2, <1>3 DEF Channels!vars, SentBy, ReceivedBy, CountsMatch

(* Nobody new waits, so what they wait for is there still.                 *)
LEMMA WaitersStay ==
  ASSUME WaitersOK, \A u \in Threads : Awaits(u)' => Awaits(u) /\ Op(u)' = Op(u),
         Len(chans) \in Nat, Len(chans') \in Nat, Len(chans) <= Len(chans')
  PROVE  WaitersOK'
<1> SUFFICES ASSUME NEW u \in Threads, Awaits(u)'
             PROVE  Op(u)'.op \in {"recv", "drain"} /\ IsChan(Op(u).chan)'
  BY DEF WaitersOK, Awaits
<1>1. Awaits(u) /\ Op(u)' = Op(u)
  OBVIOUS
<1>2. Op(u).op \in {"recv", "drain"} /\ Op(u).chan \in 0..(Len(chans) - 1)
  BY <1>1 DEF WaitersOK, Awaits, IsChan
<1>3. Op(u).chan \in 0..(Len(chans') - 1)
  BY <1>2
<1> QED BY <1>1, <1>2, <1>3 DEF IsChan

(* A call that returns is one more in the log of its task.                 *)
LEMMA CallReturns ==
  ASSUME IInv, NEW n \in Nat, LogsOK(Logs, n),
         NEW t \in Threads, at[t].mode \in {"run", "woken"}, NEW r,
         NEW woken, \A u \in woken : u \in Threads /\ at[u].mode = "wait",
         ReturnAndWake(t, r, woken), UNCHANGED results,
         NEW m \in Nat, n <= m, NEW e, e = [call |-> Op(t), ret |-> r], About(e, m)
  PROVE  LogsOK(Logs', m) /\ Adds(Logs, Logs', e)
<1>1. ThreadsOK' /\ SameTasks /\ Learns(t, r) /\ OthersLearnNothing(t)
  BY WakesShape DEF IInv
<1>2. Alone(at, results)
  BY TasksAreOwned DEF EachTaskOnce, Alone, Active
<1>3. at[t].mode # "off" /\ at[t].task \in 0..N
  BY DEF IInv, ThreadsOK, Off, IsRunning
<1>4. Called(at, at', t, e)
  <2>1. \A u \in Threads : /\ at[u].mode # "off" <=> at'[u].mode # "off"
                           /\ at[u].mode # "off" => at'[u].task = at[u].task
    BY <1>1 DEF SameTasks, Active
  <2>2. /\ \A u \in Threads \ {t} : at[u].mode # "off" => at'[u].log = at[u].log
        /\ at'[t].log = Append(at[t].log, e)
    BY <1>1 DEF OthersLearnNothing, Learns, Active
  <2> QED BY <2>1, <2>2 DEF Called
<1>5. PICK k \in 0..N : k = at[t].task
  BY <1>3
<1>6. ASSUME NEW task
      PROVE  LogOf(at', results, task)
               = IF task = k THEN Append(LogOf(at, results, task), e) ELSE LogOf(at, results, task)
  <2>1. PICK a : a = at
    OBVIOUS
  <2>2. PICK b : b = at'
    OBVIOUS
  <2>3. Alone(a, results) /\ a[t].mode # "off" /\ Called(a, b, t, e) /\ k = a[t].task
    BY <1>2, <1>3, <1>4, <1>5, <2>1, <2>2
  <2>4. LogOf(b, results, task)
          = IF task = a[t].task THEN Append(LogOf(a, results, task), e) ELSE LogOf(a, results, task)
    BY ONLY <2>3, LogGrows, t \in Threads
  <2> QED BY <2>1, <2>2, <2>3, <2>4
<1>7. /\ Logs = [task \in 0..N |-> LogOf(at, results, task)]
      /\ Logs' = [task \in 0..N |-> LogOf(at', results, task)]
  BY CountsDoMatch, MatchesThen DEF CountsMatch
<1>8. PICK G : G = Logs
  OBVIOUS
<1>9. PICK H : H = Logs'
  OBVIOUS
<1>10. H = WithCall(G, k, e)
  BY <1>6, <1>7, <1>8, <1>9 DEF WithCall
<1>11. LogsOK(G, n)
  BY <1>8
<1>12. LogsOK(H, m) /\ Adds(G, H, e)
  BY ONLY <1>5, <1>10, <1>11, CallAdded, n \in Nat, m \in Nat, n <= m, About(e, m)
<1> QED BY <1>8, <1>9, <1>12

(* What is owed, in the next state.                                        *)
OwedToAll == \A h \in 0..(Len(chans) - 1) : Owed(Waiting(h), Woken(h), Chan(h).closed, Queues[h + 1])

(* No wakeup is lost in the next state.                                    *)
LEMMA OwedThen ==
  NoLostWakeup' <=>
    \A h \in 0..(Len(chans') - 1) : Owed(Waiting(h)', Woken(h)', chans'[h + 1].closed, Queues'[h + 1])
<1>1. NoLostWakeup <=> OwedToAll
  BY OwedTo DEF OwedToAll
<1>2. NoLostWakeup' <=> OwedToAll'
  BY <1>1, PTL
<1> QED BY <1>2 DEF OwedToAll, Chan

(* A step that leaves the channels alone, wakes nobody for good and counts *)
(* nothing is none of the abstract channels.                               *)
Uncounting == \A n : SentBy(Logs', n) = SentBy(Logs, n) /\ ReceivedBy(Logs', n) = ReceivedBy(Logs, n)

(* Such a step keeps the invariant and is a stutter of the channels.       *)
LEMMA QuietStep ==
  ASSUME SyncInv, UNCHANGED <<chans, nodes>>, Uncounting, WaitersOK', LogsOK(Logs', Len(chans)),
         \A h : IsChan(h) /\ Waiting(h)' # {} =>
           /\ Len(Queues[h + 1]) <= Cardinality(Woken(h)')
           /\ ~Chan(h).closed
  PROVE  SyncInv' /\ UNCHANGED Channels!vars
<1>1. ChannelsOK /\ ChannelsOK' /\ Queues' = Queues
  BY DEF SyncInv, ChannelsOK, Queues
<1>2. UNCHANGED Channels!vars
  BY <1>1, Mapped DEF Uncounting
<1>3. NoLostWakeup'
  BY <1>1, OwedThen DEF IsChan, Owed, Chan
<1> QED BY <1>1, <1>2, <1>3 DEF SyncInv

(* A call that returns without any of this: it failed, or was no call on a *)
(* channel.                                                                *)
LEMMA QuietReturn ==
  ASSUME IInv, SyncInv, NEW t \in Threads, at[t].mode \in {"run", "woken"}, NEW r,
         Return(t, r), UNCHANGED <<chans, nodes, results>>,
         ~Counts([call |-> Op(t), ret |-> r]),
         at[t].mode = "run" \/ Chan(Op(t).chan).closed
  PROVE  SyncInv' /\ UNCHANGED Channels!vars
<1>1. ReturnAndWake(t, r, {})
  BY DEF Return, ReturnAndWake, IInv, ThreadsOK
<1>2. /\ \A u \in Threads : Awaits(u)' => Awaits(u) /\ Op(u)' = Op(u)
      /\ \A h : Waiting(h)' = Waiting(h) \ {} /\ Woken(h)' = (Woken(h) \ {t}) \cup (Waiting(h) \cap {})
  BY <1>1, AfterReturn DEF IInv
<1>3. Len(chans) \in Nat /\ Len(chans') = Len(chans) /\ Len(chans) <= Len(chans')
  BY ChannelTypes DEF SyncInv
<1>4. WaitersOK'
  BY <1>2, <1>3, WaitersStay DEF SyncInv
<1>5. LogsOK(Logs', Len(chans)) /\ Adds(Logs, Logs', [call |-> Op(t), ret |-> r])
  <2>1. PICK n \in Nat : n = Len(chans)
    BY <1>3
  <2>2. PICK e : e = [call |-> Op(t), ret |-> r]
    OBVIOUS
  <2>3. About(e, n) /\ n <= n /\ LogsOK(Logs, n)
    BY <2>1, <2>2 DEF About, SyncInv
  <2>4. LogsOK(Logs', n) /\ Adds(Logs, Logs', e)
    BY <1>1, <2>2, <2>3, CallReturns
  <2> QED BY <2>1, <2>2, <2>4
<1>6. Uncounting
  BY <1>5, Uncounted DEF Uncounting
<1>7. ASSUME NEW h, IsChan(h), Waiting(h)' # {}
      PROVE  Len(Queues[h + 1]) <= Cardinality(Woken(h)') /\ ~Chan(h).closed
  <2>1. Waiting(h) # {}
    BY <1>2, <1>7
  <2>2. Len(Queues[h + 1]) <= Cardinality(Woken(h)) /\ ~Chan(h).closed
    BY <1>7, <2>1, OwedTo DEF SyncInv, Owed, IsChan
  <2>3. t \notin Woken(h)
    BY <2>2 DEF Woken
  <2>4. Woken(h)' = Woken(h)
    BY <1>2, <2>3
  <2> QED BY <2>2, <2>4
<1> QED BY <1>4, <1>5, <1>6, <1>7, QuietStep

(* A failing call, and the calls on mutexes.                               *)
LEMMA FailKeeps ==
  ASSUME IInv, SyncInv, NEW t \in Threads, at[t].mode \in {"run", "woken"},
         Fail(t), UNCHANGED results,
         Op(t).op \notin {"recv", "drain"} \/ ~IsChan(Op(t).chan) \/ Chan(Op(t).chan).closed
  PROVE  SyncInv' /\ UNCHANGED Channels!vars
<1>1. at[t].mode = "run" \/ Chan(Op(t).chan).closed
  BY DEF SyncInv, WaitersOK
<1>2. ~Counts([call |-> Op(t), ret |-> SyncError])
  BY DEF Counts, SyncError
<1>3. Return(t, SyncError) /\ UNCHANGED <<chans, nodes>>
  BY DEF Fail, syncVars
<1> QED BY <1>1, <1>2, <1>3, QuietReturn

(* A call on a mutex is none of the channels.                              *)
LEMMA MutexKeeps ==
  ASSUME IInv, SyncInv, NEW t \in Threads, UNCHANGED results,
         MutexNew(t) \/ MutexLock(t) \/ MutexUnlock(t)
  PROVE  SyncInv' /\ UNCHANGED Channels!vars
<1>1. at[t].mode \in {"run", "woken"} /\ Op(t).op \notin {"recv", "drain", "send"}
  BY DEF MutexNew, MutexLock, MutexUnlock, Calls
<1>2. CASE Fail(t)
  BY <1>1, <1>2, FailKeeps
<1>3. ASSUME NEW r, Return(t, r), UNCHANGED <<chans, nodes>>
      PROVE  SyncInv' /\ UNCHANGED Channels!vars
  <2>1. at[t].mode = "run"
    BY <1>1 DEF SyncInv, WaitersOK
  <2>2. ~Counts([call |-> Op(t), ret |-> r])
    BY <1>1 DEF Counts
  <2> QED BY <1>3, <2>1, <2>2, QuietReturn
<1>4. Fail(t) \/ \E r : Return(t, r) /\ UNCHANGED <<chans, nodes>>
  BY DEF MutexNew, MutexLock, MutexUnlock
<1> QED BY <1>2, <1>3, <1>4

(* K is F with one value more, at the end.                                 *)
Extends(n, F, K) ==
  /\ F = [c \in 1..n |-> F[c]]
  /\ K = [c \in 1..(n + 1) |-> K[c]]
  /\ \A c \in 1..n : K[c] = F[c]

(* It is what Append makes.                                                *)
LEMMA OneLonger ==
  ASSUME NEW n \in Nat, NEW F, NEW K, Extends(n, F, K)
  PROVE  K = Append(F, K[n + 1])
<1> USE DEF Extends
<1> DEFINE S == {K[c] : c \in 1..(n + 1)}
<1>1. F \in [1..n -> S] /\ K \in [1..(n + 1) -> S]
  <2>1. \A c \in 1..(n + 1) : K[c] \in S
    OBVIOUS
  <2>2. \A c \in 1..n : c \in 1..(n + 1)
    OBVIOUS
  <2> HIDE DEF S
  <2>3. \A c \in 1..n : F[c] \in S
    BY <2>1, <2>2
  <2> QED BY <2>1, <2>3
<1>2. K[n + 1] \in S
  OBVIOUS
<1> HIDE DEF S
<1>3. F \in Seq(S) /\ Len(F) = n
  BY <1>1
<1>4. Append(F, K[n + 1]) \in Seq(S)
  BY <1>2, <1>3
<1> DEFINE A == Append(F, K[n + 1])
<1>5. Len(A) = n + 1 /\ A[n + 1] = K[n + 1] /\ \A c \in 1..n : A[c] = F[c]
  BY <1>2, <1>3
<1>6. A \in Seq(S)
  BY <1>4
<1> HIDE DEF A
<1>7. A = [c \in 1..(n + 1) |-> A[c]]
  BY <1>5, <1>6
<1>8. \A c \in 1..(n + 1) : A[c] = K[c]
  BY <1>5
<1> QED BY <1>7, <1>8 DEF A

(* A call that wakes nobody leaves everybody who waits where they were, if *)
(* its thread was not itself woken.                                        *)
LEMMA NobodyWoken ==
  ASSUME IInv, NEW t \in Threads, at[t].mode = "run", NEW r, Return(t, r)
  PROVE  /\ ReturnAndWake(t, r, {})
         /\ \A u \in Threads : Awaits(u)' => Awaits(u) /\ Op(u)' = Op(u)
         /\ \A h : Waiting(h)' = Waiting(h) /\ Woken(h)' = Woken(h)
<1>1. ReturnAndWake(t, r, {})
  BY DEF Return, ReturnAndWake, IInv, ThreadsOK
<1>2. /\ \A u \in Threads : Awaits(u)' => Awaits(u) /\ Op(u)' = Op(u)
      /\ \A h : Waiting(h)' = Waiting(h) \ {} /\ Woken(h)' = (Woken(h) \ {t}) \cup (Waiting(h) \cap {})
  BY <1>1, AfterReturn DEF IInv
<1>3. \A h : t \notin Woken(h)
  BY DEF Woken
<1> QED BY <1>1, <1>2, <1>3

(* A new channel is empty and open, nobody waits for it, and nothing was   *)
(* sent to it or received from it.                                         *)
LEMMA NewStep ==
  ASSUME IInv, SyncInv, NEW t \in Threads, UNCHANGED results, ChanNew(t), ~Fail(t)
  PROVE  SyncInv' /\ Channels!New
<1>1. /\ at[t].mode \in {"run", "woken"} /\ Op(t).op = "chan_new"
      /\ Len(chans) < Cap /\ Return(t, Len(chans)) /\ UNCHANGED nodes
      /\ chans' = Append(chans, [head |-> Null, tail |-> Null, closed |-> FALSE])
  BY DEF ChanNew, Calls
<1>2. at[t].mode = "run"
  BY <1>1 DEF SyncInv, WaitersOK
<1>3. PICK L : HeapOK(nodes) /\ Chained(nodes, chans, L)
  BY DEF SyncInv, ChannelsOK
<1>4. /\ \E M : Chained(nodes, chans', M)
      /\ Len(chans') = Len(chans) + 1 /\ chans'[Len(chans) + 1].closed = FALSE
      /\ \A d \in DOMAIN chans : chans'[d] = chans[d]
      /\ QueuesIn(nodes, chans') = Append(QueuesIn(nodes, chans), <<>>)
  <2>1. PICK after : after = chans'
    OBVIOUS
  <2>2. after = WithNew(chans)
    BY <1>1, <2>1 DEF WithNew
  <2>3. PICK heap, cs : heap = nodes /\ cs = chans
    OBVIOUS
  <2>4. HeapOK(heap) /\ Chained(heap, cs, L)
    BY <1>3, <2>3
  <2>5. after = WithNew(cs)
    BY <2>2, <2>3
  <2>6. HeapOK(heap)
    BY <2>4
  <2>7. Chained(heap, cs, L)
    BY <2>4
  <2>8. \E M : Chained(heap, after, M)
    BY ONLY <2>5, <2>6, <2>7, NewIsEmpty
  <2>9. Len(after) = Len(cs) + 1 /\ after[Len(cs) + 1].closed = FALSE
    BY ONLY <2>5, <2>6, <2>7, NewIsEmpty
  <2>10. Keeps(cs, after)
    BY ONLY <2>5, <2>6, <2>7, NewIsEmpty
  <2>11. QueuesIn(heap, after) = Append(QueuesIn(heap, cs), <<>>)
    BY ONLY <2>5, <2>6, <2>7, NewIsEmpty
  <2> QED BY ONLY <2>1, <2>3, <2>8, <2>9, <2>10, <2>11 DEF Keeps
<1>5. ChannelsOK' /\ Queues' = Append(Queues, <<>>)
  BY <1>1, <1>3, <1>4 DEF ChannelsOK, Queues
<1>6. PICK n \in Nat : n = Len(chans)
  BY ChannelTypes DEF SyncInv
<1>7. DOMAIN chans = 1..n /\ Len(chans') = n + 1 /\ DOMAIN chans' = 1..(n + 1) /\ Len(Queues) = n
  <2>1. chans' \in Seq([head : Nat, tail : Nat, closed : BOOLEAN])
    BY <1>5 DEF ChannelsOK, Chained
  <2>2. DOMAIN chans = 1..n /\ Len(chans') = n + 1 /\ Len(Queues) = n
    BY <1>4, <1>6, ChannelTypes DEF SyncInv
  <2> QED BY <2>1, <2>2
<1>8. /\ ReturnAndWake(t, n, {})
      /\ \A u \in Threads : Awaits(u)' => Awaits(u) /\ Op(u)' = Op(u)
      /\ \A h : Waiting(h)' = Waiting(h) /\ Woken(h)' = Woken(h)
  BY <1>1, <1>2, <1>6, NobodyWoken
<1>9. WaitersOK'
  BY <1>6, <1>7, <1>8, WaitersStay DEF SyncInv
<1>10. LogsOK(Logs', n + 1) /\ Adds(Logs, Logs', [call |-> Op(t), ret |-> n])
  <2>1. PICK e : e = [call |-> Op(t), ret |-> n]
    OBVIOUS
  <2>2. About(e, n + 1) /\ n <= n + 1 /\ n + 1 \in Nat /\ LogsOK(Logs, n)
    BY <1>1, <1>6, <2>1 DEF About, Counts, SyncInv
  <2>3. PICK m \in Nat : m = n + 1
    BY <2>2
  <2>4. \A u \in {} : u \in Threads /\ at[u].mode = "wait"
    OBVIOUS
  <2>5. LogsOK(Logs', m) /\ Adds(Logs, Logs', e)
    BY <1>1, <1>8, <2>1, <2>2, <2>3, <2>4, CallReturns
  <2> QED BY <2>1, <2>3, <2>5
<1>11. ~Counts([call |-> Op(t), ret |-> n])
  BY <1>1 DEF Counts
<1>12. SentBy(Logs', n + 1) = SentBy(Logs, n + 1) /\ ReceivedBy(Logs', n + 1) = ReceivedBy(Logs, n + 1)
  BY <1>10, <1>11, Uncounted
<1>13. /\ SentBy(Logs, n + 1)[n + 1] = Channels!None
       /\ ReceivedBy(Logs, n + 1)[n + 1] = Channels!None
  <2>1. n + 1 \in 1..(n + 1) /\ \A v \in Payloads : v # SyncError
    BY PayloadsAre DEF SyncError
  <2>2. LogsOK(Logs, n)
    BY <1>6 DEF SyncInv
  <2>3. \A v \in Payloads : Cardinality(SentIn(Logs, n + 1, v)) = 0 /\ Cardinality(ReceivedIn(Logs, n + 1, v)) = 0
    BY <2>1, <2>2, NothingCounted
  <2> QED BY <2>1, <2>3 DEF SentBy, ReceivedBy, Channels!None
<1>14. \A G : /\ SentBy(G, n + 1) = Append(SentBy(G, n), SentBy(G, n + 1)[n + 1])
              /\ ReceivedBy(G, n + 1) = Append(ReceivedBy(G, n), ReceivedBy(G, n + 1)[n + 1])
  <2> SUFFICES ASSUME NEW G
               PROVE  /\ SentBy(G, n + 1) = Append(SentBy(G, n), SentBy(G, n + 1)[n + 1])
                      /\ ReceivedBy(G, n + 1) = Append(ReceivedBy(G, n), ReceivedBy(G, n + 1)[n + 1])
    OBVIOUS
  <2>1. \A c \in 1..n : c \in 1..(n + 1)
    OBVIOUS
  <2>2. Extends(n, SentBy(G, n), SentBy(G, n + 1))
    BY <2>1 DEF SentBy, Extends
  <2>3. Extends(n, ReceivedBy(G, n), ReceivedBy(G, n + 1))
    BY <2>1 DEF ReceivedBy, Extends
  <2>4. SentBy(G, n + 1) = Append(SentBy(G, n), SentBy(G, n + 1)[n + 1])
    BY ONLY <1>6, <2>2, OneLonger
  <2>5. ReceivedBy(G, n + 1) = Append(ReceivedBy(G, n), ReceivedBy(G, n + 1)[n + 1])
    BY ONLY <1>6, <2>3, OneLonger
  <2> QED BY <2>4, <2>5
<1>15. [c \in 1..(n + 1) |-> chans'[c].closed] = Append([c \in 1..n |-> chans[c].closed], FALSE)
  <2> DEFINE F == [c \in 1..n |-> chans[c].closed]
             K == [c \in 1..(n + 1) |-> chans'[c].closed]
  <2>1. F = [c \in 1..n |-> F[c]] /\ K = [c \in 1..(n + 1) |-> K[c]]
    OBVIOUS
  <2>2. \A c \in 1..n : chans'[c] = chans[c]
    BY <1>4, <1>6, <1>7
  <2>3. chans'[n + 1].closed = FALSE
    BY <1>4, <1>6
  <2>4. \A c \in 1..n : c \in 1..(n + 1)
    OBVIOUS
  <2>5. n + 1 \in 1..(n + 1)
    OBVIOUS
  <2>6. \A c \in 1..n : K[c] = F[c]
    BY <2>2, <2>4
  <2>7. K[n + 1] = FALSE
    BY <2>3, <2>5
  <2> HIDE DEF F, K
  <2>8. Extends(n, F, K)
    BY <2>1, <2>6 DEF Extends
  <2>9. K = Append(F, K[n + 1])
    BY ONLY <1>6, <2>8, OneLonger
  <2>10. K = Append(F, FALSE)
    BY <2>7, <2>9
  <2> QED BY <2>10 DEF F, K
<1>16. Channels!New
  <2>1. /\ [c \in DOMAIN chans |-> [v \in Payloads |-> Sent(c, v)]]'
             = Append([c \in DOMAIN chans |-> [v \in Payloads |-> Sent(c, v)]], Channels!None)
        /\ [c \in DOMAIN chans |-> [v \in Payloads |-> Received(c, v)]]'
             = Append([c \in DOMAIN chans |-> [v \in Payloads |-> Received(c, v)]], Channels!None)
    BY <1>5, <1>6, <1>7, <1>12, <1>13, <1>14, Mapped DEF SyncInv
  <2>2. [c \in DOMAIN chans |-> chans[c].closed]' = Append([c \in DOMAIN chans |-> chans[c].closed], FALSE)
    BY <1>7, <1>15
  <2>3. Len(Queues) < Cap
    BY <1>1, <1>6, <1>7
  <2> QED BY <1>5, <2>1, <2>2, <2>3 DEF Channels!New
<1>17. NoLostWakeup'
  <2> SUFFICES ASSUME NEW h \in 0..n
               PROVE  Owed(Waiting(h)', Woken(h)', chans'[h + 1].closed, Queues'[h + 1])
    BY <1>7, OwedThen
  <2>1. CASE h = n
    <3>1. Waiting(h)' = {}
      BY <1>6, <1>8, <2>1 DEF SyncInv, WaitersOK, IsChan, Waiting
    <3> QED BY <3>1 DEF Owed
  <2>2. CASE h \in 0..(n - 1)
    <3>1. h + 1 \in 1..n
      BY <2>2
    <3>2. chans'[h + 1] = chans[h + 1] /\ Queues'[h + 1] = Queues[h + 1]
      <4>1. Queues \in Seq(Seq(Payloads))
        BY ChannelTypes DEF SyncInv
      <4> QED BY <1>4, <1>5, <1>7, <3>1, <4>1
    <3>3. Owed(Waiting(h), Woken(h), Chan(h).closed, Queues[h + 1])
      BY <1>6, <2>2, OwedTo DEF SyncInv
    <3> QED BY <1>8, <3>2, <3>3 DEF Chan
  <2> QED BY <2>1, <2>2
<1> QED BY <1>5, <1>7, <1>9, <1>10, <1>16, <1>17 DEF SyncInv

(* What every call that returns does to logs and waiters.                  *)
LEMMA CallLogged ==
  ASSUME IInv, SyncInv, NEW t \in Threads, at[t].mode \in {"run", "woken"}, NEW r,
         NEW woken, \A u \in woken : u \in Threads /\ at[u].mode = "wait",
         ReturnAndWake(t, r, woken), UNCHANGED results, Len(chans') = Len(chans),
         NEW e, e = [call |-> Op(t), ret |-> r], Counts(e) => IsChan(Op(t).chan)
  PROVE  LogsOK(Logs', Len(chans)) /\ Adds(Logs, Logs', e) /\ WaitersOK'
<1>1. PICK n \in Nat : n = Len(chans)
  BY ChannelTypes DEF SyncInv
<1>2. About(e, n) /\ n <= n /\ LogsOK(Logs, n)
  <2>1. e.call = Op(t)
    OBVIOUS
  <2> QED BY <1>1, <2>1 DEF About, SyncInv, IsChan
<1>3. LogsOK(Logs', n) /\ Adds(Logs, Logs', e)
  BY <1>2, CallReturns
<1>4. \A u \in Threads : Awaits(u)' => Awaits(u) /\ Op(u)' = Op(u)
  BY AfterReturn DEF IInv
<1>5. WaitersOK'
  BY <1>1, <1>4, WaitersStay DEF SyncInv
<1> QED BY <1>1, <1>3, <1>5

(* Closing wakes all who wait, so nobody sleeps at a closed channel.       *)
LEMMA CloseStep ==
  ASSUME IInv, SyncInv, NEW t \in Threads, UNCHANGED results, ChanClose(t), ~Fail(t)
  PROVE  SyncInv' /\ \E c \in DOMAIN Queues : Channels!Close(c)
<1> DEFINE h == Op(t).chan
<1>1. /\ at[t].mode \in {"run", "woken"} /\ Op(t).op = "close"
      /\ IsChan(h) /\ ReturnAndWake(t, 0, Waiting(h)) /\ UNCHANGED nodes
      /\ chans' = [chans EXCEPT ![h + 1].closed = TRUE]
  BY DEF ChanClose, Calls, Broadcast
<1>2. at[t].mode = "run"
  BY <1>1 DEF SyncInv, WaitersOK
<1>3. PICK L : HeapOK(nodes) /\ Chained(nodes, chans, L)
  BY DEF SyncInv, ChannelsOK
<1>4. PICK c : c = h + 1 /\ c \in DOMAIN chans
  BY <1>1, ChannelTypes DEF SyncInv
<1>5. /\ Chained(nodes, chans', L) /\ Len(chans') = Len(chans)
      /\ chans'[c].closed = TRUE /\ \A d \in DOMAIN chans : d # c => chans'[d] = chans[d]
      /\ QueuesIn(nodes, chans') = QueuesIn(nodes, chans)
  <2>1. PICK heap, cs, after : heap = nodes /\ cs = chans /\ after = chans'
    OBVIOUS
  <2>2. HeapOK(heap) /\ Chained(heap, cs, L) /\ c \in DOMAIN cs /\ after = WithClosed(cs, c)
    BY <1>1, <1>3, <1>4, <2>1 DEF WithClosed
  <2>3. /\ Chained(heap, after, L) /\ Len(after) = Len(cs)
        /\ after[c].closed = TRUE /\ \A d \in DOMAIN cs : d # c => after[d] = cs[d]
        /\ QueuesIn(heap, after) = QueuesIn(heap, cs)
    <3>1. HeapOK(heap)
      BY <2>2
    <3>2. Chained(heap, cs, L)
      BY <2>2
    <3>3. c \in DOMAIN cs
      BY <2>2
    <3>4. after = WithClosed(cs, c)
      BY <2>2
    <3>5. Chained(heap, after, L) /\ Len(after) = Len(cs) /\ after[c].closed = TRUE
      BY ONLY <3>1, <3>2, <3>3, <3>4, CloseKeepsValues
    <3>6. QueuesIn(heap, after) = QueuesIn(heap, cs)
      BY ONLY <3>1, <3>2, <3>3, <3>4, CloseKeepsValues
    <3>7. \A d \in DOMAIN cs : d # c => after[d] = cs[d]
      BY <3>4 DEF WithClosed
    <3> QED BY ONLY <3>5, <3>6, <3>7
  <2> QED BY ONLY <2>1, <2>3
<1>6. ChannelsOK' /\ Queues' = Queues
  BY <1>1, <1>3, <1>5 DEF ChannelsOK, Queues
<1>7. PICK n \in Nat : /\ n = Len(chans) /\ n = Len(chans') /\ DOMAIN chans = 1..n /\ DOMAIN chans' = 1..n
                       /\ DOMAIN Queues = 1..n
  <2>1. Len(chans) \in Nat /\ DOMAIN chans = 1..Len(chans) /\ DOMAIN chans' = 1..Len(chans')
    BY <1>6, ChannelTypes, Mapped DEF SyncInv
  <2>2. DOMAIN Queues = DOMAIN chans
    BY DEF Queues, QueuesIn
  <2> QED BY <1>5, <2>1, <2>2
<1>8. \A u \in Waiting(h) : u \in Threads /\ at[u].mode = "wait"
  BY DEF Waiting
<1>9. /\ LogsOK(Logs', n) /\ Adds(Logs, Logs', [call |-> Op(t), ret |-> 0]) /\ WaitersOK'
      /\ ~Counts([call |-> Op(t), ret |-> 0])
  <2>1. PICK e : e = [call |-> Op(t), ret |-> 0]
    OBVIOUS
  <2>2. ~Counts(e)
    BY <1>1, <2>1 DEF Counts
  <2>3. LogsOK(Logs', Len(chans)) /\ Adds(Logs, Logs', e) /\ WaitersOK'
    BY <1>1, <1>5, <1>8, <2>1, <2>2, CallLogged
  <2> QED BY <1>7, <2>1, <2>2, <2>3
<1>10. SentBy(Logs', n) = SentBy(Logs, n) /\ ReceivedBy(Logs', n) = ReceivedBy(Logs, n)
  BY <1>9, Uncounted
<1>11. Channels!Close(c)
  <2>1. /\ [d \in DOMAIN chans |-> [v \in Payloads |-> Sent(d, v)]]'
             = [d \in DOMAIN chans |-> [v \in Payloads |-> Sent(d, v)]]
        /\ [d \in DOMAIN chans |-> [v \in Payloads |-> Received(d, v)]]'
             = [d \in DOMAIN chans |-> [v \in Payloads |-> Received(d, v)]]
    BY <1>6, <1>7, <1>10, Mapped DEF SyncInv
  <2>2. [d \in DOMAIN chans |-> chans[d].closed]' = [[d \in DOMAIN chans |-> chans[d].closed] EXCEPT ![c] = TRUE]
    BY <1>4, <1>5, <1>7
  <2> QED BY <1>6, <2>1, <2>2 DEF Channels!Close
<1>12. \A g : /\ Waiting(g)' = Waiting(g) \ Waiting(h)
              /\ Woken(g)' = (Woken(g) \ {t}) \cup (Waiting(g) \cap Waiting(h))
  BY <1>1, <1>8, AfterReturn DEF IInv
<1>13. NoLostWakeup'
  <2> SUFFICES ASSUME NEW g \in 0..(n - 1)
               PROVE  Owed(Waiting(g)', Woken(g)', chans'[g + 1].closed, Queues'[g + 1])
    BY <1>7, OwedThen
  <2>1. CASE g = h
    <3>1. Waiting(g)' = {}
      BY <1>12, <2>1
    <3> QED BY <3>1 DEF Owed
  <2>2. CASE g # h
    <3>1. Waiting(g) \cap Waiting(h) = {} /\ t \notin Woken(g)
      BY <1>2, <2>2 DEF Waiting, Woken
    <3>2. Waiting(g)' = Waiting(g) /\ Woken(g)' = Woken(g)
      BY <1>12, <3>1
    <3>3. g + 1 \in DOMAIN chans /\ g + 1 # c
      BY <1>1, <1>4, <1>7, <2>2 DEF IsChan
    <3>4. Owed(Waiting(g), Woken(g), Chan(g).closed, Queues[g + 1])
      BY <1>7, OwedTo DEF SyncInv
    <3> QED BY <1>5, <1>6, <3>2, <3>3, <3>4 DEF Chan
  <2> QED BY <2>1, <2>2
<1> QED BY <1>4, <1>6, <1>7, <1>9, <1>11, <1>13 DEF SyncInv

(* What is sent is a value of the program.                                 *)
LEMMA SendsPayload ==
  ASSUME IInv, NEW t \in Threads, Calls(t, {"send"}), Op(t).value >= 0
  PROVE  Op(t).value \in Payloads
<1>1. at[t].task \in 0..N /\ at[t].pc \in Nat \ {0} /\ at[t].pc <= Len(Code(at[t].task))
  BY DEF IInv, ThreadsOK, IsRunning, Off, Calls
<1>2. PICK k \in 0..N : k = at[t].task
  BY <1>1
<1>3. PICK i \in Nat \ {0} : i = at[t].pc
  BY <1>1
<1>4. i \in 1..Len(Code(k)) /\ Op(t) = Code(k)[i]
  <2>1. Code(k) \in Seq(Instructions)
    BY <1>2, ProgramAssumption
  <2>2. Len(Code(k)) \in Nat
    BY <2>1
  <2> QED BY <1>1, <1>2, <1>3, <2>2 DEF Op
<1>5. Op(t).op = "send"
  BY DEF Calls
<1> QED BY <1>2, <1>4, <1>5, PayloadsAre

(* Sending appends, counts, and wakes one of those who wait: of what is    *)
(* then in the channel one value more is owed, and to one thread more.     *)
LEMMA SendStep ==
  ASSUME IInv, SyncInv, NEW t \in Threads, UNCHANGED results, ChanSend(t), ~Fail(t)
  PROVE  SyncInv' /\ \E c \in DOMAIN Queues : \E v \in Payloads : Channels!Send(c, v)
<1> DEFINE h == Op(t).chan
<1>1. /\ at[t].mode \in {"run", "woken"} /\ Op(t).op = "send" /\ Op(t).value >= 0
      /\ IsChan(h) /\ ~Chan(h).closed
      /\ nodes' = Linked(Allocated(nodes, FreeNode, Op(t).value), Chan(h).tail, FreeNode)
      /\ chans' = [chans EXCEPT ![h + 1].head = IF Chan(h).tail = Null THEN FreeNode ELSE @,
                                ![h + 1].tail = FreeNode]
      /\ \E woken \in Signalled(h) : ReturnAndWake(t, 0, woken)
  BY DEF ChanSend, Calls
<1>2. at[t].mode = "run"
  BY <1>1 DEF SyncInv, WaitersOK
<1>3. PICK L : HeapOK(nodes) /\ Chained(nodes, chans, L)
  BY DEF SyncInv, ChannelsOK
<1>4. PICK c : c = h + 1 /\ c \in DOMAIN chans
  BY <1>1, ChannelTypes DEF SyncInv
<1>5. PICK v \in Payloads : v = Op(t).value
  BY <1>1, SendsPayload DEF ChanSend
<1>6. PICK node \in Nat \ {0} : node = FreeNode /\ node \notin DOMAIN nodes
  BY <1>3, FreshNode
<1>7. /\ HeapOK(nodes') /\ \E M : Chained(nodes', chans', M)
      /\ Len(chans') = Len(chans)
      /\ QueuesIn(nodes', chans') = [QueuesIn(nodes, chans) EXCEPT ![c] = Append(@, v)]
  <2>1. PICK heap, cs, new, after : heap = nodes /\ cs = chans /\ new = nodes' /\ after = chans'
    OBVIOUS
  <2>2. new = HeapWith(heap, cs, c, node, v)
    BY <1>1, <1>4, <1>5, <1>6, <2>1 DEF HeapWith, Chan
  <2>3. after = WithLast(cs, c, node)
    BY <1>1, <1>4, <1>6, <2>1 DEF WithLast, Chan
  <2>4. HeapOK(heap) /\ Chained(heap, cs, L)
    BY <1>3, <2>1
  <2>5. c \in DOMAIN cs /\ node \notin DOMAIN heap
    BY <1>4, <1>6, <2>1
  <2>6. HeapOK(heap)
    BY <2>4
  <2>7. Chained(heap, cs, L)
    BY <2>4
  <2>8. c \in DOMAIN cs
    BY <2>5
  <2>9. node \in Nat \ {0}
    BY <1>6
  <2>10. node \notin DOMAIN heap
    BY <2>5
  <2>11. HeapOK(new) /\ (\E M : Chained(new, after, M)) /\ Len(after) = Len(cs)
    BY ONLY <1>5, <2>2, <2>3, <2>6, <2>7, <2>8, <2>9, <2>10, SendAppends
  <2>12. QueuesIn(new, after) = Longer(QueuesIn(heap, cs), c, v)
    BY ONLY <1>5, <2>2, <2>3, <2>6, <2>7, <2>8, <2>9, <2>10, SendAppends
  <2> QED BY ONLY <2>1, <2>11, <2>12 DEF Longer
<1>8. ChannelsOK' /\ Queues' = [Queues EXCEPT ![c] = Append(@, v)]
  BY <1>7 DEF ChannelsOK, Queues
<1>9. \A d \in DOMAIN chans : chans'[d].closed = chans[d].closed
  <2>1. chans \in Seq([head : Nat, tail : Nat, closed : BOOLEAN])
    BY <1>3 DEF Chained
  <2>2. \A d \in DOMAIN chans : d # c => chans'[d] = chans[d]
    BY <1>1, <1>4
  <2>3. chans'[c].closed = chans[c].closed
    <3>1. chans[c] \in [head : Nat, tail : Nat, closed : BOOLEAN]
      <4> DEFINE R == [head : Nat, tail : Nat, closed : BOOLEAN]
      <4>1. chans \in Seq(R)
        BY <2>1
      <4> HIDE DEF R
      <4>2. chans[c] \in R
        BY <1>4, <4>1
      <4> QED BY <4>2 DEF R
    <3>2. PICK x, y : chans'[c] = [chans[c] EXCEPT !.head = x, !.tail = y]
      BY <1>1, <1>4
    <3> QED BY <3>1, <3>2
  <2> QED BY <2>2, <2>3
<1>10. PICK n \in Nat : /\ n = Len(chans) /\ n = Len(chans') /\ DOMAIN chans = 1..n /\ DOMAIN chans' = 1..n
                        /\ DOMAIN Queues = 1..n
  <2>1. Len(chans) \in Nat /\ DOMAIN chans = 1..Len(chans) /\ DOMAIN chans' = 1..Len(chans')
    BY <1>8, ChannelTypes, Mapped DEF SyncInv
  <2>2. DOMAIN Queues = DOMAIN chans
    BY DEF Queues, QueuesIn
  <2> QED BY <1>7, <2>1, <2>2
<1>11. PICK woken \in Signalled(h) : ReturnAndWake(t, 0, woken)
  BY <1>1
<1>12. /\ \A u \in woken : u \in Threads /\ at[u].mode = "wait"
       /\ woken \subseteq Waiting(h)
       /\ Waiting(h) # {} => \E u \in Waiting(h) : woken = {u}
  BY <1>11 DEF Signalled, Waiting
<1>13. PICK e : e = [call |-> Op(t), ret |-> 0]
  OBVIOUS
<1>14. LogsOK(Logs', n) /\ Adds(Logs, Logs', e) /\ WaitersOK'
  BY <1>1, <1>7, <1>10, <1>11, <1>12, <1>13, CallLogged
<1>15. /\ \A d \in 1..n, w \in Payloads : Accepts(e, d, w) <=> d = c /\ w = v
       /\ \A d \in 1..n, w \in Payloads : ~Obtains(e, d, w)
  <2>1. e.call.op = "send" /\ e.call.chan = h /\ e.call.value = v /\ e.ret = 0
    BY <1>1, <1>5, <1>13
  <2>2. \A d \in 1..n : h = d - 1 <=> d = c
    BY <1>1, <1>4 DEF IsChan
  <2> HIDE DEF h
  <2> QED BY <2>1, <2>2 DEF Accepts, Obtains
<1>16. /\ SentBy(Logs', n) = [SentBy(Logs, n) EXCEPT ![c][v] = @ + 1]
       /\ ReceivedBy(Logs', n) = ReceivedBy(Logs, n)
  <2>1. c \in 1..n /\ Adds(Logs, Logs', e)
    BY <1>4, <1>10, <1>14
  <2>2. c \in 1..n
    BY <2>1
  <2>3. Adds(Logs, Logs', e)
    BY <2>1
  <2>4. \A d \in 1..n, w \in Payloads : Accepts(e, d, w) <=> d = c /\ w = v
    BY <1>15
  <2>5. \A d \in 1..n, w \in Payloads : ~Obtains(e, d, w)
    BY <1>15
  <2>6. SentBy(Logs', n) = Bumped(SentBy(Logs, n), c, v)
    BY ONLY <1>5, <1>10, <2>2, <2>3, <2>4, CountedOnce
  <2>7. ReceivedBy(Logs', n) = ReceivedBy(Logs, n)
    BY ONLY <1>5, <1>10, <2>2, <2>3, <2>5, CountedOnce
  <2> QED BY <2>6, <2>7 DEF Bumped
<1>17. Channels!Send(c, v)
  <2>1. /\ [d \in DOMAIN chans |-> [w \in Payloads |-> Sent(d, w)]]'
             = [[d \in DOMAIN chans |-> [w \in Payloads |-> Sent(d, w)]] EXCEPT ![c][v] = @ + 1]
        /\ [d \in DOMAIN chans |-> [w \in Payloads |-> Received(d, w)]]'
             = [d \in DOMAIN chans |-> [w \in Payloads |-> Received(d, w)]]
    BY <1>8, <1>10, <1>16, Mapped DEF SyncInv
  <2>2. [d \in DOMAIN chans |-> chans[d].closed]' = [d \in DOMAIN chans |-> chans[d].closed]
    BY <1>9, <1>10
  <2>3. ~[d \in DOMAIN chans |-> chans[d].closed][c]
    BY <1>1, <1>4 DEF Chan
  <2> QED BY <1>8, <2>1, <2>2, <2>3 DEF Channels!Send
<1>18. \A g : /\ Waiting(g)' = Waiting(g) \ woken
              /\ Woken(g)' = (Woken(g) \ {t}) \cup (Waiting(g) \cap woken)
  BY <1>1, <1>11, <1>12, AfterReturn DEF IInv
<1>19. \A g : t \notin Woken(g)
  BY <1>2 DEF Woken
<1>20. NoLostWakeup'
  <2> SUFFICES ASSUME NEW g \in 0..(n - 1)
               PROVE  Owed(Waiting(g)', Woken(g)', chans'[g + 1].closed, Queues'[g + 1])
    BY <1>10, OwedThen
  <2>1. /\ g + 1 \in DOMAIN chans /\ Queues \in Seq(Seq(Payloads))
        /\ Owed(Waiting(g), Woken(g), Chan(g).closed, Queues[g + 1])
    BY <1>10, OwedTo, ChannelTypes DEF SyncInv
  <2>2. CASE g = h
    <3> SUFFICES ASSUME Waiting(g)' # {}
                 PROVE  ~chans'[g + 1].closed /\ Len(Queues'[g + 1]) <= Cardinality(Woken(g)')
      BY DEF Owed
    <3>1. PICK u \in Waiting(h) : woken = {u}
      BY <1>12, <1>18, <2>2
    <3>2. Woken(g)' = Woken(g) \cup {u} /\ u \notin Woken(g)
      BY <1>18, <1>19, <2>2, <3>1 DEF Waiting, Woken
    <3>3. IsFiniteSet(Woken(g)) /\ Cardinality(Woken(g)) \in Nat
      BY ThreadsAreFew DEF Woken
    <3>4. Cardinality(Woken(g)') = Cardinality(Woken(g)) + 1
      BY <3>2, <3>3, FS_AddElement
    <3>5. Queues[c] \in Seq(Payloads) /\ Queues'[c] = Append(Queues[c], v) /\ g + 1 = c
      BY <1>4, <1>8, <1>10, <2>1, <2>2
    <3>6. Len(Queues'[c]) = Len(Queues[c]) + 1 /\ Len(Queues[c]) \in Nat
      BY <3>5
    <3>7. ~Chan(g).closed /\ Len(Queues[g + 1]) <= Cardinality(Woken(g))
      BY <2>1, <2>2, <3>1 DEF Owed
    <3>8. ~chans'[g + 1].closed
      BY <1>9, <2>1, <3>7 DEF Chan
    <3> QED BY <3>3, <3>4, <3>5, <3>6, <3>7, <3>8
  <2>3. CASE g # h
    <3>1. Waiting(g) \cap woken = {}
      BY <1>12, <2>3 DEF Waiting
    <3>2. Waiting(g)' = Waiting(g) /\ Woken(g)' = Woken(g)
      BY <1>18, <1>19, <3>1
    <3>3. g + 1 # c
      BY <1>1, <1>4, <2>3 DEF IsChan
    <3>4. Queues'[g + 1] = Queues[g + 1] /\ chans'[g + 1].closed = chans[g + 1].closed
      BY <1>8, <1>9, <1>10, <2>1, <3>3
    <3> QED BY <2>1, <3>2, <3>4 DEF Chan
  <2> QED BY <2>2, <2>3
<1> QED BY <1>4, <1>8, <1>10, <1>14, <1>17, <1>20 DEF SyncInv

(* Receiving takes the head; a woken receiver is owed no more.             *)
LEMMA ReceiveStep ==
  ASSUME IInv, SyncInv, NEW t \in Threads, UNCHANGED results,
         Calls(t, {"recv", "drain"}), IsChan(Op(t).chan), Chan(Op(t).chan).head # Null,
         chans' = [chans EXCEPT ![Op(t).chan + 1] = Unlinked(nodes, @)],
         nodes' = Restrict(nodes, DOMAIN nodes \ {Chan(Op(t).chan).head}),
         Return(t, nodes[Chan(Op(t).chan).head].value)
  PROVE  SyncInv' /\ \E c \in DOMAIN Queues : Channels!Receive(c)
<1> DEFINE h == Op(t).chan
<1>1. at[t].mode \in {"run", "woken"} /\ Op(t).op \in {"recv", "drain"}
  BY DEF Calls
<1>2. PICK L : HeapOK(nodes) /\ Chained(nodes, chans, L)
  BY DEF SyncInv, ChannelsOK
<1>3. PICK c : c = h + 1 /\ c \in DOMAIN chans
  BY ChannelTypes DEF SyncInv
<1>4. PICK x : x = nodes[Chan(h).head].value
  OBVIOUS
<1>5. /\ HeapOK(nodes') /\ \E M : Chained(nodes', chans', M)
      /\ Len(chans') = Len(chans)
      /\ QueuesIn(nodes, chans)[c] \in Seq(Payloads) /\ QueuesIn(nodes, chans)[c] # <<>>
      /\ x = Head(QueuesIn(nodes, chans)[c])
      /\ QueuesIn(nodes', chans') = Shorter(QueuesIn(nodes, chans), c)
  <2>1. PICK heap, cs, new, after : heap = nodes /\ cs = chans /\ new = nodes' /\ after = chans'
    OBVIOUS
  <2>2. new = HeapWithout(heap, cs, c)
    BY <1>3, <2>1 DEF HeapWithout, Chan
  <2>3. after = WithoutHead(heap, cs, c)
    BY <1>3, <2>1 DEF WithoutHead, Chan
  <2>4. HeapOK(heap)
    BY <1>2, <2>1
  <2>5. Chained(heap, cs, L)
    BY <1>2, <2>1
  <2>6. c \in DOMAIN cs
    BY <1>3, <2>1
  <2>7. cs[c].head # Null
    BY <1>3, <2>1 DEF Chan
  <2>8. HeapOK(new) /\ (\E M : Chained(new, after, M)) /\ Len(after) = Len(cs)
    BY ONLY <2>2, <2>3, <2>4, <2>5, <2>6, <2>7, ReceiveTakesHead
  <2>9. /\ QueuesIn(heap, cs)[c] \in Seq(Payloads) /\ QueuesIn(heap, cs)[c] # <<>>
        /\ heap[cs[c].head].value = Head(QueuesIn(heap, cs)[c])
        /\ QueuesIn(new, after) = Shorter(QueuesIn(heap, cs), c)
    BY ONLY <2>2, <2>3, <2>4, <2>5, <2>6, <2>7, ReceiveTakesHead
  <2>10. x = heap[cs[c].head].value
    BY <1>3, <1>4, <2>1 DEF Chan
  <2> QED BY ONLY <2>1, <2>8, <2>9, <2>10
<1>6. ChannelsOK' /\ Queues' = Shorter(Queues, c)
  BY <1>5 DEF ChannelsOK, Queues
<1>7. /\ Queues[c] \in Seq(Payloads) /\ Queues[c] # <<>> /\ x = Head(Queues[c]) /\ x \in Payloads
  <2>1. Queues[c] \in Seq(Payloads) /\ Queues[c] # <<>> /\ x = Head(Queues[c])
    BY <1>5 DEF Queues
  <2> QED BY <2>1
<1>8. \A d \in DOMAIN chans : chans'[d].closed = chans[d].closed
  <2>1. \A d \in DOMAIN chans : d # c => chans'[d] = chans[d]
    BY <1>3
  <2>2. chans'[c].closed = chans[c].closed
    <3>1. chans[c] \in [head : Nat, tail : Nat, closed : BOOLEAN]
      <4> DEFINE R == [head : Nat, tail : Nat, closed : BOOLEAN]
      <4>1. chans \in Seq(R)
        BY <1>2 DEF Chained
      <4> HIDE DEF R
      <4>2. chans[c] \in R
        BY <1>3, <4>1
      <4> QED BY <4>2 DEF R
    <3>2. PICK y, z : chans'[c] = [chans[c] EXCEPT !.head = y, !.tail = z]
      BY <1>3 DEF Unlinked
    <3> QED BY <3>1, <3>2
  <2> QED BY <2>1, <2>2
<1>9. PICK n \in Nat : /\ n = Len(chans) /\ n = Len(chans') /\ DOMAIN chans = 1..n /\ DOMAIN chans' = 1..n
                       /\ DOMAIN Queues = 1..n
  <2>1. Len(chans) \in Nat /\ DOMAIN chans = 1..Len(chans) /\ DOMAIN chans' = 1..Len(chans')
    BY <1>6, ChannelTypes, Mapped DEF SyncInv
  <2>2. DOMAIN Queues = DOMAIN chans
    BY DEF Queues, QueuesIn
  <2> QED BY <1>5, <2>1, <2>2
<1>10. ReturnAndWake(t, x, {}) /\ \A u \in {} : u \in Threads /\ at[u].mode = "wait"
  BY <1>4 DEF Return, ReturnAndWake, IInv, ThreadsOK
<1>11. PICK e : e = [call |-> Op(t), ret |-> x]
  OBVIOUS
<1>12. LogsOK(Logs', n) /\ Adds(Logs, Logs', e) /\ WaitersOK'
  BY <1>1, <1>5, <1>9, <1>10, <1>11, CallLogged
<1>13. /\ \A d \in 1..n, w \in Payloads : Obtains(e, d, w) <=> d = c /\ w = x
       /\ \A d \in 1..n, w \in Payloads : ~Accepts(e, d, w)
  <2>1. e.call.op \in {"recv", "drain"} /\ e.call.chan = h /\ e.ret = x
    BY <1>1, <1>11
  <2>2. \A d \in 1..n : h = d - 1 <=> d = c
    BY <1>3 DEF IsChan
  <2> HIDE DEF h
  <2> QED BY <2>1, <2>2 DEF Accepts, Obtains
<1>14. /\ ReceivedBy(Logs', n) = Bumped(ReceivedBy(Logs, n), c, x)
       /\ SentBy(Logs', n) = SentBy(Logs, n)
  <2>1. c \in 1..n /\ x \in Payloads
    BY <1>3, <1>7, <1>9
  <2>2. Adds(Logs, Logs', e)
    BY <1>12
  <2>3. \A d \in 1..n, w \in Payloads : Obtains(e, d, w) <=> d = c /\ w = x
    BY <1>13
  <2>4. \A d \in 1..n, w \in Payloads : ~Accepts(e, d, w)
    BY <1>13
  <2>5. ReceivedBy(Logs', n) = Bumped(ReceivedBy(Logs, n), c, x)
    BY ONLY <1>9, <2>1, <2>2, <2>3, CountedOnce
  <2>6. SentBy(Logs', n) = SentBy(Logs, n)
    BY ONLY <1>9, <2>1, <2>2, <2>4, CountedOnce
  <2> QED BY <2>5, <2>6
<1>15. Channels!Receive(c)
  <2>1. /\ [d \in DOMAIN chans |-> [w \in Payloads |-> Sent(d, w)]]'
             = [d \in DOMAIN chans |-> [w \in Payloads |-> Sent(d, w)]]
        /\ [d \in DOMAIN chans |-> [w \in Payloads |-> Received(d, w)]]'
             = [[d \in DOMAIN chans |-> [w \in Payloads |-> Received(d, w)]] EXCEPT ![c][x] = @ + 1]
    BY <1>6, <1>9, <1>14, Mapped DEF SyncInv, Bumped
  <2>2. [d \in DOMAIN chans |-> chans[d].closed]' = [d \in DOMAIN chans |-> chans[d].closed]
    BY <1>8, <1>9
  <2>3. Queues' = [Queues EXCEPT ![c] = Tail(@)]
    BY <1>6 DEF Shorter
  <2> QED BY <1>7, <2>1, <2>2, <2>3 DEF Channels!Receive
<1>16. \A g : /\ Waiting(g)' = Waiting(g) \ {}
              /\ Woken(g)' = (Woken(g) \ {t}) \cup (Waiting(g) \cap {})
  BY <1>1, <1>10, AfterReturn DEF IInv
<1>17. NoLostWakeup'
  <2> SUFFICES ASSUME NEW g \in 0..(n - 1), Waiting(g)' # {}
               PROVE  ~chans'[g + 1].closed /\ Len(Queues'[g + 1]) <= Cardinality(Woken(g)')
    BY <1>9, OwedThen DEF Owed
  <2>1. /\ g + 1 \in DOMAIN chans /\ Queues \in Seq(Seq(Payloads))
        /\ ~Chan(g).closed /\ Len(Queues[g + 1]) <= Cardinality(Woken(g))
    BY <1>9, <1>16, OwedTo, ChannelTypes DEF SyncInv, Owed
  <2>2. ~chans'[g + 1].closed
    BY <1>8, <2>1 DEF Chan
  <2>3. CASE g = h
    <3>1. IsFiniteSet(Woken(g)) /\ Cardinality(Woken(g)) \in Nat
      BY ThreadsAreFew DEF Woken
    <3>2. Cardinality(Woken(g)') >= Cardinality(Woken(g)) - 1
      <4>1. CASE t \in Woken(g)
        <5>1. Woken(g)' = Woken(g) \ {t}
          BY <1>16
        <5>2. Cardinality(Woken(g) \ {t}) = Cardinality(Woken(g)) - 1
          BY <3>1, <4>1, FS_RemoveElement
        <5> QED BY <3>1, <5>1, <5>2
      <4>2. CASE t \notin Woken(g)
        <5>1. Woken(g)' = Woken(g)
          BY <1>16, <4>2
        <5> QED BY <3>1, <5>1
      <4> QED BY <4>1, <4>2
    <3>3. Queues'[c] = Tail(Queues[c]) /\ g + 1 = c
      BY <1>3, <1>6, <1>9, <2>3 DEF Shorter
    <3>4. Len(Queues'[c]) = Len(Queues[c]) - 1 /\ Len(Queues[c]) \in Nat
      BY <1>7, <3>3
    <3>5. Cardinality(Woken(g)') \in Nat
      <4>1. Woken(g)' \subseteq Threads
        BY <1>16 DEF Woken
      <4> QED BY <4>1, ThreadsAreFew
    <3>6. PICK a, b \in Nat : a = Cardinality(Woken(g)) /\ b = Cardinality(Woken(g)')
      BY <3>1, <3>5
    <3>7. PICK k \in Nat : k = Len(Queues[c])
      BY <3>4
    <3>8. k <= a
      BY <2>1, <3>3, <3>6, <3>7
    <3>9. b >= a - 1
      BY <3>2, <3>6
    <3>10. Len(Queues'[c]) = k - 1
      BY <3>4, <3>7
    <3>11. Len(Queues'[g + 1]) = Len(Queues'[c])
      BY <3>3
    <3>12. k - 1 <= b
      BY <3>8, <3>9
    <3> QED BY ONLY <2>2, <3>6, <3>10, <3>11, <3>12
  <2>4. CASE g # h
    <3>1. t \notin Woken(g)
      BY <2>4 DEF Woken
    <3>2. Woken(g)' = Woken(g)
      BY <1>16, <3>1
    <3>3. g + 1 # c
      BY <1>3, <2>4 DEF IsChan
    <3>4. Queues'[g + 1] = Queues[g + 1]
      BY <1>6, <1>9, <2>1, <3>3 DEF Shorter
    <3> QED BY <2>1, <2>2, <3>2, <3>4
  <2> QED BY <2>3, <2>4
<1> QED BY <1>3, <1>6, <1>9, <1>12, <1>15, <1>17 DEF SyncInv

(* A step in which no call returns leaves the logs.                        *)
LEMMA LogsStay ==
  ASSUME IInv, UNCHANGED results, SameTasks, \A u \in Threads : Active(u) => at'[u].log = at[u].log
  PROVE  Logs' = Logs
<1>1. Alone(at, results)
  BY TasksAreOwned DEF EachTaskOnce, Alone, Active
<1>2. \A u \in Threads : /\ at[u].mode # "off" <=> at'[u].mode # "off"
                         /\ at[u].mode # "off" => at'[u].task = at[u].task /\ at'[u].log = at[u].log
  BY DEF SameTasks, Active
<1>3. \A task : LogOf(at', results, task) = LogOf(at, results, task)
  <2>1. PICK a, b : a = at /\ b = at'
    OBVIOUS
  <2>2. Alone(a, results)
    BY <1>1, <2>1
  <2>3. \A u \in Threads : /\ a[u].mode # "off" <=> b[u].mode # "off"
                           /\ a[u].mode # "off" => b[u].task = a[u].task /\ b[u].log = a[u].log
    BY <1>2, <2>1
  <2>4. \A task : LogOf(b, results, task) = LogOf(a, results, task)
    BY ONLY <2>2, <2>3, LogStays
  <2> QED BY <2>1, <2>4
<1>4. /\ Logs = [task \in 0..N |-> LogOf(at, results, task)]
      /\ Logs' = [task \in 0..N |-> LogOf(at', results, task)]
  BY CountsDoMatch, MatchesThen DEF CountsMatch
<1> QED BY <1>3, <1>4

(* A receiver that finds an open channel empty waits: nothing is owed.     *)
LEMMA WaitStep ==
  ASSUME IInv, SyncInv, NEW t \in Threads, UNCHANGED <<results, chans, nodes>>,
         Calls(t, {"recv", "drain"}), IsChan(Op(t).chan),
         Chan(Op(t).chan).head = Null, ~Chan(Op(t).chan).closed,
         at' = [at EXCEPT ![t].mode = "wait"]
  PROVE  SyncInv' /\ UNCHANGED Channels!vars
<1> DEFINE h == Op(t).chan
<1>1. at[t].mode # "off" /\ Op(t).op \in {"recv", "drain"}
  BY DEF Calls
<1>2. at'[t].mode = "wait" /\ \A u \in Threads : Op(u)' = Op(u) /\ (u # t => at'[u] = at[u])
  BY <1>1, AfterModeStep DEF IInv
<1>3. Logs' = Logs
  BY <1>1, ModeStepShape, LogsStay DEF IInv
<1>4. WaitersOK'
  <2> SUFFICES ASSUME NEW u \in Threads, at'[u].mode \in {"wait", "woken"}
               PROVE  Op(u)'.op \in {"recv", "drain"} /\ IsChan(Op(u).chan)'
    BY DEF WaitersOK
  <2>1. Op(u).op \in {"recv", "drain"} /\ IsChan(Op(u).chan)
    BY <1>1, <1>2 DEF SyncInv, WaitersOK
  <2> QED BY <1>2, <2>1 DEF IsChan
<1>5. ASSUME NEW g, IsChan(g), Waiting(g)' # {}
      PROVE  Len(Queues[g + 1]) <= Cardinality(Woken(g)') /\ ~Chan(g).closed
  <2>1. CASE g = h
    <3>1. Len(Queues[g + 1]) = 0
      BY <2>1, ChannelTypes DEF SyncInv
    <3>2. Woken(g)' \subseteq Threads
      BY DEF Woken
    <3>3. Cardinality(Woken(g)') \in Nat
      BY <3>2, ThreadsAreFew
    <3> QED BY <2>1, <3>1, <3>3
  <2>2. CASE g # h
    <3>1. Waiting(g)' = Waiting(g) /\ Woken(g)' = Woken(g)
      BY <1>2, <2>2 DEF Waiting, Woken
    <3> QED BY <1>5, <3>1, OwedTo DEF SyncInv, Owed, IsChan
  <2> QED BY <2>1, <2>2
<1>6. Uncounting /\ LogsOK(Logs', Len(chans))
  BY <1>3 DEF Uncounting, SyncInv
<1> QED BY <1>4, <1>5, <1>6, QuietStep

(* A spurious wakeup owes to one thread more than it has to.               *)
LEMMA SpuriousStep ==
  ASSUME IInv, SyncInv, NEW t \in Threads, SpuriousWakeup(t)
  PROVE  SyncInv' /\ UNCHANGED Channels!vars
<1>1. /\ at[t].mode = "wait" /\ at[t].mode # "off" /\ at' = [at EXCEPT ![t].mode = "woken"]
      /\ UNCHANGED <<results, chans, nodes>>
  BY DEF SpuriousWakeup, syncVars
<1>2. at'[t].mode = "woken" /\ \A u \in Threads : Op(u)' = Op(u) /\ (u # t => at'[u] = at[u])
  BY <1>1, AfterModeStep DEF IInv
<1>3. Logs' = Logs
  BY <1>1, ModeStepShape, LogsStay DEF IInv
<1>4. WaitersOK'
  <2> SUFFICES ASSUME NEW u \in Threads, at'[u].mode \in {"wait", "woken"}
               PROVE  Op(u)'.op \in {"recv", "drain"} /\ IsChan(Op(u).chan)'
    BY DEF WaitersOK
  <2>1. Op(u).op \in {"recv", "drain"} /\ IsChan(Op(u).chan)
    BY <1>1, <1>2 DEF SyncInv, WaitersOK
  <2> QED BY <1>1, <1>2, <2>1 DEF IsChan
<1>5. ASSUME NEW g, IsChan(g), Waiting(g)' # {}
      PROVE  Len(Queues[g + 1]) <= Cardinality(Woken(g)') /\ ~Chan(g).closed
  <2>1. Waiting(g) # {} /\ Woken(g) \subseteq Woken(g)' /\ Woken(g)' \subseteq Threads
    BY <1>1, <1>2, <1>5 DEF Waiting, Woken
  <2>2. /\ Cardinality(Woken(g)) <= Cardinality(Woken(g)')
        /\ Cardinality(Woken(g)) \in Nat /\ Cardinality(Woken(g)') \in Nat
    <3>1. IsFiniteSet(Woken(g)') /\ Woken(g) \subseteq Threads
      BY <2>1, ThreadsAreFew DEF Woken
    <3> QED BY <2>1, <3>1, ThreadsAreFew, FS_Subset
  <2>3. Len(Queues[g + 1]) <= Cardinality(Woken(g)) /\ ~Chan(g).closed
    BY <1>5, <2>1, OwedTo DEF SyncInv, Owed, IsChan
  <2>4. Len(Queues[g + 1]) \in Nat
    <3>1. Queues \in Seq(Seq(Payloads)) /\ g + 1 \in 1..Len(Queues)
      BY <1>5, ChannelTypes DEF SyncInv
    <3>2. Queues[g + 1] \in Seq(Payloads)
      BY <3>1
    <3> QED BY <3>2
  <2> QED BY <2>2, <2>3, <2>4
<1>6. Uncounting /\ LogsOK(Logs', Len(chans))
  BY <1>1, <1>3 DEF Uncounting, SyncInv
<1> QED BY <1>1, <1>4, <1>5, <1>6, QuietStep

(* The same of the next state.                                             *)
LEMMA OwnedThen == IInv' => EachTaskOnce'
BY TasksAreOwned, PTL

(* Threads that do not wait come and go, and their logs stay.              *)
LEMMA MoveStep ==
  ASSUME IInv, IInv', SyncInv, NEW t \in Threads, UNCHANGED <<chans, nodes>>,
         Moves(at, results, at', results', t), ~Awaits(t), ~Awaits(t)'
  PROVE  SyncInv' /\ UNCHANGED Channels!vars
<1>1. Alone(at, results) /\ Alone(at', results')
  BY TasksAreOwned, OwnedThen DEF EachTaskOnce, Alone, Active
<1>2. \A task : LogOf(at', results', task) = LogOf(at, results, task)
  <2>1. PICK a, b, r, q : a = at /\ b = at' /\ r = results /\ q = results'
    OBVIOUS
  <2>2. Alone(a, r)
    BY <1>1, <2>1
  <2>3. Alone(b, q)
    BY <1>1, <2>1
  <2>4. Moves(a, r, b, q, t)
    BY <2>1
  <2>5. \A task : LogOf(b, q, task) = LogOf(a, r, task)
    BY ONLY <2>2, <2>3, <2>4, t \in Threads, LogMoves
  <2> QED BY <2>1, <2>5
<1>3. Logs' = Logs
  <2>1. /\ Logs = [task \in 0..N |-> LogOf(at, results, task)]
        /\ Logs' = [task \in 0..N |-> LogOf(at', results', task)]
    BY CountsDoMatch, MatchesThen DEF CountsMatch
  <2> QED BY <1>2, <2>1
<1>4. \A u \in Threads : u # t => at'[u] = at[u] /\ Op(u)' = Op(u)
  BY DEF Moves, Op, Code
<1>5. WaitersOK'
  <2> SUFFICES ASSUME NEW u \in Threads, at'[u].mode \in {"wait", "woken"}
               PROVE  Op(u)'.op \in {"recv", "drain"} /\ IsChan(Op(u).chan)'
    BY DEF WaitersOK
  <2>1. u # t
    BY DEF Awaits
  <2>2. Op(u).op \in {"recv", "drain"} /\ IsChan(Op(u).chan)
    BY <1>4, <2>1 DEF SyncInv, WaitersOK
  <2> QED BY <1>4, <2>1, <2>2 DEF IsChan
<1>6. \A g : Waiting(g)' = Waiting(g) /\ Woken(g)' = Woken(g)
  BY <1>4 DEF Waiting, Woken, Awaits
<1>7. \A g : IsChan(g) /\ Waiting(g)' # {} =>
        Len(Queues[g + 1]) <= Cardinality(Woken(g)') /\ ~Chan(g).closed
  BY <1>6, OwedTo DEF SyncInv, Owed, IsChan
<1>8. Uncounting /\ LogsOK(Logs', Len(chans))
  BY <1>3 DEF Uncounting, SyncInv
<1> QED BY <1>5, <1>7, <1>8, QuietStep

(* A task returns, and its thread goes on with the next or leaves.         *)
LEMMA TaskReturnsStep ==
  ASSUME IInv, IInv', SyncInv, NEW t \in Threads, TaskReturns(t)
  PROVE  SyncInv' /\ UNCHANGED Channels!vars
<1> DEFINE task == at[t].task
<1>1. /\ at[t].mode = "run" /\ UNCHANGED <<chans, nodes>>
      /\ results' = [done \in DOMAIN results \cup {task} |-> IF done = task THEN at[t].log ELSE results[done]]
      /\ at' = [at EXCEPT ![t] = IF task # 0 /\ Following(task) <= N THEN Begin(Following(task)) ELSE Off]
  BY DEF TaskReturns, syncVars
<1>2. /\ \A u \in Threads \ {t} : at'[u] = at[u]
      /\ at'[t] = Off \/ (at'[t] = Begin(Following(task)))
  BY <1>1 DEF IInv, ThreadsOK
<1>3. Following(task) # task
  <2>1. task \in 0..N /\ W \in Nat \ {0} /\ N \in Nat
    BY <1>1, PoolSize DEF IInv, ThreadsOK, IsRunning, Off
  <2>2. PICK k \in Nat : k = task
    BY <2>1
  <2> HIDE DEF task
  <2> QED BY <2>1, <2>2 DEF Following
<1>4. /\ Off.mode = "off"
      /\ \A k : Begin(k).mode = "run" /\ Begin(k).log = <<>> /\ Begin(k).task = k
  BY DEF Off, Begin
<1>5. ~Awaits(t) /\ ~Awaits(t)'
  BY <1>1, <1>2, <1>4 DEF Awaits
<1>6. Moves(at, results, at', results', t)
  <2>1. at[t].mode # "off"
    BY <1>1
  <2>2. at'[t].mode # "off" => at'[t].log = <<>> /\ (at[t].mode # "off" => at[t].task # at'[t].task)
    BY <1>2, <1>3, <1>4
  <2> QED BY <1>1, <1>2, <2>1, <2>2 DEF Moves
<1> QED BY <1>1, <1>5, <1>6, MoveStep

(* The caller starts threads that were off, on tasks nobody ran.           *)
LEMMA CallerStep ==
  ASSUME IInv, IInv', SyncInv, Caller
  PROVE  SyncInv' /\ UNCHANGED Channels!vars
<1>1. 0 \in Threads /\ W \in Nat \ {0} /\ Threads = 0..(W - 1) /\ next \in 1..W
  BY PoolSize DEF IInv, WorkOK, PhasesOK
<1>2. UNCHANGED <<results, chans, nodes>>
  BY DEF Caller, EnterParMap, StartWorker, RunOwnPartition, JoinWorker, LeaveParMap, syncVars
<1>3. CASE UNCHANGED at
  <2>1. Logs' = Logs
    <3>1. SameTasks /\ \A u \in Threads : Active(u) => at'[u].log = at[u].log
      BY <1>3 DEF SameTasks, Active
    <3> QED BY <1>2, <3>1, LogsStay
  <2>2. WaitersOK' /\ \A g : Waiting(g)' = Waiting(g) /\ Woken(g)' = Woken(g)
    BY <1>2, <1>3 DEF SyncInv, WaitersOK, Waiting, Woken, IsChan, Op, Code
  <2>3. \A g : IsChan(g) /\ Waiting(g)' # {} =>
          Len(Queues[g + 1]) <= Cardinality(Woken(g)') /\ ~Chan(g).closed
    BY <2>2, OwedTo DEF SyncInv, Owed, IsChan
  <2>4. Uncounting /\ LogsOK(Logs', Len(chans))
    BY <2>1 DEF Uncounting, SyncInv
  <2> QED BY <1>2, <2>2, <2>3, <2>4, QuietStep
<1>4. ASSUME NEW t \in Threads, ~Active(t), NEW task, at' = [at EXCEPT ![t] = Begin(task)]
      PROVE  SyncInv' /\ UNCHANGED Channels!vars
  <2>1. at[t].mode = "off" /\ at'[t] = Begin(task) /\ \A u \in Threads \ {t} : at'[u] = at[u]
    BY <1>4 DEF Active, IInv, ThreadsOK
  <2>2. at'[t].mode = "run" /\ at'[t].log = <<>>
    BY <2>1 DEF Begin
  <2>3. Moves(at, results, at', results', t)
    BY <1>2, <2>1, <2>2 DEF Moves
  <2>4. ~Awaits(t) /\ ~Awaits(t)'
    BY <2>1, <2>2 DEF Awaits
  <2> QED BY <1>2, <2>3, <2>4, MoveStep
<1>5. CASE StartWorker
  <2>1. phase = "spawn" /\ next < W /\ ~Active(0) /\ next \in Threads
    BY <1>1, <1>5 DEF StartWorker
  <2>2. ~Active(next)
    BY <2>1, NextIsIdle DEF IInv
  <2>3. at' = [at EXCEPT ![next] = Begin(next + 1)] \/ at' = [at EXCEPT ![0] = Begin(next + 1)]
    BY <1>5 DEF StartWorker
  <2>4. PICK p, k : p = next /\ k = next + 1
    OBVIOUS
  <2>5. p \in Threads /\ ~Active(p) /\ (at' = [at EXCEPT ![p] = Begin(k)] \/ at' = [at EXCEPT ![0] = Begin(k)])
    BY <2>1, <2>2, <2>3, <2>4
  <2> QED BY <1>1, <1>4, <2>1, <2>5
<1>6. CASE RunOwnPartition
  BY <1>1, <1>4, <1>6 DEF RunOwnPartition
<1>7. CASE EnterParMap \/ JoinWorker \/ LeaveParMap
  BY <1>3, <1>7 DEF EnterParMap, JoinWorker, LeaveParMap
<1> QED BY <1>5, <1>6, <1>7 DEF Caller

(* Every call is one step of the abstract channels, or none.               *)
LEMMA CallStep ==
  ASSUME IInv, SyncInv, NEW t \in Threads, Call(t)
  PROVE  SyncInv' /\ [Channels!Next]_(Channels!vars)
<1>1. UNCHANGED results
  BY DEF Call
<1>2. \A u \in Threads : Op(u).op \in {"recv", "drain"} => Op(u).op \notin {"chan_new", "send", "close"}
  OBVIOUS
<1>3. CASE ChanNew(t)
  <2>1. CASE Fail(t)
    <3>1. at[t].mode \in {"run", "woken"} /\ Op(t).op \notin {"recv", "drain"}
      BY <1>3 DEF ChanNew, Calls
    <3> QED BY <1>1, <2>1, <3>1, FailKeeps
  <2>2. CASE ~Fail(t)
    BY <1>1, <1>3, <2>2, NewStep DEF Channels!Next
  <2> QED BY <2>1, <2>2
<1>4. CASE ChanSend(t)
  <2>1. CASE Fail(t)
    <3>1. at[t].mode \in {"run", "woken"} /\ Op(t).op \notin {"recv", "drain"}
      BY <1>4 DEF ChanSend, Calls
    <3> QED BY <1>1, <2>1, <3>1, FailKeeps
  <2>2. CASE ~Fail(t)
    BY <1>1, <1>4, <2>2, SendStep DEF Channels!Next
  <2> QED BY <2>1, <2>2
<1>5. CASE ChanClose(t)
  <2>1. CASE Fail(t)
    <3>1. at[t].mode \in {"run", "woken"} /\ Op(t).op \notin {"recv", "drain"}
      BY <1>5 DEF ChanClose, Calls
    <3> QED BY <1>1, <2>1, <3>1, FailKeeps
  <2>2. CASE ~Fail(t)
    BY <1>1, <1>5, <2>2, CloseStep DEF Channels!Next
  <2> QED BY <2>1, <2>2
<1>6. CASE ChanRecv(t)
  <2>1. Calls(t, {"recv", "drain"}) /\ at[t].mode \in {"run", "woken"}
    BY <1>6 DEF ChanRecv, Calls
  <2>2. CASE Fail(t) /\ (~IsChan(Op(t).chan) \/ Chan(Op(t).chan).closed)
    BY <1>1, <2>1, <2>2, FailKeeps
  <2>3. CASE /\ IsChan(Op(t).chan) /\ Chan(Op(t).chan).head = Null /\ ~Chan(Op(t).chan).closed
             /\ at' = [at EXCEPT ![t].mode = "wait"] /\ UNCHANGED syncVars
    BY <1>1, <2>1, <2>3, WaitStep DEF syncVars
  <2>4. CASE /\ IsChan(Op(t).chan) /\ Chan(Op(t).chan).head # Null
             /\ chans' = [chans EXCEPT ![Op(t).chan + 1] = Unlinked(nodes, @)]
             /\ nodes' = Restrict(nodes, DOMAIN nodes \ {Chan(Op(t).chan).head})
             /\ Return(t, nodes[Chan(Op(t).chan).head].value)
    BY <1>1, <2>1, <2>4, ReceiveStep DEF Channels!Next
  <2> QED BY <1>6, <2>2, <2>3, <2>4 DEF ChanRecv
<1>7. CASE MutexNew(t) \/ MutexLock(t) \/ MutexUnlock(t)
  BY <1>1, <1>7, MutexKeeps
<1> QED BY <1>3, <1>4, <1>5, <1>6, <1>7 DEF Call

-----------------------------------------------------------------------------
(* The channels start with none, and no call has returned.                 *)
LEMMA InitChannels == Init => IInv /\ SyncInv /\ Channels!Init
<1> SUFFICES ASSUME Init PROVE IInv /\ SyncInv /\ Channels!Init
  OBVIOUS
<1>1. IInv
  BY InitInvariant
<1>2. /\ 0 \in Threads /\ 0 \in 0..N /\ W \in Nat \ {0} /\ N \in Nat
      /\ chans = <<>> /\ DOMAIN nodes = {} /\ nodes = [n \in {} |-> Null] /\ DOMAIN results = {}
      /\ at[0] = Begin(0) /\ \A t \in Threads \ {0} : at[t] = Off
  BY PoolSize DEF Init
<1>3. /\ Off.mode = "off" /\ Begin(0).mode = "run" /\ Begin(0).log = <<>> /\ Begin(0).task = 0
  BY DEF Off, Begin
<1>4. /\ DOMAIN chans = {} /\ Len(chans) = 0
      /\ chans \in Seq([head : Nat, tail : Nat, closed : BOOLEAN])
  BY <1>2
<1>5. ChannelsOK
  <2>1. HeapOK(nodes)
    BY <1>2, FS_EmptySet DEF HeapOK
  <2>2. Chained(nodes, chans, [c \in {} |-> <<>>])
    BY <1>4 DEF Chained
  <2> QED BY <2>1, <2>2 DEF ChannelsOK
<1>6. WaitersOK
  BY <1>2, <1>3 DEF WaitersOK
<1>7. NoLostWakeup
  BY <1>4 DEF NoLostWakeup
<1>8. \A task \in 0..N : Logs[task] = <<>>
  <2>1. Alone(at, results)
    BY <1>1, TasksAreOwned DEF EachTaskOnce, Alone, Active
  <2>2. Logs = [task \in 0..N |-> LogOf(at, results, task)]
    BY CountsDoMatch DEF CountsMatch
  <2>3. ASSUME NEW task \in 0..N
        PROVE  LogOf(at, results, task) = <<>>
    <3>1. CASE task = 0
      <4>1. at[0].mode # "off" /\ at[0].task = 0 /\ at[0].log = <<>>
        BY <1>2, <1>3
      <4> QED BY <1>2, <2>1, <3>1, <4>1, LogOfRunning
    <3>2. CASE task # 0
      <4>1. \A u \in Threads : at[u].mode # "off" => at[u].task # task
        BY <1>2, <1>3, <3>2
      <4>2. LogOf(at, results, task) = IF task \in DOMAIN results THEN results[task] ELSE <<>>
        BY <4>1, LogOfOther
      <4> QED BY <1>2, <4>2
    <3> QED BY <3>1, <3>2
  <2> QED BY <2>2, <2>3
<1>9. LogsOK(Logs, Len(chans))
  <2>1. CallsIn(Logs) = {}
    BY <1>8 DEF CallsIn
  <2>2. ASSUME NEW task \in 0..N
        PROVE  Logs[task] \in Seq(Range(Logs[task]))
    <3>1. PICK S : S = Range(Logs[task])
      OBVIOUS
    <3>2. <<>> \in Seq(S)
      OBVIOUS
    <3> QED BY <1>8, <3>1, <3>2
  <2> QED BY <2>1, <2>2, FS_EmptySet DEF LogsOK, Logs
<1>10. Channels!Init
  <2>1. Queues = <<>>
    BY <1>4 DEF Queues, QueuesIn
  <2> QED BY <1>4, <2>1 DEF Channels!Init
<1> QED BY <1>1, <1>5, <1>6, <1>7, <1>9, <1>10 DEF SyncInv

(* Every step of the threads is one of the abstract channels, or none.     *)
LEMMA NextChannels == IInv /\ IInv' /\ SyncInv /\ [Next]_vars => SyncInv' /\ [Channels!Next]_(Channels!vars)
<1> SUFFICES ASSUME IInv, IInv', SyncInv, [Next]_vars
             PROVE  SyncInv' /\ [Channels!Next]_(Channels!vars)
  OBVIOUS
<1>1. CASE Caller
  BY <1>1, CallerStep
<1>2. ASSUME NEW t \in Threads, Thread(t) \/ SpuriousWakeup(t)
      PROVE  SyncInv' /\ [Channels!Next]_(Channels!vars)
  BY <1>2, CallStep, TaskReturnsStep, SpuriousStep DEF Thread
<1>3. CASE UNCHANGED vars
  <2>1. UNCHANGED <<results, chans, nodes, at>>
    BY <1>3 DEF vars
  <2>2. Logs' = Logs
    <3>1. SameTasks /\ \A u \in Threads : Active(u) => at'[u].log = at[u].log
      BY <2>1 DEF SameTasks, Active
    <3> QED BY <2>1, <3>1, LogsStay
  <2>3. WaitersOK' /\ \A g : Waiting(g)' = Waiting(g) /\ Woken(g)' = Woken(g)
    BY <2>1 DEF SyncInv, WaitersOK, Waiting, Woken, IsChan, Op, Code
  <2>4. \A g : IsChan(g) /\ Waiting(g)' # {} =>
          Len(Queues[g + 1]) <= Cardinality(Woken(g)') /\ ~Chan(g).closed
    BY <2>3, OwedTo DEF SyncInv, Owed, IsChan
  <2>5. Uncounting /\ LogsOK(Logs', Len(chans))
    BY <2>2 DEF Uncounting, SyncInv
  <2> QED BY <2>1, <2>3, <2>4, <2>5, QuietStep
<1> QED BY <1>1, <1>2, <1>3 DEF Next

(* The invariant of the channels holds in every reachable state.           *)
THEOREM ChannelsInvariance == Spec => [](IInv /\ SyncInv)
<1>1. Spec => []IInv
  BY PoolInvariance
<1>2. Init => SyncInv
  BY InitChannels
<1>3. IInv /\ IInv' /\ SyncInv /\ [Next]_vars => SyncInv'
  BY NextChannels
<1> QED BY <1>1, <1>2, <1>3, PTL DEF Spec

(* No wakeup is lost (tuo_rt_chan_send, tuo_rt_chan_recv): each send wakes *)
(* one of the receivers that wait, each receiver that wakes looks again,   *)
(* and a close wakes all, so a receiver never sleeps while its channel is  *)
(* closed or has a value no woken thread is on its way to.                 *)
THEOREM NoWakeupIsLost == Spec => []NoLostWakeup
<1>1. SyncInv => NoLostWakeup
  BY DEF SyncInv
<1> QED BY <1>1, ChannelsInvariance, PTL

(* The linked lists of nodes that threads push to and pop from, seen       *)
(* through what their calls return, are the FIFO channels of ADR-0015, for *)
(* every program, any number of threads and however they interleave.       *)
THEOREM PoolImplementsFifo == Spec => ImplementsFifo
<1>1. Init => Channels!Init
  BY InitChannels
<1>2. IInv /\ IInv' /\ SyncInv /\ [Next]_vars => [Channels!Next]_(Channels!vars)
  BY NextChannels
<1>3. Spec => [](IInv /\ SyncInv)
  BY ChannelsInvariance
<1> QED BY <1>1, <1>2, <1>3, PTL DEF Spec, ImplementsFifo, Channels!Spec
===============================================================================
