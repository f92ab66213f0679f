------------------------------ MODULE RtNetProofs ------------------------------
(***************************************************************************)
(* The sockets of the runtime, for every program, any number of tasks,     *)
(* slots, descriptors and signals: bounded waits end exactly when they     *)
(* should, a call that was told its socket is ready has something to take  *)
(* unless another works on the descriptor, the table of staged datagrams   *)
(* is sound unless two threads search it at once, who is alone on a socket *)
(* reads its datagrams, and no call forgets a socket that it opened.       *)
(***************************************************************************)
EXTENDS RtNet, WellFoundedInduction, TLAPS

Phases == {"call", "poll", "io", "find", "free", "claim", "store"}

WaitFields == {"pc", "phase", "last", "fd", "ms", "start", "remaining", "until", "slot", "got"}

(* What a call that returned left: a timeout that came when it should.     *)
LastOK(a) ==
  a.op \in Waiting /\ a.result = NetTimeout /\ Fits(a.call.ms) => a.end = a.start + a.call.ms

(* A round of a wait: it ends when the call's time is over, whatever the   *)
(* rounds before it were.                                                  *)
RoundOK(r) ==
  /\ r.start \in Nat /\ r.start <= now /\ r.remaining \in Nat
  /\ Fits(r.ms) =>
       /\ r.until = r.start + r.ms /\ now <= r.until
       /\ r.remaining = 0 => now = r.until

(* Thread t is where r says, in a call that waits, or between two calls.   *)
PlaceOK(t, r) ==
  /\ r.pc \in Nat \ {0} /\ r.phase \in Phases
  /\ LastOK(r.last)
  /\ r.phase # "call" =>
       /\ DOMAIN r = WaitFields
       /\ r.pc <= Len(Code(t))
       /\ Code(t)[r.pc].op \in Waiting
       /\ r.ms = Code(t)[r.pc].ms /\ r.ms \in Nat
       /\ Code(t)[r.pc].op = "connect" => r.fd \in Fds
       /\ r.phase \in {"find", "free", "claim", "store"} => Code(t)[r.pc].op = "recv"
  /\ r.phase = "poll" => RoundOK(r)
  /\ r.phase = "store" => r.got \in DOMAIN Datagrams

(* Tasks are in calls only when main has made its own.                     *)
ThreadsOK ==
  /\ prog \in Programs /\ now \in Nat
  /\ at = [t \in Threads |-> at[t]]
  /\ \A t \in Threads : PlaceOK(t, at[t])
  /\ \A t \in Threads : at[t].phase # "call" => t = 0 \/ Done(0)

(* A thread between finding no slot for its descriptor and claiming one,   *)
(* and one that has its slot.                                              *)
Claiming(r) ==
  /\ r.phase \in {"free", "claim"} => UsedSlot(r.fd) = {}
  /\ r.phase = "claim" => r.slot \in 1..Slots /\ ~slots[r.slot].used

Holding(t, r) ==
  r.phase = "store" \/ (r.phase = "io" /\ Code(t)[r.pc].op = "recv") =>
    /\ r.slot \in 1..Slots
    /\ slots[r.slot].used /\ slots[r.slot].fd = r.fd

SlotFields == {"used", "fd", "len", "port", "bytes"}

SlotsOK ==
  /\ slots = [i \in 1..Slots |-> slots[i]]
  /\ \A i \in 1..Slots : DOMAIN slots[i] = SlotFields
  /\ ~raced =>
       /\ \A i, j \in 1..Slots :
            slots[i].used /\ slots[j].used /\ slots[i].fd = slots[j].fd => i = j
       /\ \A t \in Threads : Claiming(at[t]) /\ Holding(t, at[t])

(* Thread t, at r, is in a connect on descriptor fd, which it opened.      *)
Connects(t, r, fd) == r.phase # "call" /\ Code(t)[r.pc].op = "connect" /\ r.fd = fd

(* Who knows descriptor fd: a variable, or a connect that has not returned. *)
Known(fd) ==
  \/ \E r \in DOMAIN env : env[r] = fd
  \/ \E t \in Threads : Connects(t, at[t], fd)

(* A variable that has a value was given it by a call that is over.        *)
Given(r) ==
  \A t \in Threads : \A i \in 1..Len(Code(t)) :
    Code(t)[i].op \in Opening /\ Code(t)[i].to = r => i < at[t].pc

(* Call c is a connect, or its variable holds the descriptor fd.           *)
WorksOn(c, fd) ==
  c.op # "connect" => c.op \in Using /\ c.on \in DOMAIN env /\ env[c.on] = fd

(* Thread t at r: the variables of its calls that are over have a value,   *)
(* and the call it is in works on the descriptor that its variable holds.  *)
Named(t, r) ==
  /\ \A i \in 1..Len(Code(t)) :
       Code(t)[i].op \in Opening /\ i < r.pc => Code(t)[i].to \in DOMAIN env
  /\ r.phase # "call" => WorksOn(Code(t)[r.pc], r.fd)

FilesOK ==
  /\ \A fd \in DOMAIN files : Known(fd)
  /\ \A r \in DOMAIN env : Given(r)
  /\ \A t \in Threads : Named(t, at[t])

IInv == ThreadsOK /\ SlotsOK /\ FilesOK

(* Sockets, those that are closed too.                                     *)
Items   == DOMAIN Datagrams \cup {"peer", "byte", "eof"}
Sockets == [kind : {"bind", "listen", "stream"}, state : {"up", "connecting", "refused"},
            blocking : BOOLEAN, queue : Seq(Items), fd : Fds,
            last : {0} \cup DOMAIN Datagrams, discarded : BOOLEAN]

(* The table f of open files and the sockets q: the open socket of a       *)
(* descriptor is the latest one that has it.                               *)
TableOK(f, q) ==
  /\ q \in Seq(Sockets)
  /\ \A fd \in DOMAIN f :
       /\ f[fd] \in 1..Len(q) /\ q[f[fd]].fd = fd
       /\ \A s \in 1..Len(q) : q[s].fd = fd => s <= f[fd]

(* A call on descriptor fd that was told that it is ready does not block.  *)
Fed(f, q, fd) == fd \in DOMAIN f => q[f[fd]].queue # <<>> \/ q[f[fd]].discarded

(* Thread u has a variable that it was given fd in.                        *)
Names(u, fd) ==
  \E i \in 1..Len(Code(u)) :
    Code(u)[i].op \in Opening /\ Code(u)[i].to \in DOMAIN env /\ env[Code(u)[i].to] = fd

(* Task u may be what keeps a call of another on fd waiting: once it may,  *)
(* it may until fd is closed.                                              *)
Held(u, fd) == Uses(u, fd) \/ Names(u, fd) \/ Connects(u, at[u], fd)

(* Variables keep their values, and a connect that ends gives its task the *)
(* descriptor or closes it.                                                *)
Grows ==
  /\ \A x \in DOMAIN env : x \in DOMAIN env' /\ env'[x] = env[x]
  /\ \A fd \in DOMAIN files' : \A u \in Threads :
       Connects(u, at[u], fd) => Connects(u, at[u], fd)' \/ Names(u, fd)'

(* Thread t at r was told that its socket is ready.                        *)
Attends(t, r) == r.phase \in {"find", "free", "claim", "io"} /\ Code(t)[r.pc].op # "connect"

WaitsFed ==
  \A t \in Threads :
    Attends(t, at[t]) =>
      \/ Fed(files, socks, at[t].fd)
      \/ t # 0 /\ \E u \in Threads \ {0, t} : Held(u, at[t].fd)

(* The last datagram that a socket with descriptor fd received is d.       *)
Latest(q, fd, d) ==
  \E s \in 1..Len(q) :
    /\ q[s].fd = fd /\ q[s].last = d
    /\ \A k \in 1..Len(q) : q[k].fd = fd /\ s < k => q[k].last = 0

Storing(u, fd) == at[u].phase = "store" /\ at[u].fd = fd

Whole(slot, d) == slot.port = d /\ slot.len \in {Datagrams[d], Captured(Datagrams[d])}

(* No socket with descriptor fd has received, and no slot says so.         *)
Untouched(fd) ==
  /\ \A s \in 1..Len(socks) : socks[s].fd = fd => socks[s].last = 0
  /\ \A i \in UsedSlot(fd) : slots[i].len = -1
  /\ \A u \in Threads : ~Storing(u, fd)

(* The slot of fd shows the last datagram, or a thread is about to finish  *)
(* what it shows.                                                          *)
Shows(fd, d) ==
  /\ d \in DOMAIN Datagrams /\ Latest(socks, fd, d)
  /\ \E i \in UsedSlot(fd) :
       /\ slots[i].bytes = d
       /\ Whole(slots[i], d) \/ \E u \in Threads : Storing(u, fd)
  /\ \A u \in Threads : Storing(u, fd) => at[u].got = d

(* Only main makes calls yet, or one task at most works on fd.             *)
Quiet(fd) ==
  \/ ~Done(0)
  \/ \A u, w \in Threads \ {0} : Uses(u, fd) /\ Uses(w, fd) => u = w

(* What a call that read the table left.                                   *)
LastStaged(t, a) ==
  a.op \in {"byte_at", "peer_port"} /\ a.sock # 0 =>
    /\ a.sock \in 1..Len(socks) /\ socks[a.sock].fd = a.fd
    /\ ~raced /\ ~Shared(t, a.fd)
       => IF a.own # 0 THEN a.result = Owed(a.call, a.own)
          ELSE \/ a.result = NetError
               \/ \E s \in 1..(a.sock - 1) :
                    socks[s].fd = a.fd /\ socks[s].last # 0
                      /\ a.result = Owed(a.call, socks[s].last)

Told == \A fd \in Fds : Quiet(fd) => Untouched(fd) \/ \E d \in DOMAIN Datagrams : Shows(fd, d)

StagedOK ==
  /\ ~raced => Told
  /\ \A t \in Threads : LastStaged(t, at[t].last)

(* What a call may wait for, and what it may read.                         *)
WInv == IInv /\ TableOK(files, socks) /\ WaitsFed
SInv == WInv /\ StagedOK
-----------------------------------------------------------------------------
(* Numbers.                                                                *)

LEMMA MinIn ==
  ASSUME NEW S, S \subseteq Nat, S # {}
  PROVE  Min(S) \in S
<1>1. IsWellFoundedOn(OpToRel(<, Nat), Nat)
  BY NatLessThanWellFounded
<1>2. PICK n \in S : \A k \in S : ~ (<<k, n>> \in OpToRel(<, Nat))
  BY <1>1, WFMin, Zenon
<1>3. \A k \in S : n <= k
  <2>1. ASSUME NEW k \in S PROVE n <= k
    <3>1. n \in Nat /\ k \in Nat
      OBVIOUS
    <3>2. ~ (k < n)
      BY <1>2, <3>1 DEF OpToRel
    <3> QED BY <3>1, <3>2
  <2> QED BY <2>1
<1> QED BY <1>3 DEF Min

LEMMA MaxPair ==
  ASSUME NEW a \in Int, NEW b \in Int
  PROVE  Max({a, b}) = IF a >= b THEN a ELSE b
<1> DEFINE m == IF a >= b THEN a ELSE b
<1>1. m \in {a, b} /\ \A y \in {a, b} : m >= y
  OBVIOUS
<1>2. \A x \in {a, b} : (\A y \in {a, b} : x >= y) => x = m
  OBVIOUS
<1> QED BY <1>1, <1>2 DEF Max

(* A time that an int holds passes the cast unchanged.                     *)
LEMMA CastKeeps ==
  ASSUME NEW n \in Nat, n <= IntMax
  PROVE  ToInt(n) = n
<1>1. IntMax \in Nat /\ n < 2 * (IntMax + 1)
  BY NetAssumption
<1>2. PICK w \in Nat : w = 2 * (IntMax + 1)
  BY <1>1
<1>3. n % w = n
  BY <1>1, <1>2
<1>4. n % (2 * (IntMax + 1)) = n
  BY <1>2, <1>3
<1> QED BY <1>1, <1>4 DEF ToInt

(* Whenever a round begins, before the call's time is over, it ends then.  *)
LEMMA RoundBegins ==
  ASSUME now \in Nat, NEW t, NEW fd, NEW ms \in Nat, NEW start \in Nat, start <= now,
         Fits(ms) => now <= start + ms
  PROVE  RoundOK(Wait(t, fd, ms, start))
<1> DEFINE r == Wait(t, fd, ms, start)
<1>1. r.start = start /\ r.ms = ms /\ r.remaining = Remaining(ms, start)
      /\ r.until = IF ToInt(r.remaining) < 0 THEN Never ELSE now + ToInt(r.remaining)
  BY DEF Wait
<1> HIDE DEF r
<1>2. Remaining(ms, start) = IF ms - (now - start) >= 0 THEN ms - (now - start) ELSE 0
  BY MaxPair DEF Remaining
<1>3. Remaining(ms, start) \in Nat
  BY <1>2
<1>4. ASSUME Fits(ms)
      PROVE  r.until = r.start + r.ms /\ now <= r.until /\ (r.remaining = 0 => now = r.until)
  <2>1. r.remaining = (start + ms) - now /\ r.remaining <= IntMax /\ r.remaining \in Nat
    BY <1>1, <1>2, <1>3, <1>4, NetAssumption DEF Fits
  <2>2. ToInt(r.remaining) = r.remaining
    BY <2>1, CastKeeps
  <2> QED BY <1>1, <1>4, <2>1, <2>2
<1>5. Fits(r.ms) => r.until = r.start + r.ms /\ now <= r.until /\ (r.remaining = 0 => now = r.until)
  BY <1>1, <1>4
<1>6. r.start \in Nat /\ r.start <= now /\ r.remaining \in Nat
  BY <1>1, <1>3
<1> QED BY <1>5, <1>6 DEF RoundOK, r

-----------------------------------------------------------------------------
(* What a step of one thread leaves alone.                                 *)

(* Thread t goes to r; the others stay where they are.                     *)
LEMMA ThreadMoves ==
  ASSUME ThreadsOK, NEW t \in Threads, Runs(t), NEW r, PlaceOK(t, r),
         at' = [at EXCEPT ![t] = r], UNCHANGED <<prog, now>>
  PROVE  ThreadsOK'
<1>1. Threads' = Threads /\ \A u : Code(u)' = Code(u)
  BY DEF Threads, Code
<1>2. at = [u \in Threads |-> at[u]]
  BY DEF ThreadsOK
<1>3. at' = [u \in Threads |-> IF u = t THEN r ELSE at[u]]
  BY <1>2
<1>4. \A u \in Threads : at'[u] = IF u = t THEN r ELSE at[u]
  BY <1>3
<1>5. at' = [u \in Threads' |-> at'[u]]
  BY <1>1, <1>3
<1>6. \A u : \A q : PlaceOK(u, q) => PlaceOK(u, q)'
  BY <1>1 DEF PlaceOK, RoundOK
<1>7. \A u \in Threads : PlaceOK(u, at[u])'
  <2>1. \A u \in Threads : PlaceOK(u, at'[u])
    BY <1>4 DEF ThreadsOK
  <2> QED BY <1>1, <2>1 DEF PlaceOK, RoundOK
<1>8. ASSUME NEW u \in Threads, at'[u].phase # "call", u # 0
      PROVE  Done(0)'
  <2>1. 0 \in Threads
    BY ProgramsAssumption DEF ThreadsOK, Threads
  <2>2. Done(0) /\ t # 0
    <3>1. CASE u = t
      BY <1>8, <3>1 DEF Runs
    <3>2. CASE u # t
      <4>1. Done(0)
        BY <1>4, <1>8, <3>2 DEF ThreadsOK
      <4> QED BY <4>1 DEF Runs
    <3> QED BY <3>1, <3>2
  <2>3. at'[0] = at[0]
    BY <1>4, <2>1, <2>2
  <2> QED BY <1>1, <2>2, <2>3 DEF Done
<1> QED BY <1>1, <1>5, <1>7, <1>8 DEF ThreadsOK

(* The slots keep their descriptors.                                       *)
SameSlots ==
  /\ slots' = [i \in 1..Slots |-> slots'[i]]
  /\ \A i \in 1..Slots : /\ DOMAIN slots'[i] = SlotFields
                         /\ slots'[i].used = slots[i].used /\ slots'[i].fd = slots[i].fd

LEMMA SlotsStay ==
  ASSUME ThreadsOK, SlotsOK, NEW t \in Threads, NEW r,
         ~raced => Claiming(r) /\ Holding(t, r),
         at' = [at EXCEPT ![t] = r], UNCHANGED <<prog, raced>>, SameSlots
  PROVE  SlotsOK'
<1>1. Threads' = Threads /\ \A u : Code(u)' = Code(u)
  BY DEF Threads, Code
<1>2. at = [u \in Threads |-> at[u]]
  BY DEF ThreadsOK
<1>3. \A u \in Threads : at'[u] = IF u = t THEN r ELSE at[u]
  BY <1>2
<1>4. \A fd : UsedSlot(fd)' = UsedSlot(fd)
  BY DEF SameSlots, UsedSlot
<1>5. ASSUME ~raced', NEW u \in Threads
      PROVE  Claiming(at[u])' /\ Holding(u, at[u])'
  <2>1. Claiming(at'[u]) /\ Holding(u, at'[u])
    BY <1>3, <1>5 DEF SlotsOK
  <2>2. Claiming(at[u])'
    BY <1>4, <2>1 DEF Claiming, SameSlots
  <2>3. Holding(u, at[u])'
    BY <1>1, <2>1 DEF Holding, SameSlots
  <2> QED BY <2>2, <2>3
<1>6. ASSUME ~raced', NEW i \in 1..Slots, NEW j \in 1..Slots,
             slots'[i].used, slots'[j].used, slots'[i].fd = slots'[j].fd
      PROVE  i = j
  BY <1>6 DEF SlotsOK, SameSlots
<1> QED BY <1>1, <1>5, <1>6 DEF SlotsOK, SameSlots

LEMMA SlotsSame ==
  ASSUME SlotsOK, UNCHANGED slots
  PROVE  SameSlots
BY DEF SlotsOK, SameSlots

(* No variable changes: what was known stays known, but for a descriptor   *)
(* that is closed, and thread t knows the one that it opens.               *)
LEMMA FilesStay ==
  ASSUME ThreadsOK, FilesOK, NEW t \in Threads, NEW r, r.pc \in Nat, at[t].pc <= r.pc,
         at' = [at EXCEPT ![t] = r], UNCHANGED <<prog, env>>,
         Named(t, r),
         \A fd \in DOMAIN files' : fd \in DOMAIN files \/ Connects(t, r, fd),
         \A fd \in DOMAIN files' : Connects(t, at[t], fd) => Connects(t, r, fd)
  PROVE  FilesOK' /\ Grows
<1>1. Threads' = Threads /\ \A u : Code(u)' = Code(u)
  BY DEF Threads, Code
<1>2. at = [u \in Threads |-> at[u]] /\ \A u \in Threads : at[u].pc \in Nat
  BY DEF ThreadsOK, PlaceOK
<1>3. \A u \in Threads : at'[u] = IF u = t THEN r ELSE at[u]
  BY <1>2
<1>4. \A u, q, fd : Connects(u, q, fd)' <=> Connects(u, q, fd)
  BY <1>1 DEF Connects
<1>5. ASSUME NEW fd \in DOMAIN files' PROVE Known(fd)'
  <2>1. CASE Connects(t, r, fd)
    <3>1. Connects(t, at[t], fd)'
      BY <1>1, <1>3, <2>1 DEF Connects
    <3> QED BY <1>1, <3>1 DEF Known
  <2>2. CASE ~Connects(t, r, fd)
    <3>1. Known(fd)
      BY <1>5, <2>2 DEF FilesOK
    <3>2. CASE \E x \in DOMAIN env : env[x] = fd
      BY <3>2 DEF Known
    <3>3. CASE \E u \in Threads : Connects(u, at[u], fd)
      <4>1. PICK u \in Threads : Connects(u, at[u], fd)
        BY <3>3
      <4>2. u # t /\ at'[u] = at[u]
        BY <1>3, <1>5, <2>2, <4>1
      <4>3. Connects(u, at[u], fd)'
        BY <1>1, <4>1, <4>2 DEF Connects
      <4> QED BY <1>1, <4>3 DEF Known
    <3> QED BY <3>1, <3>2, <3>3 DEF Known
  <2> QED BY <2>1, <2>2
<1>6. ASSUME NEW x \in DOMAIN env' PROVE Given(x)'
  <2>1. Given(x)
    BY <1>6 DEF FilesOK
  <2>2. \A u \in Threads : at[u].pc <= at'[u].pc /\ at'[u].pc \in Nat
    BY <1>2, <1>3
  <2>3. \A u \in Threads : Len(Code(u)) \in Nat
    BY ProgramsAssumption DEF ThreadsOK, Threads, Code
  <2> QED BY <1>1, <1>2, <2>1, <2>2, <2>3 DEF Given
<1>7. ASSUME NEW u \in Threads PROVE Named(u, at[u])'
  <2>1. Named(u, at'[u])
    BY <1>3 DEF FilesOK
  <2> QED BY <1>1, <2>1 DEF Named, WorksOn
<1>8. ASSUME NEW fd \in DOMAIN files', NEW u \in Threads, Connects(u, at[u], fd)
      PROVE  Connects(u, at[u], fd)'
  <2>1. Connects(u, at'[u], fd)
    BY <1>3, <1>8
  <2> QED BY <1>1, <2>1 DEF Connects
<1>9. Grows
  BY <1>8 DEF Grows
<1> QED BY <1>1, <1>5, <1>6, <1>7, <1>9 DEF FilesOK

(* The call of thread t returns, and its variable holds what it opened.    *)
LEMMA FilesGiven ==
  ASSUME ThreadsOK, FilesOK, NEW t \in Threads, Runs(t), Call(t).op \in Opening,
         NEW r, r.pc = at[t].pc + 1, r.phase = "call", NEW v,
         at' = [at EXCEPT ![t] = r], env' = Put(env, Call(t).to, v), UNCHANGED prog,
         \A fd \in DOMAIN files' : fd \in DOMAIN files \/ fd = v,
         \A fd \in DOMAIN files' : Connects(t, at[t], fd) => fd = v
  PROVE  FilesOK' /\ Grows
<1>1. Threads' = Threads /\ \A u : Code(u)' = Code(u)
  BY DEF Threads, Code
<1>2. at = [u \in Threads |-> at[u]] /\ \A u \in Threads : at[u].pc \in Nat \ {0}
  BY DEF ThreadsOK, PlaceOK
<1>3. \A u \in Threads : at'[u] = IF u = t THEN r ELSE at[u]
  BY <1>2
<1>4. at[t].pc \in 1..Len(Code(t)) /\ \A u \in Threads : Len(Code(u)) \in Nat
  <2>1. \A u \in Threads : Len(Code(u)) \in Nat
    BY ProgramsAssumption DEF ThreadsOK, Threads, Code
  <2> QED BY <1>2, <2>1 DEF Runs, Done
<1> DEFINE to == Call(t).to
<1>5. /\ DOMAIN env' = DOMAIN env \cup {to} /\ env'[to] = v
      /\ \A x \in DOMAIN env : x # to => env'[x] = env[x]
  BY DEF Put
<1>6. to \notin DOMAIN env
  <2>1. SUFFICES ASSUME to \in DOMAIN env PROVE FALSE
    OBVIOUS
  <2>2. at[t].pc < at[t].pc
    BY <1>4, <2>1 DEF FilesOK, Given, Call
  <2> QED BY <1>2, <2>2
<1>7. ASSUME NEW fd \in DOMAIN files' PROVE Known(fd)'
  <2>1. CASE fd = v
    BY <1>5, <2>1 DEF Known
  <2>2. CASE fd # v
    <3>1. Known(fd)
      BY <1>7, <2>2 DEF FilesOK
    <3>2. CASE \E x \in DOMAIN env : env[x] = fd
      BY <1>5, <1>6, <3>2 DEF Known
    <3>3. CASE \E u \in Threads : Connects(u, at[u], fd)
      <4>1. PICK u \in Threads : Connects(u, at[u], fd)
        BY <3>3
      <4>2. u # t /\ at'[u] = at[u]
        BY <1>3, <1>7, <2>2, <4>1
      <4>3. Connects(u, at[u], fd)'
        BY <1>1, <4>1, <4>2 DEF Connects
      <4> QED BY <1>1, <4>3 DEF Known
    <3> QED BY <3>1, <3>2, <3>3 DEF Known
  <2> QED BY <2>1, <2>2
<1>8. ASSUME NEW x \in DOMAIN env', NEW u \in Threads, NEW i \in 1..Len(Code(u)),
             Code(u)[i].op \in Opening, Code(u)[i].to = x
      PROVE  i < at'[u].pc
  <2>1. CASE x = to
    <3>1. u = t /\ i = at[t].pc
      <4>1. \A j \in 1..Len(Code(t)) :
              Code(t)[j].op \in Opening /\ Code(t)[j].to = x => u = t /\ i = j
        BY <1>8, ProgramsAssumption DEF ThreadsOK, Threads, Code
      <4> QED BY <1>4, <2>1, <4>1 DEF Call
    <3> QED BY <1>2, <1>3, <3>1
  <2>2. CASE x # to
    <3>1. i < at[u].pc
      BY <1>5, <1>8, <2>2 DEF FilesOK, Given
    <3> QED BY <1>2, <1>3, <1>4, <3>1
  <2> QED BY <2>1, <2>2
<1>9. ASSUME NEW u \in Threads PROVE Named(u, at[u])'
  <2>1. Named(u, at[u])
    BY DEF FilesOK
  <2>2. ASSUME NEW i \in 1..Len(Code(u)), Code(u)[i].op \in Opening, i < at'[u].pc
        PROVE  Code(u)[i].to \in DOMAIN env'
    <3>1. CASE u = t /\ i = at[t].pc
      BY <1>5, <3>1 DEF Call
    <3>2. CASE ~(u = t /\ i = at[t].pc)
      <4>1. i < at[u].pc
        BY <1>2, <1>3, <1>4, <2>2, <3>2
      <4> QED BY <1>5, <2>1, <2>2, <4>1 DEF Named
    <3> QED BY <3>1, <3>2
  <2>3. ASSUME at'[u].phase # "call" PROVE WorksOn(Code(u)[at[u].pc], at[u].fd)'
    <3>1. u # t /\ at'[u] = at[u]
      BY <1>3, <2>3
    <3>2. WorksOn(Code(u)[at[u].pc], at[u].fd)
      BY <2>1, <2>3, <3>1 DEF Named
    <3>3. PICK c, fd : c = Code(u)[at[u].pc] /\ fd = at[u].fd
      OBVIOUS
    <3>4. WorksOn(c, fd)
      BY <3>2, <3>3
    <3>5. c.on \in DOMAIN env => c.on \in DOMAIN env' /\ env'[c.on] = env[c.on]
      BY <1>5, <1>6
    <3>6. WorksOn(c, fd)'
      BY <3>4, <3>5 DEF WorksOn
    <3>7. Code(u)'[at'[u].pc] = c /\ at'[u].fd = fd
      BY <1>1, <3>1, <3>3
    <3> HIDE DEF to
    <3> QED BY <3>6, <3>7 DEF WorksOn
  <2> HIDE DEF to
  <2> QED BY <1>1, <2>2, <2>3 DEF Named
<1>10. Grows
  <2>1. ASSUME NEW fd \in DOMAIN files', NEW u \in Threads, Connects(u, at[u], fd)
        PROVE  Connects(u, at[u], fd)' \/ Names(u, fd)'
    <3>1. CASE u = t
      <4>1. fd = v /\ Code(t)[at[t].pc].to = to /\ Code(t)[at[t].pc].op \in Opening
        BY <2>1, <3>1 DEF Call
      <4> HIDE DEF to
      <4> QED BY <1>1, <1>4, <1>5, <3>1, <4>1 DEF Names
    <3>2. CASE u # t
      BY <1>1, <1>3, <2>1, <3>2 DEF Connects
    <3> QED BY <3>1, <3>2
  <2> QED BY <1>5, <1>6, <2>1 DEF Grows
<1> HIDE DEF to
<1>11. \A x \in DOMAIN env' : Given(x)'
  BY <1>1, <1>8 DEF Given
<1> QED BY <1>1, <1>7, <1>9, <1>10, <1>11 DEF FilesOK
-----------------------------------------------------------------------------
(* The ways a call goes on.                                                *)

(* What is true of a thread that is in a call, or about to begin one.      *)
LEMMA InCall ==
  ASSUME ThreadsOK, NEW t \in Threads, Runs(t)
  PROVE  /\ at[t].pc \in Nat \ {0} /\ at[t].pc <= Len(Code(t)) /\ Len(Code(t)) \in Nat
         /\ at[t].phase \in Phases /\ LastOK(at[t].last)
         /\ Call(t).op \in Waiting => Call(t).ms \in Int
<1>1. at[t].pc \in Nat \ {0} /\ at[t].phase \in Phases /\ LastOK(at[t].last)
  BY DEF ThreadsOK, PlaceOK
<1>2. Len(Code(t)) \in Nat /\ \A i \in 1..Len(Code(t)) :
                               Code(t)[i].op \in Waiting => Code(t)[i].ms \in Int
  BY ProgramsAssumption DEF ThreadsOK, Threads, Code
<1>3. at[t].pc <= Len(Code(t))
  BY <1>1, <1>2 DEF Runs, Done
<1> QED BY <1>1, <1>2, <1>3 DEF Call

(* A call returns, with a timeout only when its time is over.              *)
LEMMA Answers ==
  ASSUME ThreadsOK, NEW t \in Threads, Runs(t), NEW fd, NEW v,
         v = NetTimeout /\ Call(t).op \in Waiting =>
           at[t].phase = "poll" /\ (Fits(Call(t).ms) => now = at[t].start + Call(t).ms)
  PROVE  /\ PlaceOK(t, Answer(t, fd, v))
         /\ Answer(t, fd, v).pc = at[t].pc + 1 /\ Answer(t, fd, v).phase = "call"
<1> DEFINE r == Answer(t, fd, v)
<1>1. /\ r.pc = at[t].pc + 1 /\ r.phase = "call"
      /\ r.last.op = Call(t).op /\ r.last.call = Call(t) /\ r.last.result = v
      /\ r.last.start = IF at[t].phase = "poll" THEN at[t].start ELSE now
      /\ r.last.end = now
  BY DEF Answer
<1> HIDE DEF r
<1>2. LastOK(r.last)
  BY <1>1 DEF LastOK
<1>3. r.pc \in Nat \ {0}
  BY <1>1, InCall
<1>4. PlaceOK(t, r)
  BY <1>1, <1>2, <1>3 DEF PlaceOK, Phases
<1> QED BY <1>1, <1>4 DEF r

(* Return: nothing but the thread's place changes that others see.         *)
LEMMA Returning ==
  ASSUME IInv, NEW t \in Threads, Runs(t), NEW fd, NEW v, Return(t, fd, v),
         v = NetTimeout /\ Call(t).op \in Waiting =>
           at[t].phase = "poll" /\ (Fits(Call(t).ms) => now = at[t].start + Call(t).ms),
         Call(t).op \notin Opening,
         UNCHANGED <<prog, now, raced, env>>, SameSlots, DOMAIN files' \subseteq DOMAIN files
  PROVE  IInv' /\ Grows
<1>1. PICK r : r = Answer(t, fd, v)
  OBVIOUS
<1>2. PlaceOK(t, r) /\ r.pc = at[t].pc + 1 /\ r.phase = "call"
  BY <1>1, Answers DEF IInv
<1>3. at' = [at EXCEPT ![t] = r]
  BY <1>1 DEF Return
<1>4. ThreadsOK'
  BY <1>2, <1>3, ThreadMoves DEF IInv
<1>5. Claiming(r) /\ Holding(t, r)
  BY <1>2 DEF Claiming, Holding
<1>6. SlotsOK'
  BY <1>3, <1>5, SlotsStay DEF IInv
<1>7. r.pc \in Nat /\ at[t].pc <= r.pc /\ \A x : ~Connects(t, at[t], x)
  BY <1>2, InCall DEF IInv, Connects, Call, Opening
<1>8. Named(t, r)
  <2>1. Named(t, at[t]) /\ at[t].pc \in Nat
    BY InCall DEF IInv, FilesOK
  <2>2. \A i \in 1..Len(Code(t)) : Code(t)[i].op \in Opening /\ i < r.pc => i < at[t].pc
    BY <1>2, <2>1, InCall DEF Call, IInv
  <2> QED BY <1>2, <2>1, <2>2 DEF Named
<1>9. FilesOK' /\ Grows
  BY <1>3, <1>7, <1>8, FilesStay DEF IInv
<1> QED BY <1>4, <1>6, <1>9 DEF IInv

(* ReturnTo: what the call opened is in a variable, and what it had opened *)
(* is closed unless it is that.                                            *)
LEMMA ReturningTo ==
  ASSUME IInv, NEW t \in Threads, Runs(t), NEW fd, NEW v, ReturnTo(t, fd, v),
         Call(t).op \in Opening,
         v = NetTimeout /\ Call(t).op \in Waiting =>
           at[t].phase = "poll" /\ (Fits(Call(t).ms) => now = at[t].start + Call(t).ms),
         UNCHANGED <<prog, now, raced, slots>>,
         \A x \in DOMAIN files' : x \in DOMAIN files \/ x = v,
         \A x \in DOMAIN files' : Connects(t, at[t], x) => x = v
  PROVE  IInv' /\ Grows
<1>1. PICK r : r = Answer(t, fd, v)
  OBVIOUS
<1>2. PlaceOK(t, r) /\ r.pc = at[t].pc + 1 /\ r.phase = "call"
  BY <1>1, Answers DEF IInv
<1>3. at' = [at EXCEPT ![t] = r] /\ env' = Put(env, Call(t).to, v)
  BY <1>1 DEF ReturnTo, Return
<1>4. ThreadsOK'
  BY <1>2, <1>3, ThreadMoves DEF IInv
<1>5. Claiming(r) /\ Holding(t, r)
  BY <1>2 DEF Claiming, Holding
<1>6. SlotsOK'
  BY <1>3, <1>5, SlotsStay, SlotsSame DEF IInv
<1>7. FilesOK' /\ Grows
  BY <1>2, <1>3, FilesGiven DEF IInv
<1> QED BY <1>4, <1>6, <1>7 DEF IInv

(* A call goes on within itself.                                           *)
LEMMA GoingOn ==
  ASSUME IInv, NEW t \in Threads, Runs(t), NEW r, at' = [at EXCEPT ![t] = r],
         PlaceOK(t, r), r.phase # "call", r.pc = at[t].pc,
         ~raced => Claiming(r) /\ Holding(t, r),
         UNCHANGED <<prog, now, raced, env>>, SameSlots,
         \A x \in DOMAIN files' : x \in DOMAIN files \/ (Call(t).op = "connect" /\ x = r.fd),
         Call(t).op = "connect" /\ at[t].phase # "call" => r.fd = at[t].fd,
         WorksOn(Call(t), r.fd)
  PROVE  IInv' /\ Grows
<1>1. ThreadsOK'
  BY ThreadMoves DEF IInv
<1>2. SlotsOK'
  BY SlotsStay DEF IInv
<1>3. r.pc \in Nat /\ at[t].pc <= r.pc
  BY InCall DEF IInv
<1>4. \A x : Connects(t, r, x) <=> Call(t).op = "connect" /\ x = r.fd
  BY DEF Connects, Call
<1>5. \A x : Connects(t, at[t], x) => Connects(t, r, x)
  BY <1>4 DEF Connects, Call
<1>6. Named(t, r)
  <2>1. Named(t, at[t])
    BY DEF IInv, FilesOK
  <2> QED BY <2>1 DEF Named, Call
<1>7. FilesOK' /\ Grows
  BY <1>3, <1>4, <1>5, <1>6, FilesStay DEF IInv
<1> QED BY <1>1, <1>2, <1>7 DEF IInv

(* A wait begins, or a new round of it.                                    *)
LEMMA WaitGoesOn ==
  ASSUME IInv, NEW t \in Threads, Runs(t), Call(t).op \in Waiting,
         NEW fd, Call(t).op = "connect" => fd \in Fds,
         NEW ms, ms = Call(t).ms, ms \in Nat,
         NEW start \in Nat, start <= now, Fits(ms) => now <= start + ms,
         at' = [at EXCEPT ![t] = Wait(t, fd, ms, start)],
         UNCHANGED <<prog, now, raced, env, slots>>,
         \A x \in DOMAIN files' : x \in DOMAIN files \/ (Call(t).op = "connect" /\ x = fd),
         Call(t).op = "connect" /\ at[t].phase # "call" => fd = at[t].fd,
         WorksOn(Call(t), fd)
  PROVE  IInv' /\ Grows
<1>1. PICK r : r = Wait(t, fd, ms, start)
  OBVIOUS
<1>2. /\ DOMAIN r = WaitFields /\ r.pc = at[t].pc /\ r.phase = "poll" /\ r.last = at[t].last
      /\ r.fd = fd /\ r.ms = ms
  BY <1>1 DEF Wait, WaitFields
<1>3. RoundOK(r)
  BY <1>1, RoundBegins DEF IInv, ThreadsOK
<1>4. PlaceOK(t, r)
  BY <1>2, <1>3, InCall DEF IInv, PlaceOK, Phases, Call
<1>5. Claiming(r) /\ Holding(t, r)
  BY <1>2 DEF Claiming, Holding
<1>6. SameSlots
  BY SlotsSame DEF IInv
<1> QED BY <1>1, <1>2, <1>4, <1>5, <1>6, GoingOn

(* A thread in the middle of a call.                                       *)
LEMMA MidCall ==
  ASSUME IInv, NEW t \in Threads, Runs(t), at[t].phase # "call"
  PROVE  /\ DOMAIN at[t] = WaitFields /\ Call(t).op \in Waiting
         /\ at[t].ms = Call(t).ms /\ at[t].ms \in Nat
         /\ Call(t).op = "connect" => at[t].fd \in Fds /\ at[t].fd \in Nat
         /\ at[t].phase = "poll" => RoundOK(at[t])
         /\ at[t].phase \in {"find", "free", "claim", "store"} => Call(t).op = "recv"
         /\ at[t].phase = "store" => at[t].got \in DOMAIN Datagrams
         /\ WorksOn(Call(t), at[t].fd)
BY NetAssumption DEF IInv, ThreadsOK, PlaceOK, FilesOK, Named, Call

(* A call on a variable is on a descriptor that it was given.              *)
LEMMA CallOnVariable ==
  ASSUME IInv, NEW t \in Threads, Runs(t), at[t].phase = "call", Call(t).op \in Using
  PROVE  WorksOn(Call(t), FdOf(t))
<1>1. at[t].pc \in 1..Len(Code(t)) /\ \A u \in Threads : Len(Code(u)) \in Nat /\ at[u].pc \in Nat
  <2>1. \A u \in Threads : Len(Code(u)) \in Nat
    BY ProgramsAssumption DEF IInv, ThreadsOK, Threads, Code
  <2>2. \A u \in Threads : at[u].pc \in Nat
    BY DEF IInv, ThreadsOK, PlaceOK
  <2>3. at[t].pc \in 1..Len(Code(t))
    BY <2>1, InCall DEF IInv
  <2> QED BY <2>1, <2>2, <2>3
<1>2. HasOpened(prog, t, at[t].pc)
  BY <1>1, ProgramsAssumption DEF IInv, ThreadsOK, Threads, Code, Call
<1>3. PICK u \in {0, t} : \E j \in 1..Len(Code(u)) :
        /\ Code(u)[j].op \in Opening /\ Code(u)[j].to = Call(t).on
        /\ u = t => j < at[t].pc
  BY <1>2 DEF HasOpened, Code, Call
<1>4. PICK j \in 1..Len(Code(u)) :
        /\ Code(u)[j].op \in Opening /\ Code(u)[j].to = Call(t).on
        /\ u = t => j < at[t].pc
  BY <1>3
<1>5. u \in Threads
  BY <1>3, ProgramsAssumption DEF IInv, ThreadsOK, Threads
<1>6. j < at[u].pc
  <2>1. CASE u = t
    BY <1>4, <2>1
  <2>2. CASE u # t
    <3>1. u = 0 /\ Done(0)
      BY <1>3, <2>2 DEF Runs
    <3> QED BY <1>1, <1>4, <1>5, <3>1 DEF Done
  <2> QED BY <2>1, <2>2
<1>7. Call(t).on \in DOMAIN env
  BY <1>4, <1>5, <1>6 DEF IInv, FilesOK, Named
<1> QED BY <1>7 DEF WorksOn, FdOf

(* A call fails: with an error, or when its time is over.                  *)
LEMMA Failing ==
  ASSUME IInv, NEW t \in Threads, Runs(t), at[t].phase \in {"poll", "io"}, NEW v, Fail(t, v),
         v = NetTimeout =>
           at[t].phase = "poll" /\ (Fits(Call(t).ms) => now = at[t].start + Call(t).ms),
         UNCHANGED <<prog, now, raced, slots>>
  PROVE  IInv' /\ Grows
<1>1. at[t].phase # "call" /\ SameSlots /\ \A x : Connects(t, at[t], x) <=>
                                        Call(t).op = "connect" /\ at[t].fd = x
  BY SlotsSame DEF Connects, Call, IInv
<1>2. CASE Call(t).op = "connect" /\ Shut(at[t].fd) /\ ReturnTo(t, NetError, v)
  <2>1. DOMAIN files' = DOMAIN files \ {at[t].fd}
    BY <1>2 DEF Shut
  <2> QED BY <1>1, <1>2, <2>1, ReturningTo DEF Opening
<1>3. CASE Call(t).op = "accept" /\ ReturnTo(t, at[t].fd, v) /\ UNCHANGED files
  BY <1>1, <1>3, ReturningTo DEF Opening
<1>4. CASE Call(t).op \in {"read", "recv"} /\ Return(t, at[t].fd, v) /\ UNCHANGED <<env, files>>
  <2>1. Call(t).op \notin Opening
    BY <1>4 DEF Opening
  <2> QED BY <1>1, <1>4, <2>1, Returning
<1> QED BY <1>2, <1>3, <1>4 DEF Fail
-----------------------------------------------------------------------------
(* Every step keeps the invariant.                                         *)

LEMMA InitOK ==
  ASSUME Init
  PROVE  IInv
<1>1. /\ at = [t \in Threads |-> at[t]]
      /\ \A t \in Threads : at[t] = [pc |-> 1, phase |-> "call", last |-> NoCall]
  BY DEF Init
<1>2. \A t \in Threads : at[t].pc = 1 /\ at[t].phase = "call" /\ at[t].last.op = "none"
  BY <1>1 DEF NoCall
<1>3. \A t \in Threads : PlaceOK(t, at[t])
  BY <1>2 DEF PlaceOK, Phases, LastOK, Waiting
<1>4. ThreadsOK
  BY <1>1, <1>2, <1>3 DEF ThreadsOK, Init
<1>5. /\ slots = [i \in 1..Slots |-> slots[i]]
      /\ \A i \in 1..Slots : slots[i] = EmptySlot
  BY DEF Init
<1>6. \A i \in 1..Slots : DOMAIN slots[i] = SlotFields /\ ~slots[i].used
  BY <1>5 DEF EmptySlot, SlotFields
<1>7. SlotsOK
  BY <1>2, <1>5, <1>6 DEF SlotsOK, Claiming, Holding
<1>8. FilesOK
  <2>1. ASSUME NEW t \in Threads PROVE Named(t, at[t])
    <3>1. \A i \in 1..Len(Code(t)) : ~(i < at[t].pc)
      BY <1>2, ProgramsAssumption DEF ThreadsOK, Threads, Code, Init
    <3> QED BY <1>2, <3>1 DEF Named
  <2> QED BY <2>1 DEF Init, FilesOK
<1> QED BY <1>4, <1>7, <1>8 DEF IInv

(* Descriptors are numbers, and there is a lowest free one.                *)
LEMMA LowestFree ==
  ASSUME Free # {}
  PROVE  Min(Free) \in Fds /\ Min(Free) \in Nat
<1>1. Free \subseteq Nat
  BY NetAssumption DEF Free
<1>2. Min(Free) \in Free
  BY <1>1, MinIn
<1> QED BY <1>1, <1>2 DEF Free

LEMMA FilesGrow ==
  ASSUME NEW x, NEW s, files' = Put(files, x, s)
  PROVE  DOMAIN files' = DOMAIN files \cup {x}
BY DEF Put

LEMMA BindOrListenKeeps ==
  ASSUME IInv, NEW t \in Threads, BindOrListen(t)
  PROVE  IInv' /\ Grows
<1>1. /\ Runs(t) /\ at[t].phase = "call" /\ Call(t).op \in {"bind", "listen"}
      /\ UNCHANGED <<prog, slots, now, raced>>
  BY DEF BindOrListen, Calls, In
<1>2. Call(t).op \in Opening /\ Call(t).op \notin Waiting /\ \A x : ~Connects(t, at[t], x)
  BY <1>1 DEF Opening, Waiting, Connects
<1>3. CASE /\ Open(Min(Free), NewSocket(Call(t).op, "up"))
           /\ ReturnTo(t, Min(Free), Min(Free))
  <2>1. DOMAIN files' = DOMAIN files \cup {Min(Free)}
    BY <1>3, FilesGrow DEF Open
  <2> QED BY <1>1, <1>2, <1>3, <2>1, ReturningTo
<1>4. CASE ReturnTo(t, NetError, NetError) /\ UNCHANGED kernel
  BY <1>1, <1>2, <1>4, ReturningTo DEF kernel
<1> QED BY <1>3, <1>4 DEF BindOrListen

LEMMA CloseKeeps ==
  ASSUME IInv, NEW t \in Threads, Close(t)
  PROVE  IInv' /\ Grows
<1>1. /\ Runs(t) /\ at[t].phase = "call" /\ Call(t).op = "close" /\ Call(t).op \notin Waiting
      /\ Call(t).op \notin Opening
      /\ UNCHANGED <<prog, env, slots, now, raced>> /\ SameSlots
  BY SlotsSame DEF Close, Calls, In, Waiting, Opening, IInv
<1>2. DOMAIN files' \subseteq DOMAIN files
  BY DEF Close, Shut
<1>3. PICK v : Return(t, FdOf(t), v)
  BY DEF Close
<1> QED BY <1>1, <1>2, <1>3, Returning

LEMMA StartWaitKeeps ==
  ASSUME IInv, NEW t \in Threads, StartWait(t)
  PROVE  IInv' /\ Grows
<1>1. /\ Runs(t) /\ at[t].phase = "call" /\ Call(t).op \in {"accept", "read", "recv"}
      /\ Call(t).op \in Waiting /\ Call(t).op # "connect"
      /\ UNCHANGED <<prog, files, slots, now, raced>> /\ SameSlots
  BY SlotsSame DEF StartWait, Calls, In, Waiting, IInv
<1>2. now \in Nat /\ Call(t).ms \in Int
  BY <1>1, InCall DEF IInv, ThreadsOK
<1>3. CASE /\ Call(t).ms >= 0 /\ UNCHANGED env
           /\ at' = [at EXCEPT ![t] = Wait(t, FdOf(t), Call(t).ms, now)]
  <2>1. PICK fd, ms : fd = FdOf(t) /\ ms = Call(t).ms
    OBVIOUS
  <2>2. ms \in Nat /\ now <= now /\ now <= now + ms
    BY <1>2, <1>3, <2>1
  <2>3. at' = [at EXCEPT ![t] = Wait(t, fd, ms, now)]
    BY <1>3, <2>1
  <2>4. UNCHANGED <<prog, now, raced, env, slots>> /\ DOMAIN files' = DOMAIN files
    BY <1>1, <1>3
  <2>5. /\ Fits(ms) => now <= now + ms
        /\ \A x \in DOMAIN files' : x \in DOMAIN files \/ (Call(t).op = "connect" /\ x = fd)
    BY <2>2, <2>4
  <2>6. WorksOn(Call(t), fd)
    BY <1>1, <2>1, CallOnVariable DEF Using
  <2> QED BY ONLY IInv, t \in Threads, <1>1, <1>2, <2>1, <2>2, <2>3, <2>4, <2>5, <2>6, WaitGoesOn
<1>4. CASE Call(t).op # "accept" /\ Return(t, FdOf(t), ErrorOf(t)) /\ UNCHANGED env
  <2>1. ErrorOf(t) # NetTimeout /\ Call(t).op \notin Opening
    BY <1>1, <1>4 DEF ErrorOf, ReadError, NetError, NetTimeout, Opening
  <2> QED BY <1>1, <1>4, <2>1, Returning
<1>5. CASE Call(t).op = "accept" /\ ReturnTo(t, FdOf(t), NetError)
  <2>1. NetError # NetTimeout /\ Call(t).op \in Opening /\ \A x : ~Connects(t, at[t], x)
    BY <1>1, <1>5 DEF NetError, NetTimeout, Opening, Connects
  <2> QED BY <1>1, <1>5, <2>1, ReturningTo
<1> QED BY <1>3, <1>4, <1>5 DEF StartWait

LEMMA StartConnectKeeps ==
  ASSUME IInv, NEW t \in Threads, StartConnect(t)
  PROVE  IInv' /\ Grows
<1>1. /\ Runs(t) /\ at[t].phase = "call" /\ Call(t).op = "connect"
      /\ Call(t).op \in Waiting /\ Call(t).op \in Opening /\ \A x : ~Connects(t, at[t], x)
      /\ UNCHANGED <<prog, slots, now, raced>>
  BY DEF StartConnect, Calls, In, Waiting, Opening, Connects
<1>2. now \in Nat /\ Call(t).ms \in Int
  BY <1>1, InCall DEF IInv, ThreadsOK
<1>3. ASSUME Free # {}, Open(Min(Free), NewSocket("stream", "up")), ReturnTo(t, Min(Free), Min(Free))
      PROVE  IInv' /\ Grows
  <2>1. DOMAIN files' = DOMAIN files \cup {Min(Free)}
    BY <1>3, FilesGrow DEF Open
  <2>2. Min(Free) # NetTimeout
    BY <1>3, LowestFree DEF NetTimeout
  <2> QED BY <1>1, <1>3, <2>1, <2>2, ReturningTo
<1>4. ASSUME Free # {}, Call(t).ms >= 0, NEW s, Open(Min(Free), s), UNCHANGED env,
             at' = [at EXCEPT ![t] = Wait(t, Min(Free), Call(t).ms, now)]
      PROVE  IInv' /\ Grows
  <2>1. DOMAIN files' = DOMAIN files \cup {Min(Free)}
    BY <1>4, FilesGrow DEF Open
  <2>2. PICK fd, ms : fd = Min(Free) /\ ms = Call(t).ms
    OBVIOUS
  <2>3. ms \in Nat /\ now <= now /\ now <= now + ms /\ fd \in Fds
    BY <1>2, <1>4, <2>2, LowestFree
  <2>4. at' = [at EXCEPT ![t] = Wait(t, fd, ms, now)] /\ \A x \in DOMAIN files' : x \in DOMAIN files \/ x = fd
    BY <1>4, <2>1, <2>2
  <2>5. WorksOn(Call(t), fd)
    BY <1>1 DEF WorksOn
  <2> QED BY <1>1, <1>2, <1>4, <2>2, <2>3, <2>4, <2>5, WaitGoesOn
<1>5. CASE ReturnTo(t, NetError, NetError) /\ UNCHANGED kernel
  <2>1. NetError # NetTimeout
    BY DEF NetError, NetTimeout
  <2> QED BY <1>1, <1>5, <2>1, ReturningTo DEF kernel
<1> QED BY <1>3, <1>4, <1>5 DEF StartConnect

LEMMA PollReadyKeeps ==
  ASSUME IInv, NEW t \in Threads, PollReady(t)
  PROVE  IInv' /\ Grows
<1>1. /\ Runs(t) /\ at[t].phase = "poll"
      /\ UNCHANGED <<prog, env, files, slots, now, raced>> /\ SameSlots
  BY SlotsSame DEF PollReady, In, IInv
<1>2. PICK phase : /\ phase = IF Call(t).op = "recv" THEN "find" ELSE "io"
                   /\ at' = [at EXCEPT ![t] = [at[t] EXCEPT !.phase = phase]]
  BY <1>1 DEF PollReady, IInv, ThreadsOK
<1>3. PICK r : r = [at[t] EXCEPT !.phase = phase]
  OBVIOUS
<1>4. /\ DOMAIN r = WaitFields /\ r.phase = phase /\ r.pc = at[t].pc /\ r.last = at[t].last
      /\ r.fd = at[t].fd /\ r.ms = at[t].ms
  BY <1>1, <1>3, MidCall DEF WaitFields
<1>5. phase \in Phases /\ phase \notin {"call", "poll", "free", "claim", "store"}
      /\ (phase = "find" <=> Call(t).op = "recv")
  BY <1>2 DEF Phases
<1>6. PlaceOK(t, r)
  BY <1>1, <1>4, <1>5, MidCall, InCall DEF PlaceOK, Call, IInv
<1>7. Claiming(r) /\ Holding(t, r)
  BY <1>2, <1>4, <1>5 DEF Claiming, Holding, Call
<1>8. WorksOn(Call(t), r.fd)
  BY <1>1, <1>4, MidCall
<1> QED BY <1>1, <1>2, <1>3, <1>4, <1>5, <1>6, <1>7, <1>8, GoingOn

LEMMA PollTimesOutKeeps ==
  ASSUME IInv, NEW t \in Threads, PollTimesOut(t)
  PROVE  IInv' /\ Grows
<1>1. /\ Runs(t) /\ at[t].phase = "poll" /\ now = at[t].until /\ Fail(t, NetTimeout)
      /\ UNCHANGED <<prog, slots, now, raced>>
  BY DEF PollTimesOut, In
<1>2. Fits(Call(t).ms) => now = at[t].start + Call(t).ms
  BY <1>1, MidCall DEF RoundOK
<1> QED BY <1>1, <1>2, Failing

LEMMA PollInterruptedKeeps ==
  ASSUME IInv, NEW t \in Threads, PollInterrupted(t)
  PROVE  IInv' /\ Grows
<1>1. /\ Runs(t) /\ at[t].phase = "poll"
      /\ UNCHANGED <<prog, slots, now, raced>>
  BY DEF PollInterrupted, In
<1>2. RoundOK(at[t]) /\ at[t].ms = Call(t).ms /\ at[t].ms \in Nat /\ Call(t).op \in Waiting
      /\ (Call(t).op = "connect" => at[t].fd \in Fds) /\ WorksOn(Call(t), at[t].fd)
  BY <1>1, MidCall
<1>3. CASE at[t].remaining = 0 /\ Fail(t, NetTimeout)
  <2>1. Fits(Call(t).ms) => now = at[t].start + Call(t).ms
    BY <1>2, <1>3 DEF RoundOK
  <2> QED BY <1>1, <1>3, <2>1, Failing
<1>4. CASE at' = [at EXCEPT ![t] = Wait(t, at[t].fd, at[t].ms, at[t].start)] /\ UNCHANGED <<env, files>>
  <2>1. at[t].start \in Nat /\ at[t].start <= now /\ (Fits(at[t].ms) => now <= at[t].start + at[t].ms)
    BY <1>2 DEF RoundOK
  <2> QED BY <1>1, <1>2, <1>4, <2>1, WaitGoesOn
<1> QED BY <1>3, <1>4 DEF PollInterrupted

LEMMA FinishConnectKeeps ==
  ASSUME IInv, NEW t \in Threads, FinishConnect(t)
  PROVE  IInv' /\ Grows
<1>1. /\ Runs(t) /\ at[t].phase = "io" /\ Call(t).op = "connect"
      /\ UNCHANGED <<prog, slots, now, raced>> /\ Call(t).op \in Opening
  BY DEF FinishConnect, In, Opening
<1>2. CASE ReturnTo(t, at[t].fd, at[t].fd) /\ UNCHANGED files
  <2>1. at[t].fd # NetTimeout
    BY <1>1, MidCall DEF NetTimeout
  <2>2. \A x : Connects(t, at[t], x) => x = at[t].fd
    BY DEF Connects
  <2> QED BY <1>1, <1>2, <2>1, <2>2, ReturningTo
<1>3. CASE Fail(t, NetError)
  BY <1>1, <1>3, Failing DEF NetError, NetTimeout
<1> QED BY <1>2, <1>3 DEF FinishConnect

LEMMA AcceptKeeps ==
  ASSUME IInv, NEW t \in Threads, Accept(t)
  PROVE  IInv' /\ Grows
<1>1. /\ Runs(t) /\ at[t].phase = "io" /\ Call(t).op = "accept" /\ Call(t).op \in Opening
      /\ UNCHANGED <<prog, slots, now, raced>> /\ \A x : ~Connects(t, at[t], x)
  BY DEF Accept, In, Opening, Connects, Call
<1>2. ASSUME Free # {}, files' = Put(files, Min(Free), Len(socks) + 1),
             ReturnTo(t, at[t].fd, Min(Free))
      PROVE  IInv' /\ Grows
  <2>1. DOMAIN files' = DOMAIN files \cup {Min(Free)}
    BY <1>2, FilesGrow
  <2>2. Min(Free) # NetTimeout
    BY <1>2, LowestFree DEF NetTimeout
  <2> QED BY <1>1, <1>2, <2>1, <2>2, ReturningTo
<1>3. CASE Fail(t, NetError)
  BY <1>1, <1>3, Failing DEF NetError, NetTimeout
<1> QED BY <1>2, <1>3 DEF Accept

LEMMA ReadKeeps ==
  ASSUME IInv, NEW t \in Threads, Read(t)
  PROVE  IInv' /\ Grows
<1>1. /\ Runs(t) /\ at[t].phase = "io" /\ Call(t).op = "read" /\ Call(t).op \notin Opening
      /\ UNCHANGED <<prog, env, files, slots, now, raced>> /\ SameSlots
  BY SlotsSame DEF Read, In, IInv, Opening
<1>2. PICK v \in {ReadEof, Success, ErrorOf(t)} : Return(t, at[t].fd, v)
  BY DEF Read
<1>3. v # NetTimeout
  BY <1>2 DEF ReadEof, Success, ErrorOf, ReadError, NetError, NetTimeout
<1> QED BY <1>1, <1>2, <1>3, Returning

(* Steps of the search for a slot.                                         *)
LEMMA FindSlotKeeps ==
  ASSUME IInv, NEW t \in Threads, FindSlot(t)
  PROVE  IInv' /\ Grows
<1>1. /\ Runs(t) /\ at[t].phase = "find" /\ Call(t).op = "recv"
      /\ UNCHANGED <<prog, env, files, slots, now, raced>> /\ SameSlots
  BY SlotsSame, MidCall DEF FindSlot, In, IInv
<1> DEFINE found == UsedSlot(at[t].fd)
<1>2. PICK r : r = IF found # {} THEN [at[t] EXCEPT !.phase = "io", !.slot = Min(found)]
                                 ELSE [at[t] EXCEPT !.phase = "free"]
  OBVIOUS
<1>3. at' = [at EXCEPT ![t] = r]
  BY <1>2 DEF FindSlot, IInv, ThreadsOK
<1>4. /\ DOMAIN r = WaitFields /\ r.phase = IF found # {} THEN "io" ELSE "free"
      /\ r.pc = at[t].pc /\ r.last = at[t].last /\ r.fd = at[t].fd /\ r.ms = at[t].ms
      /\ found # {} => r.slot = Min(found)
  BY <1>1, <1>2, MidCall DEF WaitFields
<1>5. PlaceOK(t, r)
  BY <1>1, <1>4, MidCall, InCall DEF PlaceOK, Phases, Call, IInv
<1>6. found # {} => Min(found) \in found
  <2>1. found \subseteq Nat
    BY NetAssumption DEF UsedSlot
  <2> HIDE DEF found
  <2> QED BY <2>1, MinIn
<1>7. Claiming(r) /\ Holding(t, r)
  BY <1>4, <1>6 DEF Claiming, Holding, UsedSlot
<1>8. WorksOn(Call(t), r.fd)
  BY <1>1, <1>4, MidCall
<1> HIDE DEF found
<1> QED BY <1>1, <1>3, <1>4, <1>5, <1>7, <1>8, GoingOn

LEMMA FindFreeSlotKeeps ==
  ASSUME IInv, NEW t \in Threads, FindFreeSlot(t)
  PROVE  IInv' /\ Grows
<1>1. /\ Runs(t) /\ at[t].phase = "free" /\ Call(t).op = "recv"
      /\ UNCHANGED <<prog, env, files, slots, now, raced>> /\ SameSlots
  BY SlotsSame, MidCall DEF FindFreeSlot, In, IInv
<1>2. ASSUME FreeSlots # {},
             at' = [at EXCEPT ![t] = [at[t] EXCEPT !.phase = "claim", !.slot = Min(FreeSlots)]]
      PROVE  IInv' /\ Grows
  <2>1. PICK r : r = [at[t] EXCEPT !.phase = "claim", !.slot = Min(FreeSlots)]
    OBVIOUS
  <2>2. /\ DOMAIN r = WaitFields /\ r.phase = "claim" /\ r.slot = Min(FreeSlots)
        /\ r.pc = at[t].pc /\ r.last = at[t].last /\ r.fd = at[t].fd /\ r.ms = at[t].ms
    BY <1>1, <2>1, MidCall DEF WaitFields
  <2>3. PlaceOK(t, r)
    BY <1>1, <2>2, MidCall, InCall DEF PlaceOK, Phases, Call, IInv
  <2>4. Min(FreeSlots) \in 1..Slots /\ ~slots[Min(FreeSlots)].used
    <3>1. FreeSlots \subseteq Nat
      BY NetAssumption DEF FreeSlots
    <3>2. Min(FreeSlots) \in FreeSlots
      BY <1>2, <3>1, MinIn
    <3> QED BY <3>2 DEF FreeSlots
  <2>5. ~raced => Claiming(r)
    BY <1>1, <2>2, <2>4 DEF IInv, SlotsOK, Claiming
  <2>6. Holding(t, r)
    BY <2>2 DEF Holding
  <2>7. WorksOn(Call(t), r.fd)
    BY <1>1, <2>2, MidCall
  <2> QED BY <1>1, <1>2, <2>1, <2>2, <2>3, <2>5, <2>6, <2>7, GoingOn
<1>3. CASE Return(t, at[t].fd, NetError)
  BY <1>1, <1>3, Returning DEF NetError, NetTimeout, Opening
<1> QED BY <1>2, <1>3 DEF FindFreeSlot, IInv, ThreadsOK

(* The slot is the thread's own from now on: nobody else was about to take *)
(* it, or the descriptor another, unless two threads were searching.       *)
LEMMA ClaimSlotKeeps ==
  ASSUME IInv, NEW t \in Threads, ClaimSlot(t)
  PROVE  IInv' /\ Grows
<1>1. /\ Runs(t) /\ at[t].phase = "claim" /\ Call(t).op = "recv"
      /\ UNCHANGED <<prog, env, files, now>>
  BY MidCall DEF ClaimSlot, In
<1>2. PICK r : r = [at[t] EXCEPT !.phase = "io"]
  OBVIOUS
<1>3. /\ DOMAIN r = WaitFields /\ r.phase = "io" /\ r.slot = at[t].slot
      /\ r.pc = at[t].pc /\ r.last = at[t].last /\ r.fd = at[t].fd /\ r.ms = at[t].ms
  BY <1>1, <1>2, MidCall DEF WaitFields
<1>4. at' = [at EXCEPT ![t] = r]
  BY <1>2 DEF ClaimSlot, IInv, ThreadsOK
<1>5. PlaceOK(t, r)
  BY <1>1, <1>3, MidCall, InCall DEF PlaceOK, Phases, Call, IInv
<1>6. ThreadsOK'
  BY <1>1, <1>4, <1>5, ThreadMoves DEF IInv
<1>7. FilesOK' /\ Grows
  <2>1. r.pc \in Nat /\ at[t].pc <= r.pc /\ \A x : ~Connects(t, at[t], x)
    BY <1>1, <1>3, InCall DEF IInv, Connects, Call
  <2>2. Named(t, at[t])
    BY DEF IInv, FilesOK
  <2>3. Named(t, r)
    BY <1>1, <1>3, <2>2 DEF Named
  <2> QED BY <1>1, <1>4, <2>1, <2>3, FilesStay DEF IInv
<1> DEFINE k == at[t].slot
<1>8. /\ slots' = [i \in 1..Slots |-> slots'[i]]
      /\ \A i \in 1..Slots :
           /\ DOMAIN slots'[i] = SlotFields
           /\ i # k => slots'[i] = slots[i]
           /\ i = k => slots'[i].used /\ slots'[i].fd = at[t].fd
  BY DEF ClaimSlot, IInv, SlotsOK, SlotFields
<1>9. ASSUME ~raced'
      PROVE  /\ \A i, j \in 1..Slots :
                  slots'[i].used /\ slots'[j].used /\ slots'[i].fd = slots'[j].fd => i = j
             /\ \A u \in Threads : (Claiming(at[u]) /\ Holding(u, at[u]))'
  <2>1. ~raced /\ \A u \in Threads \ {t} : ~Searching(u)
    BY <1>9 DEF ClaimSlot
  <2>2. /\ \A i, j \in 1..Slots :
             slots[i].used /\ slots[j].used /\ slots[i].fd = slots[j].fd => i = j
        /\ \A u \in Threads : Claiming(at[u]) /\ Holding(u, at[u])
    BY <2>1 DEF IInv, SlotsOK
  <2>3. UsedSlot(at[t].fd) = {} /\ k \in 1..Slots /\ ~slots[k].used
    BY <1>1, <2>2 DEF Claiming
  <2>4. \A i \in 1..Slots : ~(slots[i].used /\ slots[i].fd = at[t].fd)
    BY <2>3 DEF UsedSlot
  <2>5. \A i, j \in 1..Slots :
          slots'[i].used /\ slots'[j].used /\ slots'[i].fd = slots'[j].fd => i = j
    BY <1>8, <2>2, <2>4
  <2>6. \A u \in Threads : Code(u)' = Code(u) /\ at'[u] = IF u = t THEN r ELSE at[u]
    BY <1>1, <1>4 DEF Code, IInv, ThreadsOK
  <2>7. ASSUME NEW u \in Threads PROVE (Claiming(at[u]) /\ Holding(u, at[u]))'
    <3>1. CASE u = t
      <4>1. at'[u] = r /\ slots'[r.slot].used /\ slots'[r.slot].fd = r.fd /\ r.slot \in 1..Slots
        BY <1>3, <1>8, <2>3, <2>6, <3>1
      <4> QED BY <1>3, <4>1 DEF Claiming, Holding
    <3>2. CASE u # t
      <4>1. at'[u] = at[u] /\ at[u].phase \notin {"free", "claim"}
        <5>1. at'[u] = at[u] /\ ~Searching(u)
          BY <2>1, <2>6, <3>2
        <5>2. at[u].phase # "call" => Runs(u)
          BY DEF IInv, ThreadsOK, PlaceOK, Runs, Done
        <5> QED BY <5>1, <5>2 DEF Searching, In
      <4>2. Holding(u, at[u])
        BY <2>2
      <4>3. Holding(u, at[u])'
        BY <1>8, <2>3, <2>6, <4>1, <4>2 DEF Holding
      <4> QED BY <4>1, <4>3 DEF Claiming
    <3> QED BY <3>1, <3>2
  <2> QED BY <2>5, <2>7
<1> HIDE DEF k
<1>10. Threads' = Threads
  BY <1>1 DEF Threads
<1>11. SlotsOK'
  BY <1>8, <1>9, <1>10 DEF SlotsOK
<1> QED BY <1>6, <1>7, <1>11 DEF IInv

LEMMA ReceiveFromKeeps ==
  ASSUME IInv, NEW t \in Threads, ReceiveFrom(t)
  PROVE  IInv' /\ Grows
<1>1. /\ Runs(t) /\ at[t].phase = "io" /\ Call(t).op = "recv"
      /\ UNCHANGED <<prog, env, files, now, raced>>
  BY DEF ReceiveFrom, In
<1>2. ASSUME NEW d \in DOMAIN Datagrams, slots' = [slots EXCEPT ![at[t].slot].bytes = d],
             at' = [at EXCEPT ![t] = [at[t] EXCEPT !.phase = "store", !.got = d]]
      PROVE  IInv' /\ Grows
  <2>1. PICK r : r = [at[t] EXCEPT !.phase = "store", !.got = d]
    OBVIOUS
  <2>2. /\ DOMAIN r = WaitFields /\ r.phase = "store" /\ r.slot = at[t].slot /\ r.got = d
        /\ r.pc = at[t].pc /\ r.last = at[t].last /\ r.fd = at[t].fd /\ r.ms = at[t].ms
    BY <1>1, <2>1, MidCall DEF WaitFields
  <2>3. PlaceOK(t, r)
    BY <1>1, <2>2, MidCall, InCall DEF PlaceOK, Phases, Call, IInv
  <2>4. Claiming(r) /\ (~raced => Holding(t, r))
    BY <1>1, <2>2 DEF IInv, SlotsOK, Claiming, Holding, Call
  <2>5. SameSlots
    BY <1>2 DEF IInv, SlotsOK, SameSlots, SlotFields
  <2>6. WorksOn(Call(t), r.fd)
    BY <1>1, <2>2, MidCall
  <2> QED BY <1>1, <1>2, <2>1, <2>2, <2>3, <2>4, <2>5, <2>6, GoingOn
<1>3. CASE Return(t, at[t].fd, NetError) /\ UNCHANGED slots
  BY <1>1, <1>3, Returning, SlotsSame DEF IInv, NetError, NetTimeout, Opening
<1> QED BY <1>2, <1>3 DEF ReceiveFrom, IInv, ThreadsOK

LEMMA StoreLengthKeeps ==
  ASSUME IInv, NEW t \in Threads, StoreLength(t)
  PROVE  IInv' /\ Grows
<1>1. /\ Runs(t) /\ at[t].phase = "store" /\ Call(t).op = "recv"
      /\ UNCHANGED <<prog, env, files, now, raced>>
  BY MidCall DEF StoreLength, In
<1>2. PICK d, n : /\ d = at[t].got /\ n \in {Datagrams[d], Captured(Datagrams[d])}
                  /\ slots' = [slots EXCEPT ![at[t].slot].len = n, ![at[t].slot].port = d]
                  /\ Return(t, at[t].fd, n)
  BY DEF StoreLength
<1>3. n # NetTimeout
  <2>1. Datagrams[d] \in Nat /\ DatagramCap \in Nat
    BY <1>1, <1>2, MidCall, NetAssumption
  <2>2. Captured(Datagrams[d]) \in {Datagrams[d], DatagramCap}
    BY <2>1, MinIn DEF Captured
  <2> QED BY <1>2, <2>1, <2>2 DEF NetTimeout
<1>4. SameSlots
  BY <1>2 DEF IInv, SlotsOK, SameSlots, SlotFields
<1>5. Call(t).op \notin Opening
  BY <1>1 DEF Opening
<1> QED BY <1>1, <1>2, <1>3, <1>4, <1>5, Returning

LEMMA ReadStagedKeeps ==
  ASSUME IInv, NEW t \in Threads, ReadStaged(t)
  PROVE  IInv' /\ Grows
<1>1. /\ Runs(t) /\ at[t].phase = "call" /\ Call(t).op \notin Waiting \cup Opening
      /\ UNCHANGED <<prog, env, files, now, raced>> /\ SameSlots
  BY SlotsSame DEF ReadStaged, Calls, In, Waiting, Opening, IInv
<1>2. PICK v : Return(t, FdOf(t), v)
  BY DEF ReadStaged
<1> QED BY <1>1, <1>2, Returning

-----------------------------------------------------------------------------
(* Steps of the environment.                                               *)

LEMMA NothingNamed ==
  ASSUME FilesOK, UNCHANGED <<prog, at, env, files>>
  PROVE  FilesOK' /\ Grows
<1>1. Threads' = Threads /\ \A u : Code(u)' = Code(u)
  BY DEF Threads, Code
<1>2. \A u, r, fd : Connects(u, r, fd)' <=> Connects(u, r, fd)
  BY <1>1 DEF Connects
<1>3. \A fd : Known(fd) => Known(fd)'
  BY <1>1 DEF Known, Connects
<1>4. \A x : Given(x) => Given(x)'
  BY <1>1 DEF Given
<1>5. ASSUME NEW u \in Threads PROVE Named(u, at[u])'
  BY <1>1 DEF FilesOK, Named, WorksOn
<1>6. Grows
  BY <1>1 DEF Grows, Connects
<1> QED BY <1>1, <1>3, <1>4, <1>5, <1>6 DEF FilesOK

LEMMA NobodyMoves ==
  ASSUME IInv, UNCHANGED <<prog, at, env, files, slots, now, raced>>
  PROVE  IInv' /\ Grows
<1>1. /\ Threads' = Threads /\ \A u : Code(u)' = Code(u) /\ Done(u)' = Done(u)
      /\ \A fd : UsedSlot(fd)' = UsedSlot(fd)
  BY DEF Threads, Code, Done, UsedSlot
<1>2. ThreadsOK'
  BY <1>1 DEF IInv, ThreadsOK, PlaceOK, RoundOK
<1>3. SlotsOK'
  BY <1>1 DEF IInv, SlotsOK, Claiming, Holding
<1>4. FilesOK' /\ Grows
  BY <1>1, NothingNamed DEF IInv
<1> QED BY <1>2, <1>3, <1>4 DEF IInv

(* Time does not pass the end of a wait.                                   *)
LEMMA TickKeeps ==
  ASSUME IInv, Tick
  PROVE  IInv' /\ Grows
<1>1. UNCHANGED <<prog, at, env, files, slots, raced>> /\ now' = now + 1 /\ now \in Nat
  BY DEF Tick, IInv, ThreadsOK
<1>2. /\ Threads' = Threads /\ \A u : Code(u)' = Code(u) /\ Done(u)' = Done(u)
      /\ \A fd : UsedSlot(fd)' = UsedSlot(fd)
  BY <1>1 DEF Threads, Code, Done, UsedSlot
<1>3. ASSUME NEW t \in Threads, at[t].phase = "poll" PROVE RoundOK(at[t])'
  <2>1. Runs(t) /\ RoundOK(at[t])
    BY <1>3 DEF IInv, ThreadsOK, PlaceOK, Runs, Done
  <2>2. at[t].until # now
    BY <1>3, <2>1 DEF Tick, Polling, In
  <2>3. at[t].ms \in Nat
    BY <1>3, <2>1, MidCall
  <2>4. Fits(at[t].ms) => now + 1 <= at[t].until /\ at[t].remaining # 0
    BY <1>1, <2>1, <2>2, <2>3 DEF RoundOK
  <2> QED BY <1>1, <2>1, <2>4 DEF RoundOK, Fits
<1>4. \A t \in Threads : PlaceOK(t, at[t])'
  BY <1>1, <1>2, <1>3 DEF IInv, ThreadsOK, PlaceOK
<1>5. ThreadsOK'
  BY <1>1, <1>2, <1>4 DEF IInv, ThreadsOK
<1>6. SlotsOK'
  BY <1>1, <1>2 DEF IInv, SlotsOK, Claiming, Holding
<1>7. FilesOK' /\ Grows
  BY <1>1, NothingNamed DEF IInv
<1> QED BY <1>5, <1>6, <1>7 DEF IInv

LEMMA NextKeeps ==
  ASSUME IInv, [Next]_vars
  PROVE  IInv' /\ Grows
<1>1. ASSUME NEW t \in Threads, Step(t) PROVE IInv' /\ Grows
  BY <1>1, BindOrListenKeeps, CloseKeeps, StartWaitKeeps, StartConnectKeeps, PollReadyKeeps,
     PollTimesOutKeeps, FinishConnectKeeps, AcceptKeeps, ReadKeeps, FindSlotKeeps,
     FindFreeSlotKeeps, ClaimSlotKeeps, ReceiveFromKeeps, StoreLengthKeeps, ReadStagedKeeps
     DEF Step
<1>2. ASSUME NEW t \in Threads, PollInterrupted(t) PROVE IInv' /\ Grows
  BY <1>2, PollInterruptedKeeps
<1>3. ASSUME NEW s \in DOMAIN socks, Arrive(s) \/ Discard(s) \/ Resolve(s) PROVE IInv' /\ Grows
  BY <1>3, NobodyMoves DEF Arrive, Discard, Resolve
<1>4. CASE Finished \/ UNCHANGED vars
  BY <1>4, NobodyMoves DEF Finished, vars
<1> QED BY <1>1, <1>2, <1>3, <1>4, TickKeeps DEF Next

-----------------------------------------------------------------------------
(* The table of open files, and the sockets behind it.                     *)

(* The sockets r are q with s at k.                                        *)
Sets(q, r, k, s) ==
  /\ r \in Seq(Sockets) /\ Len(r) = Len(q)
  /\ \A j \in 1..Len(q) : r[j] = IF j = k THEN s ELSE q[j]

LEMMA SetSocket ==
  ASSUME NEW q \in Seq(Sockets), NEW k \in 1..Len(q), NEW s \in Sockets
  PROVE  Sets(q, [q EXCEPT ![k] = s], k, s)
BY DEF Sets

(* A step on the kernel's tables keeps them in order, and a call that need *)
(* not block need not block after it, but for descriptors in X.            *)
Kept(X) ==
  /\ TableOK(files, socks)'
  /\ \A fd : Fed(files, socks, fd) => Fed(files, socks, fd)' \/ fd \in X

LEMMA KernelSame ==
  ASSUME TableOK(files, socks), UNCHANGED kernel, NEW X
  PROVE  Kept(X)
BY DEF Kept, kernel, TableOK, Fed

LEMMA KernelShuts ==
  ASSUME TableOK(files, socks), NEW x, Shut(x), UNCHANGED socks, NEW X
  PROVE  Kept(X)
<1>1. DOMAIN files' = DOMAIN files \ {x} /\ \A fd \in DOMAIN files' : files'[fd] = files[fd]
  BY DEF Shut
<1> QED BY <1>1 DEF Kept, TableOK, Fed

LEMMA OpenTable ==
  ASSUME NEW f, NEW q, TableOK(f, q), NEW s \in Sockets, NEW x, s.fd = x, x \notin DOMAIN f,
         NEW g, DOMAIN g = DOMAIN f \cup {x}, g[x] = Len(q) + 1,
         \A fd \in DOMAIN f : g[fd] = f[fd]
  PROVE  /\ TableOK(g, Append(q, s))
         /\ \A fd : Fed(f, q, fd) => Fed(g, Append(q, s), fd) \/ fd = x
<1>1. PICK r : r = Append(q, s)
  OBVIOUS
<1>2. q \in Seq(Sockets) /\ Len(q) \in Nat
  BY DEF TableOK
<1>3. /\ r \in Seq(Sockets) /\ Len(r) = Len(q) + 1
      /\ \A j \in 1..Len(q) : r[j] = q[j]
      /\ r[Len(q) + 1] = s
  BY <1>1, <1>2
<1>4. ASSUME NEW fd \in DOMAIN g
      PROVE  /\ g[fd] \in 1..Len(r) /\ r[g[fd]].fd = fd
             /\ \A j \in 1..Len(r) : r[j].fd = fd => j <= g[fd]
  <2>1. CASE fd = x
    BY <1>2, <1>3, <2>1
  <2>2. CASE fd # x
    <3>1. fd \in DOMAIN f /\ g[fd] = f[fd] /\ f[fd] \in 1..Len(q) /\ q[f[fd]].fd = fd
      BY <1>4, <2>2 DEF TableOK
    <3>2. \A j \in 1..Len(q) : q[j].fd = fd => j <= f[fd]
      BY <3>1 DEF TableOK
    <3>3. \A j \in 1..Len(r) : j \in 1..Len(q) \/ j = Len(q) + 1
      BY <1>2, <1>3
    <3> QED BY <1>2, <1>3, <2>2, <3>1, <3>2, <3>3
  <2> QED BY <2>1, <2>2
<1>5. ASSUME NEW fd, Fed(f, q, fd), fd # x PROVE Fed(g, r, fd)
  <2>1. SUFFICES ASSUME fd \in DOMAIN g PROVE r[g[fd]].queue # <<>> \/ r[g[fd]].discarded
    BY DEF Fed
  <2>2. fd \in DOMAIN f /\ g[fd] = f[fd] /\ f[fd] \in 1..Len(q)
    BY <1>5, <2>1 DEF TableOK
  <2> QED BY <1>3, <1>5, <2>2 DEF Fed
<1>6. TableOK(g, r)
  BY <1>3, <1>4 DEF TableOK
<1> QED BY <1>1, <1>5, <1>6

LEMMA NewSocketOK ==
  ASSUME Free # {}, NEW kind \in {"bind", "listen", "stream"},
         NEW state \in {"up", "connecting", "refused"}
  PROVE  /\ NewSocket(kind, state) \in Sockets
         /\ [NewSocket(kind, state) EXCEPT !.blocking = FALSE] \in Sockets
         /\ NewSocket(kind, state).fd = Min(Free) /\ NewSocket(kind, state).last = 0
         /\ [NewSocket(kind, state) EXCEPT !.blocking = FALSE].fd = Min(Free)
         /\ [NewSocket(kind, state) EXCEPT !.blocking = FALSE].last = 0
<1>1. Min(Free) \in Fds
  BY LowestFree
<1>2. <<>> \in Seq(Items)
  OBVIOUS
<1> QED BY <1>1, <1>2 DEF NewSocket, Sockets

LEMMA FreeIsClosed ==
  ASSUME Free # {}
  PROVE  Min(Free) \notin DOMAIN files
<1>1. Free \subseteq Nat
  BY NetAssumption DEF Free
<1>2. Min(Free) \in Free
  BY <1>1, MinIn
<1> QED BY <1>2 DEF Free

LEMMA KernelOpens ==
  ASSUME TableOK(files, socks), Free # {}, NEW s \in Sockets, s.fd = Min(Free),
         Open(Min(Free), s)
  PROVE  Kept({Min(Free)})
<1>1. PICK x : x = Min(Free)
  OBVIOUS
<1>2. files' = Put(files, x, Len(socks) + 1) /\ socks' = Append(socks, s)
  BY <1>1 DEF Open
<1>3. x \notin DOMAIN files
  BY <1>1, FreeIsClosed
<1>4. /\ DOMAIN files' = DOMAIN files \cup {x} /\ files'[x] = Len(socks) + 1
      /\ \A fd \in DOMAIN files : files'[fd] = files[fd]
  BY <1>2, <1>3 DEF Put
<1>5. PICK g : g = files'
  OBVIOUS
<1>6. /\ TableOK(g, Append(socks, s))
      /\ \A fd : Fed(files, socks, fd) => Fed(g, Append(socks, s), fd) \/ fd = x
  BY <1>1, <1>3, <1>4, <1>5, OpenTable
<1>7. TableOK(files', socks') /\ \A fd : Fed(files, socks, fd) => Fed(files', socks', fd) \/ fd = x
  BY <1>2, <1>5, <1>6
<1> QED BY <1>1, <1>7 DEF Kept, TableOK, Fed

(* A socket changes.                                                       *)
LEMMA SetTable ==
  ASSUME NEW f, NEW q, NEW r, NEW k \in 1..Len(q), NEW s, TableOK(f, q), Sets(q, r, k, s),
         s.fd = q[k].fd
  PROVE  /\ TableOK(f, r)
         /\ \A fd : Fed(f, q, fd) => Fed(f, r, fd) \/ fd = s.fd
         /\ (q[k].queue # <<>> \/ q[k].discarded => s.queue # <<>> \/ s.discarded) =>
              \A fd : Fed(f, q, fd) => Fed(f, r, fd)
<1>1. \A j \in 1..Len(q) : r[j].fd = q[j].fd
  BY DEF Sets
<1>2. TableOK(f, r)
  BY <1>1 DEF TableOK, Sets
<1>3. ASSUME NEW fd \in DOMAIN f
      PROVE  /\ f[fd] \in 1..Len(q)
             /\ fd # s.fd => r[f[fd]] = q[f[fd]]
             /\ r[f[fd]] = q[f[fd]] \/ (f[fd] = k /\ r[f[fd]] = s)
  BY DEF TableOK, Sets
<1>4. \A fd : Fed(f, q, fd) => Fed(f, r, fd) \/ fd = s.fd
  BY <1>3 DEF Fed
<1>5. ASSUME q[k].queue # <<>> \/ q[k].discarded => s.queue # <<>> \/ s.discarded,
             NEW fd, Fed(f, q, fd)
      PROVE  Fed(f, r, fd)
  BY <1>3, <1>5 DEF Fed
<1> QED BY <1>2, <1>4, <1>5

LEMMA KernelSets ==
  ASSUME TableOK(files, socks), UNCHANGED files, NEW k \in 1..Len(socks), NEW s \in Sockets,
         s.fd = socks[k].fd, socks' = [socks EXCEPT ![k] = s]
  PROVE  /\ Kept({s.fd})
         /\ (socks[k].queue # <<>> \/ socks[k].discarded => s.queue # <<>> \/ s.discarded) =>
              Kept({})
<1>1. PICK q, r : q = socks /\ r = [q EXCEPT ![k] = s]
  OBVIOUS
<1>2. Sets(q, r, k, s)
  BY <1>1, SetSocket DEF TableOK
<1>3. /\ TableOK(files, r)
      /\ \A fd : Fed(files, q, fd) => Fed(files, r, fd) \/ fd = s.fd
      /\ (q[k].queue # <<>> \/ q[k].discarded => s.queue # <<>> \/ s.discarded) =>
           \A fd : Fed(files, q, fd) => Fed(files, r, fd)
  BY <1>1, <1>2, SetTable
<1>4. socks' = r /\ files' = files
  BY <1>1
<1>5. TableOK(files, socks)'
  BY <1>3, <1>4 DEF TableOK
<1>6. \A fd : Fed(files, r, fd) => Fed(files, socks, fd)'
  BY <1>4 DEF Fed
<1> QED BY <1>1, <1>3, <1>5, <1>6 DEF Kept

-----------------------------------------------------------------------------
(* Who overstays.                                                          *)

(* What another may keep waiting stays so, until its descriptor is closed. *)
LEMMA HeldStays ==
  ASSUME Grows, UNCHANGED prog, NEW u \in Threads, NEW fd, Held(u, fd)
  PROVE  Held(u, fd)' \/ fd \notin DOMAIN files'
<1>1. Threads' = Threads /\ Code(u)' = Code(u)
  BY DEF Threads, Code
<1>2. Uses(u, fd) => Uses(u, fd)'
  BY <1>1 DEF Uses, Grows
<1>3. Names(u, fd) => Names(u, fd)'
  BY <1>1 DEF Names, Grows
<1>4. Connects(u, at[u], fd) => Connects(u, at[u], fd)' \/ Names(u, fd)' \/ fd \notin DOMAIN files'
  BY <1>1 DEF Grows
<1> QED BY <1>2, <1>3, <1>4 DEF Held

(* Thread u is the one that moves.                                         *)
Moves(u) ==
  /\ UNCHANGED prog
  /\ \A w \in Threads : w # u => at'[w] = at[w]

(* Thread u has not just been told that its socket is ready, unless it is. *)
StillFed(u) ==
  Attends(u, at'[u]) =>
    \/ Fed(files', socks', at'[u].fd)
    \/ Attends(u, at[u]) /\ at'[u].fd = at[u].fd /\ UNCHANGED kernel

LEMMA OthersRun ==
  ASSUME IInv, NEW u \in Threads, Runs(u), NEW w \in Threads, w # u, at[w].phase # "call"
  PROVE  u # 0 /\ w # 0
<1>1. w = 0 => ~Done(0)
  BY DEF IInv, ThreadsOK, PlaceOK, Done
<1>2. w # 0 => Done(0)
  BY DEF IInv, ThreadsOK
<1> QED BY <1>1, <1>2 DEF Runs

LEMMA WaitsStay ==
  ASSUME WInv, Grows, NEW u \in Threads, Runs(u), Moves(u), StillFed(u),
         NEW X, Kept(X), \A x \in X : x \in DOMAIN files' => Held(u, x)'
  PROVE  TableOK(files, socks)' /\ WaitsFed'
<1>1. Threads' = Threads /\ \A w : Code(w)' = Code(w) /\ UNCHANGED prog
  BY DEF Threads, Code, Moves
<1>2. ASSUME NEW w \in Threads, Attends(w, at'[w]), NEW fd, fd = at'[w].fd
      PROVE  \/ Fed(files, socks, fd)'
             \/ w # 0 /\ \E v \in Threads \ {0, w} : Held(v, fd)'
  <2>1. Fed(files, socks, fd)' <=> Fed(files', socks', fd)
    BY DEF Fed
  <2>2. SUFFICES ASSUME fd \in DOMAIN files', ~Fed(files', socks', fd)
                 PROVE  w # 0 /\ \E v \in Threads \ {0, w} : Held(v, fd)'
    BY <2>1 DEF Fed
  <2>3. ASSUME w # 0, NEW v \in Threads \ {0, w}, Held(v, fd)
        PROVE  w # 0 /\ \E v2 \in Threads \ {0, w} : Held(v2, fd)'
    BY <1>1, <2>2, <2>3, HeldStays
  <2>4. CASE w = u
    <3>1. Attends(u, at[u]) /\ fd = at[u].fd /\ UNCHANGED kernel
      BY <1>2, <2>2, <2>4 DEF StillFed
    <3>2. ~Fed(files, socks, fd)
      BY <2>2, <3>1 DEF kernel
    <3> QED BY <2>3, <2>4, <3>1, <3>2 DEF WInv, WaitsFed
  <2>5. CASE w # u
    <3>1. at'[w] = at[w] /\ Attends(w, at[w]) /\ fd = at[w].fd
      BY <1>2, <2>5 DEF Moves
    <3>2. u # 0 /\ w # 0
      BY <2>5, <3>1, OthersRun DEF WInv, Attends
    <3>3. CASE Fed(files, socks, fd)
      <4>1. fd \in X
        BY <2>1, <2>2, <3>3 DEF Kept
      <4> QED BY <2>2, <2>5, <3>2, <4>1
    <3>4. CASE ~Fed(files, socks, fd)
      BY <2>3, <3>1, <3>4 DEF WInv, WaitsFed
    <3> QED BY <3>3, <3>4
  <2> QED BY <2>4, <2>5
<1>3. WaitsFed'
  <2>1. ASSUME NEW w \in Threads', Attends(w, at[w])'
        PROVE  \/ Fed(files, socks, at[w].fd)'
               \/ w # 0 /\ \E v \in Threads' \ {0, w} : Held(v, at[w].fd)'
    <3>1. w \in Threads /\ Attends(w, at'[w])
      BY <1>1, <2>1 DEF Attends
    <3>2. PICK fd : fd = at'[w].fd
      OBVIOUS
    <3>3. Fed(files, socks, fd)' \/ (w # 0 /\ \E v \in Threads' \ {0, w} : Held(v, fd)')
      BY <1>1, <1>2, <3>1, <3>2
    <3> QED BY <3>2, <3>3 DEF Fed, Held, Uses, Names, Connects
  <2> QED BY <2>1 DEF WaitsFed
<1> QED BY <1>3 DEF Kept

(* A step of the environment: no thread moves.                             *)
LEMMA WaitsStayIdle ==
  ASSUME WInv, Grows, UNCHANGED <<prog, at>>, Kept({})
  PROVE  TableOK(files, socks)' /\ WaitsFed'
<1>1. Threads' = Threads /\ \A w : Code(w)' = Code(w)
  BY DEF Threads, Code
<1>2. ASSUME NEW w \in Threads', Attends(w, at[w])'
      PROVE  \/ Fed(files, socks, at[w].fd)'
             \/ w # 0 /\ \E v \in Threads' \ {0, w} : Held(v, at[w].fd)'
  <2>1. w \in Threads /\ Attends(w, at[w])
    BY <1>1, <1>2 DEF Attends
  <2>2. PICK fd : fd = at[w].fd
    OBVIOUS
  <2>3. Fed(files, socks, fd) => Fed(files, socks, fd)'
    BY DEF Kept
  <2>4. fd \notin DOMAIN files' => Fed(files, socks, fd)'
    BY DEF Fed
  <2>5. \A v \in Threads : Held(v, fd) => Held(v, fd)' \/ fd \notin DOMAIN files'
    BY HeldStays
  <2>6. Fed(files, socks, fd) \/ (w # 0 /\ \E v \in Threads \ {0, w} : Held(v, fd))
    BY <2>1, <2>2 DEF WInv, WaitsFed
  <2>7. Fed(files, socks, fd)' \/ (w # 0 /\ \E v \in Threads' \ {0, w} : Held(v, fd)')
    BY <1>1, <2>3, <2>4, <2>5, <2>6
  <2>8. at'[w].fd = fd
    BY <2>2
  <2> QED BY <2>7, <2>8 DEF Fed, Held, Uses, Names, Connects
<1>3. WaitsFed'
  BY <1>2 DEF WaitsFed
<1> QED BY <1>3 DEF Kept

(* Thread u is at r now.                                                   *)
LEMMA MovesTo ==
  ASSUME IInv, NEW u \in Threads, NEW r, at' = [at EXCEPT ![u] = r], UNCHANGED prog
  PROVE  Moves(u) /\ at'[u] = r
BY DEF IInv, ThreadsOK, Moves

LEMMA ReturnMoves ==
  ASSUME IInv, NEW u \in Threads, NEW fd, NEW v, Return(u, fd, v), UNCHANGED prog
  PROVE  Moves(u) /\ StillFed(u)
<1>1. PICK r : r = Answer(u, fd, v)
  OBVIOUS
<1>2. r.phase = "call"
  BY <1>1 DEF Answer
<1>3. Moves(u) /\ at'[u] = r
  BY <1>1, MovesTo DEF Return
<1> QED BY <1>2, <1>3 DEF StillFed, Attends

LEMMA WaitMoves ==
  ASSUME IInv, NEW u \in Threads, NEW fd, NEW ms, NEW start,
         at' = [at EXCEPT ![u] = Wait(u, fd, ms, start)], UNCHANGED prog
  PROVE  Moves(u) /\ StillFed(u) /\ at'[u].phase = "poll" /\ at'[u].pc = at[u].pc /\ at'[u].fd = fd
<1>1. PICK r : r = Wait(u, fd, ms, start)
  OBVIOUS
<1>2. r.phase = "poll" /\ r.pc = at[u].pc /\ r.fd = fd
  BY <1>1 DEF Wait
<1>3. Moves(u) /\ at'[u] = r
  BY <1>1, MovesTo
<1> QED BY <1>2, <1>3 DEF StillFed, Attends

(* The descriptor that a call of u has opened, or works on, is held by u.  *)
LEMMA GivenIsHeld ==
  ASSUME IInv, NEW u \in Threads, Runs(u), Call(u).op \in Opening, NEW v,
         env' = Put(env, Call(u).to, v), UNCHANGED prog
  PROVE  Held(u, v)'
<1>1. at[u].pc \in 1..Len(Code(u)) /\ Code(u)' = Code(u)
  BY InCall DEF IInv, Code
<1>2. PICK x : x = Call(u).to
  OBVIOUS
<1>3. x \in DOMAIN env' /\ env'[x] = v
  BY <1>2 DEF Put
<1>4. Names(u, v)'
  BY <1>1, <1>2, <1>3 DEF Names, Call
<1> QED BY <1>4 DEF Held

LEMMA OwnIsHeld ==
  ASSUME IInv, Grows, NEW u \in Threads, Runs(u), at[u].phase # "call", Call(u).op # "connect",
         UNCHANGED prog, NEW fd, fd = at[u].fd
  PROVE  Held(u, fd)'
<1>1. at[u].pc \in 1..Len(Code(u)) /\ Code(u)' = Code(u)
  BY InCall DEF IInv, Code
<1>2. WorksOn(Call(u), fd)
  BY MidCall
<1>3. Uses(u, fd)'
  BY <1>1, <1>2 DEF WorksOn, Grows, Uses, Call
<1> QED BY <1>3 DEF Held

(* Steps that leave the kernel alone.                                      *)
LEMMA KernelLeft ==
  ASSUME WInv, Grows, NEW u \in Threads, Runs(u), Moves(u), StillFed(u), UNCHANGED kernel
  PROVE  TableOK(files, socks)' /\ WaitsFed'
<1>1. Kept({})
  BY KernelSame DEF WInv
<1> QED BY <1>1, WaitsStay

LEMMA FailFeeds ==
  ASSUME WInv, Grows, NEW u \in Threads, Runs(u), NEW v, Fail(u, v), UNCHANGED <<prog, socks>>
  PROVE  TableOK(files, socks)' /\ WaitsFed'
<1>1. Kept({})
  BY KernelSame, KernelShuts DEF WInv, Fail, kernel
<1>2. Moves(u) /\ StillFed(u)
  BY ReturnMoves DEF WInv, Fail, ReturnTo
<1> QED BY <1>1, <1>2, WaitsStay

LEMMA BindOrListenFeeds ==
  ASSUME WInv, Grows, NEW u \in Threads, BindOrListen(u)
  PROVE  TableOK(files, socks)' /\ WaitsFed'
<1>1. Runs(u) /\ Call(u).op \in {"bind", "listen"} /\ Call(u).op \in Opening /\ UNCHANGED prog
  BY DEF BindOrListen, Calls, In, Opening
<1>2. Moves(u) /\ StillFed(u)
  BY <1>1, ReturnMoves DEF WInv, BindOrListen, ReturnTo
<1>3. ASSUME Free # {}, Open(Min(Free), NewSocket(Call(u).op, "up")),
             ReturnTo(u, Min(Free), Min(Free))
      PROVE  TableOK(files, socks)' /\ WaitsFed'
  <2>1. PICK s, x : s = NewSocket(Call(u).op, "up") /\ x = Min(Free)
    OBVIOUS
  <2>2. s \in Sockets /\ s.fd = Min(Free)
    BY <1>1, <1>3, <2>1, NewSocketOK
  <2>3. Kept({x})
    BY <1>3, <2>1, <2>2, KernelOpens DEF WInv
  <2>4. Held(u, x)'
    BY <1>1, <1>3, <2>1, GivenIsHeld DEF WInv, ReturnTo
  <2> QED BY <1>1, <1>2, <2>3, <2>4, WaitsStay
<1>4. CASE UNCHANGED kernel
  BY <1>1, <1>2, <1>4, KernelLeft
<1> QED BY <1>3, <1>4 DEF BindOrListen

LEMMA CloseFeeds ==
  ASSUME WInv, Grows, NEW u \in Threads, Close(u)
  PROVE  TableOK(files, socks)' /\ WaitsFed'
<1>1. Runs(u) /\ UNCHANGED <<prog, socks>>
  BY DEF Close, Calls, In
<1>2. Moves(u) /\ StillFed(u)
  BY <1>1, ReturnMoves DEF WInv, Close
<1>3. Kept({})
  BY <1>1, KernelSame, KernelShuts DEF WInv, Close, kernel
<1> QED BY <1>1, <1>2, <1>3, WaitsStay

LEMMA StartWaitFeeds ==
  ASSUME WInv, Grows, NEW u \in Threads, StartWait(u)
  PROVE  TableOK(files, socks)' /\ WaitsFed'
<1>1. Runs(u) /\ UNCHANGED <<prog, kernel>>
  BY DEF StartWait, Calls, In, kernel
<1>2. Moves(u) /\ StillFed(u)
  BY <1>1, ReturnMoves, WaitMoves DEF WInv, StartWait, ReturnTo
<1> QED BY <1>1, <1>2, KernelLeft

LEMMA StartConnectFeeds ==
  ASSUME WInv, Grows, NEW u \in Threads, StartConnect(u)
  PROVE  TableOK(files, socks)' /\ WaitsFed'
<1>1. Runs(u) /\ Call(u).op = "connect" /\ Call(u).op \in Opening /\ UNCHANGED prog
  BY DEF StartConnect, Calls, In, Opening
<1>2. ASSUME Free # {}, Open(Min(Free), NewSocket("stream", "up")),
             ReturnTo(u, Min(Free), Min(Free))
      PROVE  TableOK(files, socks)' /\ WaitsFed'
  <2>1. PICK s, x : s = NewSocket("stream", "up") /\ x = Min(Free)
    OBVIOUS
  <2>2. s \in Sockets /\ s.fd = Min(Free)
    BY <1>2, <2>1, NewSocketOK
  <2>3. Kept({x})
    BY <1>2, <2>1, <2>2, KernelOpens DEF WInv
  <2>4. Held(u, x)'
    BY <1>1, <1>2, <2>1, GivenIsHeld DEF WInv, ReturnTo
  <2>5. Moves(u) /\ StillFed(u)
    BY <1>1, <1>2, ReturnMoves DEF WInv, ReturnTo
  <2> QED BY <1>1, <2>3, <2>4, <2>5, WaitsStay
<1>3. ASSUME Free # {},
             Open(Min(Free), [NewSocket("stream", "connecting") EXCEPT !.blocking = FALSE]),
             at' = [at EXCEPT ![u] = Wait(u, Min(Free), Call(u).ms, now)]
      PROVE  TableOK(files, socks)' /\ WaitsFed'
  <2>1. PICK s, x : /\ s = [NewSocket("stream", "connecting") EXCEPT !.blocking = FALSE]
                    /\ x = Min(Free)
    OBVIOUS
  <2>2. s \in Sockets /\ s.fd = Min(Free)
    BY <1>3, <2>1, NewSocketOK
  <2>3. Kept({x})
    BY <1>3, <2>1, <2>2, KernelOpens DEF WInv
  <2>4. /\ Moves(u) /\ StillFed(u)
        /\ at'[u].phase = "poll" /\ at'[u].pc = at[u].pc /\ at'[u].fd = x
    BY <1>1, <1>3, <2>1, WaitMoves DEF WInv
  <2>5. Held(u, x)'
    BY <1>1, <2>4 DEF Held, Connects, Call, Code
  <2> QED BY <1>1, <2>3, <2>4, <2>5, WaitsStay
<1>4. CASE ReturnTo(u, NetError, NetError) /\ UNCHANGED kernel
  <2>1. Moves(u) /\ StillFed(u)
    BY <1>1, <1>4, ReturnMoves DEF WInv, ReturnTo
  <2> QED BY <1>1, <1>4, <2>1, KernelLeft
<1> QED BY <1>2, <1>3, <1>4 DEF StartConnect

(* A call is told that its socket is ready: it is.                         *)
LEMMA PollReadyFeeds ==
  ASSUME WInv, Grows, NEW u \in Threads, PollReady(u)
  PROVE  TableOK(files, socks)' /\ WaitsFed'
<1>1. Runs(u) /\ at[u].phase = "poll" /\ UNCHANGED <<prog, kernel>> /\ Ready(at[u].fd, Interested(u))
  BY DEF PollReady, In, kernel
<1>2. PICK r : at' = [at EXCEPT ![u] = r] /\ r.fd = at[u].fd /\ r.pc = at[u].pc
  <2>1. PICK phase : at' = [at EXCEPT ![u] = [at[u] EXCEPT !.phase = phase]]
    BY <1>1 DEF PollReady, WInv, IInv, ThreadsOK
  <2>2. PICK r : r = [at[u] EXCEPT !.phase = phase]
    OBVIOUS
  <2>3. r.pc = at[u].pc /\ r.fd = at[u].fd
    BY <1>1, <2>2, MidCall DEF WInv, WaitFields
  <2> QED BY <2>1, <2>2, <2>3
<1>3. Moves(u) /\ at'[u] = r
  BY <1>1, <1>2, MovesTo DEF WInv
<1>4. StillFed(u)
  <2>1. CASE Call(u).op = "connect"
    BY <1>2, <1>3, <2>1 DEF StillFed, Attends, Call
  <2>2. CASE Call(u).op # "connect"
    <3>1. Fed(files, socks, at[u].fd)
      BY <1>1, <2>2 DEF Ready, Interested, IsOpen, SocketAt, Fed
    <3>2. Fed(files', socks', r.fd)
      BY <1>1, <1>2, <3>1 DEF kernel
    <3> QED BY <1>3, <3>2 DEF StillFed
  <2> QED BY <2>1, <2>2
<1> QED BY <1>1, <1>3, <1>4, KernelLeft

LEMMA PollTimesOutFeeds ==
  ASSUME WInv, Grows, NEW u \in Threads, PollTimesOut(u)
  PROVE  TableOK(files, socks)' /\ WaitsFed'
BY FailFeeds DEF PollTimesOut, In

LEMMA PollInterruptedFeeds ==
  ASSUME WInv, Grows, NEW u \in Threads, PollInterrupted(u)
  PROVE  TableOK(files, socks)' /\ WaitsFed'
<1>1. Runs(u) /\ UNCHANGED <<prog, socks>>
  BY DEF PollInterrupted, In
<1>2. CASE Fail(u, NetTimeout)
  BY <1>1, <1>2, FailFeeds
<1>3. CASE at' = [at EXCEPT ![u] = Wait(u, at[u].fd, at[u].ms, at[u].start)] /\ UNCHANGED files
  <2>1. Moves(u) /\ StillFed(u)
    BY <1>1, <1>3, WaitMoves DEF WInv
  <2> QED BY <1>1, <1>3, <2>1, KernelLeft DEF kernel
<1> QED BY <1>2, <1>3 DEF PollInterrupted

LEMMA FinishConnectFeeds ==
  ASSUME WInv, Grows, NEW u \in Threads, FinishConnect(u)
  PROVE  TableOK(files, socks)' /\ WaitsFed'
<1>1. Runs(u) /\ UNCHANGED prog
  BY DEF FinishConnect, In
<1>2. ASSUME IsOpen(at[u].fd), socks' = [socks EXCEPT ![files[at[u].fd]].blocking = TRUE],
             ReturnTo(u, at[u].fd, at[u].fd), UNCHANGED files
      PROVE  TableOK(files, socks)' /\ WaitsFed'
  <2>1. PICK k : k = files[at[u].fd]
    OBVIOUS
  <2>2. k \in 1..Len(socks) /\ socks \in Seq(Sockets) /\ socks[k] \in Sockets
    BY <1>2, <2>1 DEF WInv, TableOK, IsOpen
  <2>3. PICK s : s = [socks[k] EXCEPT !.blocking = TRUE]
    OBVIOUS
  <2>4. /\ s \in Sockets /\ s.fd = socks[k].fd
        /\ s.queue = socks[k].queue /\ s.discarded = socks[k].discarded
    BY <2>2, <2>3 DEF Sockets
  <2>5. socks' = [socks EXCEPT ![k] = s]
    BY <1>2, <2>1, <2>2, <2>3
  <2>6. Kept({})
    BY <1>2, <2>2, <2>4, <2>5, KernelSets DEF WInv
  <2>7. Moves(u) /\ StillFed(u)
    BY <1>1, <1>2, ReturnMoves DEF WInv, ReturnTo
  <2> QED BY <1>1, <2>6, <2>7, WaitsStay
<1>3. CASE Fail(u, NetError) /\ UNCHANGED socks
  BY <1>1, <1>3, FailFeeds
<1> QED BY <1>2, <1>3 DEF FinishConnect

(* What is taken from a queue leaves a queue.                              *)
LEMMA QueueTail ==
  ASSUME NEW s \in Sockets, s.queue # <<>>
  PROVE  /\ Head(s.queue) \in Items /\ Tail(s.queue) \in Seq(Items)
         /\ [s EXCEPT !.queue = Tail(s.queue)] \in Sockets
         /\ [s EXCEPT !.queue = Tail(s.queue)].fd = s.fd
         /\ [s EXCEPT !.queue = Tail(s.queue)].last = s.last
<1>1. s.queue \in Seq(Items)
  BY DEF Sockets
<1>2. Head(s.queue) \in Items /\ Tail(s.queue) \in Seq(Items)
  BY <1>1
<1> QED BY <1>2 DEF Sockets

LEMMA AcceptFeeds ==
  ASSUME WInv, Grows, NEW u \in Threads, Accept(u)
  PROVE  TableOK(files, socks)' /\ WaitsFed'
<1>1. /\ Runs(u) /\ at[u].phase = "io" /\ Call(u).op = "accept" /\ Call(u).op \in Opening
      /\ UNCHANGED prog
  BY DEF Accept, In, Opening
<1>2. ASSUME IsOpen(at[u].fd), SocketAt(at[u].fd).queue # <<>>, Free # {},
             files' = Put(files, Min(Free), Len(socks) + 1),
             socks' = Append([socks EXCEPT ![files[at[u].fd]].queue = Tail(@)],
                             NewSocket("stream", "up")),
             ReturnTo(u, at[u].fd, Min(Free))
      PROVE  TableOK(files, socks)' /\ WaitsFed'
  <2>1. PICK k, fd, x : k = files[fd] /\ fd = at[u].fd /\ x = Min(Free)
    OBVIOUS
  <2>2. /\ k \in 1..Len(socks) /\ socks \in Seq(Sockets) /\ socks[k] \in Sockets
        /\ socks[k].fd = fd /\ socks[k].queue # <<>>
    BY <1>2, <2>1 DEF WInv, TableOK, IsOpen, SocketAt
  <2>3. PICK s : s = [socks[k] EXCEPT !.queue = Tail(socks[k].queue)]
    OBVIOUS
  <2>4. s \in Sockets /\ s.fd = fd
    BY <2>2, <2>3, QueueTail
  <2>5. PICK q : q = [socks EXCEPT ![k] = s]
    OBVIOUS
  <2>6. q = [socks EXCEPT ![files[at[u].fd]].queue = Tail(@)]
    BY <2>1, <2>2, <2>3, <2>5
  <2>7. PICK new : new = NewSocket("stream", "up")
    OBVIOUS
  <2>8. socks' = Append(q, new) /\ new \in Sockets /\ new.fd = x
    BY <1>2, <2>1, <2>6, <2>7, NewSocketOK
  <2>9. TableOK(files, q) /\ \A y : Fed(files, socks, y) => Fed(files, q, y) \/ y = fd
    <3>1. Sets(socks, q, k, s)
      BY <2>2, <2>4, <2>5, SetSocket
    <3>2. PICK q0 : q0 = socks
      OBVIOUS
    <3>3. TableOK(files, q) /\ \A y : Fed(files, q0, y) => Fed(files, q, y) \/ y = s.fd
      BY <2>2, <2>4, <3>1, <3>2, SetTable DEF WInv
    <3> QED BY <2>4, <3>2, <3>3
  <2>10. Len(q) = Len(socks)
    BY <2>2, <2>5
  <2>11. x \notin DOMAIN files
    BY <1>2, <2>1, FreeIsClosed
  <2>12. PICK g : g = files'
    OBVIOUS
  <2>13. /\ DOMAIN g = DOMAIN files \cup {x} /\ g[x] = Len(q) + 1
         /\ \A y \in DOMAIN files : g[y] = files[y]
    BY <1>2, <2>1, <2>10, <2>11, <2>12 DEF Put
  <2>14. /\ TableOK(g, Append(q, new))
         /\ \A y : Fed(files, q, y) => Fed(g, Append(q, new), y) \/ y = x
    BY <2>8, <2>9, <2>11, <2>13, OpenTable
  <2>15. Kept({fd, x})
    <3>1. TableOK(files', socks') /\ \A y : Fed(files, socks, y) => Fed(files', socks', y) \/ y \in {fd, x}
      BY <2>8, <2>9, <2>12, <2>14
    <3> QED BY <3>1 DEF Kept, TableOK, Fed
  <2>16. Held(u, x)'
    BY <1>1, <1>2, <2>1, GivenIsHeld DEF WInv, ReturnTo
  <2>17. Held(u, fd)'
    BY <1>1, <2>1, OwnIsHeld DEF WInv
  <2>18. Moves(u) /\ StillFed(u)
    BY <1>1, <1>2, ReturnMoves DEF WInv, ReturnTo
  <2> QED BY <1>1, <2>15, <2>16, <2>17, <2>18, WaitsStay
<1>3. CASE Fail(u, NetError) /\ UNCHANGED socks
  BY <1>1, <1>3, FailFeeds
<1> QED BY <1>2, <1>3 DEF Accept

LEMMA ReadFeeds ==
  ASSUME WInv, Grows, NEW u \in Threads, Read(u)
  PROVE  TableOK(files, socks)' /\ WaitsFed'
<1>1. Runs(u) /\ at[u].phase = "io" /\ Call(u).op = "read" /\ UNCHANGED <<prog, files>>
  BY DEF Read, In
<1>2. Moves(u) /\ StillFed(u)
  BY <1>1, ReturnMoves DEF WInv, Read
<1>3. ASSUME IsOpen(at[u].fd), SocketAt(at[u].fd).queue # <<>>,
             socks' = [socks EXCEPT ![files[at[u].fd]].queue =
                         IF Head(@) = "eof" THEN @ ELSE Tail(@)]
      PROVE  TableOK(files, socks)' /\ WaitsFed'
  <2>1. PICK k, fd : k = files[fd] /\ fd = at[u].fd
    OBVIOUS
  <2>2. /\ k \in 1..Len(socks) /\ socks \in Seq(Sockets) /\ socks[k] \in Sockets
        /\ socks[k].fd = fd /\ socks[k].queue # <<>>
    BY <1>3, <2>1 DEF WInv, TableOK, IsOpen, SocketAt
  <2>3. PICK s : /\ socks' = [socks EXCEPT ![k] = s]
                 /\ s = IF Head(socks[k].queue) = "eof" THEN socks[k]
                        ELSE [socks[k] EXCEPT !.queue = Tail(socks[k].queue)]
    BY <1>3, <2>1, <2>2 DEF Sockets
  <2>4. s \in Sockets /\ s.fd = fd
    BY <2>2, <2>3, QueueTail
  <2>5. Kept({fd})
    BY <1>1, <2>2, <2>3, <2>4, KernelSets DEF WInv
  <2>6. Held(u, fd)'
    BY <1>1, <2>1, OwnIsHeld DEF WInv
  <2> QED BY <1>1, <1>2, <2>5, <2>6, WaitsStay
<1>4. CASE UNCHANGED socks
  BY <1>1, <1>2, <1>4, KernelLeft DEF kernel
<1> QED BY <1>3, <1>4 DEF Read

(* The search for a slot takes the call no nearer to its socket.           *)
LEMMA SearchFeeds ==
  ASSUME WInv, Grows, NEW u \in Threads, Runs(u), at[u].phase \in {"find", "free", "claim"},
         NEW r, at' = [at EXCEPT ![u] = r], r.pc = at[u].pc, r.fd = at[u].fd,
         UNCHANGED <<prog, kernel>>
  PROVE  TableOK(files, socks)' /\ WaitsFed'
<1>1. Moves(u) /\ at'[u] = r
  BY MovesTo DEF WInv
<1>2. Attends(u, r) => Attends(u, at[u])
  BY DEF Attends
<1>3. StillFed(u)
  BY <1>1, <1>2 DEF StillFed
<1> QED BY <1>1, <1>3, KernelLeft

LEMMA FindSlotFeeds ==
  ASSUME WInv, Grows, NEW u \in Threads, FindSlot(u) \/ FindFreeSlot(u) \/ ClaimSlot(u)
  PROVE  TableOK(files, socks)' /\ WaitsFed'
<1>1. /\ Runs(u) /\ at[u].phase \in {"find", "free", "claim"} /\ UNCHANGED <<prog, kernel>>
  BY DEF FindSlot, FindFreeSlot, ClaimSlot, In, kernel
<1>2. DOMAIN at[u] = WaitFields
  BY <1>1, MidCall DEF WInv
<1>3. \A phase, slot :
        /\ [at[u] EXCEPT !.phase = phase].pc = at[u].pc
        /\ [at[u] EXCEPT !.phase = phase].fd = at[u].fd
        /\ [at[u] EXCEPT !.phase = phase, !.slot = slot].pc = at[u].pc
        /\ [at[u] EXCEPT !.phase = phase, !.slot = slot].fd = at[u].fd
  BY <1>2 DEF WaitFields
<1>4. CASE Return(u, at[u].fd, NetError)
  <2>1. Moves(u) /\ StillFed(u)
    BY <1>1, <1>4, ReturnMoves DEF WInv
  <2> QED BY <1>1, <2>1, KernelLeft
<1>5. CASE ~Return(u, at[u].fd, NetError)
  <2>1. \/ \E phase : at' = [at EXCEPT ![u] = [at[u] EXCEPT !.phase = phase]]
        \/ \E phase, slot : at' = [at EXCEPT ![u] = [at[u] EXCEPT !.phase = phase, !.slot = slot]]
    <3>1. at = [w \in Threads |-> at[w]]
      BY DEF WInv, IInv, ThreadsOK
    <3>2. CASE FindSlot(u)
      <4>1. PICK found : found = UsedSlot(at[u].fd)
        OBVIOUS
      <4>2. at' = [at EXCEPT ![u] = IF found # {}
                                    THEN [at[u] EXCEPT !.phase = "io", !.slot = Min(found)]
                                    ELSE [at[u] EXCEPT !.phase = "free"]]
        BY <3>1, <3>2, <4>1 DEF FindSlot
      <4>3. CASE found # {}
        BY <4>2, <4>3
      <4>4. CASE found = {}
        BY <4>2, <4>4
      <4> QED BY <4>3, <4>4
    <3>3. CASE FindFreeSlot(u)
      BY <1>5, <3>1, <3>3 DEF FindFreeSlot
    <3>4. CASE ClaimSlot(u)
      BY <3>1, <3>4 DEF ClaimSlot
    <3> QED BY <3>2, <3>3, <3>4
  <2>2. PICK r : at' = [at EXCEPT ![u] = r] /\ r.pc = at[u].pc /\ r.fd = at[u].fd
    <3>1. ASSUME NEW q, at' = [at EXCEPT ![u] = q], q.pc = at[u].pc, q.fd = at[u].fd
          PROVE  \E r : at' = [at EXCEPT ![u] = r] /\ r.pc = at[u].pc /\ r.fd = at[u].fd
      BY <3>1
    <3>2. ASSUME NEW phase, at' = [at EXCEPT ![u] = [at[u] EXCEPT !.phase = phase]]
          PROVE  \E r : at' = [at EXCEPT ![u] = r] /\ r.pc = at[u].pc /\ r.fd = at[u].fd
      <4>1. PICK q : q = [at[u] EXCEPT !.phase = phase]
        OBVIOUS
      <4> QED BY <1>3, <3>1, <3>2, <4>1
    <3>3. ASSUME NEW phase, NEW slot,
                 at' = [at EXCEPT ![u] = [at[u] EXCEPT !.phase = phase, !.slot = slot]]
          PROVE  \E r : at' = [at EXCEPT ![u] = r] /\ r.pc = at[u].pc /\ r.fd = at[u].fd
      <4>1. PICK q : q = [at[u] EXCEPT !.phase = phase, !.slot = slot]
        OBVIOUS
      <4> QED BY <1>3, <3>1, <3>3, <4>1
    <3> QED BY <2>1, <3>2, <3>3
  <2> QED BY <1>1, <2>2, SearchFeeds
<1> QED BY <1>4, <1>5

(* What changes when datagram d is received from socket s.                 *)
Taken(s, d) == [s EXCEPT !.queue = Tail(s.queue), !.last = d]

LEMMA TakenOK ==
  ASSUME NEW s \in Sockets, s.queue # <<>>, NEW d \in DOMAIN Datagrams
  PROVE  Taken(s, d) \in Sockets /\ Taken(s, d).fd = s.fd /\ Taken(s, d).last = d
<1>1. Tail(s.queue) \in Seq(Items)
  BY QueueTail
<1> QED BY <1>1 DEF Taken, Sockets

LEMMA ReceiveTakes ==
  ASSUME TableOK(files, socks), NEW fd, IsOpen(fd), NEW d \in DOMAIN Datagrams,
         SocketAt(fd).queue # <<>>,
         socks' = [socks EXCEPT ![files[fd]].queue = Tail(@), ![files[fd]].last = d]
  PROVE  /\ files[fd] \in 1..Len(socks) /\ socks \in Seq(Sockets)
         /\ socks[files[fd]] \in Sockets /\ socks[files[fd]].fd = fd
         /\ socks[files[fd]].queue # <<>>
         /\ socks' = [socks EXCEPT ![files[fd]] = Taken(socks[files[fd]], d)]
<1>1. PICK k : k = files[fd]
  OBVIOUS
<1>2. /\ k \in 1..Len(socks) /\ socks \in Seq(Sockets) /\ socks[k] \in Sockets
      /\ socks[k].fd = fd /\ socks[k].queue # <<>>
  BY <1>1 DEF TableOK, IsOpen, SocketAt
<1>3. socks' = [socks EXCEPT ![k] = Taken(socks[k], d)]
  BY <1>1, <1>2 DEF Taken
<1> QED BY <1>1, <1>2, <1>3

LEMMA ReceiveFromFeeds ==
  ASSUME WInv, Grows, NEW u \in Threads, ReceiveFrom(u)
  PROVE  TableOK(files, socks)' /\ WaitsFed'
<1>1. Runs(u) /\ at[u].phase = "io" /\ Call(u).op = "recv" /\ UNCHANGED <<prog, files>>
  BY DEF ReceiveFrom, In
<1>2. ASSUME IsOpen(at[u].fd), SocketAt(at[u].fd).queue # <<>>, NEW d \in DOMAIN Datagrams,
             socks' = [socks EXCEPT ![files[at[u].fd]].queue = Tail(@),
                                    ![files[at[u].fd]].last  = d],
             at' = [at EXCEPT ![u] = [at[u] EXCEPT !.phase = "store", !.got = d]]
      PROVE  TableOK(files, socks)' /\ WaitsFed'
  <2>1. PICK k, fd : k = files[fd] /\ fd = at[u].fd
    OBVIOUS
  <2>2. /\ k \in 1..Len(socks) /\ socks[k] \in Sockets /\ socks[k].fd = fd
        /\ socks[k].queue # <<>> /\ socks' = [socks EXCEPT ![k] = Taken(socks[k], d)]
    BY <1>2, <2>1, ReceiveTakes DEF WInv
  <2>3. PICK s : s = Taken(socks[k], d)
    OBVIOUS
  <2>4. s \in Sockets /\ s.fd = fd
    BY <2>2, <2>3, TakenOK
  <2>5. Kept({fd})
    BY <1>1, <2>2, <2>3, <2>4, KernelSets DEF WInv
  <2>6. Held(u, fd)'
    BY <1>1, <2>1, OwnIsHeld DEF WInv
  <2>7. PICK r : r = [at[u] EXCEPT !.phase = "store", !.got = d]
    OBVIOUS
  <2>8. r.phase = "store"
    BY <1>1, <2>7, MidCall DEF WInv, WaitFields
  <2>9. Moves(u) /\ at'[u] = r
    BY <1>1, <1>2, <2>7, MovesTo DEF WInv
  <2>10. StillFed(u)
    BY <2>8, <2>9 DEF StillFed, Attends
  <2> QED BY <1>1, <2>5, <2>6, <2>9, <2>10, WaitsStay
<1>3. CASE Return(u, at[u].fd, NetError) /\ UNCHANGED socks
  <2>1. Moves(u) /\ StillFed(u)
    BY <1>1, <1>3, ReturnMoves DEF WInv
  <2> QED BY <1>1, <1>3, <2>1, KernelLeft DEF kernel
<1> QED BY <1>2, <1>3 DEF ReceiveFrom, WInv, IInv, ThreadsOK

LEMMA ReadingFeeds ==
  ASSUME WInv, Grows, NEW u \in Threads, StoreLength(u) \/ ReadStaged(u)
  PROVE  TableOK(files, socks)' /\ WaitsFed'
<1>1. Runs(u) /\ UNCHANGED <<prog, kernel>>
  BY DEF StoreLength, ReadStaged, Calls, In, kernel
<1>2. Moves(u) /\ StillFed(u)
  BY <1>1, ReturnMoves DEF WInv, StoreLength, ReadStaged
<1> QED BY <1>1, <1>2, KernelLeft

(* The environment adds to a queue, or notes what it takes away.           *)
LEMMA QueueGrows ==
  ASSUME NEW s \in Sockets, NEW item \in Items
  PROVE  /\ [s EXCEPT !.queue = Append(s.queue, item)] \in Sockets
         /\ [s EXCEPT !.queue = Append(s.queue, item)].fd = s.fd
         /\ [s EXCEPT !.queue = Append(s.queue, item)].last = s.last
         /\ [s EXCEPT !.queue = Append(s.queue, item)].queue # <<>>
<1>1. s.queue \in Seq(Items)
  BY DEF Sockets
<1>2. Append(s.queue, item) \in Seq(Items) /\ Append(s.queue, item) # <<>>
  BY <1>1
<1> QED BY <1>2 DEF Sockets

LEMMA EnvironmentFeeds ==
  ASSUME WInv, Grows, NEW k \in DOMAIN socks, Arrive(k) \/ Discard(k) \/ Resolve(k)
  PROVE  TableOK(files, socks)' /\ WaitsFed'
<1>1. UNCHANGED <<prog, at, files>>
  BY DEF Arrive, Discard, Resolve
<1>2. k \in 1..Len(socks) /\ socks \in Seq(Sockets) /\ socks[k] \in Sockets
  BY DEF WInv, TableOK
<1>3. ASSUME NEW item \in Items, Deliver(k, item) PROVE Kept({})
  <2>1. PICK s : s = [socks[k] EXCEPT !.queue = Append(socks[k].queue, item)]
    OBVIOUS
  <2>2. s \in Sockets /\ s.fd = socks[k].fd /\ s.queue # <<>>
    BY <1>2, <2>1, QueueGrows
  <2>3. socks' = [socks EXCEPT ![k] = s]
    BY <1>2, <1>3, <2>1 DEF Deliver
  <2> QED BY <1>1, <1>2, <2>2, <2>3, KernelSets DEF WInv
<1>4. ASSUME Arrive(k) PROVE Kept({})
  <2>1. \E item \in Items : Deliver(k, item)
    BY <1>4 DEF Arrive, Items
  <2> QED BY <1>3, <2>1
<1>5. ASSUME Discard(k) PROVE Kept({})
  <2>1. socks[k].queue # <<>> /\ socks' = [socks EXCEPT ![k].queue = Tail(@), ![k].discarded = TRUE]
    BY <1>5 DEF Discard
  <2>2. Tail(socks[k].queue) \in Seq(Items)
    BY <1>2, <2>1, QueueTail
  <2>3. PICK s : s = [socks[k] EXCEPT !.queue = Tail(socks[k].queue), !.discarded = TRUE]
    OBVIOUS
  <2>4. s \in Sockets /\ s.fd = socks[k].fd /\ s.discarded
    BY <1>2, <2>2, <2>3 DEF Sockets
  <2>5. socks' = [socks EXCEPT ![k] = s]
    BY <1>2, <2>1, <2>3
  <2> QED BY <1>1, <1>2, <2>4, <2>5, KernelSets DEF WInv
<1>6. ASSUME Resolve(k) PROVE Kept({})
  <2>1. PICK state \in {"up", "refused"} : socks' = [socks EXCEPT ![k].state = state]
    BY <1>6 DEF Resolve
  <2>2. PICK s : s = [socks[k] EXCEPT !.state = state]
    OBVIOUS
  <2>3. /\ s \in Sockets /\ s.fd = socks[k].fd
        /\ s.queue = socks[k].queue /\ s.discarded = socks[k].discarded
    BY <1>2, <2>2 DEF Sockets
  <2>4. socks' = [socks EXCEPT ![k] = s]
    BY <1>2, <2>1, <2>2
  <2> QED BY <1>1, <1>2, <2>3, <2>4, KernelSets DEF WInv
<1> QED BY <1>1, <1>4, <1>5, <1>6, WaitsStayIdle

LEMMA NextFeeds ==
  ASSUME WInv, [Next]_vars
  PROVE  WInv'
<1>1. IInv' /\ Grows
  BY NextKeeps DEF WInv
<1>2. ASSUME NEW u \in Threads, Step(u) \/ PollInterrupted(u)
      PROVE  TableOK(files, socks)' /\ WaitsFed'
  BY <1>1, <1>2, BindOrListenFeeds, CloseFeeds, StartWaitFeeds, StartConnectFeeds, PollReadyFeeds,
     PollTimesOutFeeds, PollInterruptedFeeds, FinishConnectFeeds, AcceptFeeds, ReadFeeds,
     FindSlotFeeds, ReceiveFromFeeds, ReadingFeeds DEF Step
<1>3. ASSUME NEW k \in DOMAIN socks, Arrive(k) \/ Discard(k) \/ Resolve(k)
      PROVE  TableOK(files, socks)' /\ WaitsFed'
  BY <1>1, <1>3, EnvironmentFeeds
<1>4. ASSUME Tick \/ Finished \/ UNCHANGED vars
      PROVE  TableOK(files, socks)' /\ WaitsFed'
  <2>1. UNCHANGED <<prog, at, kernel>>
    BY <1>4 DEF Tick, Finished, vars, kernel
  <2>2. Kept({})
    BY <2>1, KernelSame DEF WInv
  <2> QED BY <1>1, <2>1, <2>2, WaitsStayIdle
<1>5. TableOK(files, socks)' /\ WaitsFed'
  BY <1>2, <1>3, <1>4 DEF Next
<1> QED BY <1>1, <1>5 DEF WInv

LEMMA InitFeeds ==
  ASSUME Init
  PROVE  WInv
<1>1. TableOK(files, socks)
  BY DEF Init, TableOK
<1>2. \A t \in Threads : at[t].phase = "call"
  BY DEF Init
<1> QED BY <1>1, <1>2, InitOK DEF WInv, WaitsFed, Attends

(* No wait without a bound: the accept, read or recvfrom that follows a    *)
(* poll finds what poll announced, unless the kernel discarded it, another *)
(* task uses the descriptor, or another task opened a socket under its     *)
(* number after it was closed.                                             *)
THEOREM ReadyCallsReturn == Spec => []OnlySharersOverstay
<1>1. ASSUME WInv PROVE OnlySharersOverstay
  <2>1. SUFFICES ASSUME NEW t \in Threads, In(t, "io"), Call(t).op # "connect",
                        IsOpen(at[t].fd)
                 PROVE  \/ SocketAt(at[t].fd).queue # <<>>
                        \/ SocketAt(at[t].fd).discarded
                        \/ Contested(t, at[t].fd)
    BY DEF OnlySharersOverstay
  <2>2. Attends(t, at[t])
    BY <2>1 DEF Attends, In, Call
  <2>3. CASE Fed(files, socks, at[t].fd)
    BY <2>1, <2>3 DEF Fed, IsOpen, SocketAt
  <2>4. ASSUME t # 0, NEW u \in Threads \ {0, t}, Held(u, at[t].fd) PROVE Contested(t, at[t].fd)
    <3>1. Connects(u, at[u], at[t].fd) => Opened(u, at[t].fd)
      BY <1>1 DEF WInv, IInv, ThreadsOK, PlaceOK, Connects, Opened, Runs, Done
    <3>2. Names(u, at[t].fd) => Opened(u, at[t].fd)
      BY DEF Names, Opened
    <3> QED BY <2>4, <3>1, <3>2 DEF Held, Contested
  <2> QED BY <1>1, <2>2, <2>3, <2>4 DEF WInv, WaitsFed
<1>2. Init => WInv
  BY InitFeeds
<1>3. WInv /\ [Next]_vars => WInv'
  BY NextFeeds
<1> QED BY <1>1, <1>2, <1>3, PTL DEF Spec

-----------------------------------------------------------------------------
(* What the table of staged datagrams shows.                               *)

(* What sockets with descriptor fd have received does not change, nor do   *)
(* the slots of fd, nor who is about to write into one.                    *)
Apart(fd) ==
  /\ Len(socks) \in Nat /\ Len(socks') \in Nat /\ Len(socks) <= Len(socks')
  /\ \A s \in 1..Len(socks') :
       socks'[s].fd = fd =>
         IF s <= Len(socks) THEN socks[s].fd = fd /\ socks'[s].last = socks[s].last
         ELSE socks'[s].last = 0
  /\ \A s \in 1..Len(socks) : socks[s].fd = fd => socks'[s].fd = fd
  /\ UsedSlot(fd)' = UsedSlot(fd)
  /\ \A i \in UsedSlot(fd) : slots'[i] = slots[i]
  /\ \A w \in Threads : /\ Storing(w, fd)' <=> Storing(w, fd)
                        /\ Storing(w, fd) => at'[w] = at[w]

LEMMA LatestStays ==
  ASSUME NEW fd, Apart(fd), NEW d, d # 0, Latest(socks, fd, d)
  PROVE  Latest(socks', fd, d)
<1>1. PICK s \in 1..Len(socks) :
        /\ socks[s].fd = fd /\ socks[s].last = d
        /\ \A k \in 1..Len(socks) : socks[k].fd = fd /\ s < k => socks[k].last = 0
  BY DEF Latest
<1>2. s \in 1..Len(socks') /\ socks'[s].fd = fd /\ socks'[s].last = d
  BY <1>1 DEF Apart
<1>3. ASSUME NEW k \in 1..Len(socks'), socks'[k].fd = fd, s < k PROVE socks'[k].last = 0
  BY <1>1, <1>3 DEF Apart
<1> QED BY <1>2, <1>3 DEF Latest

LEMMA ApartKeeps ==
  ASSUME NEW fd, Apart(fd), UNCHANGED prog
  PROVE  /\ Untouched(fd) => Untouched(fd)'
         /\ \A d \in DOMAIN Datagrams : Shows(fd, d) => Shows(fd, d)'
<1>1. Threads' = Threads
  BY DEF Threads
<1>2. ASSUME Untouched(fd) PROVE Untouched(fd)'
  <2>1. \A s \in 1..Len(socks') : socks'[s].fd = fd => socks'[s].last = 0
    BY <1>2 DEF Apart, Untouched
  <2>2. \A i \in UsedSlot(fd)' : slots'[i].len = -1
    BY <1>2 DEF Apart, Untouched
  <2>3. \A w \in Threads : ~Storing(w, fd)'
    BY <1>2 DEF Apart, Untouched
  <2> QED BY <1>1, <2>1, <2>2, <2>3 DEF Untouched
<1>3. ASSUME NEW d \in DOMAIN Datagrams, Shows(fd, d) PROVE Shows(fd, d)'
  <2>1. Latest(socks', fd, d)
    BY <1>3, LatestStays, NetAssumption DEF Shows
  <2>2. PICK i \in UsedSlot(fd) :
          slots[i].bytes = d /\ (Whole(slots[i], d) \/ \E w \in Threads : Storing(w, fd))
    BY <1>3 DEF Shows
  <2>3. i \in UsedSlot(fd)' /\ slots'[i] = slots[i]
    BY <2>2 DEF Apart
  <2>4. Whole(slots'[i], d) \/ \E w \in Threads : Storing(w, fd)'
    BY <2>2, <2>3 DEF Apart
  <2>5. \A w \in Threads : Storing(w, fd)' => at'[w].got = d
    BY <1>3 DEF Apart, Shows
  <2> QED BY <1>1, <2>1, <2>2, <2>3, <2>4, <2>5 DEF Shows, Latest, Whole
<1> QED BY <1>2, <1>3

(* Who works on a descriptor works on it for good.                         *)
LEMMA QuietWas ==
  ASSUME Grows, UNCHANGED prog, Done(0) => Done(0)', NEW fd, Quiet(fd)'
  PROVE  Quiet(fd)
<1>1. Threads' = Threads /\ \A w : Code(w)' = Code(w)
  BY DEF Threads, Code
<1>2. \A w \in Threads : Uses(w, fd) => Uses(w, fd)'
  BY <1>1 DEF Uses, Grows
<1> QED BY <1>1, <1>2 DEF Quiet

(* A step whose thread works on descriptor x leaves the others' slots.     *)
LEMMA ToldStays ==
  ASSUME Told, Grows, UNCHANGED prog, Done(0) => Done(0)', NEW x,
         \A fd \in Fds : fd = x \/ Apart(fd),
         Quiet(x) /\ (Untouched(x) \/ \E d \in DOMAIN Datagrams : Shows(x, d)) =>
           Untouched(x)' \/ \E d \in DOMAIN Datagrams : Shows(x, d)'
  PROVE  Told'
<1>1. ASSUME NEW fd \in Fds, Quiet(fd)'
      PROVE  Untouched(fd)' \/ \E d \in DOMAIN Datagrams : Shows(fd, d)'
  <2>1. Quiet(fd)
    BY <1>1, QuietWas
  <2>2. Untouched(fd) \/ \E d \in DOMAIN Datagrams : Shows(fd, d)
    BY <1>1, <2>1 DEF Told
  <2>3. CASE fd = x
    <3>1. Untouched(x)' \/ \E d \in DOMAIN Datagrams : Shows(x, d)'
      BY <2>1, <2>2, <2>3
    <3> QED BY <2>3, <3>1 DEF Untouched, Shows, UsedSlot, Storing
  <2>4. CASE fd # x
    BY <1>1, <2>2, <2>4, ApartKeeps
  <2> QED BY <2>3, <2>4
<1> QED BY <1>1 DEF Told

(* The past of a descriptor, before its last socket, does not change.      *)
Past ==
  /\ Len(socks) \in Nat /\ Len(socks') \in Nat /\ Len(socks) <= Len(socks')
  /\ \A s \in 1..Len(socks) : socks'[s].fd = socks[s].fd
  /\ \A a \in 1..Len(socks) : \A s \in 1..(a - 1) :
       socks[a].fd = socks[s].fd => socks'[s].last = socks[s].last

LEMMA LastStays ==
  ASSUME Past, Grows, UNCHANGED prog, raced => raced', NEW t \in Threads, NEW a, LastStaged(t, a)
  PROVE  LastStaged(t, a)'
<1>1. Threads' = Threads /\ \A w : Code(w)' = Code(w)
  BY DEF Threads, Code
<1>2. \A w \in Threads : Uses(w, a.fd) => Uses(w, a.fd)'
  BY <1>1 DEF Uses, Grows
<1>3. Shared(t, a.fd) => Shared(t, a.fd)'
  BY <1>1, <1>2 DEF Shared
<1>4. SUFFICES ASSUME a.op \in {"byte_at", "peer_port"}, a.sock # 0
               PROVE  LastStaged(t, a)'
  BY DEF LastStaged
<1>5. /\ a.sock \in 1..Len(socks) /\ socks[a.sock].fd = a.fd
      /\ a.sock \in 1..Len(socks') /\ socks'[a.sock].fd = a.fd
  BY <1>4 DEF LastStaged, Past
<1>6. ASSUME NEW s \in 1..(a.sock - 1), socks[s].fd = a.fd
      PROVE  socks'[s].fd = a.fd /\ socks'[s].last = socks[s].last
  BY <1>5, <1>6 DEF Past
<1>7. ASSUME ~raced', ~Shared(t, a.fd)'
      PROVE  IF a.own # 0 THEN a.result = Owed(a.call, a.own)
             ELSE \/ a.result = NetError
                  \/ \E s \in 1..(a.sock - 1) :
                       socks'[s].fd = a.fd /\ socks'[s].last # 0
                         /\ a.result = Owed(a.call, socks'[s].last)
  <2>1. ~raced /\ ~Shared(t, a.fd)
    BY <1>3, <1>7
  <2>2. IF a.own # 0 THEN a.result = Owed(a.call, a.own)
        ELSE \/ a.result = NetError
             \/ \E s \in 1..(a.sock - 1) :
                  socks[s].fd = a.fd /\ socks[s].last # 0
                    /\ a.result = Owed(a.call, socks[s].last)
    BY <1>4, <2>1 DEF LastStaged
  <2>3. CASE a.own # 0 \/ a.result = NetError
    BY <2>2, <2>3
  <2>4. ASSUME a.own = 0,
               NEW s \in 1..(a.sock - 1), socks[s].fd = a.fd, socks[s].last # 0,
               a.result = Owed(a.call, socks[s].last)
        PROVE  \E z \in 1..(a.sock - 1) :
                 socks'[z].fd = a.fd /\ socks'[z].last # 0 /\ a.result = Owed(a.call, socks'[z].last)
    BY <1>6, <2>4
  <2> QED BY <2>2, <2>3, <2>4
<1> QED BY <1>5, <1>7 DEF LastStaged, Shared, Uses

(* Thread u answers, or not, and the others do not.                        *)
LEMMA AnswersStay ==
  ASSUME \A t \in Threads : LastStaged(t, at[t].last), Past, Grows, UNCHANGED prog, raced => raced',
         NEW u \in Threads, Moves(u), NEW a, a = at'[u].last, LastStaged(u, a)'
  PROVE  \A t \in Threads' : LastStaged(t, at[t].last)'
<1>1. Threads' = Threads
  BY DEF Threads
<1>2. ASSUME NEW t \in Threads, t # u PROVE LastStaged(t, at[t].last)'
  <2>1. PICK b : b = at[t].last
    OBVIOUS
  <2>2. LastStaged(t, b)'
    BY <2>1, LastStays
  <2>3. at'[t].last = b
    BY <1>2, <2>1 DEF Moves
  <2> QED BY <2>2, <2>3 DEF LastStaged
<1>3. LastStaged(u, at[u].last)'
  BY DEF LastStaged
<1> QED BY <1>1, <1>2, <1>3

(* Sockets are added, and those there are keep their descriptor and the    *)
(* last datagram that they received.                                       *)
History ==
  /\ Len(socks) \in Nat /\ Len(socks') \in Nat /\ Len(socks) <= Len(socks')
  /\ \A s \in 1..Len(socks) : socks'[s].fd = socks[s].fd /\ socks'[s].last = socks[s].last
  /\ \A s \in 1..Len(socks') : s > Len(socks) => socks'[s].last = 0

LEMMA HistoryAdds ==
  ASSUME NEW q \in Seq(Sockets), Len(q) = Len(socks), socks \in Seq(Sockets),
         \A k \in 1..Len(socks) : q[k].fd = socks[k].fd /\ q[k].last = socks[k].last,
         NEW s \in Sockets, s.last = 0, socks' = Append(q, s)
  PROVE  History
<1>1. Len(socks') = Len(q) + 1 /\ socks'[Len(q) + 1] = s /\ \A k \in 1..Len(q) : socks'[k] = q[k]
  OBVIOUS
<1> QED BY <1>1 DEF History

LEMMA HistorySets ==
  ASSUME socks \in Seq(Sockets), NEW k \in 1..Len(socks), NEW s,
         s.fd = socks[k].fd, s.last = socks[k].last, socks' = [socks EXCEPT ![k] = s]
  PROVE  History
BY DEF History

LEMMA OpenedHistory ==
  ASSUME TableOK(files, socks), NEW s \in Sockets, s.last = 0, socks' = Append(socks, s)
  PROVE  History
BY HistoryAdds DEF TableOK

LEMMA ThreadHistory ==
  ASSUME WInv, NEW u \in Threads, Step(u) \/ PollInterrupted(u), ~ReceiveFrom(u)
  PROVE  History
<1>1. socks \in Seq(Sockets)
  BY DEF WInv, TableOK
<1>2. CASE UNCHANGED socks
  BY <1>1, <1>2 DEF History
<1>3. ASSUME ~UNCHANGED socks
      PROVE  BindOrListen(u) \/ StartConnect(u) \/ FinishConnect(u) \/ Accept(u) \/ Read(u)
  BY <1>3 DEF Step, Close, StartWait, PollReady, PollTimesOut, FindSlot, FindFreeSlot,
     ClaimSlot, StoreLength, ReadStaged, PollInterrupted
<1>4. CASE BindOrListen(u) /\ ~UNCHANGED socks
  <2>1. Call(u).op \in {"bind", "listen"} /\ Free # {} /\ socks' = Append(socks, NewSocket(Call(u).op, "up"))
    BY <1>4 DEF BindOrListen, Calls, kernel, Open
  <2>2. PICK s : s = NewSocket(Call(u).op, "up")
    OBVIOUS
  <2>3. s \in Sockets /\ s.last = 0
    BY <2>1, <2>2, NewSocketOK
  <2> QED BY <2>1, <2>2, <2>3, OpenedHistory DEF WInv
<1>5. CASE StartConnect(u) /\ ~UNCHANGED socks
  <2>1. PICK s : /\ socks' = Append(socks, s) /\ Free # {}
                 /\ \/ s = NewSocket("stream", "up")
                    \/ s = [NewSocket("stream", "connecting") EXCEPT !.blocking = FALSE]
    BY <1>5 DEF StartConnect, kernel, Open
  <2>2. s \in Sockets /\ s.last = 0
    BY <2>1, NewSocketOK
  <2> QED BY <2>1, <2>2, OpenedHistory DEF WInv
<1>6. CASE FinishConnect(u) /\ ~UNCHANGED socks
  <2>1. IsOpen(at[u].fd) /\ socks' = [socks EXCEPT ![files[at[u].fd]].blocking = TRUE]
    BY <1>6 DEF FinishConnect
  <2>2. PICK k : k = files[at[u].fd]
    OBVIOUS
  <2>3. k \in 1..Len(socks) /\ socks[k] \in Sockets
    BY <1>1, <2>1, <2>2 DEF WInv, TableOK, IsOpen
  <2>4. PICK s : s = [socks[k] EXCEPT !.blocking = TRUE]
    OBVIOUS
  <2>5. s.fd = socks[k].fd /\ s.last = socks[k].last
    BY <2>3, <2>4 DEF Sockets
  <2>6. socks' = [socks EXCEPT ![k] = s]
    BY <1>1, <2>1, <2>2, <2>3, <2>4
  <2> QED BY <1>1, <2>3, <2>5, <2>6, HistorySets
<1>7. CASE Accept(u) /\ ~UNCHANGED socks
  <2>1. /\ IsOpen(at[u].fd) /\ SocketAt(at[u].fd).queue # <<>> /\ Free # {}
        /\ socks' = Append([socks EXCEPT ![files[at[u].fd]].queue = Tail(@)],
                           NewSocket("stream", "up"))
    BY <1>7 DEF Accept
  <2>2. PICK k : k = files[at[u].fd]
    OBVIOUS
  <2>3. k \in 1..Len(socks) /\ socks[k] \in Sockets /\ socks[k].queue # <<>>
    BY <1>1, <2>1, <2>2 DEF WInv, TableOK, IsOpen, SocketAt
  <2>4. PICK s : s = [socks[k] EXCEPT !.queue = Tail(socks[k].queue)]
    OBVIOUS
  <2>5. s \in Sockets /\ s.fd = socks[k].fd /\ s.last = socks[k].last
    BY <2>3, <2>4, QueueTail
  <2>6. PICK q : q = [socks EXCEPT ![k] = s]
    OBVIOUS
  <2>7. q = [socks EXCEPT ![files[at[u].fd]].queue = Tail(@)]
    BY <1>1, <2>2, <2>3, <2>4, <2>6
  <2>8. /\ q \in Seq(Sockets) /\ Len(q) = Len(socks)
        /\ \A j \in 1..Len(socks) : q[j].fd = socks[j].fd /\ q[j].last = socks[j].last
    BY <1>1, <2>3, <2>5, <2>6
  <2>9. PICK new : new = NewSocket("stream", "up")
    OBVIOUS
  <2>10. new \in Sockets /\ new.last = 0 /\ socks' = Append(q, new)
    BY <2>1, <2>7, <2>9, NewSocketOK
  <2> QED BY <1>1, <2>8, <2>10, HistoryAdds
<1>8. CASE Read(u) /\ ~UNCHANGED socks
  <2>1. /\ IsOpen(at[u].fd) /\ SocketAt(at[u].fd).queue # <<>>
        /\ socks' = [socks EXCEPT ![files[at[u].fd]].queue =
                       IF Head(@) = "eof" THEN @ ELSE Tail(@)]
    BY <1>8 DEF Read
  <2>2. PICK k : k = files[at[u].fd]
    OBVIOUS
  <2>3. k \in 1..Len(socks) /\ socks[k] \in Sockets /\ socks[k].queue # <<>>
    BY <1>1, <2>1, <2>2 DEF WInv, TableOK, IsOpen, SocketAt
  <2>4. PICK s : /\ socks' = [socks EXCEPT ![k] = s]
                 /\ s = IF Head(socks[k].queue) = "eof" THEN socks[k]
                        ELSE [socks[k] EXCEPT !.queue = Tail(socks[k].queue)]
    BY <1>1, <2>1, <2>2, <2>3 DEF Sockets
  <2>5. s.fd = socks[k].fd /\ s.last = socks[k].last
    BY <2>3, <2>4, QueueTail
  <2> QED BY <1>1, <2>3, <2>4, <2>5, HistorySets
<1> QED BY <1>2, <1>3, <1>4, <1>5, <1>6, <1>7, <1>8

LEMMA EnvironmentHistory ==
  ASSUME WInv, NEW k \in DOMAIN socks, Arrive(k) \/ Discard(k) \/ Resolve(k)
  PROVE  History
<1>1. k \in 1..Len(socks) /\ socks \in Seq(Sockets) /\ socks[k] \in Sockets
  BY DEF WInv, TableOK
<1>2. ASSUME NEW item, Deliver(k, item) PROVE History
  <2>1. PICK s : s = [socks[k] EXCEPT !.queue = Append(socks[k].queue, item)]
    OBVIOUS
  <2>2. s.fd = socks[k].fd /\ s.last = socks[k].last
    BY <1>1, <2>1 DEF Sockets
  <2>3. socks' = [socks EXCEPT ![k] = s]
    BY <1>1, <1>2, <2>1 DEF Deliver
  <2> QED BY <1>1, <2>2, <2>3, HistorySets
<1>3. CASE Arrive(k)
  BY <1>2, <1>3 DEF Arrive
<1>4. CASE Discard(k)
  <2>1. PICK s : s = [socks[k] EXCEPT !.queue = Tail(socks[k].queue), !.discarded = TRUE]
    OBVIOUS
  <2>2. s.fd = socks[k].fd /\ s.last = socks[k].last
    BY <1>1, <2>1 DEF Sockets
  <2>3. socks' = [socks EXCEPT ![k] = s]
    BY <1>1, <1>4, <2>1 DEF Discard
  <2> QED BY <1>1, <2>2, <2>3, HistorySets
<1>5. CASE Resolve(k)
  <2>1. PICK state : socks' = [socks EXCEPT ![k].state = state]
    BY <1>5 DEF Resolve
  <2>2. PICK s : s = [socks[k] EXCEPT !.state = state]
    OBVIOUS
  <2>3. s.fd = socks[k].fd /\ s.last = socks[k].last
    BY <1>1, <2>2 DEF Sockets
  <2>4. socks' = [socks EXCEPT ![k] = s]
    BY <1>1, <2>1, <2>2
  <2> QED BY <1>1, <2>3, <2>4, HistorySets
<1> QED BY <1>3, <1>4, <1>5

LEMMA HistoryIsPast ==
  ASSUME History
  PROVE  Past
BY DEF History, Past

(* Thread u neither begins nor ends the writing of a slot, nor reads one.  *)
Plain(u) ==
  /\ at[u].phase # "store" /\ at'[u].phase # "store"
  /\ at'[u].last = at[u].last \/ at'[u].last.op \notin {"byte_at", "peer_port"}

LEMMA MainStays ==
  ASSUME IInv, NEW u \in Threads, Runs(u), Moves(u), Done(0)
  PROVE  Done(0)'
<1>1. 0 \in Threads /\ u # 0
  BY ProgramsAssumption DEF IInv, ThreadsOK, Threads, Runs
<1>2. at'[0] = at[0] /\ Code(0)' = Code(0)
  BY <1>1 DEF Moves, Code
<1> QED BY <1>2 DEF Done

(* Threads that store: not u.                                              *)
LEMMA StorersStay ==
  ASSUME NEW u \in Threads, Moves(u), NEW fd, ~Storing(u, fd), ~Storing(u, fd)'
  PROVE  \A w \in Threads : /\ Storing(w, fd)' <=> Storing(w, fd)
                            /\ Storing(w, fd) => at'[w] = at[w]
BY DEF Moves, Storing

LEMMA HistoryApart ==
  ASSUME History, UNCHANGED slots, NEW fd,
         \A w \in Threads : /\ Storing(w, fd)' <=> Storing(w, fd)
                            /\ Storing(w, fd) => at'[w] = at[w]
  PROVE  Apart(fd)
<1>1. UsedSlot(fd)' = UsedSlot(fd)
  BY DEF UsedSlot
<1>2. \A s \in 1..Len(socks') : s <= Len(socks) => s \in 1..Len(socks)
  BY DEF History
<1>3. ASSUME NEW s \in 1..Len(socks'), socks'[s].fd = fd
      PROVE  IF s <= Len(socks) THEN socks[s].fd = fd /\ socks'[s].last = socks[s].last
             ELSE socks'[s].last = 0
  BY <1>2, <1>3 DEF History
<1> QED BY <1>1, <1>3 DEF Apart, History

LEMMA AllApart ==
  ASSUME Told, Grows, UNCHANGED prog, Done(0) => Done(0)', \A fd : Apart(fd)
  PROVE  Told'
<1>1. \A fd : Untouched(fd) \/ (\E d \in DOMAIN Datagrams : Shows(fd, d)) =>
                Untouched(fd)' \/ \E d \in DOMAIN Datagrams : Shows(fd, d)'
  BY ApartKeeps
<1>2. PICK x : x = 0
  OBVIOUS
<1>3. Quiet(x) /\ (Untouched(x) \/ \E d \in DOMAIN Datagrams : Shows(x, d)) =>
        Untouched(x)' \/ \E d \in DOMAIN Datagrams : Shows(x, d)'
  BY <1>1
<1>4. \A fd \in Fds : fd = x \/ Apart(fd)
  OBVIOUS
<1> QED BY ONLY Told, Grows, UNCHANGED prog, Done(0) => Done(0)', <1>3, <1>4, ToldStays

LEMMA PlainAnswers ==
  ASSUME StagedOK, Past, Grows, raced => raced', NEW u \in Threads, Moves(u), Plain(u)
  PROVE  \A t \in Threads' : LastStaged(t, at[t].last)'
<1>1. PICK a : a = at'[u].last
  OBVIOUS
<1>2. UNCHANGED prog
  BY DEF Moves
<1>3. LastStaged(u, a)'
  <2>1. CASE a = at[u].last
    BY <1>2, <2>1, LastStays DEF StagedOK
  <2>2. CASE a.op \notin {"byte_at", "peer_port"}
    BY <2>2 DEF LastStaged
  <2> QED BY <1>1, <2>1, <2>2 DEF Plain
<1> QED BY <1>1, <1>2, <1>3, AnswersStay DEF StagedOK

LEMMA PlainStays ==
  ASSUME IInv, StagedOK, Grows, NEW u \in Threads, Runs(u), Moves(u), Plain(u), History,
         UNCHANGED <<slots, raced>>
  PROVE  StagedOK'
<1>1. UNCHANGED prog /\ (Done(0) => Done(0)')
  BY MainStays DEF Moves
<1>2. \A fd : ~Storing(u, fd) /\ ~Storing(u, fd)'
  BY DEF Plain, Storing
<1>3. \A fd : Apart(fd)
  BY <1>2, StorersStay, HistoryApart
<1>4. ~raced' => Told'
  BY <1>1, <1>3, AllApart DEF StagedOK
<1>5. \A t \in Threads' : LastStaged(t, at[t].last)'
  BY HistoryIsPast, PlainAnswers
<1> QED BY <1>4, <1>5 DEF StagedOK

LEMMA IdleStays ==
  ASSUME StagedOK, Grows, UNCHANGED <<prog, at, slots, raced>>, History
  PROVE  StagedOK'
<1>1. Threads' = Threads /\ (Done(0) => Done(0)')
  BY DEF Threads, Done, Code
<1>2. \A fd : Apart(fd)
  BY HistoryApart DEF Storing
<1>3. ~raced' => Told'
  BY <1>1, <1>2, AllApart DEF StagedOK
<1>4. ASSUME NEW t \in Threads PROVE LastStaged(t, at[t].last)'
  <2>1. PICK a : a = at[t].last
    OBVIOUS
  <2>2. LastStaged(t, a)'
    BY <2>1, HistoryIsPast, LastStays DEF StagedOK
  <2> QED BY <2>1, <2>2 DEF LastStaged
<1> QED BY <1>1, <1>3, <1>4 DEF StagedOK

(* Most calls are plain.                                                   *)
LEMMA ReturnPlain ==
  ASSUME IInv, NEW u \in Threads, NEW fd, NEW v, Return(u, fd, v), UNCHANGED prog,
         at[u].phase # "store", Call(u).op \notin {"byte_at", "peer_port"}
  PROVE  Moves(u) /\ Plain(u)
<1>1. PICK r : r = Answer(u, fd, v)
  OBVIOUS
<1>2. r.phase = "call" /\ r.last.op = Call(u).op
  BY <1>1 DEF Answer
<1>3. Moves(u) /\ at'[u] = r
  BY <1>1, MovesTo DEF Return
<1> QED BY <1>2, <1>3 DEF Plain

LEMMA WaitPlain ==
  ASSUME IInv, NEW u \in Threads, NEW fd, NEW ms, NEW start,
         at' = [at EXCEPT ![u] = Wait(u, fd, ms, start)], UNCHANGED prog, at[u].phase # "store"
  PROVE  Moves(u) /\ Plain(u)
<1>1. PICK r : r = Wait(u, fd, ms, start)
  OBVIOUS
<1>2. r.phase = "poll" /\ r.last = at[u].last
  BY <1>1 DEF Wait
<1>3. Moves(u) /\ at'[u] = r
  BY <1>1, MovesTo
<1> QED BY <1>2, <1>3 DEF Plain

LEMMA FailPlain ==
  ASSUME IInv, NEW u \in Threads, NEW v, Fail(u, v), UNCHANGED prog, at[u].phase # "store"
  PROVE  Moves(u) /\ Plain(u)
<1>1. Call(u).op \notin {"byte_at", "peer_port"}
  BY DEF Fail
<1> QED BY <1>1, ReturnPlain DEF Fail, ReturnTo

LEMMA FieldPlain ==
  ASSUME IInv, NEW u \in Threads, Runs(u), at[u].phase \in {"poll", "find", "free", "claim"},
         UNCHANGED prog, NEW phase \in {"find", "free", "claim", "io"}, NEW slot,
         \/ at' = [at EXCEPT ![u] = [at[u] EXCEPT !.phase = phase]]
         \/ at' = [at EXCEPT ![u] = [at[u] EXCEPT !.phase = phase, !.slot = slot]]
  PROVE  Moves(u) /\ Plain(u)
<1>1. DOMAIN at[u] = WaitFields
  BY MidCall
<1>2. CASE at' = [at EXCEPT ![u] = [at[u] EXCEPT !.phase = phase]]
  <2>1. PICK r : r = [at[u] EXCEPT !.phase = phase]
    OBVIOUS
  <2>2. r.phase = phase /\ r.last = at[u].last
    BY <1>1, <2>1 DEF WaitFields
  <2>3. Moves(u) /\ at'[u] = r
    BY <1>2, <2>1, MovesTo
  <2> QED BY <2>2, <2>3 DEF Plain
<1>3. CASE at' = [at EXCEPT ![u] = [at[u] EXCEPT !.phase = phase, !.slot = slot]]
  <2>1. PICK r : r = [at[u] EXCEPT !.phase = phase, !.slot = slot]
    OBVIOUS
  <2>2. r.phase = phase /\ r.last = at[u].last
    BY <1>1, <2>1 DEF WaitFields
  <2>3. Moves(u) /\ at'[u] = r
    BY <1>3, <2>1, MovesTo
  <2> QED BY <2>2, <2>3 DEF Plain
<1> QED BY <1>2, <1>3

LEMMA OpeningPlain ==
  ASSUME IInv, NEW u \in Threads,
         BindOrListen(u) \/ Close(u) \/ StartWait(u) \/ StartConnect(u)
  PROVE  Moves(u) /\ Plain(u) /\ UNCHANGED <<slots, raced>> /\ Runs(u)
<1>1. /\ Runs(u) /\ at[u].phase = "call" /\ UNCHANGED <<prog, slots, raced>>
      /\ Call(u).op \notin {"byte_at", "peer_port"}
  BY DEF BindOrListen, Close, StartWait, StartConnect, Calls, In
<1>2. \/ \E fd, v : Return(u, fd, v)
      \/ \E fd, ms, start : at' = [at EXCEPT ![u] = Wait(u, fd, ms, start)]
  <2>1. CASE BindOrListen(u) \/ Close(u)
    BY <2>1 DEF BindOrListen, Close, ReturnTo
  <2>2. CASE StartWait(u)
    BY <2>2 DEF StartWait, ReturnTo
  <2>3. CASE StartConnect(u)
    BY <2>3 DEF StartConnect, ReturnTo
  <2> QED BY <2>1, <2>2, <2>3
<1>3. Moves(u) /\ Plain(u)
  BY <1>1, <1>2, ReturnPlain, WaitPlain
<1> QED BY <1>1, <1>3

LEMMA WaitingPlain ==
  ASSUME IInv, NEW u \in Threads,
         PollReady(u) \/ PollTimesOut(u) \/ PollInterrupted(u) \/ FinishConnect(u) \/ Accept(u)
           \/ Read(u) \/ FindSlot(u) \/ FindFreeSlot(u)
  PROVE  Moves(u) /\ Plain(u) /\ UNCHANGED <<slots, raced>> /\ Runs(u)
<1>1. Runs(u) /\ at[u].phase \in {"poll", "io", "find", "free"} /\ UNCHANGED <<prog, slots, raced>>
  BY DEF PollReady, PollTimesOut, PollInterrupted, FinishConnect, Accept, Read, FindSlot,
     FindFreeSlot, In
<1>2. Call(u).op \in Waiting
  BY <1>1, MidCall
<1>3. Call(u).op \notin {"byte_at", "peer_port"} /\ at = [w \in Threads |-> at[w]]
  BY <1>2 DEF Waiting, IInv, ThreadsOK
<1>4. CASE \E fd, v : Return(u, fd, v)
  BY <1>1, <1>3, <1>4, ReturnPlain
<1>5. CASE \E v : Fail(u, v)
  BY <1>1, <1>5, FailPlain
<1>6. CASE PollReady(u)
  <2>1. PICK phase \in {"find", "io"} : at' = [at EXCEPT ![u] = [at[u] EXCEPT !.phase = phase]]
    BY <1>3, <1>6 DEF PollReady
  <2>2. at[u].phase = "poll"
    BY <1>6 DEF PollReady, In
  <2> QED BY <1>1, <2>1, <2>2, FieldPlain
<1>7. CASE PollTimesOut(u) \/ FinishConnect(u) \/ Accept(u) \/ Read(u)
  BY <1>4, <1>5, <1>7 DEF PollTimesOut, FinishConnect, Accept, Read, ReturnTo
<1>8. CASE PollInterrupted(u)
  BY <1>1, <1>5, <1>8, WaitPlain DEF PollInterrupted
<1>9. CASE FindSlot(u)
  <2>1. PICK found : found = UsedSlot(at[u].fd)
    OBVIOUS
  <2>2. at' = [at EXCEPT ![u] = IF found # {}
                                THEN [at[u] EXCEPT !.phase = "io", !.slot = Min(found)]
                                ELSE [at[u] EXCEPT !.phase = "free"]]
    BY <1>3, <1>9, <2>1 DEF FindSlot
  <2>3. at[u].phase = "find"
    BY <1>9 DEF FindSlot, In
  <2>4. CASE found # {}
    <3>1. at' = [at EXCEPT ![u] = [at[u] EXCEPT !.phase = "io", !.slot = Min(found)]]
      BY <2>2, <2>4
    <3> QED BY <1>1, <2>3, <3>1, FieldPlain
  <2>5. CASE found = {}
    <3>1. at' = [at EXCEPT ![u] = [at[u] EXCEPT !.phase = "free"]]
      BY <2>2, <2>5
    <3> QED BY <1>1, <2>3, <3>1, FieldPlain
  <2> QED BY <2>4, <2>5
<1>10. CASE FindFreeSlot(u)
  <2>1. CASE at' = [at EXCEPT ![u] = [at[u] EXCEPT !.phase = "claim", !.slot = Min(FreeSlots)]]
    <3>1. at[u].phase = "free"
      BY <1>10 DEF FindFreeSlot, In
    <3> QED BY <1>1, <2>1, <3>1, FieldPlain
  <2> QED BY <1>3, <1>4, <1>10, <2>1 DEF FindFreeSlot
<1> QED BY <1>6, <1>7, <1>8, <1>9, <1>10

(* A slot that is claimed is empty, and nobody else's.                     *)
LEMMA ClaimSlotStays ==
  ASSUME WInv, StagedOK, Grows, NEW u \in Threads, ClaimSlot(u)
  PROVE  StagedOK'
<1>1. /\ Runs(u) /\ at[u].phase = "claim" /\ UNCHANGED <<prog, socks>> /\ (raced => raced')
  BY DEF ClaimSlot, In
<1>2. Moves(u) /\ Plain(u)
  <2>1. PICK phase \in {"io"} : at' = [at EXCEPT ![u] = [at[u] EXCEPT !.phase = phase]]
    BY DEF ClaimSlot, WInv, IInv, ThreadsOK
  <2> QED BY <1>1, <2>1, FieldPlain DEF WInv
<1>3. History
  BY <1>1 DEF History, WInv, TableOK
<1>4. \A t \in Threads' : LastStaged(t, at[t].last)'
  BY <1>1, <1>2, <1>3, HistoryIsPast, PlainAnswers
<1>5. ASSUME ~raced' PROVE Told'
  <2>1. PICK x, k : x = at[u].fd /\ k = at[u].slot
    OBVIOUS
  <2>2. UsedSlot(x) = {} /\ k \in 1..Slots /\ ~slots[k].used
    BY <1>1, <1>5, <2>1 DEF WInv, IInv, SlotsOK, Claiming
  <2>3. /\ \A i \in 1..Slots : i # k => slots'[i] = slots[i]
        /\ slots'[k].used /\ slots'[k].fd = x /\ slots'[k].len = -1
    BY <2>1, <2>2 DEF ClaimSlot, WInv, IInv, SlotsOK, SlotFields
  <2>4. \A fd : \A w \in Threads : /\ Storing(w, fd)' <=> Storing(w, fd)
                                   /\ Storing(w, fd) => at'[w] = at[w]
    BY <1>2, StorersStay DEF Plain, Storing
  <2>5. ASSUME NEW fd, fd # x PROVE Apart(fd)
    <3>1. UsedSlot(fd)' = UsedSlot(fd) /\ \A i \in UsedSlot(fd) : slots'[i] = slots[i]
      BY <2>2, <2>3, <2>5 DEF UsedSlot
    <3> QED BY <1>1, <1>3, <2>4, <3>1 DEF Apart, History
  <2>6. \A d \in DOMAIN Datagrams : ~Shows(x, d)
    BY <2>2 DEF Shows
  <2>7. ASSUME Untouched(x) PROVE Untouched(x)'
    <3>1. \A i \in UsedSlot(x)' : i = k
      BY <2>2, <2>3 DEF UsedSlot
    <3>2. \A i \in UsedSlot(x)' : slots'[i].len = -1
      BY <2>3, <3>1
    <3>3. \A s \in 1..Len(socks') : socks'[s].fd = x => socks'[s].last = 0
      BY <1>1, <2>7 DEF Untouched
    <3>4. \A w \in Threads' : ~Storing(w, x)'
      BY <1>1, <2>4, <2>7 DEF Untouched, Threads
    <3> QED BY <3>2, <3>3, <3>4 DEF Untouched
  <2>8. Told /\ (Done(0) => Done(0)')
    BY <1>1, <1>2, <1>5, MainStays DEF StagedOK, WInv
  <2>9. \A fd \in Fds : fd = x \/ Apart(fd)
    BY <2>5
  <2>10. Quiet(x) /\ (Untouched(x) \/ \E d \in DOMAIN Datagrams : Shows(x, d)) =>
           Untouched(x)' \/ \E d \in DOMAIN Datagrams : Shows(x, d)'
    BY <2>6, <2>7
  <2>11. UNCHANGED prog
    BY <1>1
  <2> QED BY ONLY <2>8, <2>9, <2>10, <2>11, Grows, ToldStays
<1> QED BY <1>4, <1>5 DEF StagedOK

LEMMA PcInCode ==
  ASSUME IInv, NEW t \in Threads, Runs(t)
  PROVE  at[t].pc \in 1..Len(Code(t))
<1>1. /\ at[t].pc \in Nat \ {0} /\ at[t].pc <= Len(Code(t)) /\ Len(Code(t)) \in Nat
  BY InCall DEF IInv
<1> QED BY <1>1

(* While fd is quiet, who works on it is alone.                            *)
LEMMA NobodyElse ==
  ASSUME IInv, NEW u \in Threads, Runs(u), NEW fd, WorksOn(Call(u), fd), Call(u).op # "connect",
         Quiet(fd)
  PROVE  \A w \in Threads : w # u => ~Storing(w, fd)
<1>1. SUFFICES ASSUME NEW w \in Threads, w # u, Storing(w, fd) PROVE FALSE
  OBVIOUS
<1>2. u # 0 /\ w # 0
  BY <1>1, OthersRun DEF Storing
<1>3. Done(0)
  BY <1>2 DEF Runs
<1>4. ASSUME NEW v \in Threads, at[v].pc \in 1..Len(Code(v)), WorksOn(Call(v), fd), Call(v).op # "connect"
      PROVE  Uses(v, fd)
  BY <1>4 DEF WorksOn, Uses, Call
<1>5. Uses(u, fd)
  <2>1. at[u].pc \in 1..Len(Code(u))
    BY PcInCode
  <2> QED BY <1>4, <2>1
<1>6. Runs(w) /\ at[w].phase = "store"
  BY <1>1, <1>3 DEF Storing, IInv, ThreadsOK, PlaceOK, Runs, Done
<1>7. Call(w).op = "recv" /\ WorksOn(Call(w), fd)
  BY <1>1, <1>6, MidCall DEF Storing
<1>8. Uses(w, fd)
  <2>1. at[w].pc \in 1..Len(Code(w)) /\ Call(w).op # "connect"
    BY <1>6, <1>7, PcInCode
  <2> QED BY <1>4, <1>7, <2>1
<1> QED BY <1>1, <1>2, <1>3, <1>5, <1>8 DEF Quiet

(* The slot of a receive that got its datagram is its own.                 *)
LEMMA ReceiverHolds ==
  ASSUME IInv, ~raced, NEW u \in Threads, Runs(u), Call(u).op = "recv",
         at[u].phase \in {"io", "store"}
  PROVE  /\ at[u].slot \in 1..Slots
         /\ slots[at[u].slot].used /\ slots[at[u].slot].fd = at[u].fd
         /\ at[u].slot \in UsedSlot(at[u].fd)
         /\ \A i \in UsedSlot(at[u].fd) : i = at[u].slot
<1>1. Holding(u, at[u])
  BY DEF IInv, SlotsOK
<1>2. /\ at[u].slot \in 1..Slots
      /\ slots[at[u].slot].used /\ slots[at[u].slot].fd = at[u].fd
  BY <1>1 DEF Holding, Call
<1> QED BY <1>2 DEF UsedSlot, IInv, SlotsOK

(* What a socket receives is the latest of its descriptor.                 *)
LEMMA ReceiveFromStays ==
  ASSUME WInv, StagedOK, Grows, NEW u \in Threads, ReceiveFrom(u)
  PROVE  StagedOK'
<1>1. Runs(u) /\ at[u].phase = "io" /\ Call(u).op = "recv" /\ UNCHANGED <<prog, files, raced>>
  BY DEF ReceiveFrom, In
<1>2. CASE Return(u, at[u].fd, NetError) /\ UNCHANGED <<socks, slots>>
  <2>1. Moves(u) /\ Plain(u)
    BY <1>1, <1>2, ReturnPlain DEF WInv
  <2>2. History
    BY <1>2 DEF History, WInv, TableOK
  <2> QED BY <1>1, <1>2, <2>1, <2>2, PlainStays DEF WInv
<1>3. ASSUME IsOpen(at[u].fd), SocketAt(at[u].fd).queue # <<>>, NEW d \in DOMAIN Datagrams,
             socks' = [socks EXCEPT ![files[at[u].fd]].queue = Tail(@),
                                    ![files[at[u].fd]].last  = d],
             slots' = [slots EXCEPT ![at[u].slot].bytes = d],
             at' = [at EXCEPT ![u] = [at[u] EXCEPT !.phase = "store", !.got = d]]
      PROVE  StagedOK'
  <2>1. PICK k, x, i : k = files[x] /\ x = at[u].fd /\ i = at[u].slot
    OBVIOUS
  <2>2. /\ k \in 1..Len(socks) /\ socks \in Seq(Sockets) /\ socks[k] \in Sockets
        /\ socks[k].fd = x /\ socks[k].queue # <<>>
        /\ socks' = [socks EXCEPT ![k] = Taken(socks[k], d)]
    BY <1>3, <2>1, ReceiveTakes DEF WInv
  <2>3. Taken(socks[k], d).fd = x /\ Taken(socks[k], d).last = d
    BY <2>2, TakenOK
  <2>4. /\ Len(socks') = Len(socks) /\ Len(socks) \in Nat
        /\ \A s \in 1..Len(socks) : s # k => socks'[s] = socks[s]
        /\ socks'[k].fd = x /\ socks'[k].last = d
    BY <2>2, <2>3
  <2>5. \A s \in 1..Len(socks) : socks[s].fd = x => s <= k
    BY <1>3, <2>1 DEF WInv, TableOK, IsOpen
  <2>6. Past
    BY <2>2, <2>4, <2>5 DEF Past
  <2>7. PICK r : r = [at[u] EXCEPT !.phase = "store", !.got = d]
    OBVIOUS
  <2>8. r.phase = "store" /\ r.last = at[u].last /\ r.fd = x /\ r.got = d
    BY <1>1, <2>1, <2>7, MidCall DEF WInv, WaitFields
  <2>9. Moves(u) /\ at'[u] = r
    BY <1>1, <1>3, <2>7, MovesTo DEF WInv
  <2>10. \A t \in Threads' : LastStaged(t, at[t].last)'
    <3>1. PICK a : a = at'[u].last
      OBVIOUS
    <3>2. a = at[u].last
      BY <2>8, <2>9, <3>1
    <3>3. LastStaged(u, a)'
      BY <1>1, <2>6, <3>2, LastStays DEF StagedOK
    <3> QED BY <1>1, <2>6, <2>9, <3>1, <3>3, AnswersStay DEF StagedOK
  <2>11. ASSUME ~raced' PROVE Told'
    <3>1. /\ i \in 1..Slots /\ slots[i].used /\ slots[i].fd = x
      BY <1>1, <2>1, <2>11, ReceiverHolds DEF WInv
    <3>2. /\ \A j \in 1..Slots : j # i => slots'[j] = slots[j]
          /\ slots'[i].used /\ slots'[i].fd = x /\ slots'[i].bytes = d
      BY <1>3, <2>1, <3>1 DEF WInv, IInv, SlotsOK, SlotFields
    <3>3. ASSUME NEW fd, fd # x PROVE Apart(fd)
      <4>1. UsedSlot(fd)' = UsedSlot(fd) /\ \A j \in UsedSlot(fd) : slots'[j] = slots[j]
        BY <3>1, <3>2, <3>3 DEF UsedSlot
      <4>2. ~Storing(u, fd) /\ ~Storing(u, fd)'
        BY <1>1, <2>8, <2>9, <3>3 DEF Storing
      <4>3. \A w \in Threads : /\ Storing(w, fd)' <=> Storing(w, fd)
                               /\ Storing(w, fd) => at'[w] = at[w]
        BY <2>9, <4>2, StorersStay
      <4> QED BY <2>2, <2>4, <3>3, <4>1, <4>3 DEF Apart
    <3>4. ASSUME Quiet(x) PROVE Shows(x, d)'
      <4>1. Latest(socks', x, d)
        BY <2>2, <2>4, <2>5 DEF Latest
      <4>2. WorksOn(Call(u), x)
        BY <1>1, <2>1, MidCall DEF WInv
      <4>3. \A w \in Threads : w # u => ~Storing(w, x)
        BY <1>1, <3>4, <4>2, NobodyElse DEF WInv
      <4>4. \A w \in Threads : Storing(w, x)' => at'[w].got = d
        BY <2>8, <2>9, <4>3 DEF Storing, Moves
      <4>5. i \in UsedSlot(x)' /\ Storing(u, x)'
        BY <2>8, <2>9, <3>1, <3>2 DEF UsedSlot, Storing
      <4>6. Threads' = Threads
        BY <1>1 DEF Threads
      <4> QED BY <3>2, <4>1, <4>4, <4>5, <4>6 DEF Shows, Latest
    <3>5. Told /\ (Done(0) => Done(0)') /\ UNCHANGED prog
      BY <1>1, <2>9, <2>11, MainStays DEF StagedOK, WInv
    <3>6. \A fd \in Fds : fd = x \/ Apart(fd)
      BY <3>3
    <3>7. Quiet(x) /\ (Untouched(x) \/ \E e \in DOMAIN Datagrams : Shows(x, e)) =>
            Untouched(x)' \/ \E e \in DOMAIN Datagrams : Shows(x, e)'
      BY <3>4
    <3> QED BY ONLY <3>5, <3>6, <3>7, Grows, ToldStays
  <2> QED BY <2>10, <2>11 DEF StagedOK
<1> QED BY <1>2, <1>3 DEF ReceiveFrom, WInv, IInv, ThreadsOK

(* The receive completes what its slot shows.                              *)
LEMMA StoreLengthStays ==
  ASSUME WInv, StagedOK, Grows, NEW u \in Threads, StoreLength(u)
  PROVE  StagedOK'
<1>1. Runs(u) /\ at[u].phase = "store" /\ Call(u).op = "recv" /\ UNCHANGED <<prog, socks, raced>>
  BY MidCall DEF StoreLength, In, WInv
<1>2. PICK d, n, x, i :
        /\ d = at[u].got /\ x = at[u].fd /\ i = at[u].slot
        /\ n \in {Datagrams[d], Captured(Datagrams[d])}
        /\ slots' = [slots EXCEPT ![i].len = n, ![i].port = d]
        /\ Return(u, x, n)
  BY DEF StoreLength
<1>3. PICK r : r = Answer(u, x, n)
  OBVIOUS
<1>4. r.phase = "call" /\ r.last.op = "recv"
  BY <1>1, <1>3 DEF Answer
<1>5. Moves(u) /\ at'[u] = r
  BY <1>1, <1>2, <1>3, MovesTo DEF WInv, Return
<1>6. History
  BY <1>1 DEF History, WInv, TableOK
<1>7. \A t \in Threads' : LastStaged(t, at[t].last)'
  <2>1. PICK a : a = at'[u].last
    OBVIOUS
  <2>2. LastStaged(u, a)'
    BY <1>4, <1>5, <2>1 DEF LastStaged
  <2> QED BY <1>1, <1>5, <1>6, <2>1, <2>2, HistoryIsPast, AnswersStay DEF StagedOK
<1>8. ASSUME ~raced' PROVE Told'
  <2>1. /\ i \in 1..Slots /\ slots[i].used /\ slots[i].fd = x /\ i \in UsedSlot(x)
        /\ \A j \in UsedSlot(x) : j = i
    BY <1>1, <1>2, <1>8, ReceiverHolds DEF WInv
  <2>2. /\ \A j \in 1..Slots : /\ j # i => slots'[j] = slots[j]
                               /\ slots'[j].used = slots[j].used /\ slots'[j].fd = slots[j].fd
        /\ slots'[i].bytes = slots[i].bytes /\ slots'[i].len = n /\ slots'[i].port = d
    BY <1>2, <2>1 DEF WInv, IInv, SlotsOK, SlotFields
  <2>3. \A fd : UsedSlot(fd)' = UsedSlot(fd)
    BY <2>2 DEF UsedSlot
  <2>4. ASSUME NEW fd, fd # x PROVE Apart(fd)
    <3>1. \A j \in UsedSlot(fd) : slots'[j] = slots[j]
      BY <2>1, <2>2, <2>4 DEF UsedSlot
    <3>2. ~Storing(u, fd) /\ ~Storing(u, fd)'
      BY <1>2, <1>4, <1>5, <2>4 DEF Storing
    <3>3. \A w \in Threads : /\ Storing(w, fd)' <=> Storing(w, fd)
                             /\ Storing(w, fd) => at'[w] = at[w]
      BY <1>5, <3>2, StorersStay
    <3> QED BY <1>1, <1>6, <2>3, <3>1, <3>3 DEF Apart, History
  <2>5. Storing(u, x) /\ ~Untouched(x)
    BY <1>1, <1>2 DEF Storing, Untouched
  <2>6. ASSUME NEW e \in DOMAIN Datagrams, Shows(x, e) PROVE Shows(x, e)'
    <3>1. e = d /\ Latest(socks, x, e) /\ slots[i].bytes = e
      BY <1>2, <2>1, <2>5, <2>6 DEF Shows
    <3>2. Latest(socks', x, e)
      BY <1>1, <3>1
    <3>3. Whole(slots'[i], e) /\ slots'[i].bytes = e /\ i \in UsedSlot(x)'
      BY <1>2, <2>1, <2>2, <2>3, <3>1 DEF Whole
    <3>4. \A w \in Threads : Storing(w, x)' => at'[w].got = e
      BY <1>4, <1>5, <2>6 DEF Storing, Moves, Shows
    <3>5. Threads' = Threads
      BY <1>1 DEF Threads
    <3> QED BY <3>2, <3>3, <3>4, <3>5 DEF Shows, Latest, Whole
  <2>7. Told /\ (Done(0) => Done(0)') /\ UNCHANGED prog
    BY <1>1, <1>5, <1>8, MainStays DEF StagedOK, WInv
  <2>8. \A fd \in Fds : fd = x \/ Apart(fd)
    BY <2>4
  <2>9. Quiet(x) /\ (Untouched(x) \/ \E e \in DOMAIN Datagrams : Shows(x, e)) =>
          Untouched(x)' \/ \E e \in DOMAIN Datagrams : Shows(x, e)'
    BY <2>5, <2>6
  <2> QED BY ONLY <2>7, <2>8, <2>9, Grows, ToldStays
<1> QED BY <1>7, <1>8 DEF StagedOK

(* Cutting a length to what is staged, twice, is cutting it once.          *)
LEMMA CapturedIs ==
  ASSUME NEW n \in Nat
  PROVE  Captured(n) = (IF n <= DatagramCap THEN n ELSE DatagramCap) /\ Captured(n) \in Nat
<1>1. DatagramCap \in Nat
  BY NetAssumption
<1> DEFINE m == IF n <= DatagramCap THEN n ELSE DatagramCap
<1>2. m \in {n, DatagramCap} /\ \A y \in {n, DatagramCap} : m <= y
  BY <1>1
<1>3. \A x \in {n, DatagramCap} : (\A y \in {n, DatagramCap} : x <= y) => x = m
  BY <1>1
<1>4. Captured(n) = m
  BY <1>2, <1>3 DEF Captured, Min
<1> QED BY <1>1, <1>4

LEMMA WholeIsOwed ==
  ASSUME NEW d \in DOMAIN Datagrams, NEW slot, slot.bytes = d, Whole(slot, d),
         NEW c, c.op \in {"byte_at", "peer_port"}, c.op = "byte_at" => c.index \in Int
  PROVE  Staged(c, slot) = Owed(c, d)
<1>1. PICK n : n = Datagrams[d]
  OBVIOUS
<1>2. n \in Nat
  BY <1>1, NetAssumption
<1>3. Captured(n) = (IF n <= DatagramCap THEN n ELSE DatagramCap) /\ Captured(n) \in Nat
  BY <1>2, CapturedIs
<1>4. Captured(Captured(n)) = Captured(n)
  BY <1>3, CapturedIs, NetAssumption
<1>5. slot.len \in Nat /\ Captured(slot.len) = Captured(n) /\ slot.port = d
  BY <1>1, <1>2, <1>3, <1>4 DEF Whole
<1>6. ~(slot.len < 0)
  BY <1>5
<1>7. CASE c.op = "peer_port"
  BY <1>5, <1>6, <1>7 DEF Staged, Owed
<1>8. CASE c.op = "byte_at"
  <2>1. c.index \notin 0..(Captured(n) - 1) <=> c.index < 0 \/ c.index >= Captured(n)
    BY <1>3, <1>8
  <2> QED BY <1>1, <1>5, <1>6, <1>8, <2>1 DEF Staged, Owed
<1> QED BY <1>7, <1>8

(* What a call that is alone on its descriptor reads from the table is the *)
(* last datagram of its socket, or of an earlier one, or nothing.          *)
LEMMA ReadsOwn ==
  ASSUME WInv, Told, ~raced, NEW u \in Threads, Runs(u),
         at[u].phase = "call", Call(u).op \in {"byte_at", "peer_port"},
         NEW fd, fd = FdOf(u), IsOpen(fd), ~Shared(u, fd),
         NEW v, v = IF UsedSlot(fd) = {} THEN NetError
                    ELSE Staged(Call(u), slots[Min(UsedSlot(fd))]),
         NEW k, k = files[fd]
  PROVE  IF socks[k].last # 0 THEN v = Owed(Call(u), socks[k].last)
         ELSE \/ v = NetError
              \/ \E s \in 1..(k - 1) : socks[s].fd = fd /\ socks[s].last # 0
                                         /\ v = Owed(Call(u), socks[s].last)
<1>1. /\ k \in 1..Len(socks) /\ socks[k].fd = fd /\ fd \in Fds /\ Len(socks) \in Nat
      /\ \A s \in 1..Len(socks) : socks[s].fd = fd => s <= k
  <2>1. socks \in Seq(Sockets) /\ fd \in DOMAIN files
    BY DEF WInv, TableOK, IsOpen
  <2>2. /\ files[fd] \in 1..Len(socks) /\ socks[files[fd]].fd = fd
        /\ \A s \in 1..Len(socks) : socks[s].fd = fd => s <= files[fd]
    BY <2>1 DEF WInv, TableOK
  <2>3. k \in 1..Len(socks) /\ socks[k].fd = fd
        /\ \A s \in 1..Len(socks) : socks[s].fd = fd => s <= k
    BY ONLY <2>2, k = files[fd]
  <2>4. Len(socks) \in Nat /\ socks[k] \in Sockets
    BY ONLY <2>1, <2>3
  <2>5. fd \in Fds
    BY ONLY <2>3, <2>4 DEF Sockets
  <2> QED BY <2>3, <2>4, <2>5
<1>2. at[u].pc \in 1..Len(Code(u)) /\ (Call(u).op = "byte_at" => Call(u).index \in Int)
  <2>1. at[u].pc \in 1..Len(Code(u))
    BY PcInCode DEF WInv
  <2> QED BY <2>1, ProgramsAssumption DEF WInv, IInv, ThreadsOK, Threads, Code, Call
<1>3. WorksOn(Call(u), fd) /\ Call(u).op # "connect"
  BY CallOnVariable DEF WInv, Using
<1>4. Quiet(fd)
  <2>1. CASE u = 0
    BY <2>1 DEF Runs, Quiet
  <2>2. CASE u # 0
    BY <2>2 DEF Shared, Quiet
  <2> QED BY <2>1, <2>2
<1>5. \A w \in Threads : ~Storing(w, fd)
  <2>1. \A w \in Threads : w # u => ~Storing(w, fd)
    BY <1>3, <1>4, NobodyElse DEF WInv
  <2>2. ~Storing(u, fd)
    BY DEF Storing
  <2> QED BY <2>1, <2>2
<1>6. UsedSlot(fd) # {} => Min(UsedSlot(fd)) \in UsedSlot(fd)
  <2>1. UsedSlot(fd) \subseteq Nat
    BY NetAssumption DEF UsedSlot
  <2> QED BY <2>1, MinIn
<1>7. PICK m : m = Min(UsedSlot(fd))
  OBVIOUS
<1>8. CASE Untouched(fd)
  <2>1. socks[k].last = 0
    BY <1>1, <1>8 DEF Untouched
  <2>2. UsedSlot(fd) # {} => slots[m].len = -1
    BY <1>6, <1>7, <1>8 DEF Untouched
  <2>3. v = NetError
    BY <1>7, <2>2 DEF Staged
  <2> QED BY <2>1, <2>3
<1>9. ASSUME NEW d \in DOMAIN Datagrams, Shows(fd, d)
      PROVE  IF socks[k].last # 0 THEN v = Owed(Call(u), socks[k].last)
             ELSE \E s \in 1..(k - 1) : socks[s].fd = fd /\ socks[s].last # 0
                                          /\ v = Owed(Call(u), socks[s].last)
  <2>1. PICK i \in UsedSlot(fd) : slots[i].bytes = d /\ Whole(slots[i], d)
    BY <1>5, <1>9 DEF Shows
  <2>2. m = i
    <3>1. m \in UsedSlot(fd)
      BY <1>6, <1>7, <2>1
    <3> QED BY <2>1, <3>1 DEF UsedSlot, WInv, IInv, SlotsOK
  <2>3. v = Staged(Call(u), slots[i])
    BY <1>7, <2>1, <2>2
  <2>4. PICK slot, c : slot = slots[i] /\ c = Call(u)
    OBVIOUS
  <2>5. Staged(c, slot) = Owed(c, d)
    BY <1>2, <2>1, <2>4, WholeIsOwed
  <2>6. v = Owed(Call(u), d)
    BY <2>3, <2>4, <2>5
  <2>7. PICK s \in 1..Len(socks) :
          /\ socks[s].fd = fd /\ socks[s].last = d
          /\ \A j \in 1..Len(socks) : socks[j].fd = fd /\ s < j => socks[j].last = 0
    BY <1>9 DEF Shows, Latest
  <2>8. d # 0 /\ s <= k
    BY <1>1, <2>7, NetAssumption
  <2>9. CASE s = k
    BY <2>6, <2>7, <2>8, <2>9
  <2>10. CASE s # k
    <3>1. socks[k].last = 0 /\ s \in 1..(k - 1)
      BY <1>1, <2>7, <2>8, <2>10
    <3> QED BY <2>6, <2>7, <2>8, <3>1
  <2> QED BY <2>9, <2>10
<1>10. Untouched(fd) \/ \E d \in DOMAIN Datagrams : Shows(fd, d)
  BY <1>1, <1>4 DEF Told
<1> QED BY <1>8, <1>9, <1>10

LEMMA ReadStagedStays ==
  ASSUME WInv, StagedOK, Grows, NEW u \in Threads, ReadStaged(u)
  PROVE  StagedOK'
<1>1. /\ Runs(u) /\ at[u].phase = "call" /\ Call(u).op \in {"byte_at", "peer_port"}
      /\ UNCHANGED <<prog, env, kernel, slots, raced>>
  BY DEF ReadStaged, Calls, In, kernel
<1>2. PICK fd, v : /\ fd = FdOf(u) /\ Return(u, fd, v)
                   /\ v = IF UsedSlot(fd) = {} THEN NetError
                          ELSE Staged(Call(u), slots[Min(UsedSlot(fd))])
  BY DEF ReadStaged
<1>3. PICK r : r = Answer(u, fd, v)
  OBVIOUS
<1>4. Moves(u) /\ at'[u] = r
  BY <1>1, <1>2, <1>3, MovesTo DEF WInv, Return
<1>5. History
  BY <1>1 DEF History, WInv, TableOK, kernel
<1>6. PICK a : a = r.last
  OBVIOUS
<1>7. /\ r.phase = "call" /\ a.op = Call(u).op /\ a.call = Call(u) /\ a.fd = fd /\ a.result = v
      /\ a.sock = IF IsOpen(fd) THEN files[fd] ELSE 0
      /\ a.own = IF IsOpen(fd) THEN SocketAt(fd).last ELSE 0
  BY <1>3, <1>6 DEF Answer
<1>8. LastStaged(u, a)
  <2>1. SUFFICES ASSUME a.sock # 0 PROVE LastStaged(u, a)
    BY DEF LastStaged
  <2>2. IsOpen(fd) /\ a.sock = files[fd] /\ a.own = socks[a.sock].last
    BY <1>7, <2>1 DEF SocketAt
  <2>3. a.sock \in 1..Len(socks) /\ socks[a.sock].fd = a.fd
    BY <1>7, <2>2 DEF WInv, TableOK, IsOpen
  <2>4. ASSUME ~raced, ~Shared(u, a.fd)
        PROVE  IF a.own # 0 THEN a.result = Owed(a.call, a.own)
               ELSE \/ a.result = NetError
                    \/ \E s \in 1..(a.sock - 1) :
                         socks[s].fd = a.fd /\ socks[s].last # 0
                           /\ a.result = Owed(a.call, socks[s].last)
    <3>1. PICK k : k = files[fd]
      OBVIOUS
    <3>2. Told /\ ~Shared(u, fd)
      BY <1>7, <2>4 DEF StagedOK
    <3>3. IF socks[k].last # 0 THEN v = Owed(Call(u), socks[k].last)
          ELSE \/ v = NetError
               \/ \E s \in 1..(k - 1) : socks[s].fd = fd /\ socks[s].last # 0
                                          /\ v = Owed(Call(u), socks[s].last)
      BY <1>1, <1>2, <2>2, <2>4, <3>1, <3>2, ReadsOwn
    <3> QED BY <1>7, <2>2, <3>1, <3>3
  <2> QED BY <2>3, <2>4 DEF LastStaged
<1>9. \A t \in Threads' : LastStaged(t, at[t].last)'
  <2>1. LastStaged(u, a)'
    BY <1>1, <1>4, <1>5, <1>8, HistoryIsPast, LastStays
  <2>2. a = at'[u].last
    BY <1>4, <1>6
  <2> QED BY <1>1, <1>4, <1>5, <2>1, <2>2, HistoryIsPast, AnswersStay DEF StagedOK
<1>10. \A x : ~Storing(u, x) /\ ~Storing(u, x)'
  BY <1>1, <1>4, <1>7 DEF Storing
<1>11. \A x : Apart(x)
  BY <1>1, <1>4, <1>5, <1>10, StorersStay, HistoryApart
<1>12. ~raced' => Told'
  BY <1>1, <1>4, <1>11, MainStays, AllApart DEF StagedOK, WInv
<1> QED BY <1>9, <1>12 DEF StagedOK

LEMMA NextStays ==
  ASSUME SInv, [Next]_vars
  PROVE  SInv'
<1>1. WInv /\ StagedOK
  BY DEF SInv, WInv
<1>2. WInv' /\ Grows
  BY <1>1, NextFeeds, NextKeeps DEF WInv
<1>3. ASSUME NEW u \in Threads, Step(u) \/ PollInterrupted(u) PROVE StagedOK'
  <2>1. CASE ClaimSlot(u) \/ ReceiveFrom(u) \/ StoreLength(u) \/ ReadStaged(u)
    BY <1>1, <1>2, <2>1, ClaimSlotStays, ReceiveFromStays, StoreLengthStays, ReadStagedStays
  <2>2. ASSUME ~(ClaimSlot(u) \/ ReceiveFrom(u) \/ StoreLength(u) \/ ReadStaged(u))
        PROVE  StagedOK'
    <3>1. Moves(u) /\ Plain(u) /\ UNCHANGED <<slots, raced>> /\ Runs(u)
      BY <1>1, <1>3, <2>2, OpeningPlain, WaitingPlain DEF Step, WInv
    <3>2. History
      BY <1>1, <1>3, <2>2, ThreadHistory
    <3> QED BY <1>1, <1>2, <3>1, <3>2, PlainStays DEF WInv
  <2> QED BY <2>1, <2>2
<1>4. ASSUME NEW k \in DOMAIN socks, Arrive(k) \/ Discard(k) \/ Resolve(k) PROVE StagedOK'
  <2>1. UNCHANGED <<prog, at, slots, raced>>
    BY <1>4 DEF Arrive, Discard, Resolve
  <2> QED BY <1>1, <1>2, <1>4, <2>1, EnvironmentHistory, IdleStays
<1>5. ASSUME Tick \/ Finished \/ UNCHANGED vars PROVE StagedOK'
  <2>1. UNCHANGED <<prog, at, socks, slots, raced>>
    BY <1>5 DEF Tick, Finished, vars
  <2>2. History
    BY <1>1, <2>1 DEF History, WInv, TableOK
  <2> QED BY <1>1, <1>2, <2>1, <2>2, IdleStays
<1>6. StagedOK'
  BY <1>3, <1>4, <1>5 DEF Next
<1> QED BY <1>2, <1>6 DEF SInv, WInv

LEMMA InitStays ==
  ASSUME Init
  PROVE  SInv
<1>1. WInv
  BY InitFeeds
<1>2. \A t \in Threads : at[t].phase = "call" /\ at[t].last.op = "none"
  BY DEF Init, NoCall
<1>3. \A i \in 1..Slots : ~slots[i].used
  BY DEF Init, EmptySlot
<1>4. \A fd : Untouched(fd)
  BY <1>2, <1>3 DEF Init, Untouched, UsedSlot, Storing
<1>5. StagedOK
  BY <1>2, <1>4 DEF StagedOK, Told, LastStaged
<1> QED BY <1>1, <1>5 DEF SInv, WInv

(* The staged datagrams: a program that is alone on a socket reads whole   *)
(* datagrams of that socket, and before its first receive at most one that *)
(* an earlier socket with the same descriptor received, unless two threads *)
(* searched the table at once.                                             *)
THEOREM StagedReadsAreOurs == Spec => []StagedIsOurs
<1>1. Init => SInv
  BY InitStays
<1>2. SInv /\ [Next]_vars => SInv'
  BY NextStays
<1>3. SInv => StagedIsOurs
  BY DEF SInv, StagedOK, LastStaged, StagedIsOurs
<1> QED BY <1>1, <1>2, <1>3, PTL DEF Spec

-----------------------------------------------------------------------------
(* Waits, slots and descriptors need IInv alone.                           *)

(* The inductive invariant, for every program and every environment.       *)
THEOREM NetInvariance == Spec => []IInv
<1>1. Init => IInv
  BY InitOK
<1>2. IInv /\ [Next]_vars => IInv'
  BY NextKeeps
<1> QED BY <1>1, <1>2, PTL DEF Spec

(* Exact timeouts: tuo_rt_poll_until derives the remaining time anew on    *)
(* each retry, so signals neither lengthen a wait nor cut it short, if an  *)
(* int holds its time.                                                     *)
THEOREM WaitsAreExact == Spec => []TimeoutsAreExact
<1>1. ASSUME IInv PROVE TimeoutsAreExact
  <2>1. ASSUME NEW t \in Threads, In(t, "poll"), Fits(at[t].ms)
        PROVE  now <= at[t].start + at[t].ms
    BY <1>1, <2>1, MidCall DEF In, RoundOK
  <2>2. \A t \in Threads : LastOK(at[t].last)
    BY <1>1 DEF IInv, ThreadsOK, PlaceOK
  <2> QED BY <2>1, <2>2 DEF TimeoutsAreExact, LastOK, Waiting
<1> QED BY <1>1, NetInvariance, PTL

(* The table of staged datagrams: as long as no two threads search it at   *)
(* once, no descriptor has two slots, and a receive writes into the slot   *)
(* of its own descriptor.                                                  *)
THEOREM SlotsAreOwned == Spec => []SlotsBelong
<1>1. ASSUME IInv PROVE SlotsBelong
  BY <1>1 DEF IInv, SlotsOK, SlotsBelong, Holding, In, Call
<1> QED BY <1>1, NetInvariance, PTL

(* No leak: each open descriptor is in a variable of the program or that   *)
(* of a connect that will still return or close it.                        *)
THEOREM SocketsAreKept == Spec => []NoSocketLeaks
<1>1. ASSUME IInv PROVE NoSocketLeaks
  <2>1. ASSUME NEW fd, NEW t \in Threads, Connects(t, at[t], fd)
        PROVE  ~In(t, "call") /\ Runs(t) /\ at[t].fd = fd
    BY <1>1, <2>1 DEF IInv, ThreadsOK, PlaceOK, Connects, In, Runs, Done
  <2> QED BY <1>1, <2>1 DEF IInv, FilesOK, Known, NoSocketLeaks
<1> QED BY <1>1, NetInvariance, PTL
===============================================================================
