-------------------------------- MODULE RtNet --------------------------------
(***************************************************************************)
(* The sockets of the runtime of compiled programs: the generated C source *)
(* of src/crates/tuo-runtime/src/effect.rs that binds, listens, connects,  *)
(* accepts, reads and receives with a bounded wait, and the table of       *)
(* staged datagrams that udp_byte_at and udp_peer_port read.               *)
(*                                                                         *)
(* A program is main's calls, then one par_map whose tasks, one on each    *)
(* thread, make more of them.  The table has no lock, so what a call does  *)
(* to it is split into its reads and its writes.  The kernel, the network  *)
(* and the clock are the environment: datagrams are lost, reordered and    *)
(* discarded after they were announced, and signals interrupt waits.       *)
(***************************************************************************)
EXTENDS Integers, Sequences, FiniteSets, FiniteSetsExt

CONSTANTS
  Slots,       \* TUO_RT_UDP_SLOTS (16 in the code)
  IntMax,      \* the greatest int (2^31 - 1 in the code)
  DatagramCap, \* UDP_DATAGRAM_CAP: the bytes of a datagram that are staged
  Fds,         \* the descriptors the process may have
  Programs,    \* the programs: calls of main, calls of each task
  Datagrams,   \* the lengths of the datagrams there are, by number
  MaxSignals,  \* bound on the signals that interrupt waits
  MaxTime      \* bound on the clock while only endless waits are left

ASSUME NetAssumption ==
  /\ Slots \in Nat \ {0} /\ IntMax \in Nat \ {0} /\ DatagramCap \in Nat
  /\ Fds \subseteq Nat /\ Fds # {}
  /\ Datagrams \in Seq(Nat)

(* The calls of main, thread 0, or of a task.                              *)
CodeOf(p, t) == IF t = 0 THEN p.main ELSE p.tasks[t]

Waiting == {"accept", "read", "recv", "connect"}
Opening == {"bind", "listen", "connect", "accept"}
Using   == {"accept", "read", "recv", "byte_at", "peer_port", "close"}

(* Call c of thread t, its number i, is on a variable that main or an      *)
(* earlier call of the thread opened a socket for.                         *)
HasOpened(p, t, i) ==
  \E u \in {0, t} : \E j \in 1..Len(CodeOf(p, u)) :
    /\ CodeOf(p, u)[j].op \in Opening /\ CodeOf(p, u)[j].to = CodeOf(p, t)[i].on
    /\ u = t => j < i

(* A program's waits have a time, a call is on a socket that was opened,   *)
(* and each call that opens one has a variable of its own for it: the      *)
(* program does not lose a descriptor.                                     *)
ASSUME ProgramsAssumption ==
  \A p \in Programs :
    /\ Len(p.tasks) \in Nat
    /\ \A t \in 0..Len(p.tasks) :
         /\ Len(CodeOf(p, t)) \in Nat
         /\ \A i \in 1..Len(CodeOf(p, t)) :
              /\ CodeOf(p, t)[i].op \in Waiting => CodeOf(p, t)[i].ms \in Int
              /\ CodeOf(p, t)[i].op \in Using => HasOpened(p, t, i)
              /\ CodeOf(p, t)[i].op = "byte_at" => CodeOf(p, t)[i].index \in Int
    /\ \A t, u \in 0..Len(p.tasks) :
         \A i \in 1..Len(CodeOf(p, t)), j \in 1..Len(CodeOf(p, u)) :
           /\ CodeOf(p, t)[i].op \in Opening /\ CodeOf(p, u)[j].op \in Opening
           /\ CodeOf(p, t)[i].to = CodeOf(p, u)[j].to
           => t = u /\ i = j

(* NET_ERROR, NET_TIMEOUT, READ_EOF, READ_ERROR, and what a call that      *)
(* succeeds without a value of its own returns.                            *)
NetError   == -1
NetTimeout == -3
ReadEof    == -1
ReadError  == -2
Success    == 0

VARIABLES
  prog,    \* the program that runs
  at,      \* where each thread is; thread 0 is main
  env,     \* the program's variables: the descriptors it was given
  files,   \* the socket behind each open descriptor
  socks,   \* all sockets there ever were, in the order of their creation
  slots,   \* the table of staged datagrams
  sent,    \* the datagrams that have arrived somewhere
  now,     \* the monotonic clock, in milliseconds
  signals, \* the signals so far
  raced    \* two threads were looking for a free slot at the same time

vars == <<prog, at, env, files, socks, slots, sent, now, signals, raced>>
kernel == <<files, socks>>

Threads == 0..Len(prog.tasks)
Code(t) == CodeOf(prog, t)
Done(t) == at[t].pc > Len(Code(t))
Call(t) == Code(t)[at[t].pc]

(* par_map starts its tasks when main has made its calls.                  *)
Runs(t)      == ~Done(t) /\ (t = 0 \/ Done(0))
In(t, phase) == Runs(t) /\ at[t].phase = phase
Calls(t, op) == In(t, "call") /\ Call(t).op = op

(* The descriptor a call is about: a variable, or what it just opened.     *)
FdOf(t)      == IF at[t].phase = "call" THEN env[Call(t).on] ELSE at[t].fd
IsOpen(fd)   == fd \in DOMAIN files
SocketAt(fd) == socks[files[fd]]

Free == Fds \ DOMAIN files

NewSocket(kind, state) ==
  [kind |-> kind, state |-> state, blocking |-> TRUE, queue |-> <<>>,
   fd |-> Min(Free), last |-> 0, discarded |-> FALSE]

EmptySlot == [used |-> FALSE, fd |-> 0, len |-> 0, port |-> 0, bytes |-> 0]

NoCall == [op |-> "none"]

(* f, with v at k.                                                         *)
Put(f, k, v) == [x \in DOMAIN f \cup {k} |-> IF x = k THEN v ELSE f[x]]

Init ==
  /\ prog \in Programs
  /\ at = [t \in Threads |-> [pc |-> 1, phase |-> "call", last |-> NoCall]]
  /\ env = << >>
  /\ files = << >> /\ socks = <<>>
  /\ slots = [i \in 1..Slots |-> EmptySlot]
  /\ sent = {} /\ now = 0 /\ signals = 0 /\ raced = FALSE

-----------------------------------------------------------------------------
(* The call of thread t returns v, having worked on descriptor fd.         *)
Answer(t, fd, v) ==
  [pc |-> at[t].pc + 1, phase |-> "call",
   last |-> [op |-> Call(t).op, call |-> Call(t), fd |-> fd, result |-> v,
             sock  |-> IF IsOpen(fd) THEN files[fd] ELSE 0,
             own   |-> IF IsOpen(fd) THEN SocketAt(fd).last ELSE 0,
             start |-> IF at[t].phase = "poll" THEN at[t].start ELSE now,
             end   |-> now]]

Return(t, fd, v) == at' = [at EXCEPT ![t] = Answer(t, fd, v)]

(* The same, and the variable of the call holds the result.                *)
ReturnTo(t, fd, v) ==
  /\ Return(t, fd, v)
  /\ env' = Put(env, Call(t).to, v)

(* Descriptors are given out lowest first.                                 *)
Open(fd, s)  == /\ files' = Put(files, fd, Len(socks) + 1)
                /\ socks' = Append(socks, s)
Shut(fd)     == files' = [f \in DOMAIN files \ {fd} |-> files[f]]

(* udp_bind, listen: socket, bind, and listen, which may fail.  One step,  *)
(* with the close after a failure: until it returns the descriptor is      *)
(* known to this thread only.                                              *)
BindOrListen(t) ==
  /\ \E op \in {"bind", "listen"} : Calls(t, op)
  /\ \/ /\ Free # {}
        /\ Open(Min(Free), NewSocket(Call(t).op, "up"))
        /\ ReturnTo(t, Min(Free), Min(Free))
     \/ /\ ReturnTo(t, NetError, NetError)
        /\ UNCHANGED kernel
  /\ UNCHANGED <<prog, slots, sent, now, signals, raced>>

(* close: the descriptor is free for the next socket; the table of staged  *)
(* datagrams is not told.                                                  *)
Close(t) ==
  /\ Calls(t, "close")
  /\ LET fd == FdOf(t) IN
       \/ IsOpen(fd) /\ Shut(fd) /\ Return(t, fd, Success)
       \/ ~IsOpen(fd) /\ Return(t, fd, NetError) /\ UNCHANGED files
  /\ UNCHANGED <<prog, env, socks, slots, sent, now, signals, raced>>

-----------------------------------------------------------------------------
(* tuo_rt_poll_until.  poll takes an int: a longer time is cut to its low  *)
(* bits, and a negative one is a wait without end.                         *)
Never == -1
ToInt(n) == LET m == n % (2 * (IntMax + 1))
            IN  IF m > IntMax THEN m - 2 * (IntMax + 1) ELSE m

(* A bug: each retry waits for the whole time again.                       *)
RemainingAll(ms, start) == ms

(* The time that remains is derived anew from the clock on every retry.    *)
(* The clock counts milliseconds; the code's counts nanoseconds and cuts   *)
(* what has passed to milliseconds, which may be off by less than one.     *)
Remaining(ms, start) == Max({ms - (now - start), 0})

Wait(t, fd, ms, start) ==
  LET timeout == ToInt(Remaining(ms, start))
  IN  [pc |-> at[t].pc, phase |-> "poll", last |-> at[t].last, fd |-> fd,
       ms |-> ms, start |-> start, remaining |-> Remaining(ms, start),
       until |-> IF timeout < 0 THEN Never ELSE now + timeout, slot |-> 0, got |-> 0]

Interested(t) == IF Call(t).op = "connect" THEN "out" ELSE "in"

(* A bug: what poll returned is not looked at.                             *)
ReadyAnyway(fd, events) == TRUE

(* poll reports a closed descriptor at once, and ignores a negative one.   *)
Ready(fd, events) ==
  /\ fd >= 0
  /\ IsOpen(fd) => \/ events = "in"  /\ SocketAt(fd).queue # <<>>
                   \/ events = "out" /\ SocketAt(fd).state # "connecting"

(* What a call says when its wait cannot begin or its socket is gone.      *)
ErrorOf(t) == IF Call(t).op = "read" THEN ReadError ELSE NetError

(* accept_timeout, read_byte_timeout, udp_recv: the wait comes first.      *)
StartWait(t) ==
  /\ \E op \in {"accept", "read", "recv"} : Calls(t, op)
  /\ LET ms == Call(t).ms IN
       \/ /\ ms >= 0
          /\ at' = [at EXCEPT ![t] = Wait(t, FdOf(t), ms, now)]
          /\ UNCHANGED env
       \/ /\ ms < 0 /\ Call(t).op = "accept"
          /\ ReturnTo(t, FdOf(t), NetError)
       \/ /\ ms < 0 /\ Call(t).op # "accept"
          /\ Return(t, FdOf(t), ErrorOf(t))
          /\ UNCHANGED env
  /\ UNCHANGED <<prog, files, socks, slots, sent, now, signals, raced>>

(* A bug: a connect that times out keeps its socket.                       *)
FailKeepingSocket(t, v) ==
  \/ Call(t).op \in {"connect", "accept"} /\ ReturnTo(t, at[t].fd, v)
                                          /\ UNCHANGED files
  \/ Call(t).op \in {"read", "recv"} /\ Return(t, at[t].fd, v)
                                     /\ UNCHANGED <<env, files>>

(* A bug: a timeout starts another round.                                  *)
FailRetrying(t, v) ==
  /\ at' = [at EXCEPT ![t] = Wait(t, at[t].fd, at[t].ms, at[t].start)]
  /\ UNCHANGED <<env, files>>

(* A call that opened a socket for itself closes it before it fails.       *)
Fail(t, v) ==
  \/ Call(t).op = "connect" /\ Shut(at[t].fd) /\ ReturnTo(t, NetError, v)
  \/ Call(t).op = "accept" /\ ReturnTo(t, at[t].fd, v) /\ UNCHANGED files
  \/ Call(t).op \in {"read", "recv"} /\ Return(t, at[t].fd, v)
                                     /\ UNCHANGED <<env, files>>

PollReady(t) ==
  /\ In(t, "poll")
  /\ Ready(at[t].fd, Interested(t))
  /\ at' = [at EXCEPT ![t].phase = IF Call(t).op = "recv" THEN "find" ELSE "io"]
  /\ UNCHANGED <<prog, env, files, socks, slots, sent, now, signals, raced>>

PollTimesOut(t) ==
  /\ In(t, "poll")
  /\ ~Ready(at[t].fd, Interested(t))
  /\ now = at[t].until
  /\ Fail(t, NetTimeout)
  /\ UNCHANGED <<prog, socks, slots, sent, now, signals, raced>>

(* EINTR: a timeout if nothing remained, another round otherwise.          *)
PollInterrupted(t) ==
  /\ In(t, "poll")
  /\ signals < MaxSignals
  /\ signals' = signals + 1
  /\ \/ at[t].remaining = 0 /\ Fail(t, NetTimeout)
     \/ /\ at[t].remaining > 0
        /\ at' = [at EXCEPT ![t] = Wait(t, at[t].fd, at[t].ms, at[t].start)]
        /\ UNCHANGED <<env, files>>
  /\ UNCHANGED <<prog, socks, slots, sent, now, raced>>

-----------------------------------------------------------------------------
(* connect_timeout: a non-blocking connect is done, refused or in progress. *)
StartConnect(t) ==
  /\ Calls(t, "connect")
  /\ \/ /\ Call(t).ms >= 0 /\ Free # {}
        /\ LET fd == Min(Free) IN
             \/ /\ Open(fd, NewSocket("stream", "up"))
                /\ ReturnTo(t, fd, fd)
             \/ /\ Open(fd, [NewSocket("stream", "connecting")
                               EXCEPT !.blocking = FALSE])
                /\ at' = [at EXCEPT ![t] = Wait(t, fd, Call(t).ms, now)]
                /\ UNCHANGED env
     \/ /\ ReturnTo(t, NetError, NetError)
        /\ UNCHANGED kernel
  /\ UNCHANGED <<prog, slots, sent, now, signals, raced>>

(* After the wait SO_ERROR tells, and the socket blocks again.             *)
FinishConnect(t) ==
  /\ In(t, "io") /\ Call(t).op = "connect"
  /\ LET fd == at[t].fd IN
       \/ /\ IsOpen(fd) /\ SocketAt(fd).state = "up"
          /\ socks' = [socks EXCEPT ![files[fd]].blocking = TRUE]
          /\ ReturnTo(t, fd, fd)
          /\ UNCHANGED files
       \/ /\ IsOpen(fd) => SocketAt(fd).state = "refused"
          /\ Fail(t, NetError)
          /\ UNCHANGED socks
  /\ UNCHANGED <<prog, slots, sent, now, signals, raced>>

(* accept: blocks while nobody is in the queue, fails without descriptors.  *)
Accept(t) ==
  /\ In(t, "io") /\ Call(t).op = "accept"
  /\ LET fd == at[t].fd IN
       \/ /\ IsOpen(fd) /\ SocketAt(fd).queue # <<>> /\ Free # {}
          /\ files' = Put(files, Min(Free), Len(socks) + 1)
          /\ socks' = Append([socks EXCEPT ![files[fd]].queue = Tail(@)],
                             NewSocket("stream", "up"))
          /\ ReturnTo(t, fd, Min(Free))
       \/ /\ IsOpen(fd) => SocketAt(fd).queue # <<>> /\ Free = {}
          /\ Fail(t, NetError)
          /\ UNCHANGED socks
  /\ UNCHANGED <<prog, slots, sent, now, signals, raced>>

(* read: a byte, the end of the stream (it stays), or an error.            *)
Read(t) ==
  /\ In(t, "io") /\ Call(t).op = "read"
  /\ LET fd == at[t].fd IN
       \/ /\ IsOpen(fd) /\ SocketAt(fd).queue # <<>>
          /\ socks' = [socks EXCEPT ![files[fd]].queue =
                         IF Head(@) = "eof" THEN @ ELSE Tail(@)]
          /\ Return(t, fd, IF Head(SocketAt(fd).queue) = "eof" THEN ReadEof ELSE Success)
       \/ ~IsOpen(fd) /\ Return(t, fd, ErrorOf(t)) /\ UNCHANGED socks
  /\ UNCHANGED <<prog, env, files, slots, sent, now, signals, raced>>

-----------------------------------------------------------------------------
(* A bug: any slot in use will do.                                         *)
AnyUsedSlot(fd) == {i \in 1..Slots : slots[i].used}

(* A bug: a slot is never found again.                                     *)
NoUsedSlot(fd) == {}

(* tuo_rt_udp_slot_for: the slot with this descriptor, then a free one.    *)
UsedSlot(fd) == {i \in 1..Slots : slots[i].used /\ slots[i].fd = fd}
FreeSlots    == {i \in 1..Slots : ~slots[i].used}

Searching(t) == \E phase \in {"find", "free", "claim"} : In(t, phase)

FindSlot(t) ==
  /\ In(t, "find")
  /\ at' = [at EXCEPT ![t] =
              IF UsedSlot(at[t].fd) # {}
              THEN [@ EXCEPT !.phase = "io", !.slot = Min(UsedSlot(at[t].fd))]
              ELSE [@ EXCEPT !.phase = "free"]]
  /\ UNCHANGED <<prog, env, files, socks, slots, sent, now, signals, raced>>

FindFreeSlot(t) ==
  /\ In(t, "free")
  /\ \/ /\ FreeSlots # {}
        /\ at' = [at EXCEPT ![t] = [@ EXCEPT !.phase = "claim", !.slot = Min(FreeSlots)]]
     \/ FreeSlots = {} /\ Return(t, at[t].fd, NetError)
  /\ UNCHANGED <<prog, env, files, socks, slots, sent, now, signals, raced>>

ClaimSlot(t) ==
  /\ In(t, "claim")
  /\ slots' = [slots EXCEPT ![at[t].slot].used = TRUE, ![at[t].slot].fd = at[t].fd,
                            ![at[t].slot].len = -1, ![at[t].slot].port = -1]
  /\ raced' = (raced \/ \E u \in Threads \ {t} : Searching(u))
  /\ at' = [at EXCEPT ![t].phase = "io"]
  /\ UNCHANGED <<prog, env, files, socks, sent, now, signals>>

(* recvfrom writes the bytes into the slot; it blocks while there is none, *)
(* and fails on a listener.  A receive from a stream is not modelled.      *)
ReceiveFrom(t) ==
  /\ In(t, "io") /\ Call(t).op = "recv"
  /\ LET fd == at[t].fd IN
       \/ /\ IsOpen(fd) /\ SocketAt(fd).kind = "bind" /\ SocketAt(fd).queue # <<>>
          /\ \E d \in DOMAIN Datagrams :
               /\ d = Head(SocketAt(fd).queue)
               /\ socks' = [socks EXCEPT ![files[fd]].queue = Tail(@),
                                         ![files[fd]].last  = d]
               /\ slots' = [slots EXCEPT ![at[t].slot].bytes = d]
               /\ at' = [at EXCEPT ![t] = [@ EXCEPT !.phase = "store", !.got = d]]
       \/ /\ IsOpen(fd) => SocketAt(fd).kind = "listen"
          /\ Return(t, fd, NetError)
          /\ UNCHANGED <<socks, slots>>
  /\ UNCHANGED <<prog, env, files, sent, now, signals, raced>>

(* What is readable of a datagram whose length is n.                       *)
Captured(n) == Min({n, DatagramCap})

(* ... and the length and the peer's port follow.  Of a datagram that does *)
(* not fit some kernels report the true length, as the code expects, and   *)
(* others what they copied.  A datagram stands for its bytes and sender.   *)
StoreLength(t) ==
  /\ In(t, "store")
  /\ LET d == at[t].got IN
       \E n \in {Datagrams[d], Captured(Datagrams[d])} :
         /\ slots' = [slots EXCEPT ![at[t].slot].len = n, ![at[t].slot].port = d]
         /\ Return(t, at[t].fd, n)
  /\ UNCHANGED <<prog, env, files, socks, sent, now, signals, raced>>

(* What the call c finds in slot s.                                        *)
Staged(c, s) ==
  IF s.len < 0 THEN NetError
  ELSE IF c.op = "peer_port" THEN s.port
  ELSE IF c.index < 0 \/ c.index >= Captured(s.len) THEN NetError
  ELSE s.bytes

(* udp_byte_at: the first byte of the datagram, or the last one that is    *)
(* readable.  udp_peer_port.                                               *)
ReadStaged(t) ==
  /\ \E op \in {"byte_at", "peer_port"} : Calls(t, op)
  /\ LET fd == FdOf(t)
     IN  Return(t, fd, IF UsedSlot(fd) = {} THEN NetError
                       ELSE Staged(Call(t), slots[Min(UsedSlot(fd))]))
  /\ UNCHANGED <<prog, env, files, socks, slots, sent, now, signals, raced>>

-----------------------------------------------------------------------------
(* The environment: the clock, which passes no time at which a poll ends,  *)
(* datagrams, peers, and a kernel that discards what it announced.         *)
Polling == {t \in Threads : In(t, "poll")}

Tick ==
  /\ \E t \in Polling : at[t].until > now \/ (at[t].until = Never /\ now < MaxTime)
  /\ \A t \in Polling : at[t].until # now
  /\ now' = now + 1
  /\ UNCHANGED <<prog, at, env, files, socks, slots, sent, signals, raced>>

Deliver(s, item) == socks' = [socks EXCEPT ![s].queue = Append(@, item)]

Arrive(s) ==
  /\ socks[s].state = "up" /\ s \in {files[fd] : fd \in DOMAIN files}
  /\ \/ /\ socks[s].kind = "bind"
        /\ \E d \in DOMAIN Datagrams \ sent :
             Deliver(s, d) /\ sent' = sent \cup {d}
     \/ /\ socks[s].kind = "listen" /\ socks[s].queue = <<>>
        /\ Deliver(s, "peer") /\ UNCHANGED sent
     \/ /\ socks[s].kind = "stream" /\ socks[s].queue = <<>>
        /\ \E item \in {"byte", "eof"} : Deliver(s, item)
        /\ UNCHANGED sent
  /\ UNCHANGED <<prog, at, env, files, slots, now, signals, raced>>

Discard(s) ==
  /\ socks[s].kind = "bind" /\ socks[s].queue # <<>>
  /\ socks' = [socks EXCEPT ![s].queue = Tail(@), ![s].discarded = TRUE]
  /\ UNCHANGED <<prog, at, env, files, slots, sent, now, signals, raced>>

Resolve(s) ==
  /\ socks[s].state = "connecting"
  /\ \E state \in {"up", "refused"} : socks' = [socks EXCEPT ![s].state = state]
  /\ UNCHANGED <<prog, at, env, files, slots, sent, now, signals, raced>>

-----------------------------------------------------------------------------
AllDone == \A t \in Threads : Done(t)

Finished == AllDone /\ UNCHANGED vars

Step(t) ==
  \/ BindOrListen(t) \/ Close(t) \/ StartWait(t) \/ StartConnect(t)
  \/ PollReady(t) \/ PollTimesOut(t)
  \/ FinishConnect(t) \/ Accept(t) \/ Read(t)
  \/ FindSlot(t) \/ FindFreeSlot(t) \/ ClaimSlot(t) \/ ReceiveFrom(t)
  \/ StoreLength(t) \/ ReadStaged(t)

Next ==
  \/ \E t \in Threads : Step(t) \/ PollInterrupted(t)
  \/ \E s \in DOMAIN socks : Arrive(s) \/ Discard(s) \/ Resolve(s)
  \/ Tick
  \/ Finished

(* Threads are scheduled and time passes; nothing else is promised.        *)
Spec == Init /\ [][Next]_vars /\ WF_vars(Tick)
             /\ \A t \in 0..2 : WF_vars(t \in Threads /\ Step(t))

-----------------------------------------------------------------------------
Fits(ms) == ms <= IntMax

(* A bounded wait is as long as the program said, however often signals    *)
(* interrupt it: it is not waited on past its end, and it does not report  *)
(* a timeout before it.  Only times an int holds are promised this: the    *)
(* cast in poll_until makes of a longer one an endless or a shorter wait.  *)
TimeoutsAreExact ==
  \A t \in Threads :
    /\ In(t, "poll") /\ Fits(at[t].ms) => now <= at[t].start + at[t].ms
    /\ LET a == at[t].last IN
         /\ a.op \in {"accept", "read", "recv", "connect"}
         /\ a.result = NetTimeout
         /\ Fits(a.call.ms)
         => a.end = a.start + a.call.ms

(* Task u makes calls about descriptor fd.                                 *)
Uses(u, fd) ==
  \E i \in 1..Len(Code(u)) :
    LET c == Code(u)[i] IN c.op \in Using /\ c.on \in DOMAIN env /\ env[c.on] = fd

(* Task u was given descriptor fd, or is in a connect that was.            *)
Opened(u, fd) ==
  \/ \E i \in 1..Len(Code(u)) :
       LET c == Code(u)[i] IN c.op \in Opening /\ c.to \in DOMAIN env /\ env[c.to] = fd
  \/ Runs(u) /\ at[u].phase # "call" /\ at[u].fd = fd

(* Another task than t does.                                               *)
Shared(t, fd)    == t # 0 /\ \E u \in Threads \ {0, t} : Uses(u, fd)
Contested(t, fd) == t # 0 /\ \E u \in Threads \ {0, t} : Uses(u, fd) \/ Opened(u, fd)

(* A call that was told its socket is ready does not block on it after     *)
(* all, unless the kernel discarded what it announced, another task uses   *)
(* the same socket, or another task opened one under the number of a       *)
(* descriptor that this program had closed: accept, read and recvfrom wait *)
(* without a bound.                                                        *)
OnlySharersOverstay ==
  \A t \in Threads :
    In(t, "io") /\ Call(t).op # "connect" /\ IsOpen(at[t].fd) =>
      \/ SocketAt(at[t].fd).queue # <<>>
      \/ SocketAt(at[t].fd).discarded
      \/ Contested(t, at[t].fd)

(* Unless two first receives overlap, each descriptor has at most one slot *)
(* of the table, and a receive writes into the slot of its own descriptor. *)
SlotsBelong ==
  ~raced =>
    /\ \A i, j \in 1..Slots :
         slots[i].used /\ slots[j].used /\ slots[i].fd = slots[j].fd => i = j
    /\ \A t \in Threads :
         In(t, "store") \/ (In(t, "io") /\ Call(t).op = "recv") =>
           slots[at[t].slot].fd = at[t].fd

(* What udp_byte_at or udp_peer_port owes the socket it is asked about: an *)
(* answer about the last datagram that socket received.                    *)
Owed(call, d) ==
  IF call.op = "byte_at" /\ call.index \notin 0..(Captured(Datagrams[d]) - 1)
  THEN NetError ELSE d

(* The staged datagram a program reads came from the socket it asks about, *)
(* as a whole: its bytes, its length and its sender are of one datagram.   *)
(* The table is keyed by descriptor and close does not clear it, so before *)
(* its first receive a socket may show what an earlier socket with the     *)
(* same descriptor received, and nothing else.                             *)
StagedIsOurs ==
  \A t \in Threads :
    LET a == at[t].last IN
      /\ a.op \in {"byte_at", "peer_port"}
      /\ a.sock # 0 /\ ~raced /\ ~Shared(t, a.fd)
      => IF a.own # 0 THEN a.result = Owed(a.call, a.own)
         ELSE \/ a.result = NetError
              \/ \E s \in 1..(a.sock - 1) :
                   socks[s].fd = a.fd /\ socks[s].last # 0
                     /\ a.result = Owed(a.call, socks[s].last)

(* A socket that is open is known to the program or to a call that has not *)
(* returned: no way out of connect, bind or accept forgets to close one.   *)
NoSocketLeaks ==
  \A fd \in DOMAIN files :
    \/ \E r \in DOMAIN env : env[r] = fd
    \/ \E t \in Threads : ~In(t, "call") /\ Runs(t) /\ at[t].fd = fd

(* Every wait of a time an int holds ends.                                 *)
WaitsEnd ==
  \A t \in 0..2 : (t \in Polling /\ Fits(at[t].ms)) ~> t \notin Polling
===============================================================================
