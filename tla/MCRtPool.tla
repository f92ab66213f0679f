------------------------------- MODULE MCRtPool -------------------------------
(* A program of one channel and one mutex: two consumers, two producers of  *)
(* which one closes the channel, and a task that misuses both.              *)
EXTENDS RtPool

NewChan      == [op |-> "chan_new"]
NewMutex     == [op |-> "mutex_new"]
Send(c, v)   == [op |-> "send", chan |-> c, value |-> v]
Recv(c)      == [op |-> "recv", chan |-> c]
Drain(c)     == [op |-> "drain", chan |-> c]
Close(c)     == [op |-> "close", chan |-> c]
Lock(m)      == [op |-> "lock", mutex |-> m]
Unlock(m)    == [op |-> "unlock", mutex |-> m]

(* The registries have one slot each, so the second calls fail.            *)
MCMain == <<NewChan, NewMutex, NewChan, NewMutex>>

Consumer == <<Drain(0)>>
LockingConsumer == <<Lock(0), Unlock(0), Drain(0)>>
Producer == <<Lock(0), Send(0, 1), Unlock(0), Send(0, 2), Close(0)>>
OpenProducer == <<Send(0, 2), Send(0, 1)>>
Misuser  == <<Lock(0), Lock(0), Unlock(0), Unlock(0), Unlock(1),
              Send(0, 1), Send(0, -1), Recv(1), Close(1)>>

(* Four workers: the fifth task runs after the first, on its thread.       *)
MCTasks == <<Consumer, LockingConsumer, Producer, OpenProducer, Misuser>>

(* Workers 2 and 3 run the producers, worker 1 a consumer.                 *)
ProducersCanFail == {2, 3}
ConsumerCanFail  == {1}
===============================================================================
