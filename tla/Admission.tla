---------------------------- MODULE Admission ----------------------------
(* Bounded admission and shutdown of the attached service: the listener     *)
(* thread (accept_requests), the worker thread (run_worker), the caller     *)
(* watchers of game-information requests, and the callers themselves.       *)
(* The threads share the bounded channel, the flag admission_open, the      *)
(* cancellation flags of each request and the metrics counters; every step  *)
(* below makes at most one access to what another thread writes, and        *)
(* updates at most one counter.                                             *)
(*                                                                          *)
(* A request is the caller that made it.  What a handler does is left to    *)
(* the modules of the handlers: here it only may request shutdown.          *)

EXTENDS Integers, Sequences, FiniteSets

CONSTANTS
  Callers,          \* each makes one connection
  queue_capacity,   \* STS2_RUNTIME_V2_QUEUE_CAPACITY
  Backlog           \* bound: connections the system keeps unaccepted

Nobody == "nobody"
Wake == "wake"      \* the connection wake_listener makes

ASSUME AdmissionConfig ==
  /\ queue_capacity \in Nat \ {0}
  /\ Backlog \in Nat \ {0}
  /\ Nobody \notin Callers /\ Wake \notin Callers

VARIABLES
  backlog,             \* connections made and not yet accepted
  present,             \* external: a caller idle, waiting or gone
  listener,            \* where the listener thread is, with which connection
  queue,               \* the sync_channel
  worker,              \* where the worker thread is, with which request
  admission_open,      \* the shared flag
  shutdown_requested,  \* RuntimeService.shutdown_requested
  cancellation,        \* RequestCancellation, and the watcher's state
  metrics,             \* the counters that take part in the accounting
  kind,                \* what the listener read on the connection
  admitted, handled,   \* history: order of admission, handlers that ran
  outcome              \* history: what became of the connection

vars == <<backlog, present, listener, queue, worker, admission_open,
          shutdown_requested, cancellation, metrics, kind, admitted, handled,
          outcome>>

Kinds == {"unread", "malformed", "refused", "plain", "watched", "shutdown"}
Refusals == {"overflow", "cancelled"}
Outcomes == {"none", "closed", "malformed", "refused", "answered",
             "abandoned", "lost"} \cup Refusals

Conns == Callers \cup {Wake}
Listening == {"check", "accept", "opened", "read", "decide", "counting",
              "counted", "reserved", "full", "fullundo", "overflow",
              "rejected", "disconnected", "undo", "unsent", "join",
              "lastjoin", "ended"}
Working == {"recv", "received", "starting", "started", "handle", "reply",
            "finish", "worked", "completing", "close", "wake", "drain",
            "cancel", "cancelling", "cancelled", "drainjoin", "return",
            "ended", "panicked"}
Counters == {"admitted", "queued", "active", "completed", "rejected",
             "cancelled"}

At(place, conn) == [at |-> place, conn |-> conn]
Fresh == [cancelled |-> FALSE, completed |-> FALSE, watcher |-> "none"]

Init ==
  /\ backlog = <<>>
  /\ present = [c \in Callers |-> "idle"]
  /\ listener = At("check", Nobody)
  /\ queue = <<>>
  /\ worker = At("recv", Nobody)
  /\ admission_open = TRUE
  /\ shutdown_requested = FALSE
  /\ cancellation = [c \in Callers |-> Fresh]
  /\ metrics = [n \in Counters |-> 0]
  /\ kind = [c \in Callers |-> "unread"]
  /\ admitted = <<>>
  /\ handled = {}
  /\ outcome = [c \in Callers |-> "none"]

-----------------------------------------------------------------------------
(* RequestCancellation and its watcher.                                     *)

\* (Mutant of Respond: the watcher is joined without being told.)
RespondUntold(c, how) ==
  /\ outcome' = [outcome EXCEPT ![c] =
       IF cancellation[c].cancelled THEN "abandoned" ELSE how]
  /\ UNCHANGED cancellation

\* A response is written unless the watcher has seen the caller leave; either
\* way the request is completed, and the caller of this joins the watcher.
Respond(c, how) ==
  /\ outcome' = [outcome EXCEPT ![c] =
       IF cancellation[c].cancelled THEN "abandoned" ELSE how]
  /\ cancellation' = [cancellation EXCEPT ![c].completed = TRUE]

finish_cancellation(c) == cancellation[c].watcher # "running"

-----------------------------------------------------------------------------
(* accept_requests.                                                         *)

ListenerTo(place, conn) == listener' = At(place, conn)

\* One atomic addition to one counter, between two places of the listener.
ListenerCounts(counter, by, from, to) ==
  /\ listener.at = from
  /\ metrics' = [metrics EXCEPT ![counter] = @ + by]
  /\ ListenerTo(to, listener.conn)

\* accept_requests returns: the sender and the listening socket are dropped,
\* and connections nobody accepted are reset.
ListenerEnds(settled) ==
  /\ ListenerTo("ended", Nobody)
  /\ backlog' = <<>>
  /\ outcome' = [c \in Callers |->
       IF \E i \in DOMAIN backlog : backlog[i] = c THEN "closed"
       ELSE settled[c]]

CheckOpen ==
  /\ listener.at = "check"
  /\ \/ /\ admission_open
        /\ ListenerTo("accept", Nobody)
        /\ UNCHANGED <<backlog, outcome>>
     \/ /\ ~admission_open
        /\ ListenerEnds(outcome)
  /\ UNCHANGED <<present, queue, worker, admission_open, shutdown_requested,
                 cancellation, metrics, kind, admitted, handled>>

Accept ==
  /\ listener.at = "accept"
  /\ backlog # <<>>
  /\ ListenerTo("opened", Head(backlog))
  /\ backlog' = Tail(backlog)
  /\ UNCHANGED <<present, queue, worker, admission_open, shutdown_requested,
                 cancellation, metrics, kind, admitted, handled, outcome>>

AcceptFails ==
  /\ listener.at = "accept"
  /\ ListenerEnds(outcome)
  /\ UNCHANGED <<present, queue, worker, admission_open, shutdown_requested,
                 cancellation, metrics, kind, admitted, handled>>

\* The flag is read again: the connection may be the one that woke accept.
CheckAccepted ==
  /\ listener.at = "opened"
  /\ \/ /\ admission_open
        /\ ListenerTo("read", listener.conn)
        /\ UNCHANGED <<backlog, outcome>>
     \/ /\ ~admission_open
        /\ ListenerEnds([c \in Callers |->
             IF c = listener.conn THEN "closed" ELSE outcome[c]])
  /\ UNCHANGED <<present, queue, worker, admission_open, shutdown_requested,
                 cancellation, metrics, kind, admitted, handled>>

\* read_request and request_rejection answer what is not admissible at once.
\* For a game-information request a watcher is started; when the connection
\* cannot be duplicated for it, the request counts as cancelled.
ReadRequest ==
  /\ listener.at = "read"
  /\ LET c == listener.conn IN
     \E what \in Kinds \ {"unread"}, duplicated \in BOOLEAN :
       /\ duplicated \/ what = "watched"
       /\ kind' = [kind EXCEPT ![c] = what]
       /\ IF what \in {"malformed", "refused"}
          THEN /\ outcome' = [outcome EXCEPT ![c] = what]
               /\ ListenerTo("check", Nobody)
               /\ UNCHANGED cancellation
          ELSE /\ ListenerTo("decide", c)
               /\ cancellation' = [cancellation EXCEPT ![c] =
                    [cancelled |-> ~duplicated, completed |-> FALSE,
                     watcher |-> IF what = "watched" /\ duplicated
                                 THEN "running" ELSE "none"]]
               /\ UNCHANGED outcome
  /\ UNCHANGED <<backlog, present, queue, worker, admission_open,
                 shutdown_requested, metrics, admitted, handled>>

\* The third reading of the flag.
CheckAdmission ==
  /\ listener.at = "decide"
  /\ \/ /\ admission_open
        /\ ListenerTo("counting", listener.conn)
        /\ UNCHANGED <<cancellation, outcome>>
     \/ /\ ~admission_open
        /\ Respond(listener.conn, "cancelled")
        /\ ListenerTo("lastjoin", listener.conn)
  /\ UNCHANGED <<backlog, present, queue, worker, admission_open,
                 shutdown_requested, metrics, kind, admitted, handled>>

\* The accounting comes before the send, so that the worker cannot start a
\* request that was not yet counted.
queue_admitted ==
  \/ ListenerCounts("admitted", 1, "counting", "counted")
  \/ ListenerCounts("queued", 1, "counted", "reserved")

\* (Mutant of queue_admission_reverted: one of the two counters is kept.)
queue_admission_half_reverted ==
  \/ ListenerCounts("queued", -1, "full", "fullundo")
  \/ ListenerCounts("admitted", 0, "fullundo", "overflow")
  \/ ListenerCounts("queued", -1, "disconnected", "undo")
  \/ ListenerCounts("admitted", 0, "undo", "unsent")

queue_admission_reverted ==
  \/ ListenerCounts("queued", -1, "full", "fullundo")
  \/ ListenerCounts("admitted", -1, "fullundo", "overflow")
  \/ ListenerCounts("queued", -1, "disconnected", "undo")
  \/ ListenerCounts("admitted", -1, "undo", "unsent")

queue_rejected == ListenerCounts("rejected", 1, "overflow", "rejected")

ListenerCount ==
  /\ queue_admitted \/ queue_admission_reverted \/ queue_rejected
  /\ UNCHANGED <<backlog, present, queue, worker, admission_open,
                 shutdown_requested, cancellation, kind, admitted, handled,
                 outcome>>

ReceiverDropped == worker.at \in {"ended", "panicked"}

HasRoom == Len(queue) < queue_capacity

\* try_send: into the channel, or back with the reason.
TrySend ==
  /\ listener.at = "reserved"
  /\ \/ /\ ReceiverDropped
        /\ ListenerTo("disconnected", listener.conn)
        /\ UNCHANGED <<queue, admitted>>
     \/ /\ ~ReceiverDropped
        /\ ~HasRoom
        /\ ListenerTo("full", listener.conn)
        /\ UNCHANGED <<queue, admitted>>
     \/ /\ ~ReceiverDropped
        /\ HasRoom
        /\ queue' = Append(queue, listener.conn)
        /\ admitted' = Append(admitted, listener.conn)
        /\ ListenerTo("check", Nobody)
  /\ UNCHANGED <<backlog, present, worker, admission_open,
                 shutdown_requested, cancellation, metrics, kind, handled,
                 outcome>>

\* With the reservation rolled back: 429 when full, 503 when disconnected.
SendRefused ==
  /\ \/ /\ listener.at = "rejected"
        /\ Respond(listener.conn, "overflow")
        /\ ListenerTo("join", listener.conn)
     \/ /\ listener.at = "unsent"
        /\ Respond(listener.conn, "cancelled")
        /\ ListenerTo("lastjoin", listener.conn)
  /\ UNCHANGED <<backlog, present, queue, worker, admission_open,
                 shutdown_requested, metrics, kind, admitted, handled>>

\* The end of reject_queued_request.
ListenerJoinsWatcher ==
  /\ \/ /\ listener.at = "join"
        /\ finish_cancellation(listener.conn)
        /\ ListenerTo("check", Nobody)
        /\ UNCHANGED <<backlog, outcome>>
     \/ /\ listener.at = "lastjoin"
        /\ finish_cancellation(listener.conn)
        /\ ListenerEnds(outcome)
  /\ UNCHANGED <<present, queue, worker, admission_open, shutdown_requested,
                 cancellation, metrics, kind, admitted, handled>>

ListenerStep ==
  \/ CheckOpen \/ Accept \/ CheckAccepted \/ ReadRequest \/ CheckAdmission
  \/ ListenerCount \/ TrySend \/ SendRefused \/ ListenerJoinsWatcher

-----------------------------------------------------------------------------
(* run_worker.                                                              *)

WorkerTo(place, conn) == worker' = At(place, conn)

WorkerCounts(counter, by, from, to) ==
  /\ worker.at = from
  /\ metrics' = [metrics EXCEPT ![counter] = @ + by]
  /\ WorkerTo(to, worker.conn)

\* (Mutant of Disconnected: the drain stops as soon as the channel is empty.)
DisconnectedWhenEmpty == queue = <<>>

\* recv fails once the channel is empty and its sender has been dropped.
Disconnected == queue = <<>> /\ listener.at = "ended"

Taken(place) ==
  /\ queue # <<>>
  /\ queue' = Tail(queue)
  /\ WorkerTo(place, Head(queue))

Receive ==
  /\ worker.at = "recv"
  /\ \/ /\ Taken("received")
        /\ UNCHANGED admission_open
     \/ /\ Disconnected
        /\ admission_open' = FALSE
        /\ WorkerTo("return", Nobody)
        /\ UNCHANGED queue
  /\ UNCHANGED <<backlog, present, listener, shutdown_requested,
                 cancellation, metrics, kind, admitted, handled, outcome>>

work_started ==
  \/ WorkerCounts("queued", -1, "received", "starting")
  \/ WorkerCounts("active", 1, "starting", "started")

\* handle_queued_request up to the handler: a request whose caller has left
\* is not handled at all.
StartWork ==
  /\ worker.at = "started"
  /\ \/ /\ cancellation[worker.conn].cancelled
        /\ Respond(worker.conn, "answered")
        /\ WorkerTo("finish", worker.conn)
     \/ /\ ~cancellation[worker.conn].cancelled
        /\ WorkerTo("handle", worker.conn)
        /\ UNCHANGED <<cancellation, outcome>>
  /\ UNCHANGED <<backlog, present, listener, queue, admission_open,
                 shutdown_requested, metrics, kind, admitted, handled>>

\* The handler.  runtime_v2_shutdown may refuse the request for its lease.
Handle ==
  /\ worker.at = "handle"
  /\ handled' = handled \cup {worker.conn}
  /\ \/ UNCHANGED shutdown_requested
     \/ /\ kind[worker.conn] = "shutdown"
        /\ shutdown_requested' = TRUE
  /\ WorkerTo("reply", worker.conn)
  /\ UNCHANGED <<backlog, present, listener, queue, admission_open,
                 cancellation, metrics, kind, admitted, outcome>>

\* The worker thread dies in the handler: the receiver is dropped, and with
\* it every request of the channel, while admission_open stays set.
WorkerPanics ==
  /\ worker.at = "handle"
  /\ handled' = handled \cup {worker.conn}
  /\ outcome' = [c \in Callers |->
       IF c = worker.conn \/ \E i \in DOMAIN queue : queue[i] = c
       THEN "lost" ELSE outcome[c]]
  /\ queue' = <<>>
  /\ WorkerTo("panicked", Nobody)
  /\ UNCHANGED <<backlog, present, listener, admission_open,
                 shutdown_requested, cancellation, metrics, kind, admitted>>

Reply ==
  /\ worker.at = "reply"
  /\ Respond(worker.conn, "answered")
  /\ WorkerTo("finish", worker.conn)
  /\ UNCHANGED <<backlog, present, listener, queue, admission_open,
                 shutdown_requested, metrics, kind, admitted, handled>>

\* The end of handle_queued_request.
FinishWork ==
  /\ worker.at = "finish"
  /\ finish_cancellation(worker.conn)
  /\ WorkerTo("worked", Nobody)
  /\ UNCHANGED <<backlog, present, listener, queue, admission_open,
                 shutdown_requested, cancellation, metrics, kind, admitted,
                 handled, outcome>>

AfterWork == IF shutdown_requested THEN "close" ELSE "recv"

work_completed ==
  \/ WorkerCounts("active", -1, "worked", "completing")
  \/ WorkerCounts("completed", 1, "completing", AfterWork)

CloseFlag == admission_open' = FALSE

CloseAdmission ==
  /\ worker.at = "close"
  /\ CloseFlag
  /\ WorkerTo("wake", Nobody)
  /\ UNCHANGED <<backlog, present, listener, queue, shutdown_requested,
                 cancellation, metrics, kind, admitted, handled, outcome>>

\* External: a connection is made unless the socket is gone or its backlog is
\* full; wake_listener ignores that it could not be made.
ConnectFrom(conn) ==
  backlog' = IF listener.at # "ended" /\ Len(backlog) < Backlog
             THEN Append(backlog, conn) ELSE backlog

\* (Mutant of wake_listener: nothing wakes accept.)
wake_listener_not == UNCHANGED backlog

wake_listener == ConnectFrom(Wake)

WakeListener ==
  /\ worker.at = "wake"
  /\ wake_listener
  /\ WorkerTo("drain", Nobody)
  /\ UNCHANGED <<present, listener, queue, admission_open,
                 shutdown_requested, cancellation, metrics, kind, admitted,
                 handled, outcome>>

\* The receiver is kept until the listener has ended, so that a request sent
\* while admission was closing is cancelled and not forgotten.
Drain ==
  /\ worker.at = "drain"
  /\ \/ Taken("cancel")
     \/ /\ Disconnected
        /\ WorkerTo("return", Nobody)
        /\ UNCHANGED queue
  /\ UNCHANGED <<backlog, present, listener, admission_open,
                 shutdown_requested, cancellation, metrics, kind, admitted,
                 handled, outcome>>

work_cancelled_on_shutdown ==
  \/ WorkerCounts("queued", -1, "cancel", "cancelling")
  \/ WorkerCounts("cancelled", 1, "cancelling", "cancelled")

WorkerCount ==
  /\ work_started \/ work_completed \/ work_cancelled_on_shutdown
  /\ UNCHANGED <<backlog, present, listener, queue, admission_open,
                 shutdown_requested, cancellation, kind, admitted, handled,
                 outcome>>

\* cancel_queued_request.
CancelRequest ==
  /\ worker.at = "cancelled"
  /\ Respond(worker.conn, "cancelled")
  /\ WorkerTo("drainjoin", worker.conn)
  /\ UNCHANGED <<backlog, present, listener, queue, admission_open,
                 shutdown_requested, metrics, kind, admitted, handled>>

DrainJoinsWatcher ==
  /\ worker.at = "drainjoin"
  /\ finish_cancellation(worker.conn)
  /\ WorkerTo("drain", Nobody)
  /\ UNCHANGED <<backlog, present, listener, queue, admission_open,
                 shutdown_requested, cancellation, metrics, kind, admitted,
                 handled, outcome>>

\* run_worker returns: the receiver is dropped.
WorkerReturns ==
  /\ worker.at = "return"
  /\ WorkerTo("ended", Nobody)
  /\ UNCHANGED <<backlog, present, listener, queue, admission_open,
                 shutdown_requested, cancellation, metrics, kind, admitted,
                 handled, outcome>>

WorkerStep ==
  \/ Receive \/ WorkerCount \/ StartWork \/ Handle \/ Reply \/ FinishWork
  \/ CloseAdmission \/ WakeListener \/ Drain \/ CancelRequest
  \/ DrainJoinsWatcher \/ WorkerReturns

-----------------------------------------------------------------------------
(* The watchers and the callers.                                            *)

\* A watcher polls until it sees the caller gone or the request completed.
WatcherStep(c) ==
  /\ cancellation[c].watcher = "running"
  /\ \/ /\ present[c] = "gone"
        /\ cancellation' = [cancellation EXCEPT ![c].cancelled = TRUE,
                                                ![c].watcher = "ended"]
     \/ /\ cancellation[c].completed
        /\ cancellation' = [cancellation EXCEPT ![c].watcher = "ended"]
  /\ UNCHANGED <<backlog, present, listener, queue, worker, admission_open,
                 shutdown_requested, metrics, kind, admitted, handled,
                 outcome>>

Connect(c) ==
  /\ present[c] = "idle"
  /\ listener.at # "ended" /\ Len(backlog) < Backlog
  /\ present' = [present EXCEPT ![c] = "waiting"]
  /\ ConnectFrom(c)
  /\ UNCHANGED <<listener, queue, worker, admission_open,
                 shutdown_requested, cancellation, metrics, kind, admitted,
                 handled, outcome>>

Leave(c) ==
  /\ present[c] = "waiting"
  /\ present' = [present EXCEPT ![c] = "gone"]
  /\ UNCHANGED <<backlog, listener, queue, worker, admission_open,
                 shutdown_requested, cancellation, metrics, kind, admitted,
                 handled, outcome>>

\* run has joined both threads.
Stopped == listener.at = "ended" /\ worker.at \in {"ended", "panicked"}

Next ==
  \/ ListenerStep \/ AcceptFails
  \/ WorkerStep \/ WorkerPanics
  \/ \E c \in Callers : WatcherStep(c) \/ Connect(c) \/ Leave(c)
  \/ Stopped /\ UNCHANGED vars

Spec == Init /\ [][Next]_vars

\* The threads run; a read, a write and a handler all have deadlines, and a
\* watcher polls every 25 ms.  Nothing is assumed of the callers.
LiveSpec ==
  /\ Spec
  /\ WF_vars(ListenerStep)
  /\ WF_vars(WorkerStep)
  /\ \A c \in Callers : WF_vars(WatcherStep(c))

-----------------------------------------------------------------------------
TypeOK ==
  /\ backlog \in Seq(Conns) /\ Len(backlog) <= Backlog
  /\ present \in [Callers -> {"idle", "waiting", "gone"}]
  /\ listener \in [at : Listening, conn : Conns \cup {Nobody}]
  /\ queue \in Seq(Callers) /\ Len(queue) <= queue_capacity
  /\ worker \in [at : Working, conn : Callers \cup {Nobody}]
  /\ admission_open \in BOOLEAN
  /\ shutdown_requested \in BOOLEAN
  /\ cancellation \in [Callers ->
       [cancelled : BOOLEAN, completed : BOOLEAN,
        watcher : {"none", "running", "ended"}]]
  /\ metrics \in [Counters -> Nat]
  /\ kind \in [Callers -> Kinds]
  /\ admitted \in Seq(Callers)
  /\ handled \subseteq Callers
  /\ outcome \in [Callers -> Outcomes]

InQueue(c) == \E i \in DOMAIN queue : queue[i] = c
InBacklog(c) == \E i \in DOMAIN backlog : backlog[i] = c

\* Where the listener has counted a request that is not in the channel, and
\* where the worker has counted one that is no longer there.
Reserving == {"counted", "reserved", "full", "fullundo", "disconnected",
              "undo"}
Reserved == {"reserved", "full", "disconnected"}
Unstarted == {"received", "cancel"}
Serving == {"started", "handle", "reply", "finish", "worked"}
Unanswered == {"received", "starting", "started", "handle", "reply",
               "cancel", "cancelling", "cancelled"}
Untallied == {"received", "starting", "cancel", "cancelling", "completing"}
             \cup Serving

Once(thread, places) == IF thread.at \in places THEN 1 ELSE 0

\* Before and after every single addition of either thread, each counter of
\* the metrics route is what it counts and one for each request that thread
\* has under way: the depth is the channel, a reservation the listener has
\* not yet sent or taken back, and a request received and not yet counted as
\* started or cancelled.  In particular no counter is ever decremented below
\* zero, where the unsigned ones wrap.  Nothing is said of a report, which
\* loads the counters one after the other.
CountersAreExact ==
  /\ metrics["admitted"] = Len(admitted) + Once(listener, Reserving)
  /\ worker.at # "panicked" =>
       /\ metrics["queued"] =
            Len(queue) + Once(listener, Reserved) + Once(worker, Unstarted)
       /\ metrics["active"] = Once(worker, Serving)
       /\ metrics["completed"] + metrics["cancelled"] =
            Len(admitted) - Len(queue) - Once(worker, Untallied)

\* An admitted request is never forgotten, whatever shutdown races with: it
\* has its outcome, or is in the channel of a worker that still receives, or
\* in the worker's hands.  And a caller told that the queue was full or
\* admission closed may try elsewhere: no handler ran for it.
NoneLost ==
  /\ \A i \in DOMAIN admitted :
       outcome[admitted[i]] = "none" =>
         \/ InQueue(admitted[i]) /\ ~ReceiverDropped
         \/ worker.conn = admitted[i] /\ worker.at \in Unanswered
  /\ \A c \in handled : outcome[c] \notin Refusals

\* After an accepted shutdown both threads end, though the listener may be
\* blocked in accept, reading a slow caller, or about to send.
ShutdownCompletes == worker.at = "close" ~> Stopped

\* Every connection comes to its end: answered, refused, cancelled, or
\* dropped because the caller left or the service stopped.
EveryCallerResolved ==
  \A c \in Callers : (InBacklog(c) ~> outcome[c] # "none")
=============================================================================
