------------------------- MODULE AdmissionProofs -------------------------
(* Proofs about bounded admission and shutdown, for every set of callers,   *)
(* every queue capacity and every backlog.                                  *)
EXTENDS Admission, SequenceTheorems, TLAPS

-----------------------------------------------------------------------------
(* The inductive invariant.                                                 *)

Holds(s, c) == \E i \in DOMAIN s : s[i] = c
Apart(s) == \A i, j \in DOMAIN s : s[i] = s[j] /\ s[i] \in Callers => i = j

Handling == {"received", "starting", "started", "handle", "reply", "finish",
             "cancel", "cancelling", "cancelled", "drainjoin"}
Closing == {"wake", "drain", "cancel", "cancelling", "cancelled",
            "drainjoin", "return", "ended"}
Idling == {"check", "accept", "ended"}
Deciding == {"opened", "read", "decide", "counting", "counted", "reserved",
             "full", "fullundo", "overflow", "rejected", "disconnected",
             "undo", "unsent"}

\* Each thread has a connection exactly where its code has one.  The wake
\* connection is made after admission was closed, so it is never read.
ConnSound ==
  /\ IF listener.at \in Idling THEN listener.conn = Nobody
     ELSE listener.conn \in Conns
  /\ listener.conn = Wake => listener.at = "opened"
  /\ IF worker.at \in Handling THEN worker.conn \in Callers
     ELSE worker.conn = Nobody
  /\ Holds(backlog, Wake) \/ listener.conn = Wake => ~admission_open
  /\ worker.at \in Closing => ~admission_open

\* The receiver is dropped when nothing is left to receive.
ReceiverSound ==
  /\ worker.at \in {"return", "ended", "panicked"} => queue = <<>>
  /\ worker.at \in {"return", "ended"} => listener.at = "ended"

\* A caller is in one place at a time: the backlog, the listener, the channel
\* or the worker, in this order, and a handler runs for it in the last only.
OnePlace(c) ==
  /\ Holds(backlog, c) =>
       listener.conn # c /\ ~Holds(queue, c) /\ worker.conn # c
  /\ listener.conn = c => ~Holds(queue, c) /\ worker.conn # c
  /\ Holds(queue, c) => worker.conn # c
  /\ c \in handled =>
       /\ ~Holds(backlog, c) /\ listener.conn # c /\ ~Holds(queue, c)
       /\ worker.conn = c => worker.at \in {"reply", "finish"}
  /\ present[c] = "idle" =>
       /\ ~Holds(backlog, c) /\ listener.conn # c /\ ~Holds(queue, c)
       /\ worker.conn # c /\ c \notin handled

\* It has no outcome until the step that ends its stay there.
Unresolved(c) ==
  (\/ present[c] = "idle"
   \/ Holds(backlog, c)
   \/ listener.conn = c /\ listener.at \in Deciding
   \/ Holds(queue, c)
   \/ worker.conn = c /\ worker.at \in Unanswered)
  => outcome[c] = "none"

PlacesSound ==
  /\ Apart(backlog)
  /\ Apart(queue)
  /\ \A c \in Callers : OnePlace(c) /\ Unresolved(c)

AdmittedKept ==
  \A c \in Callers : Holds(admitted, c) /\ outcome[c] = "none" =>
    \/ Holds(queue, c)
    \/ worker.conn = c /\ worker.at \in Unanswered

HandledKept == \A c \in handled : outcome[c] \notin Refusals

\* A reservation was counted, even if the worker has panicked since.
ReservationCounted == listener.at \in Reserved => metrics["queued"] > 0

IInv ==
  /\ TypeOK
  /\ ConnSound
  /\ ReceiverSound
  /\ PlacesSound
  /\ AdmittedKept
  /\ HandledKept
  /\ ReservationCounted
  /\ CountersAreExact

-----------------------------------------------------------------------------
(* Sequences of connections.                                                *)

\* Appending adds one connection at the end.
LEMMA AppendHolds ==
  ASSUME NEW S, NEW s \in Seq(S), NEW e \in S
  PROVE  /\ Append(s, e) \in Seq(S)
         /\ Len(Append(s, e)) = Len(s) + 1
         /\ \A c : Holds(Append(s, e), c) <=> Holds(s, c) \/ c = e
<1>1. /\ Append(s, e) \in Seq(S) /\ Len(Append(s, e)) = Len(s) + 1
      /\ Append(s, e)[Len(s) + 1] = e
      /\ \A i \in 1..Len(s) : Append(s, e)[i] = s[i]
      /\ Len(s) \in Nat
      /\ DOMAIN s = 1..Len(s) /\ DOMAIN Append(s, e) = 1..(Len(s) + 1)
  BY AppendProperties
<1>2. ASSUME NEW c PROVE Holds(Append(s, e), c) <=> Holds(s, c) \/ c = e
  <2>1. ASSUME Holds(Append(s, e), c) PROVE Holds(s, c) \/ c = e
    <3>1. PICK i \in 1..(Len(s) + 1) : Append(s, e)[i] = c
      BY <1>1, <2>1 DEF Holds
    <3>2. CASE i = Len(s) + 1
      BY <1>1, <3>1, <3>2
    <3>3. CASE i \in 1..Len(s)
      BY <1>1, <3>1, <3>3 DEF Holds
    <3> QED
      BY <1>1, <3>2, <3>3
  <2>2. ASSUME Holds(s, c) PROVE Holds(Append(s, e), c)
    <3>1. PICK i \in 1..Len(s) : s[i] = c
      BY <1>1, <2>2 DEF Holds
    <3>2. i \in 1..(Len(s) + 1) /\ Append(s, e)[i] = c
      BY <1>1, <3>1
    <3> QED
      BY <1>1, <3>2 DEF Holds
  <2>3. ASSUME c = e PROVE Holds(Append(s, e), c)
    <3>1. Len(s) + 1 \in 1..(Len(s) + 1)
      BY <1>1
    <3> QED
      BY <1>1, <2>3, <3>1 DEF Holds
  <2> QED
    BY <2>1, <2>2, <2>3
<1> QED
  BY <1>1, <1>2

\* A caller that was not there yet keeps the callers apart.
LEMMA AppendApart ==
  ASSUME NEW S, NEW s \in Seq(S), NEW e \in S, Apart(s),
         e \in Callers => ~Holds(s, e)
  PROVE  Apart(Append(s, e))
<1>1. /\ Append(s, e)[Len(s) + 1] = e
      /\ \A i \in 1..Len(s) : Append(s, e)[i] = s[i]
      /\ Len(s) \in Nat
      /\ DOMAIN s = 1..Len(s) /\ DOMAIN Append(s, e) = 1..(Len(s) + 1)
  BY AppendProperties
<1> SUFFICES ASSUME NEW i \in 1..(Len(s) + 1), NEW j \in 1..(Len(s) + 1),
                    Append(s, e)[i] = Append(s, e)[j],
                    Append(s, e)[i] \in Callers
             PROVE  i = j
  BY <1>1 DEF Apart
<1>2. CASE i \in 1..Len(s) /\ j \in 1..Len(s)
  BY <1>1, <1>2 DEF Apart
<1>3. CASE i = Len(s) + 1 /\ j \in 1..Len(s)
  BY <1>1, <1>3 DEF Holds
<1>4. CASE i \in 1..Len(s) /\ j = Len(s) + 1
  BY <1>1, <1>4 DEF Holds
<1> QED
  BY <1>1, <1>2, <1>3, <1>4

\* Taking the head leaves the others.
LEMMA TailHolds ==
  ASSUME NEW S, NEW s \in Seq(S), s # <<>>
  PROVE  /\ Tail(s) \in Seq(S) /\ Head(s) \in S
         /\ Len(Tail(s)) = Len(s) - 1 /\ Len(s) > 0
         /\ \A c : Holds(s, c) <=> Holds(Tail(s), c) \/ c = Head(s)
         /\ Apart(s) => Apart(Tail(s))
         /\ Apart(s) /\ Head(s) \in Callers => ~Holds(Tail(s), Head(s))
<1>1. /\ Tail(s) \in Seq(S) /\ Head(s) \in S /\ Head(s) = s[1]
      /\ Len(Tail(s)) = Len(s) - 1
      /\ \A i \in 1..(Len(s) - 1) : Tail(s)[i] = s[i + 1]
      /\ Len(s) \in Nat /\ Len(s) > 0
      /\ DOMAIN s = 1..Len(s) /\ DOMAIN Tail(s) = 1..(Len(s) - 1)
  BY HeadTailProperties, EmptySeq
<1>2. ASSUME NEW c PROVE Holds(s, c) <=> Holds(Tail(s), c) \/ c = Head(s)
  <2>1. ASSUME Holds(s, c) PROVE Holds(Tail(s), c) \/ c = Head(s)
    <3>1. PICK i \in 1..Len(s) : s[i] = c
      BY <1>1, <2>1 DEF Holds
    <3>2. CASE i = 1
      BY <1>1, <3>1, <3>2
    <3>3. CASE i # 1
      <4>1. i - 1 \in 1..(Len(s) - 1) /\ Tail(s)[i - 1] = c
        BY <1>1, <3>1, <3>3
      <4> QED
        BY <1>1, <4>1 DEF Holds
    <3> QED
      BY <3>2, <3>3
  <2>2. ASSUME Holds(Tail(s), c) PROVE Holds(s, c)
    <3>1. PICK i \in 1..(Len(s) - 1) : Tail(s)[i] = c
      BY <1>1, <2>2 DEF Holds
    <3>2. i + 1 \in 1..Len(s) /\ s[i + 1] = c
      BY <1>1, <3>1
    <3> QED
      BY <1>1, <3>2 DEF Holds
  <2>3. ASSUME c = Head(s) PROVE Holds(s, c)
    <3>1. 1 \in 1..Len(s)
      BY <1>1
    <3> QED
      BY <1>1, <2>3, <3>1 DEF Holds
  <2> QED
    BY <2>1, <2>2, <2>3
<1>3. ASSUME Apart(s) PROVE Apart(Tail(s))
  <2> SUFFICES ASSUME NEW i \in 1..(Len(s) - 1), NEW j \in 1..(Len(s) - 1),
                      Tail(s)[i] = Tail(s)[j], Tail(s)[i] \in Callers
               PROVE  i = j
    BY <1>1 DEF Apart
  <2>1. i + 1 \in DOMAIN s /\ j + 1 \in DOMAIN s /\ s[i + 1] = s[j + 1]
    BY <1>1
  <2>2. i + 1 = j + 1
    BY <1>1, <1>3, <2>1 DEF Apart
  <2> QED
    BY <1>1, <2>2
<1>4. ASSUME Apart(s), Head(s) \in Callers, Holds(Tail(s), Head(s))
      PROVE  FALSE
  <2>1. PICK i \in 1..(Len(s) - 1) : Tail(s)[i] = Head(s)
    BY <1>1, <1>4 DEF Holds
  <2>2. i + 1 \in DOMAIN s /\ 1 \in DOMAIN s /\ s[i + 1] = s[1]
    BY <1>1, <2>1
  <2>3. i + 1 = 1
    BY <1>1, <1>4, <2>2 DEF Apart
  <2> QED
    BY <1>1, <2>1, <2>3
<1> QED
  BY <1>1, <1>2, <1>3, <1>4

\* Nothing is in an empty sequence.
LEMMA EmptyHolds ==
  /\ \A c : ~Holds(<<>>, c)
  /\ Apart(<<>>)
  /\ Len(<<>>) = 0
  /\ \A S : <<>> \in Seq(S)
  BY DEF Holds, Apart

-----------------------------------------------------------------------------
(* What the steps have in common.                                           *)

CancellationRecords ==
  [cancelled : BOOLEAN, completed : BOOLEAN,
   watcher : {"none", "running", "ended"}]

\* One atomic addition changes one counter, and wraps nothing if the sum is
\* a natural number.
LEMMA AdditionCounts ==
  ASSUME IInv, NEW counter \in Counters, NEW by \in Int,
         metrics' = [metrics EXCEPT ![counter] = @ + by],
         metrics[counter] + by \in Nat
  PROVE  /\ metrics' \in [Counters -> Nat]
         /\ metrics'[counter] = metrics[counter] + by
         /\ \A n \in Counters : n # counter => metrics'[n] = metrics[n]
<1>1. metrics \in [Counters -> Nat]
  BY DEF IInv, TypeOK
<1> QED
  BY <1>1

\* The numbers that the accounting relates.
LEMMA AccountTypes ==
  ASSUME IInv
  PROVE  /\ Len(queue) \in Nat /\ Len(admitted) \in Nat
         /\ \A n \in Counters : metrics[n] \in Nat
         /\ metrics["admitted"] \in Nat /\ metrics["queued"] \in Nat
         /\ metrics["active"] \in Nat /\ metrics["completed"] \in Nat
         /\ metrics["cancelled"] \in Nat
<1>1. /\ queue \in Seq(Callers) /\ admitted \in Seq(Callers)
      /\ metrics \in [Counters -> Nat]
  BY DEF IInv, TypeOK
<1> QED
  BY <1>1 DEF Counters

\* A response gives one caller its outcome.
LEMMA RespondFacts ==
  ASSUME TypeOK, NEW c \in Callers, NEW how \in Outcomes \ {"none"},
         Respond(c, how)
  PROVE  /\ cancellation' \in [Callers -> CancellationRecords]
         /\ outcome' \in [Callers -> Outcomes]
         /\ outcome'[c] \in {"abandoned", how}
         /\ outcome'[c] # "none"
         /\ \A d \in Callers : d # c => outcome'[d] = outcome[d]
<1>1. /\ cancellation \in [Callers -> CancellationRecords]
      /\ outcome \in [Callers -> Outcomes]
  BY DEF TypeOK, CancellationRecords
<1>2. cancellation' = [cancellation EXCEPT ![c].completed = TRUE]
  BY DEF Respond
<1>3. cancellation' \in [Callers -> CancellationRecords]
  BY <1>1, <1>2 DEF CancellationRecords
<1>4. "abandoned" \in Outcomes
  BY DEF Outcomes
<1>5. PICK v \in {"abandoned", how} : outcome' = [outcome EXCEPT ![c] = v]
  BY DEF Respond
<1> QED
  BY <1>1, <1>3, <1>4, <1>5

\* What is counted stays exact while neither thread passes a point at which
\* it counts.
LEMMA SameAccount ==
  ASSUME IInv, UNCHANGED <<queue, admitted, metrics>>,
         listener'.at \in Reserving <=> listener.at \in Reserving,
         listener'.at \in Reserved <=> listener.at \in Reserved,
         (worker'.at = "panicked") <=> (worker.at = "panicked"),
         worker'.at \in Unstarted <=> worker.at \in Unstarted,
         worker'.at \in Serving <=> worker.at \in Serving,
         worker'.at \in Untallied <=> worker.at \in Untallied
  PROVE  ReservationCounted' /\ CountersAreExact'
<1>1. ReservationCounted'
  BY DEF IInv, ReservationCounted
<1>2. /\ Once(listener', Reserving) = Once(listener, Reserving)
      /\ Once(listener', Reserved) = Once(listener, Reserved)
      /\ Once(worker', Unstarted) = Once(worker, Unstarted)
      /\ Once(worker', Serving) = Once(worker, Serving)
      /\ Once(worker', Untallied) = Once(worker, Untallied)
  BY DEF Once
<1>3. CountersAreExact'
  BY <1>2 DEF IInv, CountersAreExact
<1> QED
  BY <1>1, <1>3

\* The listener goes on with its connection or lets it go, and gives no
\* outcome to anyone else.
LEMMA ListenerMoves ==
  ASSUME IInv, listener.at # "ended",
         UNCHANGED <<backlog, present, queue, worker, admission_open,
                     admitted, handled>>,
         listener'.conn \in {listener.conn, Nobody},
         \A c \in Callers :
           \/ /\ outcome'[c] = outcome[c]
              /\ listener'.conn = c /\ listener'.at \in Deciding =>
                   listener.at \in Deciding
           \/ /\ c = listener.conn /\ outcome'[c] # "none"
              /\ listener'.conn = c => listener'.at \notin Deciding
  PROVE  PlacesSound' /\ AdmittedKept' /\ HandledKept' /\ ReceiverSound'
<1> USE AdmissionConfig
<1>1. PlacesSound'
  <2>1. (Apart(backlog) /\ Apart(queue))'
    BY DEF IInv, PlacesSound, Apart
  <2>2. ASSUME NEW c \in Callers PROVE OnePlace(c)' /\ Unresolved(c)'
    <3>1. OnePlace(c) /\ Unresolved(c) /\ Nobody # c
      BY DEF IInv, PlacesSound
    <3>2. OnePlace(c)'
      BY <3>1 DEF OnePlace, Holds
    <3>3. Unresolved(c)'
      BY <3>1 DEF Unresolved, OnePlace, Holds, Deciding
    <3> QED
      BY <3>2, <3>3
  <2> QED
    BY <2>1, <2>2 DEF PlacesSound
<1>2. AdmittedKept'
  BY DEF IInv, AdmittedKept, Holds
<1>3. HandledKept'
  <2>1. \A c \in handled : c \in Callers /\ c # listener.conn
    BY DEF IInv, TypeOK, PlacesSound, OnePlace
  <2> QED
    BY <2>1 DEF IInv, HandledKept
<1>4. ReceiverSound'
  BY DEF IInv, ReceiverSound
<1> QED
  BY <1>1, <1>2, <1>3, <1>4

\* The listener thread ends, resetting what it has not accepted.
LEMMA ListenerEndsInv ==
  ASSUME IInv, NEW settled \in [Callers -> Outcomes], ListenerEnds(settled),
         listener.at \in {"check", "accept", "opened", "lastjoin"},
         \A c \in Callers :
           \/ settled[c] = outcome[c]
           \/ c = listener.conn /\ settled[c] = "closed",
         UNCHANGED <<present, queue, worker, admission_open,
                     shutdown_requested, cancellation, metrics, kind,
                     admitted, handled>>
  PROVE  IInv'
<1> USE AdmissionConfig, EmptyHolds
<1>1. /\ listener' = At("ended", Nobody) /\ backlog' = <<>>
      /\ outcome' = [c \in Callers |->
           IF Holds(backlog, c) THEN "closed" ELSE settled[c]]
  BY DEF ListenerEnds, ListenerTo, Holds
<1>2. listener'.at = "ended" /\ listener'.conn = Nobody
  BY <1>1 DEF At
<1>3. TypeOK'
  <2>1. listener' \in [at : Listening, conn : Conns \cup {Nobody}]
    BY <1>1 DEF At, Listening
  <2>2. outcome' \in [Callers -> Outcomes]
    BY <1>1 DEF Outcomes
  <2>3. backlog' \in Seq(Conns) /\ Len(backlog') <= Backlog
    BY <1>1
  <2> QED
    BY <2>1, <2>2, <2>3 DEF IInv, TypeOK
<1>4. ConnSound'
  BY <1>1, <1>2 DEF IInv, ConnSound, Idling, Nobody, Wake
<1>5. ReceiverSound'
  BY <1>2 DEF IInv, ReceiverSound
<1>6. \A c \in Callers :
        \/ outcome'[c] = outcome[c]
        \/ (Holds(backlog, c) \/ c = listener.conn) /\ outcome'[c] = "closed"
  BY <1>1
<1>7. PlacesSound'
  <2>1. (Apart(backlog) /\ Apart(queue))'
    BY <1>1 DEF IInv, PlacesSound, Apart
  <2>2. ASSUME NEW c \in Callers PROVE OnePlace(c)' /\ Unresolved(c)'
    <3>1. OnePlace(c) /\ Unresolved(c) /\ Nobody # c
      BY DEF IInv, PlacesSound
    <3>2. ~Holds(backlog', c) /\ listener'.conn # c
      BY <1>1, <1>2, <3>1
    <3>3. OnePlace(c)'
      BY <3>1, <3>2 DEF OnePlace, Holds
    <3>4. Unresolved(c)'
      BY <3>1, <3>2, <1>6 DEF Unresolved, OnePlace, Holds
    <3> QED
      BY <3>3, <3>4
  <2> QED
    BY <2>1, <2>2 DEF PlacesSound
<1>8. AdmittedKept'
  BY <1>6 DEF IInv, AdmittedKept, Holds
<1>9. HandledKept'
  BY <1>6 DEF IInv, HandledKept, Refusals, TypeOK
<1>10. /\ listener.at \notin Reserving /\ listener'.at \notin Reserving
       /\ listener.at \notin Reserved /\ listener'.at \notin Reserved
  BY <1>2 DEF Reserving, Reserved
<1>11. ReservationCounted' /\ CountersAreExact'
  BY <1>10, SameAccount
<1> QED
  BY <1>3, <1>4, <1>5, <1>7, <1>8, <1>9, <1>11 DEF IInv

\* One step of the listener within its loop.
LEMMA ListenerGoes ==
  ASSUME IInv, NEW p \in Listening \ {"ended"}, NEW x,
         listener.at # "ended", listener' = At(p, x),
         IF p \in Idling THEN x = Nobody
         ELSE x = listener.conn /\ x \in Callers,
         UNCHANGED <<backlog, present, queue, worker, admission_open,
                     admitted, handled>>,
         \A c \in Callers :
           \/ /\ outcome'[c] = outcome[c]
              /\ x = c /\ p \in Deciding => listener.at \in Deciding
           \/ /\ c = listener.conn /\ outcome'[c] # "none"
              /\ x = c => p \notin Deciding
  PROVE  /\ listener'.at = p
         /\ listener' \in [at : Listening, conn : Conns \cup {Nobody}]
         /\ ConnSound' /\ PlacesSound' /\ AdmittedKept' /\ HandledKept'
         /\ ReceiverSound'
<1> USE AdmissionConfig
<1>1. listener'.at = p /\ listener'.conn = x
  BY DEF At
<1>2. listener' \in [at : Listening, conn : Conns \cup {Nobody}]
  BY DEF At, Conns
<1>3. ConnSound'
  <2>1. listener'.conn # Wake
    BY <1>1 DEF Nobody, Wake
  <2> QED
    BY <1>1, <2>1 DEF IInv, ConnSound, Holds, Conns
<1>4. PlacesSound' /\ AdmittedKept' /\ HandledKept' /\ ReceiverSound'
  BY <1>1, ListenerMoves
<1> QED
  BY <1>1, <1>2, <1>3, <1>4

-----------------------------------------------------------------------------
(* accept_requests keeps the invariant.                                     *)

LEMMA CheckOpenInv ==
  ASSUME IInv, CheckOpen
  PROVE  IInv'
<1>1. CASE admission_open
  <2>1. listener' = At("accept", Nobody) /\ UNCHANGED <<backlog, outcome>>
    BY <1>1 DEF CheckOpen, ListenerTo
  <2>2. /\ listener'.at = "accept"
        /\ listener' \in [at : Listening, conn : Conns \cup {Nobody}]
        /\ ConnSound' /\ PlacesSound' /\ AdmittedKept' /\ HandledKept'
        /\ ReceiverSound'
    BY <2>1, ListenerGoes DEF CheckOpen, Listening, Idling, Deciding
  <2>3. TypeOK'
    BY <2>1, <2>2 DEF IInv, TypeOK, CheckOpen
  <2>4. ReservationCounted' /\ CountersAreExact'
    BY <2>2, SameAccount DEF CheckOpen, Reserving, Reserved
  <2> QED
    BY <2>2, <2>3, <2>4 DEF IInv
<1>2. CASE ~admission_open
  <2>1. outcome \in [Callers -> Outcomes]
    BY DEF IInv, TypeOK
  <2> QED
    BY <1>2, <2>1, ListenerEndsInv DEF CheckOpen
<1> QED
  BY <1>1, <1>2

\* accept moves the caller at the head of the backlog to the listener.
LEMMA AcceptInv ==
  ASSUME IInv, Accept
  PROVE  IInv'
<1> USE AdmissionConfig
<1> DEFINE e == Head(backlog)
<1>1. /\ listener' = At("opened", e) /\ backlog' = Tail(backlog)
      /\ listener.at = "accept" /\ listener.conn = Nobody
  BY DEF Accept, ListenerTo, IInv, ConnSound, Idling
<1>2. /\ backlog' \in Seq(Conns) /\ e \in Conns
      /\ Len(backlog') <= Backlog
      /\ \A c : Holds(backlog, c) <=> Holds(backlog', c) \/ c = e
      /\ Apart(backlog')
      /\ e \in Callers => ~Holds(backlog', e)
  <2>1. backlog \in Seq(Conns) /\ Len(backlog) <= Backlog /\ backlog # <<>>
        /\ Apart(backlog) /\ Len(backlog) \in Nat
    BY DEF IInv, TypeOK, Accept, PlacesSound
  <2> QED
    BY <1>1, <2>1, TailHolds
<1>3. listener'.at = "opened" /\ listener'.conn = e
  BY <1>1 DEF At
<1> HIDE DEF e
<1>4. TypeOK'
  <2>1. listener' \in [at : Listening, conn : Conns \cup {Nobody}]
    BY <1>1, <1>2 DEF At, Listening
  <2> QED
    BY <1>2, <2>1 DEF IInv, TypeOK, Accept
<1>5. ConnSound'
  BY <1>1, <1>2, <1>3 DEF IInv, ConnSound, Accept, Idling
<1>6. ReceiverSound'
  BY <1>1, <1>3 DEF IInv, ReceiverSound, Accept
<1>7. PlacesSound'
  <2>1. Apart(backlog') /\ Apart(queue)'
    BY <1>2 DEF IInv, PlacesSound, Accept, Apart
  <2>2. ASSUME NEW c \in Callers PROVE OnePlace(c)' /\ Unresolved(c)'
    <3>1. OnePlace(c) /\ Unresolved(c) /\ Nobody # c
      BY DEF IInv, PlacesSound
    <3>2. /\ UNCHANGED <<queue, worker, handled, present, outcome>>
      BY DEF Accept
    <3>3. Holds(queue', c) <=> Holds(queue, c)
      BY <3>2
    <3>4. (Holds(backlog, c) <=> Holds(backlog', c) \/ c = e)
          /\ ~(Holds(backlog', c) /\ c = e)
      BY <1>2
    <3>5. OnePlace(c)'
      BY <3>1, <3>2, <3>3, <3>4, <1>3 DEF OnePlace
    <3>6. Unresolved(c)'
      BY <3>1, <3>2, <3>3, <3>4, <1>3 DEF Unresolved
    <3> QED
      BY <3>5, <3>6
  <2> QED
    BY <2>1, <2>2 DEF PlacesSound
<1>8. AdmittedKept' /\ HandledKept'
  BY DEF IInv, AdmittedKept, HandledKept, Accept
<1>9. ReservationCounted' /\ CountersAreExact'
  <2>1. /\ listener'.at \in Reserving <=> listener.at \in Reserving
        /\ listener'.at \in Reserved <=> listener.at \in Reserved
    BY <1>1, <1>3 DEF Reserving, Reserved
  <2> QED
    BY <2>1, SameAccount DEF Accept
<1> QED
  BY <1>4, <1>5, <1>6, <1>7, <1>8, <1>9 DEF IInv

LEMMA AcceptFailsInv ==
  ASSUME IInv, AcceptFails
  PROVE  IInv'
<1>1. outcome \in [Callers -> Outcomes]
  BY DEF IInv, TypeOK
<1> QED
  BY <1>1, ListenerEndsInv DEF AcceptFails

\* The connection that woke the listener finds admission closed.
LEMMA CheckAcceptedInv ==
  ASSUME IInv, CheckAccepted
  PROVE  IInv'
<1>1. CASE admission_open
  <2>1. /\ listener' = At("read", listener.conn)
        /\ UNCHANGED <<backlog, outcome>>
    BY <1>1 DEF CheckAccepted, ListenerTo
  <2>2. listener.conn \in Callers
    BY <1>1 DEF IInv, ConnSound, CheckAccepted, Idling, Conns
  <2>3. /\ listener'.at = "read"
        /\ listener' \in [at : Listening, conn : Conns \cup {Nobody}]
        /\ ConnSound' /\ PlacesSound' /\ AdmittedKept' /\ HandledKept'
        /\ ReceiverSound'
    BY <2>1, <2>2, ListenerGoes
    DEF CheckAccepted, Listening, Idling, Deciding
  <2>4. TypeOK'
    BY <2>1, <2>3 DEF IInv, TypeOK, CheckAccepted
  <2>5. ReservationCounted' /\ CountersAreExact'
    BY <2>3, SameAccount DEF CheckAccepted, Reserving, Reserved
  <2> QED
    BY <2>3, <2>4, <2>5 DEF IInv
<1>2. CASE ~admission_open
  <2> DEFINE settled == [c \in Callers |->
                IF c = listener.conn THEN "closed" ELSE outcome[c]]
  <2>1. settled \in [Callers -> Outcomes]
    BY DEF IInv, TypeOK, Outcomes
  <2>2. \A c \in Callers : \/ settled[c] = outcome[c]
                           \/ c = listener.conn /\ settled[c] = "closed"
    OBVIOUS
  <2>3. ListenerEnds(settled)
    BY <1>2 DEF CheckAccepted
  <2> HIDE DEF settled
  <2> QED
    BY <2>1, <2>2, <2>3, ListenerEndsInv DEF CheckAccepted
<1> QED
  BY <1>1, <1>2

\* A refused request has its outcome when the listener lets it go.
LEMMA ReadRequestInv ==
  ASSUME IInv, ReadRequest
  PROVE  IInv'
<1> DEFINE e == listener.conn
<1>1. listener.at = "read" /\ e \in Callers
  BY DEF IInv, ConnSound, ReadRequest, Idling, Conns
<1>2. PICK what \in Kinds \ {"unread"}, duplicated \in BOOLEAN :
        /\ kind' = [kind EXCEPT ![e] = what]
        /\ IF what \in {"malformed", "refused"}
           THEN /\ outcome' = [outcome EXCEPT ![e] = what]
                /\ ListenerTo("check", Nobody)
                /\ UNCHANGED cancellation
           ELSE /\ ListenerTo("decide", e)
                /\ cancellation' = [cancellation EXCEPT ![e] =
                     [cancelled |-> ~duplicated, completed |-> FALSE,
                      watcher |-> IF what = "watched" /\ duplicated
                                  THEN "running" ELSE "none"]]
                /\ UNCHANGED outcome
  BY DEF ReadRequest
<1>3. kind' \in [Callers -> Kinds]
  BY <1>1, <1>2 DEF IInv, TypeOK
<1>4. cancellation' \in [Callers -> CancellationRecords]
  <2>1. cancellation \in [Callers -> CancellationRecords]
    BY DEF IInv, TypeOK, CancellationRecords
  <2>2. [cancelled |-> ~duplicated, completed |-> FALSE,
         watcher |-> IF what = "watched" /\ duplicated
                     THEN "running" ELSE "none"] \in CancellationRecords
    BY DEF CancellationRecords
  <2> QED
    BY <1>1, <1>2, <2>1, <2>2
<1>5. outcome' \in [Callers -> Outcomes]
  BY <1>1, <1>2 DEF IInv, TypeOK, Outcomes
<1>6. /\ listener'.at \in {"check", "decide"}
      /\ listener' \in [at : Listening, conn : Conns \cup {Nobody}]
      /\ ConnSound' /\ PlacesSound' /\ AdmittedKept' /\ HandledKept'
      /\ ReceiverSound'
  <2>1. CASE what \in {"malformed", "refused"}
    <3>1. /\ listener' = At("check", Nobody)
          /\ \A c \in Callers : IF c = e THEN outcome'[c] # "none"
                                ELSE outcome'[c] = outcome[c]
      BY <1>1, <1>2, <2>1 DEF ListenerTo, IInv, TypeOK
    <3> QED
      BY <1>1, <3>1, ListenerGoes, AdmissionConfig
      DEF ReadRequest, Listening, Idling, Deciding
  <2>2. CASE what \notin {"malformed", "refused"}
    <3>1. listener' = At("decide", e) /\ outcome' = outcome
      BY <1>2, <2>2 DEF ListenerTo
    <3> QED
      BY <1>1, <3>1, ListenerGoes DEF ReadRequest, Listening, Idling, Deciding
  <2> QED
    BY <2>1, <2>2
<1>7. TypeOK'
  BY <1>3, <1>4, <1>5, <1>6
  DEF IInv, TypeOK, ReadRequest, CancellationRecords
<1>8. ReservationCounted' /\ CountersAreExact'
  BY <1>1, <1>6, SameAccount DEF ReadRequest, Reserving, Reserved
<1> QED
  BY <1>6, <1>7, <1>8 DEF IInv

\* The request is counted next, or the caller is told that admission closed.
LEMMA CheckAdmissionInv ==
  ASSUME IInv, CheckAdmission
  PROVE  IInv'
<1> DEFINE e == listener.conn
<1>1. listener.at = "decide" /\ e \in Callers
  BY DEF IInv, ConnSound, CheckAdmission, Idling, Conns
<1>2. CASE admission_open
  <2>1. /\ listener' = At("counting", e)
        /\ UNCHANGED <<cancellation, outcome>>
    BY <1>2 DEF CheckAdmission, ListenerTo
  <2>2. /\ listener'.at = "counting"
        /\ listener' \in [at : Listening, conn : Conns \cup {Nobody}]
        /\ ConnSound' /\ PlacesSound' /\ AdmittedKept' /\ HandledKept'
        /\ ReceiverSound'
    BY <1>1, <2>1, ListenerGoes
    DEF CheckAdmission, Listening, Idling, Deciding
  <2>3. TypeOK'
    BY <2>1, <2>2 DEF IInv, TypeOK, CheckAdmission
  <2>4. ReservationCounted' /\ CountersAreExact'
    BY <1>1, <2>2, SameAccount DEF CheckAdmission, Reserving, Reserved
  <2> QED
    BY <2>2, <2>3, <2>4 DEF IInv
<1>3. CASE ~admission_open
  <2>1. Respond(e, "cancelled") /\ listener' = At("lastjoin", e)
    BY <1>3 DEF CheckAdmission, ListenerTo
  <2>2. /\ cancellation' \in [Callers -> CancellationRecords]
        /\ outcome' \in [Callers -> Outcomes]
        /\ outcome'[e] # "none"
        /\ \A d \in Callers : d # e => outcome'[d] = outcome[d]
    BY <1>1, <2>1, RespondFacts DEF IInv, Outcomes, Refusals
  <2>3. /\ listener'.at = "lastjoin"
        /\ listener' \in [at : Listening, conn : Conns \cup {Nobody}]
        /\ ConnSound' /\ PlacesSound' /\ AdmittedKept' /\ HandledKept'
        /\ ReceiverSound'
    BY <1>1, <2>1, <2>2, ListenerGoes
    DEF CheckAdmission, Listening, Idling, Deciding
  <2>4. TypeOK'
    BY <2>2, <2>3 DEF IInv, TypeOK, CheckAdmission, CancellationRecords
  <2>5. ReservationCounted' /\ CountersAreExact'
    BY <1>1, <2>3, SameAccount DEF CheckAdmission, Reserving, Reserved
  <2> QED
    BY <2>3, <2>4, <2>5 DEF IInv
<1> QED
  BY <1>2, <1>3

\* Between two places that count, the listener keeps its undecided request;
\* what is left to show is the accounting.
LEMMA ListenerCountsInv ==
  ASSUME IInv, NEW counter \in Counters, NEW by \in Int,
         NEW from \in Deciding, NEW to \in Deciding,
         ListenerCounts(counter, by, from, to),
         metrics[counter] + by \in Nat,
         UNCHANGED <<backlog, present, queue, worker, admission_open,
                     shutdown_requested, cancellation, kind, admitted,
                     handled, outcome>>,
         from \notin {"opened"},
         ReservationCounted' /\ CountersAreExact'
  PROVE  IInv'
<1> DEFINE e == listener.conn
<1>1. /\ listener.at = from /\ e \in Callers /\ listener' = At(to, e)
      /\ metrics' = [metrics EXCEPT ![counter] = @ + by]
  BY DEF IInv, ConnSound, ListenerCounts, ListenerTo, Idling, Conns, Deciding
<1>2. metrics' \in [Counters -> Nat]
  BY <1>1, AdditionCounts
<1>3. /\ listener'.at = to
      /\ listener' \in [at : Listening, conn : Conns \cup {Nobody}]
      /\ ConnSound' /\ PlacesSound' /\ AdmittedKept' /\ HandledKept'
      /\ ReceiverSound'
  BY <1>1, ListenerGoes DEF Listening, Idling, Deciding
<1>4. TypeOK'
  BY <1>2, <1>3 DEF IInv, TypeOK
<1> QED
  BY <1>3, <1>4 DEF IInv

\* Each addition of the listener moves exactly one of the numbers that the
\* counters are made of.
LEMMA ListenerCountInv ==
  ASSUME IInv, ListenerCount
  PROVE  IInv'
<1>1. /\ Len(queue) \in Nat /\ Len(admitted) \in Nat
      /\ \A n \in Counters : metrics[n] \in Nat
      /\ metrics["admitted"] \in Nat /\ metrics["queued"] \in Nat
      /\ metrics["active"] \in Nat /\ metrics["completed"] \in Nat
      /\ metrics["cancelled"] \in Nat
  BY AccountTypes
<1>2. UNCHANGED <<backlog, present, queue, worker, admission_open,
                  shutdown_requested, cancellation, kind, admitted, handled,
                  outcome>>
  BY DEF ListenerCount
<1>3. /\ metrics["admitted"] = Len(admitted) + Once(listener, Reserving)
      /\ listener.at \in Reserved => metrics["queued"] > 0
      /\ worker.at # "panicked" =>
           /\ metrics["queued"] = Len(queue) + Once(listener, Reserved)
                                  + Once(worker, Unstarted)
           /\ metrics["active"] = Once(worker, Serving)
           /\ metrics["completed"] + metrics["cancelled"] =
                Len(admitted) - Len(queue) - Once(worker, Untallied)
      /\ Once(worker, Unstarted) \in Nat
  BY DEF IInv, CountersAreExact, ReservationCounted, Once
<1>4. ASSUME NEW counter \in Counters, NEW by \in Int, NEW from \in Deciding,
             NEW to \in Deciding, ListenerCounts(counter, by, from, to),
             from # "opened",
             metrics[counter] + by \in Nat,
             Once(listener', Reserving) = Once(listener, Reserving)
               + (IF counter = "admitted" THEN by ELSE 0),
             Once(listener', Reserved) = Once(listener, Reserved)
               + (IF counter = "queued" THEN by ELSE 0),
             listener'.at \in Reserved => metrics'["queued"] > 0,
             counter \in {"admitted", "queued", "rejected"}
      PROVE  IInv'
  <2>1. /\ metrics'[counter] = metrics[counter] + by
        /\ \A n \in Counters : n # counter => metrics'[n] = metrics[n]
    BY <1>4, AdditionCounts DEF ListenerCounts
  <2>2. /\ metrics'["active"] = metrics["active"]
        /\ metrics'["completed"] = metrics["completed"]
        /\ metrics'["cancelled"] = metrics["cancelled"]
        /\ metrics'["admitted"] = metrics["admitted"]
             + (IF counter = "admitted" THEN by ELSE 0)
        /\ metrics'["queued"] = metrics["queued"]
             + (IF counter = "queued" THEN by ELSE 0)
    BY <1>1, <1>4, <2>1 DEF Counters
  <2>3. /\ Once(listener, Reserving) \in Nat
        /\ Once(listener, Reserved) \in Nat
    BY DEF Once
  <2>4. ReservationCounted'
    BY <1>4 DEF ReservationCounted
  <2>5. metrics'["admitted"] = Len(admitted') + Once(listener', Reserving)
    BY <1>1, <1>2, <1>3, <1>4, <2>2, <2>3
  <2>6. ASSUME worker'.at # "panicked"
        PROVE  /\ metrics'["queued"] =
                    Len(queue') + Once(listener', Reserved)
                    + Once(worker', Unstarted)
               /\ metrics'["active"] = Once(worker', Serving)
               /\ metrics'["completed"] + metrics'["cancelled"] =
                    Len(admitted') - Len(queue') - Once(worker', Untallied)
    <3>1. worker' = worker /\ queue' = queue /\ admitted' = admitted
      BY <1>2
    <3>2. metrics'["queued"] = Len(queue) + Once(listener', Reserved)
                                + Once(worker, Unstarted)
      BY <1>1, <1>3, <1>4, <2>2, <2>3, <2>6, <3>1
    <3> QED
      BY <1>3, <2>2, <2>6, <3>1, <3>2
  <2>7. CountersAreExact'
    BY <2>5, <2>6 DEF CountersAreExact
  <2> QED
    BY <1>2, <1>4, <2>4, <2>7, ListenerCountsInv
<1>5. ASSUME NEW counter \in {"admitted", "queued", "rejected"},
             NEW by \in Int, NEW from \in Deciding, NEW to \in Deciding,
             ListenerCounts(counter, by, from, to)
      PROVE  /\ listener.at = from /\ listener'.at = to
             /\ metrics' = [metrics EXCEPT ![counter] = @ + by]
             /\ counter = "queued" /\ metrics["queued"] + by \in Nat =>
                  metrics'["queued"] = metrics["queued"] + by
             /\ counter # "queued" /\ metrics[counter] + by \in Nat =>
                  metrics'["queued"] = metrics["queued"]
  <2>1. /\ listener.at = from /\ listener'.at = to
        /\ metrics' = [metrics EXCEPT ![counter] = @ + by]
    BY <1>5 DEF ListenerCounts, ListenerTo, At
  <2>2. counter \in Counters /\ "queued" \in Counters
    BY DEF Counters
  <2> QED
    BY <2>1, <2>2, AdditionCounts
<1>6. CASE ListenerCounts("admitted", 1, "counting", "counted")
  <2>1. listener.at = "counting" /\ listener'.at = "counted"
    BY <1>5, <1>6 DEF Deciding
  <2>2. /\ Once(listener, Reserving) = 0 /\ Once(listener', Reserving) = 1
        /\ Once(listener, Reserved) = 0 /\ Once(listener', Reserved) = 0
        /\ listener'.at \notin Reserved
    BY <2>1 DEF Once, Reserving, Reserved
  <2>3. metrics["admitted"] + 1 \in Nat
    BY <1>1
  <2> QED
    BY <1>4, <1>6, <2>2, <2>3 DEF Deciding, Counters
<1>7. CASE ListenerCounts("queued", 1, "counted", "reserved")
  <2>1. /\ listener.at = "counted" /\ listener'.at = "reserved"
        /\ metrics["queued"] + 1 \in Nat
        /\ metrics'["queued"] = metrics["queued"] + 1
    BY <1>1, <1>5, <1>7 DEF Deciding
  <2>2. /\ Once(listener, Reserving) = 1 /\ Once(listener', Reserving) = 1
        /\ Once(listener, Reserved) = 0 /\ Once(listener', Reserved) = 1
    BY <2>1 DEF Once, Reserving, Reserved
  <2>3. metrics'["queued"] > 0
    BY <1>1, <2>1
  <2> QED
    BY <1>4, <1>7, <2>1, <2>2, <2>3 DEF Deciding, Counters
<1>8. ASSUME NEW to \in {"fullundo", "undo"},
             NEW from \in {"full", "disconnected"},
             ListenerCounts("queued", -1, from, to)
      PROVE  IInv'
  <2>1. from \in Deciding \ {"opened"} /\ to \in Deciding
    BY DEF Deciding
  <2>2. listener.at = from /\ listener'.at = to
    BY <1>5, <1>8, <2>1
  <2>3. /\ Once(listener, Reserving) = 1 /\ Once(listener', Reserving) = 1
        /\ Once(listener, Reserved) = 1 /\ Once(listener', Reserved) = 0
        /\ listener.at \in Reserved /\ listener'.at \notin Reserved
    BY <1>8, <2>2 DEF Once, Reserving, Reserved
  <2>4. metrics["queued"] + (-1) \in Nat
    BY <1>1, <1>3, <2>3
  <2> QED
    BY <1>4, <1>8, <2>1, <2>3, <2>4 DEF Counters
<1>9. ASSUME NEW to \in {"overflow", "unsent"},
             NEW from \in {"fullundo", "undo"},
             ListenerCounts("admitted", -1, from, to)
      PROVE  IInv'
  <2>1. from \in Deciding \ {"opened"} /\ to \in Deciding
    BY DEF Deciding
  <2>2. listener.at = from /\ listener'.at = to
    BY <1>5, <1>9, <2>1
  <2>3. /\ Once(listener, Reserving) = 1 /\ Once(listener', Reserving) = 0
        /\ Once(listener, Reserved) = 0 /\ Once(listener', Reserved) = 0
        /\ listener'.at \notin Reserved
    BY <1>9, <2>2 DEF Once, Reserving, Reserved
  <2>4. metrics["admitted"] + (-1) \in Nat
    BY <1>1, <1>3, <2>3
  <2> QED
    BY <1>4, <1>9, <2>1, <2>3, <2>4 DEF Counters
<1>10. CASE ListenerCounts("rejected", 1, "overflow", "rejected")
  <2>1. listener.at = "overflow" /\ listener'.at = "rejected"
    BY <1>5, <1>10 DEF Deciding
  <2>2. /\ Once(listener, Reserving) = 0 /\ Once(listener', Reserving) = 0
        /\ Once(listener, Reserved) = 0 /\ Once(listener', Reserved) = 0
        /\ listener'.at \notin Reserved
    BY <2>1 DEF Once, Reserving, Reserved
  <2>3. "rejected" \in Counters
    BY DEF Counters
  <2>4. metrics["rejected"] + 1 \in Nat
    BY <1>1, <2>3
  <2> QED
    BY <1>4, <1>10, <2>2, <2>3, <2>4 DEF Deciding
<1> QED
  BY <1>6, <1>7, <1>8, <1>9, <1>10
  DEF ListenerCount, queue_admitted, queue_admission_reverted, queue_rejected

\* try_send puts the caller at the end of the channel, or keeps it.
LEMMA TrySendInv ==
  ASSUME IInv, TrySend
  PROVE  IInv'
<1> DEFINE e == listener.conn
<1>1. listener.at = "reserved" /\ e \in Callers /\ Nobody # e
  BY AdmissionConfig DEF IInv, ConnSound, TrySend, Idling, Conns
<1>2. /\ Len(queue) \in Nat /\ Len(admitted) \in Nat
      /\ metrics["admitted"] \in Nat /\ metrics["queued"] \in Nat
      /\ metrics["active"] \in Nat /\ metrics["completed"] \in Nat
      /\ metrics["cancelled"] \in Nat
  BY AccountTypes
<1>3. ASSUME NEW p \in {"disconnected", "full"}, listener' = At(p, e),
             UNCHANGED <<queue, admitted>>
      PROVE  IInv'
  <2>1. /\ listener'.at = p
        /\ listener' \in [at : Listening, conn : Conns \cup {Nobody}]
        /\ ConnSound' /\ PlacesSound' /\ AdmittedKept' /\ HandledKept'
        /\ ReceiverSound'
    BY <1>1, <1>3, ListenerGoes DEF TrySend, Listening, Idling, Deciding
  <2>2. TypeOK'
    BY <1>3, <2>1 DEF IInv, TypeOK, TrySend
  <2>3. ReservationCounted' /\ CountersAreExact'
    BY <1>1, <1>3, <2>1, SameAccount DEF TrySend, Reserving, Reserved
  <2> QED
    BY <2>1, <2>2, <2>3 DEF IInv
<1>4. ASSUME ~ReceiverDropped, HasRoom, queue' = Append(queue, e),
             admitted' = Append(admitted, e), listener' = At("check", Nobody)
      PROVE  IInv'
  <2>1. listener'.at = "check" /\ listener'.conn = Nobody
    BY <1>4 DEF At
  <2>2. /\ queue' \in Seq(Callers) /\ Len(queue') = Len(queue) + 1
        /\ \A c : Holds(queue', c) <=> Holds(queue, c) \/ c = e
        /\ admitted' \in Seq(Callers) /\ Len(admitted') = Len(admitted) + 1
        /\ \A c : Holds(admitted', c) <=> Holds(admitted, c) \/ c = e
    BY <1>1, <1>4, AppendHolds DEF IInv, TypeOK
  <2>3. ~Holds(queue, e) /\ Apart(queue) /\ queue \in Seq(Callers)
    BY <1>1 DEF IInv, TypeOK, PlacesSound, OnePlace
  <2>4. Apart(queue')
    BY <1>1, <1>4, <2>3, AppendApart
  <2>5. UNCHANGED <<backlog, present, worker, admission_open,
                    shutdown_requested, cancellation, metrics, kind, handled,
                    outcome>>
    BY DEF TrySend
  <2>6. TypeOK'
    <3>1. Len(queue') <= queue_capacity
      BY <1>2, <1>4, <2>2, AdmissionConfig DEF HasRoom
    <3>2. listener' \in [at : Listening, conn : Conns \cup {Nobody}]
      BY <1>4 DEF At, Listening
    <3> QED
      BY <2>2, <2>5, <3>1, <3>2 DEF IInv, TypeOK
  <2>7. ConnSound'
    <3>1. listener'.conn # Wake
      BY <2>1 DEF Nobody, Wake
    <3> QED
      BY <2>1, <2>5, <3>1 DEF IInv, ConnSound, Idling
  <2>8. ReceiverSound'
    BY <1>1, <1>4, <2>5 DEF IInv, ReceiverSound, ReceiverDropped
  <2>9. PlacesSound'
    <3>1. ASSUME NEW c \in Callers PROVE OnePlace(c)' /\ Unresolved(c)'
      <4>1. OnePlace(c) /\ Unresolved(c) /\ Nobody # c
        BY AdmissionConfig DEF IInv, PlacesSound
      <4>2. /\ Holds(queue', c) <=> Holds(queue, c) \/ c = e
            /\ Holds(backlog', c) <=> Holds(backlog, c)
        BY <2>2, <2>5
      <4>3. OnePlace(c)'
        BY <2>1, <2>5, <4>1, <4>2 DEF OnePlace
      <4>4. Unresolved(c)'
        BY <1>1, <2>1, <2>5, <4>1, <4>2 DEF Unresolved, Deciding
      <4> QED
        BY <4>3, <4>4
    <3>2. Apart(backlog)'
      BY <2>5 DEF IInv, PlacesSound, Apart
    <3> QED
      BY <2>4, <3>1, <3>2 DEF PlacesSound
  <2>10. AdmittedKept' /\ HandledKept'
    BY <2>2, <2>5 DEF IInv, AdmittedKept, HandledKept
  <2>11. /\ Once(listener, Reserving) = 1 /\ Once(listener', Reserving) = 0
         /\ Once(listener, Reserved) = 1 /\ Once(listener', Reserved) = 0
         /\ listener'.at \notin Reserved
    BY <1>1, <2>1 DEF Once, Reserving, Reserved
  <2>12. ReservationCounted'
    BY <2>11 DEF ReservationCounted
  <2>13. CountersAreExact'
    <3>1. metrics["admitted"] = Len(admitted) + 1
      BY <2>11 DEF IInv, CountersAreExact
    <3>2. ASSUME worker.at # "panicked"
          PROVE  /\ metrics["queued"] = Len(queue') + Once(worker, Unstarted)
                 /\ metrics["active"] = Once(worker, Serving)
                 /\ metrics["completed"] + metrics["cancelled"] =
                      Len(admitted') - Len(queue') - Once(worker, Untallied)
      <4>1. Once(worker, Unstarted) \in Nat /\ Once(worker, Untallied) \in Nat
        BY DEF Once
      <4>2. /\ metrics["queued"] = Len(queue) + 1 + Once(worker, Unstarted)
            /\ metrics["active"] = Once(worker, Serving)
            /\ metrics["completed"] + metrics["cancelled"] =
                 Len(admitted) - Len(queue) - Once(worker, Untallied)
        BY <2>11, <3>2 DEF IInv, CountersAreExact
      <4> QED
        BY <1>2, <2>2, <4>1, <4>2
    <3>3. Once(worker, Unstarted) \in Nat
      BY DEF Once
    <3> QED
      BY <1>2, <2>2, <2>5, <2>11, <3>1, <3>2, <3>3 DEF CountersAreExact
  <2> QED
    BY <2>6, <2>7, <2>8, <2>9, <2>10, <2>12, <2>13 DEF IInv
<1> QED
  BY <1>3, <1>4 DEF TrySend, ListenerTo

\* A caller that is refused has its outcome.
LEMMA SendRefusedInv ==
  ASSUME IInv, SendRefused
  PROVE  IInv'
<1> DEFINE e == listener.conn
<1>1. listener.at \in {"rejected", "unsent"} /\ e \in Callers
  BY DEF IInv, ConnSound, SendRefused, Idling, Conns
<1>2. PICK how \in Refusals, p \in {"join", "lastjoin"} :
        Respond(e, how) /\ listener' = At(p, e)
  BY DEF SendRefused, ListenerTo, Refusals
<1>3. /\ cancellation' \in [Callers -> CancellationRecords]
      /\ outcome' \in [Callers -> Outcomes]
      /\ outcome'[e] # "none"
      /\ \A d \in Callers : d # e => outcome'[d] = outcome[d]
  BY <1>1, <1>2, RespondFacts DEF IInv, Outcomes, Refusals
<1>4. UNCHANGED <<backlog, present, queue, worker, admission_open,
                  shutdown_requested, metrics, kind, admitted, handled>>
  BY DEF SendRefused
<1>5. /\ listener'.at = p
      /\ listener' \in [at : Listening, conn : Conns \cup {Nobody}]
      /\ ConnSound' /\ PlacesSound' /\ AdmittedKept' /\ HandledKept'
      /\ ReceiverSound'
  BY <1>1, <1>2, <1>3, <1>4, ListenerGoes DEF Listening, Idling, Deciding
<1>6. TypeOK'
  BY <1>3, <1>4, <1>5 DEF IInv, TypeOK, CancellationRecords
<1>7. ReservationCounted' /\ CountersAreExact'
  BY <1>1, <1>4, <1>5, SameAccount DEF Reserving, Reserved
<1> QED
  BY <1>5, <1>6, <1>7 DEF IInv

LEMMA ListenerJoinsWatcherInv ==
  ASSUME IInv, ListenerJoinsWatcher
  PROVE  IInv'
<1>1. CASE listener.at = "join"
  <2>1. listener' = At("check", Nobody) /\ UNCHANGED <<backlog, outcome>>
    BY <1>1 DEF ListenerJoinsWatcher, ListenerTo
  <2>2. /\ listener'.at = "check"
        /\ listener' \in [at : Listening, conn : Conns \cup {Nobody}]
        /\ ConnSound' /\ PlacesSound' /\ AdmittedKept' /\ HandledKept'
        /\ ReceiverSound'
    BY <1>1, <2>1, ListenerGoes, AdmissionConfig
    DEF ListenerJoinsWatcher, Listening, Idling, Deciding
  <2>3. TypeOK'
    BY <2>1, <2>2 DEF IInv, TypeOK, ListenerJoinsWatcher
  <2>4. ReservationCounted' /\ CountersAreExact'
    BY <1>1, <2>2, SameAccount DEF ListenerJoinsWatcher, Reserving, Reserved
  <2> QED
    BY <2>2, <2>3, <2>4 DEF IInv
<1>2. CASE listener.at = "lastjoin"
  <2>1. outcome \in [Callers -> Outcomes]
    BY DEF IInv, TypeOK
  <2> QED
    BY <1>2, <2>1, ListenerEndsInv DEF ListenerJoinsWatcher
<1> QED
  BY <1>1, <1>2 DEF ListenerJoinsWatcher

-----------------------------------------------------------------------------
(* run_worker keeps the invariant.                                          *)

\* One step of the worker with the request it has, or between requests.
LEMMA WorkerGoes ==
  ASSUME IInv, NEW p \in Working, NEW x, worker' = At(p, x),
         IF p \in Handling THEN x = worker.conn /\ x \in Callers
         ELSE x = Nobody,
         p \in Closing => ~admission_open',
         ~admission_open => ~admission_open',
         p \in {"return", "ended", "panicked"} => queue = <<>>,
         p \in {"return", "ended"} => listener.at = "ended",
         UNCHANGED <<backlog, present, listener, queue, admitted>>,
         \/ handled' = handled
         \/ worker.at = "handle" /\ handled' = handled \cup {worker.conn},
         x \in handled' => p \in {"reply", "finish"},
         \A c \in Callers :
           \/ /\ outcome'[c] = outcome[c]
              /\ (worker.conn = c /\ worker.at \in Unanswered)
                   <=> (x = c /\ p \in Unanswered)
           \/ /\ c = worker.conn /\ outcome'[c] # "none"
              /\ c \in handled' => outcome'[c] \notin Refusals
              /\ x = c => p \notin Unanswered
  PROVE  /\ worker'.at = p
         /\ worker' \in [at : Working, conn : Callers \cup {Nobody}]
         /\ ConnSound' /\ PlacesSound' /\ AdmittedKept' /\ HandledKept'
         /\ ReceiverSound' /\ handled' \subseteq Callers
<1> USE AdmissionConfig
<1>1. worker'.at = p /\ worker'.conn = x
  BY DEF At
<1>2. worker.at = "handle" => worker.conn \in Callers
  BY DEF IInv, ConnSound, Handling
<1>3. worker' \in [at : Working, conn : Callers \cup {Nobody}]
  BY DEF At
<1>4. ConnSound'
  BY <1>1 DEF IInv, ConnSound, Closing
<1>5. PlacesSound'
  <2>1. Apart(backlog)' /\ Apart(queue)'
    BY DEF IInv, PlacesSound
  <2>2. ASSUME NEW c \in Callers PROVE OnePlace(c)' /\ Unresolved(c)'
    <3>1. OnePlace(c) /\ Unresolved(c) /\ Nobody # c
      BY DEF IInv, PlacesSound
    <3>2. /\ Holds(queue', c) <=> Holds(queue, c)
          /\ Holds(backlog', c) <=> Holds(backlog, c)
      OBVIOUS
    <3>3. worker'.conn = c => worker.conn = c
      BY <1>1
    <3>4. OnePlace(c)'
      BY <1>1, <3>1, <3>2, <3>3 DEF OnePlace
    <3>5. Unresolved(c)'
      BY <1>1, <3>1, <3>2 DEF Unresolved, OnePlace, Unanswered
    <3> QED
      BY <3>4, <3>5
  <2> QED
    BY <2>1, <2>2 DEF PlacesSound
<1>6. AdmittedKept'
  BY <1>1 DEF IInv, AdmittedKept, Unanswered
<1>7. HandledKept'
  <2>1. ASSUME NEW c \in handled' PROVE outcome'[c] \notin Refusals
    <3>1. c \in Callers
      BY <1>2 DEF IInv, TypeOK
    <3>2. CASE c \in handled
      BY <3>1, <3>2 DEF IInv, HandledKept, Refusals
    <3>3. CASE c = worker.conn /\ worker.at = "handle"
      <4>1. outcome[c] = "none"
        BY <3>1, <3>3 DEF IInv, PlacesSound, Unresolved, Unanswered
      <4> QED
        BY <3>1, <4>1 DEF Refusals
    <3> QED
      BY <3>2, <3>3
  <2> QED
    BY <2>1 DEF HandledKept
<1>8. ReceiverSound'
  BY <1>1 DEF IInv, ReceiverSound
<1>9. handled' \subseteq Callers
  BY <1>2 DEF IInv, TypeOK
<1> QED
  BY <1>1, <1>3, <1>4, <1>5, <1>6, <1>7, <1>8, <1>9

\* The channel without its head, which becomes the worker's request.
LEMMA QueueTaken ==
  ASSUME IInv, queue # <<>>, queue' = Tail(queue)
  PROVE  /\ queue' \in Seq(Callers) /\ Head(queue) \in Callers
         /\ Len(queue') = Len(queue) - 1 /\ Len(queue) > 0
         /\ Len(queue') <= queue_capacity
         /\ \A c : Holds(queue, c) <=> Holds(queue', c) \/ c = Head(queue)
         /\ Apart(queue') /\ ~Holds(queue', Head(queue))
<1>1. /\ queue \in Seq(Callers) /\ Len(queue) <= queue_capacity
      /\ Apart(queue) /\ Len(queue) \in Nat
  BY DEF IInv, TypeOK, PlacesSound
<1> QED
  BY <1>1, TailHolds, AdmissionConfig

\* A request taken from the channel is the worker's, and counts as before.
LEMMA TakenInv ==
  ASSUME IInv, worker.at \in {"recv", "drain"},
         NEW p \in {"received", "cancel"}, Taken(p),
         p = "cancel" => ~admission_open,
         UNCHANGED <<backlog, present, listener, admission_open,
                     shutdown_requested, cancellation, metrics, kind,
                     admitted, handled, outcome>>
  PROVE  IInv'
<1> USE AdmissionConfig
<1> DEFINE e == Head(queue)
<1>1. /\ queue # <<>> /\ queue' = Tail(queue) /\ worker' = At(p, e)
      /\ worker.conn = Nobody
  BY DEF Taken, WorkerTo, IInv, ConnSound, Handling
<1>2. /\ e \in Callers /\ Apart(queue') /\ ~Holds(queue', e)
      /\ \A c : Holds(queue, c) <=> Holds(queue', c) \/ c = e
      /\ queue' \in Seq(Callers) /\ Len(queue') <= queue_capacity
      /\ Len(queue') = Len(queue) - 1
  BY <1>1, QueueTaken
<1>3. worker'.at = p /\ worker'.conn = e
  BY <1>1 DEF At
<1>4. worker' \in [at : Working, conn : Callers \cup {Nobody}]
  BY <1>1, <1>2 DEF At, Working
<1> HIDE DEF e
<1>5. ConnSound'
  BY <1>2, <1>3 DEF IInv, ConnSound, Handling, Closing
<1>6. PlacesSound'
  <2>1. Apart(backlog)'
    BY DEF IInv, PlacesSound
  <2>2. ASSUME NEW c \in Callers PROVE OnePlace(c)' /\ Unresolved(c)'
    <3>1. OnePlace(c) /\ Unresolved(c) /\ Nobody # c
      BY DEF IInv, PlacesSound
    <3>2. /\ Holds(queue, c) <=> Holds(queue', c) \/ c = e
          /\ ~(Holds(queue', c) /\ c = e)
          /\ Holds(backlog', c) <=> Holds(backlog, c)
      BY <1>2
    <3>3. OnePlace(c)'
      BY <1>1, <1>3, <3>1, <3>2 DEF OnePlace
    <3>4. Unresolved(c)'
      BY <1>1, <1>3, <3>1, <3>2 DEF Unresolved, OnePlace
    <3> QED
      BY <3>3, <3>4
  <2> QED
    BY <1>2, <2>1, <2>2 DEF PlacesSound
<1>7. AdmittedKept'
  BY <1>1, <1>2, <1>3 DEF IInv, AdmittedKept, Unanswered
<1>8. HandledKept'
  BY DEF IInv, HandledKept
<1>9. ReceiverSound'
  BY <1>3 DEF IInv, ReceiverSound
<1>10. TypeOK'
  BY <1>2, <1>4 DEF IInv, TypeOK
<1>11. ReservationCounted'
  BY DEF IInv, ReservationCounted
<1>12. CountersAreExact'
  <2>1. /\ Len(queue) \in Nat /\ Len(admitted) \in Nat
        /\ metrics["admitted"] \in Nat /\ metrics["queued"] \in Nat
        /\ metrics["active"] \in Nat /\ metrics["completed"] \in Nat
        /\ metrics["cancelled"] \in Nat
    BY AccountTypes
  <2>2. /\ Once(listener', Reserving) = Once(listener, Reserving)
        /\ Once(listener', Reserved) = Once(listener, Reserved)
        /\ Once(listener, Reserved) \in Nat
        /\ Once(worker, Unstarted) = 0 /\ Once(worker', Unstarted) = 1
        /\ Once(worker, Serving) = 0 /\ Once(worker', Serving) = 0
        /\ Once(worker, Untallied) = 0 /\ Once(worker', Untallied) = 1
    BY <1>3 DEF Once, Unstarted, Serving, Untallied
  <2>3. /\ metrics["admitted"] = Len(admitted) + Once(listener, Reserving)
        /\ metrics["queued"] = Len(queue) + Once(listener, Reserved) + 0
        /\ metrics["active"] = 0
        /\ metrics["completed"] + metrics["cancelled"] =
             Len(admitted) - Len(queue) - 0
    BY <2>2 DEF IInv, CountersAreExact
  <2>4. /\ metrics'["queued"] = Len(queue') + Once(listener, Reserved) + 1
        /\ metrics'["active"] = 0
        /\ metrics'["completed"] + metrics'["cancelled"] =
             Len(admitted') - Len(queue') - 1
    BY <1>2, <2>1, <2>2, <2>3
  <2> QED
    BY <2>2, <2>3, <2>4 DEF CountersAreExact
<1> QED
  BY <1>5, <1>6, <1>7, <1>8, <1>9, <1>10, <1>11, <1>12 DEF IInv

LEMMA ReceiveInv ==
  ASSUME IInv, Receive
  PROVE  IInv'
<1>1. worker.at = "recv" /\ worker.conn = Nobody
  BY DEF IInv, ConnSound, Receive, Handling
<1>2. UNCHANGED <<backlog, present, listener, shutdown_requested,
                  cancellation, metrics, kind, admitted, handled, outcome>>
  BY DEF Receive
<1>3. CASE Taken("received") /\ UNCHANGED admission_open
  BY <1>1, <1>2, <1>3, TakenInv
<1>4. CASE /\ Disconnected /\ admission_open' = FALSE
           /\ worker' = At("return", Nobody) /\ UNCHANGED queue
  <2>1. /\ worker'.at = "return"
        /\ worker' \in [at : Working, conn : Callers \cup {Nobody}]
        /\ ConnSound' /\ PlacesSound' /\ AdmittedKept' /\ HandledKept'
        /\ ReceiverSound' /\ handled' \subseteq Callers
    BY <1>1, <1>2, <1>4, WorkerGoes, AdmissionConfig
    DEF Disconnected, Working, Handling, Closing, Unanswered, IInv, TypeOK
  <2>2. TypeOK'
    BY <1>2, <1>4, <2>1 DEF IInv, TypeOK
  <2>3. ReservationCounted' /\ CountersAreExact'
    BY <1>1, <1>2, <1>4, <2>1, SameAccount DEF Unstarted, Serving, Untallied
  <2> QED
    BY <2>1, <2>2, <2>3 DEF IInv
<1> QED
  BY <1>3, <1>4 DEF Receive, WorkerTo

\* An addition of the worker between two places where it has the same request
\* or none; what is left to show is the accounting.
LEMMA WorkerCountsInv ==
  ASSUME IInv, NEW counter \in Counters, NEW by \in Int,
         NEW from, NEW to, WorkerCounts(counter, by, from, to),
         metrics[counter] + by \in Nat,
         UNCHANGED <<backlog, present, listener, queue, admission_open,
                     shutdown_requested, cancellation, kind, admitted,
                     handled, outcome>>,
         <<from, to>> \in
           {<<"received", "starting">>, <<"starting", "started">>,
            <<"worked", "completing">>, <<"completing", "close">>,
            <<"completing", "recv">>, <<"cancel", "cancelling">>,
            <<"cancelling", "cancelled">>},
         ReservationCounted' /\ CountersAreExact'
  PROVE  IInv'
<1> DEFINE e == worker.conn
<1>1. /\ worker.at = from /\ worker' = At(to, e)
      /\ metrics' = [metrics EXCEPT ![counter] = @ + by]
  BY DEF WorkerCounts, WorkerTo
<1>2. metrics' \in [Counters -> Nat]
  BY <1>1, AdditionCounts
<1>3. /\ from \in Handling <=> to \in Handling
      /\ from \in Unanswered <=> to \in Unanswered
      /\ to \in Closing => from \in Closing
      /\ to \in Working \ {"return", "ended", "panicked"}
      /\ from \notin {"reply", "finish"}
  BY DEF Handling, Unanswered, Closing, Working
<1>4. IF to \in Handling THEN e \in Callers ELSE e = Nobody
  BY <1>1, <1>3 DEF IInv, ConnSound
<1>5. e \notin handled
  BY <1>1, <1>3, <1>4, AdmissionConfig DEF IInv, TypeOK, PlacesSound, OnePlace
<1>6. /\ worker'.at = to
      /\ worker' \in [at : Working, conn : Callers \cup {Nobody}]
      /\ ConnSound' /\ PlacesSound' /\ AdmittedKept' /\ HandledKept'
      /\ ReceiverSound' /\ handled' \subseteq Callers
  <2>1. to \in Closing => ~admission_open'
    BY <1>1, <1>3 DEF IInv, ConnSound
  <2> QED
    BY <1>1, <1>3, <1>4, <1>5, <2>1, WorkerGoes
<1>7. TypeOK'
  BY <1>2, <1>6 DEF IInv, TypeOK
<1> QED
  BY <1>6, <1>7 DEF IInv

\* Each addition of the worker moves exactly one of the numbers that the
\* counters are made of.
LEMMA WorkerCountInv ==
  ASSUME IInv, WorkerCount
  PROVE  IInv'
<1>1. /\ Len(queue) \in Nat /\ Len(admitted) \in Nat
      /\ \A n \in Counters : metrics[n] \in Nat
      /\ metrics["admitted"] \in Nat /\ metrics["queued"] \in Nat
      /\ metrics["active"] \in Nat /\ metrics["completed"] \in Nat
      /\ metrics["cancelled"] \in Nat
  BY AccountTypes
<1>2. UNCHANGED <<backlog, present, listener, queue, admission_open,
                  shutdown_requested, cancellation, kind, admitted, handled,
                  outcome>>
  BY DEF WorkerCount
<1>3. /\ metrics["admitted"] = Len(admitted) + Once(listener, Reserving)
      /\ listener.at \in Reserved => metrics["queued"] > 0
      /\ worker.at # "panicked" =>
           /\ metrics["queued"] = Len(queue) + Once(listener, Reserved)
                                  + Once(worker, Unstarted)
           /\ metrics["active"] = Once(worker, Serving)
           /\ metrics["completed"] + metrics["cancelled"] =
                Len(admitted) - Len(queue) - Once(worker, Untallied)
      /\ Once(listener, Reserved) \in Nat
      /\ listener.at \in Reserved => Once(listener, Reserved) = 1
      /\ Once(worker, Serving) \in Nat /\ Once(worker, Unstarted) \in Nat
      /\ Once(worker, Untallied) \in Nat
  BY DEF IInv, CountersAreExact, ReservationCounted, Once
<1>4. ASSUME NEW counter \in {"queued", "active", "completed", "cancelled"},
             NEW by \in Int, NEW from, NEW to,
             WorkerCounts(counter, by, from, to),
             <<from, to>> \in
               {<<"received", "starting">>, <<"starting", "started">>,
                <<"worked", "completing">>, <<"completing", "close">>,
                <<"completing", "recv">>, <<"cancel", "cancelling">>,
                <<"cancelling", "cancelled">>},
             metrics[counter] + by \in Nat,
             Once(worker', Unstarted) = Once(worker, Unstarted)
               + (IF counter = "queued" THEN by ELSE 0),
             Once(worker', Serving) = Once(worker, Serving)
               + (IF counter = "active" THEN by ELSE 0),
             Once(worker', Untallied) = Once(worker, Untallied)
               - (IF counter \in {"completed", "cancelled"} THEN by ELSE 0)
      PROVE  IInv'
  <2>1. counter \in Counters
    BY DEF Counters
  <2>2. /\ metrics'[counter] = metrics[counter] + by
        /\ \A n \in Counters : n # counter => metrics'[n] = metrics[n]
    BY <1>4, <2>1, AdditionCounts DEF WorkerCounts
  <2>3. /\ metrics'["admitted"] = metrics["admitted"]
        /\ metrics'["queued"] = metrics["queued"]
             + (IF counter = "queued" THEN by ELSE 0)
        /\ metrics'["active"] = metrics["active"]
             + (IF counter = "active" THEN by ELSE 0)
        /\ metrics'["completed"] + metrics'["cancelled"] =
             metrics["completed"] + metrics["cancelled"]
             + (IF counter \in {"completed", "cancelled"} THEN by ELSE 0)
    BY <1>1, <2>2 DEF Counters
  <2>4. worker.at # "panicked"
    BY <1>4 DEF WorkerCounts
  <2>5. /\ metrics'["queued"] = Len(queue) + Once(listener, Reserved)
                                + Once(worker', Unstarted)
        /\ metrics'["active"] = Once(worker', Serving)
        /\ metrics'["completed"] + metrics'["cancelled"] =
             Len(admitted) - Len(queue) - Once(worker', Untallied)
    <3> DEFINE q == IF counter = "queued" THEN by ELSE 0
               a == IF counter = "active" THEN by ELSE 0
               t == IF counter \in {"completed", "cancelled"} THEN by ELSE 0
    <3>1. q \in Int /\ a \in Int /\ t \in Int
      OBVIOUS
    <3>2. /\ metrics'["queued"] = metrics["queued"] + q
          /\ metrics'["active"] = metrics["active"] + a
          /\ metrics'["completed"] + metrics'["cancelled"] =
               metrics["completed"] + metrics["cancelled"] + t
          /\ Once(worker', Unstarted) = Once(worker, Unstarted) + q
          /\ Once(worker', Serving) = Once(worker, Serving) + a
          /\ Once(worker', Untallied) = Once(worker, Untallied) - t
      BY <1>4, <2>3
    <3> HIDE DEF q, a, t
    <3>3. /\ metrics["queued"] = Len(queue) + Once(listener, Reserved)
                                + Once(worker, Unstarted)
          /\ metrics["active"] = Once(worker, Serving)
          /\ metrics["completed"] + metrics["cancelled"] =
               Len(admitted) - Len(queue) - Once(worker, Untallied)
      BY <1>3, <2>4
    <3>4. /\ Len(queue) \in Nat /\ Len(admitted) \in Nat
          /\ Once(listener, Reserved) \in Nat /\ Once(worker, Serving) \in Nat
          /\ Once(worker, Unstarted) \in Nat /\ Once(worker, Untallied) \in Nat
      BY <1>1, <1>3
    <3>5. metrics'["queued"] = Len(queue) + Once(listener, Reserved)
                                + Once(worker', Unstarted)
      BY <3>1, <3>2, <3>3, <3>4
    <3>6. metrics'["active"] = Once(worker', Serving)
      BY <3>2, <3>3
    <3>7. metrics'["completed"] + metrics'["cancelled"] =
            Len(admitted) - Len(queue) - Once(worker', Untallied)
      BY <3>1, <3>2, <3>3, <3>4
    <3> QED
      BY <3>5, <3>6, <3>7
  <2>6. CountersAreExact'
    BY <1>2, <1>3, <2>3, <2>5 DEF CountersAreExact
  <2>7. ReservationCounted'
    <3>1. Once(worker', Unstarted) \in Nat
      BY DEF Once
    <3>2. Once(listener, Reserved) = 1 => metrics'["queued"] > 0
      BY <1>1, <2>5, <3>1
    <3> QED
      BY <1>2, <1>3, <3>2 DEF ReservationCounted
  <2> QED
    BY <1>2, <1>4, <2>1, <2>6, <2>7, WorkerCountsInv
<1>5. ASSUME NEW from, NEW to, WorkerCounts("queued", -1, from, to),
             <<from, to>> \in {<<"received", "starting">>,
                               <<"cancel", "cancelling">>}
      PROVE  IInv'
  <2>1. /\ worker.at = from /\ worker'.at = to
    BY <1>5 DEF WorkerCounts, WorkerTo, At
  <2>2. /\ Once(worker, Unstarted) = 1 /\ Once(worker', Unstarted) = 0
        /\ Once(worker', Serving) = Once(worker, Serving)
        /\ Once(worker', Untallied) = Once(worker, Untallied)
        /\ worker.at # "panicked"
    BY <1>5, <2>1 DEF Once, Unstarted, Serving, Untallied
  <2>3. metrics["queued"] + (-1) \in Nat
    BY <1>1, <1>3, <2>2
  <2> QED
    BY <1>3, <1>4, <1>5, <2>2, <2>3
<1>6. CASE WorkerCounts("active", 1, "starting", "started")
  <2>1. worker.at = "starting" /\ worker'.at = "started"
    BY <1>6 DEF WorkerCounts, WorkerTo, At
  <2>2. /\ Once(worker', Unstarted) = Once(worker, Unstarted)
        /\ Once(worker, Serving) = 0 /\ Once(worker', Serving) = 1
        /\ Once(worker', Untallied) = Once(worker, Untallied)
    BY <2>1 DEF Once, Unstarted, Serving, Untallied
  <2>3. metrics["active"] + 1 \in Nat
    BY <1>1
  <2> QED
    BY <1>3, <1>4, <1>6, <2>2, <2>3
<1>7. CASE WorkerCounts("active", -1, "worked", "completing")
  <2>1. worker.at = "worked" /\ worker'.at = "completing"
    BY <1>7 DEF WorkerCounts, WorkerTo, At
  <2>2. /\ Once(worker', Unstarted) = Once(worker, Unstarted)
        /\ Once(worker, Serving) = 1 /\ Once(worker', Serving) = 0
        /\ Once(worker', Untallied) = Once(worker, Untallied)
        /\ worker.at # "panicked"
    BY <2>1 DEF Once, Unstarted, Serving, Untallied
  <2>3. metrics["active"] + (-1) \in Nat
    BY <1>3, <2>2
  <2> QED
    BY <1>3, <1>4, <1>7, <2>2, <2>3
<1>8. ASSUME NEW counter \in {"completed", "cancelled"}, NEW from, NEW to,
             WorkerCounts(counter, 1, from, to),
             <<from, to>> \in {<<"completing", "close">>,
                               <<"completing", "recv">>,
                               <<"cancelling", "cancelled">>}
      PROVE  IInv'
  <2>1. worker.at = from /\ worker'.at = to
    BY <1>8 DEF WorkerCounts, WorkerTo, At
  <2>2. /\ Once(worker', Unstarted) = Once(worker, Unstarted)
        /\ Once(worker', Serving) = Once(worker, Serving)
        /\ Once(worker, Untallied) = 1 /\ Once(worker', Untallied) = 0
    BY <1>8, <2>1 DEF Once, Unstarted, Serving, Untallied
  <2>3. metrics[counter] + 1 \in Nat
    BY <1>1, <1>8
  <2> QED
    BY <1>3, <1>4, <1>8, <2>2, <2>3
<1> QED
  BY <1>5, <1>6, <1>7, <1>8
  DEF WorkerCount, work_started, work_completed, work_cancelled_on_shutdown,
      AfterWork

\* A started request goes to its handler, or is passed over if its caller has
\* left.
LEMMA StartWorkInv ==
  ASSUME IInv, StartWork
  PROVE  IInv'
<1> DEFINE e == worker.conn
<1>1. worker.at = "started" /\ e \in Callers
  BY DEF IInv, ConnSound, StartWork, Handling
<1>2. UNCHANGED <<backlog, present, listener, queue, admission_open,
                  shutdown_requested, metrics, kind, admitted, handled>>
  BY DEF StartWork
<1>3. PICK p \in {"finish", "handle"} :
        /\ worker' = At(p, e)
        /\ cancellation' \in [Callers -> CancellationRecords]
        /\ outcome' \in [Callers -> Outcomes]
        /\ \A d \in Callers : d # e => outcome'[d] = outcome[d]
        /\ IF p = "finish" THEN outcome'[e] \in {"abandoned", "answered"}
           ELSE outcome'[e] = outcome[e]
  <2>1. CASE /\ Respond(e, "answered") /\ worker' = At("finish", e)
    BY <1>1, <2>1, RespondFacts DEF IInv, Outcomes, Refusals
  <2>2. CASE /\ worker' = At("handle", e)
             /\ UNCHANGED <<cancellation, outcome>>
    BY <1>1, <2>2 DEF IInv, TypeOK, CancellationRecords
  <2> QED
    BY <2>1, <2>2 DEF StartWork, WorkerTo
<1>4. e \notin handled
  BY <1>1 DEF IInv, PlacesSound, OnePlace
<1>5. /\ worker'.at = p
      /\ worker' \in [at : Working, conn : Callers \cup {Nobody}]
      /\ ConnSound' /\ PlacesSound' /\ AdmittedKept' /\ HandledKept'
      /\ ReceiverSound' /\ handled' \subseteq Callers
  BY <1>1, <1>2, <1>3, <1>4, WorkerGoes
  DEF Working, Handling, Closing, Unanswered
<1>6. TypeOK'
  BY <1>2, <1>3, <1>5 DEF IInv, TypeOK, CancellationRecords
<1>7. ReservationCounted' /\ CountersAreExact'
  BY <1>1, <1>2, <1>5, SameAccount DEF Unstarted, Serving, Untallied
<1> QED
  BY <1>5, <1>6, <1>7 DEF IInv

LEMMA HandleInv ==
  ASSUME IInv, Handle
  PROVE  IInv'
<1> DEFINE e == worker.conn
<1>1. worker.at = "handle" /\ e \in Callers
  BY DEF IInv, ConnSound, Handle, Handling
<1>2. UNCHANGED <<backlog, present, listener, queue, admission_open,
                  cancellation, metrics, kind, admitted, outcome>>
  BY DEF Handle
<1>3. worker' = At("reply", e) /\ handled' = handled \cup {e}
  BY DEF Handle, WorkerTo
<1>4. /\ worker'.at = "reply"
      /\ worker' \in [at : Working, conn : Callers \cup {Nobody}]
      /\ ConnSound' /\ PlacesSound' /\ AdmittedKept' /\ HandledKept'
      /\ ReceiverSound' /\ handled' \subseteq Callers
  BY <1>1, <1>2, <1>3, WorkerGoes
  DEF Working, Handling, Closing, Unanswered
<1>5. TypeOK'
  <2>1. shutdown_requested' \in BOOLEAN
    BY DEF IInv, TypeOK, Handle
  <2> QED
    BY <1>2, <1>4, <2>1 DEF IInv, TypeOK
<1>6. ReservationCounted' /\ CountersAreExact'
  BY <1>1, <1>2, <1>4, SameAccount DEF Unstarted, Serving, Untallied
<1> QED
  BY <1>4, <1>5, <1>6 DEF IInv

\* The worker thread dies with its request and the channel: each of them has
\* its outcome at once.
LEMMA WorkerPanicsInv ==
  ASSUME IInv, WorkerPanics
  PROVE  IInv'
<1> USE AdmissionConfig, EmptyHolds
<1> DEFINE e == worker.conn
<1>1. worker.at = "handle" /\ e \in Callers
  BY DEF IInv, ConnSound, WorkerPanics, Handling
<1>2. UNCHANGED <<backlog, present, listener, admission_open,
                  shutdown_requested, cancellation, metrics, kind, admitted>>
  BY DEF WorkerPanics
<1>3. /\ handled' = handled \cup {e} /\ queue' = <<>>
      /\ worker' = At("panicked", Nobody)
      /\ outcome' = [c \in Callers |->
           IF c = e \/ Holds(queue, c) THEN "lost" ELSE outcome[c]]
  BY DEF WorkerPanics, WorkerTo, Holds
<1>4. worker'.at = "panicked" /\ worker'.conn = Nobody
  BY <1>3 DEF At
<1>5. TypeOK'
  <2>1. outcome' \in [Callers -> Outcomes]
    BY <1>3 DEF IInv, TypeOK, Outcomes
  <2>2. worker' \in [at : Working, conn : Callers \cup {Nobody}]
    BY <1>3 DEF At, Working
  <2>3. /\ queue' \in Seq(Callers) /\ Len(queue') <= queue_capacity
        /\ handled' \subseteq Callers
    BY <1>1, <1>3 DEF IInv, TypeOK
  <2> QED
    BY <1>2, <2>1, <2>2, <2>3 DEF IInv, TypeOK
<1>6. ConnSound'
  BY <1>2, <1>4 DEF IInv, ConnSound, Handling, Closing
<1>7. ReceiverSound'
  BY <1>3, <1>4 DEF ReceiverSound
<1>8. PlacesSound'
  <2>1. Apart(backlog)' /\ Apart(queue)'
    BY <1>2, <1>3 DEF IInv, PlacesSound, Apart
  <2>2. ASSUME NEW c \in Callers PROVE OnePlace(c)' /\ Unresolved(c)'
    <3>1. OnePlace(c) /\ Unresolved(c) /\ Nobody # c
      BY DEF IInv, PlacesSound
    <3>2. ~Holds(queue', c) /\ (Holds(backlog', c) <=> Holds(backlog, c))
      BY <1>2, <1>3
    <3>3. OnePlace(c)'
      BY <1>1, <1>2, <1>3, <1>4, <3>1, <3>2 DEF OnePlace
    <3>4. Unresolved(c)'
      BY <1>1, <1>2, <1>3, <1>4, <3>1, <3>2 DEF Unresolved, OnePlace
    <3> QED
      BY <3>3, <3>4
  <2> QED
    BY <2>1, <2>2 DEF PlacesSound
<1>9. AdmittedKept'
  BY <1>2, <1>3, <1>4 DEF IInv, AdmittedKept
<1>10. HandledKept'
  BY <1>1, <1>3 DEF IInv, TypeOK, HandledKept, Refusals
<1>11. ReservationCounted'
  BY <1>2 DEF IInv, ReservationCounted
<1>12. CountersAreExact'
  <2>1. Once(listener', Reserving) = Once(listener, Reserving)
    BY <1>2 DEF Once
  <2> QED
    BY <1>2, <1>4, <2>1 DEF IInv, CountersAreExact
<1> QED
  BY <1>5, <1>6, <1>7, <1>8, <1>9, <1>10, <1>11, <1>12 DEF IInv

LEMMA ReplyInv ==
  ASSUME IInv, Reply
  PROVE  IInv'
<1> DEFINE e == worker.conn
<1>1. worker.at = "reply" /\ e \in Callers
  BY DEF IInv, ConnSound, Reply, Handling
<1>2. UNCHANGED <<backlog, present, listener, queue, admission_open,
                  shutdown_requested, metrics, kind, admitted, handled>>
  BY DEF Reply
<1>3. worker' = At("finish", e) /\ Respond(e, "answered")
  BY DEF Reply, WorkerTo
<1>4. /\ cancellation' \in [Callers -> CancellationRecords]
      /\ outcome' \in [Callers -> Outcomes]
      /\ outcome'[e] \in {"abandoned", "answered"}
      /\ \A d \in Callers : d # e => outcome'[d] = outcome[d]
  BY <1>1, <1>3, RespondFacts DEF IInv, Outcomes, Refusals
<1>5. /\ worker'.at = "finish"
      /\ worker' \in [at : Working, conn : Callers \cup {Nobody}]
      /\ ConnSound' /\ PlacesSound' /\ AdmittedKept' /\ HandledKept'
      /\ ReceiverSound' /\ handled' \subseteq Callers
  <2>1. outcome'[e] # "none" /\ outcome'[e] \notin Refusals
    BY <1>4 DEF Refusals
  <2> QED
    BY <1>1, <1>2, <1>3, <1>4, <2>1, WorkerGoes
    DEF Working, Handling, Closing, Unanswered
<1>6. TypeOK'
  BY <1>2, <1>4, <1>5 DEF IInv, TypeOK, CancellationRecords
<1>7. ReservationCounted' /\ CountersAreExact'
  BY <1>1, <1>2, <1>5, SameAccount DEF Unstarted, Serving, Untallied
<1> QED
  BY <1>5, <1>6, <1>7 DEF IInv

\* The steps of the worker between requests that touch nothing else.
LEMMA BetweenInv ==
  ASSUME IInv, FinishWork \/ CloseAdmission \/ DrainJoinsWatcher \/ WorkerReturns
  PROVE  IInv'
<1>1. worker.at \in {"finish", "close", "drainjoin", "return"}
  BY DEF FinishWork, CloseAdmission, DrainJoinsWatcher, WorkerReturns
<1>2. UNCHANGED <<backlog, present, listener, queue, shutdown_requested,
                  cancellation, metrics, kind, admitted, handled, outcome>>
  BY DEF FinishWork, CloseAdmission, DrainJoinsWatcher, WorkerReturns
<1>3. PICK p \in {"worked", "wake", "drain", "ended"} :
        /\ worker' = At(p, Nobody)
        /\ p = "ended" => worker.at = "return"
        /\ p = "worked" <=> worker.at = "finish"
        /\ p # "worked" => ~admission_open'
        /\ ~admission_open => ~admission_open'
        /\ admission_open' \in BOOLEAN
  <2>1. worker.at \in {"drainjoin", "return"} => ~admission_open
    BY DEF IInv, ConnSound, Closing
  <2>2. CASE CloseAdmission
    BY <2>2 DEF CloseAdmission, WorkerTo, CloseFlag
  <2>3. CASE DrainJoinsWatcher
    BY <2>1, <2>3 DEF DrainJoinsWatcher, WorkerTo, IInv, TypeOK
  <2>4. CASE WorkerReturns
    BY <2>1, <2>4 DEF WorkerReturns, WorkerTo, IInv, TypeOK
  <2>5. CASE FinishWork
    BY <2>5 DEF FinishWork, WorkerTo, IInv, TypeOK
  <2> QED
    BY <2>2, <2>3, <2>4, <2>5
<1>4. p = "ended" => queue = <<>> /\ listener.at = "ended"
  BY <1>3 DEF IInv, ReceiverSound
<1>5. /\ worker'.at = p
      /\ worker' \in [at : Working, conn : Callers \cup {Nobody}]
      /\ ConnSound' /\ PlacesSound' /\ AdmittedKept' /\ HandledKept'
      /\ ReceiverSound' /\ handled' \subseteq Callers
  BY <1>1, <1>2, <1>3, <1>4, WorkerGoes, AdmissionConfig
  DEF Working, Handling, Closing, Unanswered, IInv, TypeOK
<1>6. TypeOK'
  BY <1>2, <1>3, <1>5 DEF IInv, TypeOK
<1>7. ReservationCounted' /\ CountersAreExact'
  BY <1>1, <1>2, <1>3, <1>5, SameAccount DEF Unstarted, Serving, Untallied
<1> QED
  BY <1>5, <1>6, <1>7 DEF IInv

\* A connection more in the backlog: the worker's own, or a caller's first.
LEMMA BacklogGrows ==
  ASSUME IInv, NEW e \in Conns, ConnectFrom(e),
         e = Wake => ~admission_open,
         e \in Callers => present[e] = "idle" /\ present'[e] # "idle",
         \A c \in Callers : c = e \/ present'[c] = present[c],
         worker'.conn = worker.conn,
         \/ worker'.at = worker.at
         \/ worker.at = "wake" /\ worker'.at = "drain",
         UNCHANGED <<listener, queue, admission_open, metrics, admitted,
                     handled, outcome>>
  PROVE  /\ backlog' \in Seq(Conns) /\ Len(backlog') <= Backlog
         /\ ConnSound' /\ ReceiverSound' /\ PlacesSound' /\ AdmittedKept'
         /\ HandledKept' /\ ReservationCounted' /\ CountersAreExact'
<1> USE AdmissionConfig
<1>1. backlog \in Seq(Conns) /\ Len(backlog) <= Backlog /\ Apart(backlog)
      /\ Len(backlog) \in Nat
  BY DEF IInv, TypeOK, PlacesSound
<1>2. ~(e \in Callers /\ Holds(backlog, e))
  BY DEF IInv, PlacesSound, OnePlace
<1>3. /\ backlog' \in Seq(Conns) /\ Len(backlog') <= Backlog
      /\ Apart(backlog')
      /\ \A c : Holds(backlog', c) => Holds(backlog, c) \/ c = e
      /\ \A c : Holds(backlog, c) => Holds(backlog', c)
  <2>1. CASE backlog' = backlog
    BY <1>1, <2>1
  <2>2. CASE backlog' = Append(backlog, e) /\ Len(backlog) < Backlog
    BY <1>1, <1>2, <2>2, AppendHolds, AppendApart
  <2> QED
    BY <2>1, <2>2 DEF ConnectFrom
<1>4. ConnSound'
  BY <1>3 DEF IInv, ConnSound, Handling, Closing
<1>5. ReceiverSound' /\ AdmittedKept' /\ HandledKept'
  BY DEF IInv, ReceiverSound, AdmittedKept, HandledKept, Unanswered
<1>6. PlacesSound'
  <2>1. Apart(queue)'
    BY DEF IInv, PlacesSound
  <2>2. ASSUME NEW c \in Callers PROVE OnePlace(c)' /\ Unresolved(c)'
    <3>1. OnePlace(c) /\ Unresolved(c)
      BY DEF IInv, PlacesSound
    <3>2. /\ Holds(backlog', c) => Holds(backlog, c) \/ c = e
          /\ Holds(queue', c) <=> Holds(queue, c)
      BY <1>3
    <3>3. OnePlace(c)'
      BY <3>1, <3>2 DEF OnePlace
    <3>4. Unresolved(c)'
      BY <3>1, <3>2 DEF Unresolved, Unanswered
    <3> QED
      BY <3>3, <3>4
  <2> QED
    BY <1>3, <2>1, <2>2 DEF PlacesSound
<1>7. ReservationCounted' /\ CountersAreExact'
  BY SameAccount DEF Unstarted, Serving, Untallied
<1> QED
  BY <1>3, <1>4, <1>5, <1>6, <1>7

LEMMA WakeListenerInv ==
  ASSUME IInv, WakeListener
  PROVE  IInv'
<1>1. /\ worker.at = "wake" /\ worker.conn = Nobody /\ ~admission_open
      /\ worker' = At("drain", Nobody) /\ ConnectFrom(Wake)
  BY DEF IInv, ConnSound, Handling, Closing, WakeListener, wake_listener,
     WorkerTo
<1>2. UNCHANGED <<present, listener, queue, admission_open,
                  shutdown_requested, cancellation, metrics, kind, admitted,
                  handled, outcome>>
  BY DEF WakeListener
<1>3. worker'.at = "drain" /\ worker'.conn = Nobody
  BY <1>1 DEF At
<1>4. Wake \in Conns /\ Wake \notin Callers
  BY AdmissionConfig DEF Conns
<1>5. /\ backlog' \in Seq(Conns) /\ Len(backlog') <= Backlog
      /\ ConnSound' /\ ReceiverSound' /\ PlacesSound' /\ AdmittedKept'
      /\ HandledKept' /\ ReservationCounted' /\ CountersAreExact'
  BY <1>1, <1>2, <1>3, <1>4, BacklogGrows
<1>6. worker' \in [at : Working, conn : Callers \cup {Nobody}]
  BY <1>1 DEF At, Working
<1>7. TypeOK'
  BY <1>2, <1>5, <1>6 DEF IInv, TypeOK
<1> QED
  BY <1>5, <1>7 DEF IInv

LEMMA DrainInv ==
  ASSUME IInv, Drain
  PROVE  IInv'
<1>1. worker.at = "drain" /\ worker.conn = Nobody /\ ~admission_open
  BY DEF IInv, ConnSound, Drain, Handling, Closing
<1>2. UNCHANGED <<backlog, present, listener, admission_open,
                  shutdown_requested, cancellation, metrics, kind, admitted,
                  handled, outcome>>
  BY DEF Drain
<1>3. CASE Taken("cancel")
  BY <1>1, <1>2, <1>3, TakenInv
<1>4. CASE Disconnected /\ worker' = At("return", Nobody) /\ UNCHANGED queue
  <2>1. /\ worker'.at = "return"
        /\ worker' \in [at : Working, conn : Callers \cup {Nobody}]
        /\ ConnSound' /\ PlacesSound' /\ AdmittedKept' /\ HandledKept'
        /\ ReceiverSound' /\ handled' \subseteq Callers
    BY <1>1, <1>2, <1>4, WorkerGoes, AdmissionConfig
    DEF Disconnected, Working, Handling, Closing, Unanswered, IInv, TypeOK
  <2>2. TypeOK'
    BY <1>2, <1>4, <2>1 DEF IInv, TypeOK
  <2>3. ReservationCounted' /\ CountersAreExact'
    BY <1>1, <1>2, <1>4, <2>1, SameAccount DEF Unstarted, Serving, Untallied
  <2> QED
    BY <2>1, <2>2, <2>3 DEF IInv
<1> QED
  BY <1>3, <1>4 DEF Drain, WorkerTo

\* Draining gives each request left in the channel its outcome, and no
\* handler has run for it.
LEMMA CancelRequestInv ==
  ASSUME IInv, CancelRequest
  PROVE  IInv'
<1> DEFINE e == worker.conn
<1>1. worker.at = "cancelled" /\ e \in Callers /\ ~admission_open
  BY DEF IInv, ConnSound, CancelRequest, Handling, Closing
<1>2. UNCHANGED <<backlog, present, listener, queue, admission_open,
                  shutdown_requested, metrics, kind, admitted, handled>>
  BY DEF CancelRequest
<1>3. worker' = At("drainjoin", e) /\ Respond(e, "cancelled")
  BY DEF CancelRequest, WorkerTo
<1>4. /\ cancellation' \in [Callers -> CancellationRecords]
      /\ outcome' \in [Callers -> Outcomes]
      /\ outcome'[e] # "none"
      /\ \A d \in Callers : d # e => outcome'[d] = outcome[d]
  BY <1>1, <1>3, RespondFacts DEF IInv, Outcomes, Refusals
<1>5. e \notin handled
  BY <1>1 DEF IInv, PlacesSound, OnePlace
<1>6. /\ worker'.at = "drainjoin"
      /\ worker' \in [at : Working, conn : Callers \cup {Nobody}]
      /\ ConnSound' /\ PlacesSound' /\ AdmittedKept' /\ HandledKept'
      /\ ReceiverSound' /\ handled' \subseteq Callers
  BY <1>1, <1>2, <1>3, <1>4, <1>5, WorkerGoes
  DEF Working, Handling, Closing, Unanswered
<1>7. TypeOK'
  BY <1>2, <1>4, <1>6 DEF IInv, TypeOK, CancellationRecords
<1>8. ReservationCounted' /\ CountersAreExact'
  BY <1>1, <1>2, <1>6, SameAccount DEF Unstarted, Serving, Untallied
<1> QED
  BY <1>6, <1>7, <1>8 DEF IInv

-----------------------------------------------------------------------------
(* The watchers and the callers keep the invariant.                         *)

LEMMA WatcherStepInv ==
  ASSUME IInv, NEW c \in Callers, WatcherStep(c)
  PROVE  IInv'
<1>1. UNCHANGED <<backlog, present, listener, queue, worker, admission_open,
                  shutdown_requested, metrics, kind, admitted, handled,
                  outcome>>
  BY DEF WatcherStep
<1>2. cancellation' \in [Callers -> CancellationRecords]
  <2>1. cancellation \in [Callers -> CancellationRecords]
    BY DEF IInv, TypeOK, CancellationRecords
  <2>2. PICK r \in CancellationRecords :
          cancellation' = [cancellation EXCEPT ![c] = r]
    <3>1. [cancellation[c] EXCEPT !.watcher = "ended"]
            \in CancellationRecords
      BY <2>1 DEF CancellationRecords
    <3>2. [[cancellation[c] EXCEPT !.cancelled = TRUE]
             EXCEPT !.watcher = "ended"] \in CancellationRecords
      <4>1. PICK r \in CancellationRecords :
              r = [cancellation[c] EXCEPT !.cancelled = TRUE]
        BY <2>1 DEF CancellationRecords
      <4> QED
        BY <4>1 DEF CancellationRecords
    <3>3. CASE cancellation' = [cancellation EXCEPT ![c].watcher = "ended"]
      BY <2>1, <3>1, <3>3
    <3>4. CASE cancellation' = [cancellation EXCEPT ![c].cancelled = TRUE,
                                                    ![c].watcher = "ended"]
      BY <2>1, <3>2, <3>4
    <3> QED
      BY <3>3, <3>4 DEF WatcherStep
  <2> QED
    BY <2>1, <2>2
<1>3. TypeOK'
  BY <1>1, <1>2 DEF IInv, TypeOK, CancellationRecords
<1>4. ConnSound' /\ ReceiverSound' /\ AdmittedKept' /\ HandledKept'
  BY <1>1 DEF IInv, ConnSound, ReceiverSound, AdmittedKept, HandledKept
<1>5. PlacesSound'
  BY <1>1 DEF IInv, PlacesSound, OnePlace, Unresolved
<1>6. ReservationCounted' /\ CountersAreExact'
  BY <1>1 DEF IInv, ReservationCounted, CountersAreExact, Once
<1> QED
  BY <1>3, <1>4, <1>5, <1>6 DEF IInv

LEMMA ConnectInv ==
  ASSUME IInv, NEW c \in Callers, Connect(c)
  PROVE  IInv'
<1>1. UNCHANGED <<listener, queue, worker, admission_open,
                  shutdown_requested, cancellation, metrics, kind, admitted,
                  handled, outcome>>
  BY DEF Connect
<1>2. /\ present[c] = "idle" /\ present' = [present EXCEPT ![c] = "waiting"]
      /\ ConnectFrom(c) /\ c \in Conns /\ c # Wake
      /\ present' \in [Callers -> {"idle", "waiting", "gone"}]
      /\ present'[c] # "idle"
      /\ \A d \in Callers : d = c \/ present'[d] = present[d]
  BY AdmissionConfig DEF Connect, IInv, TypeOK, Conns
<1>3. /\ backlog' \in Seq(Conns) /\ Len(backlog') <= Backlog
      /\ ConnSound' /\ ReceiverSound' /\ PlacesSound' /\ AdmittedKept'
      /\ HandledKept' /\ ReservationCounted' /\ CountersAreExact'
  <2>1. /\ c = Wake => ~admission_open
        /\ c \in Callers => present[c] = "idle" /\ present'[c] # "idle"
        /\ worker'.conn = worker.conn /\ worker'.at = worker.at
    BY <1>1, <1>2
  <2> QED
    BY <1>1, <1>2, <2>1, BacklogGrows
<1>4. TypeOK'
  BY <1>1, <1>2, <1>3 DEF IInv, TypeOK
<1> QED
  BY <1>3, <1>4 DEF IInv

LEMMA LeaveInv ==
  ASSUME IInv, NEW c \in Callers, Leave(c)
  PROVE  IInv'
<1>1. UNCHANGED <<backlog, listener, queue, worker, admission_open,
                  shutdown_requested, cancellation, metrics, kind, admitted,
                  handled, outcome>>
  BY DEF Leave
<1>2. /\ present' \in [Callers -> {"idle", "waiting", "gone"}]
      /\ \A d \in Callers : present'[d] = "idle" <=> present[d] = "idle"
  BY DEF Leave, IInv, TypeOK
<1>3. TypeOK'
  BY <1>1, <1>2 DEF IInv, TypeOK
<1>4. ConnSound' /\ ReceiverSound' /\ AdmittedKept' /\ HandledKept'
  BY <1>1 DEF IInv, ConnSound, ReceiverSound, AdmittedKept, HandledKept
<1>5. PlacesSound'
  <2>1. ASSUME NEW d \in Callers PROVE OnePlace(d)' /\ Unresolved(d)'
    BY <1>1, <1>2 DEF IInv, PlacesSound, OnePlace, Unresolved
  <2>2. Apart(backlog)' /\ Apart(queue)'
    BY <1>1 DEF IInv, PlacesSound
  <2> QED
    BY <2>1, <2>2 DEF PlacesSound
<1>6. ReservationCounted' /\ CountersAreExact'
  BY <1>1 DEF IInv, ReservationCounted, CountersAreExact, Once
<1> QED
  BY <1>3, <1>4, <1>5, <1>6 DEF IInv

-----------------------------------------------------------------------------
(* The theorems.                                                            *)

LEMMA InitInv == Init => IInv
<1> SUFFICES ASSUME Init PROVE IInv
  OBVIOUS
<1> USE AdmissionConfig, EmptyHolds
<1>1. /\ listener.at = "check" /\ listener.conn = Nobody
      /\ worker.at = "recv" /\ worker.conn = Nobody
      /\ backlog = <<>> /\ queue = <<>> /\ admitted = <<>> /\ handled = {}
  BY DEF Init, At
<1>2. TypeOK
  <2>1. /\ listener \in [at : Listening, conn : Conns \cup {Nobody}]
        /\ worker \in [at : Working, conn : Callers \cup {Nobody}]
    BY DEF Init, At, Listening, Working
  <2>2. cancellation \in [Callers -> CancellationRecords]
    <3>1. Fresh \in CancellationRecords
      BY DEF Fresh, CancellationRecords
    <3> QED
      BY <3>1 DEF Init
  <2>3. /\ kind \in [Callers -> Kinds] /\ outcome \in [Callers -> Outcomes]
        /\ present \in [Callers -> {"idle", "waiting", "gone"}]
    BY DEF Init, Kinds, Outcomes
  <2>4. /\ backlog \in Seq(Conns) /\ Len(backlog) <= Backlog
        /\ queue \in Seq(Callers) /\ Len(queue) <= queue_capacity
        /\ admitted \in Seq(Callers) /\ handled \subseteq Callers
    BY <1>1
  <2>5. /\ metrics \in [Counters -> Nat] /\ admission_open \in BOOLEAN
        /\ shutdown_requested \in BOOLEAN
    BY DEF Init
  <2> QED
    BY <2>1, <2>2, <2>3, <2>4, <2>5
    DEF TypeOK, CancellationRecords
<1>3. ConnSound /\ ReceiverSound
  BY <1>1 DEF ConnSound, ReceiverSound, Idling, Handling, Closing, Nobody,
     Wake
<1>4. PlacesSound
  <2>1. ASSUME NEW c \in Callers PROVE OnePlace(c) /\ Unresolved(c)
    BY <1>1 DEF OnePlace, Unresolved, Init
  <2> QED
    BY <1>1, <2>1 DEF PlacesSound
<1>5. AdmittedKept /\ HandledKept
  BY <1>1 DEF AdmittedKept, HandledKept
<1>6. ReservationCounted /\ CountersAreExact
  <2>1. \A n \in Counters : metrics[n] = 0
    BY DEF Init
  <2>2. /\ listener.at \notin Reserved
        /\ Once(listener, Reserving) = 0 /\ Once(listener, Reserved) = 0
        /\ Once(worker, Unstarted) = 0 /\ Once(worker, Serving) = 0
        /\ Once(worker, Untallied) = 0
    BY <1>1 DEF Once, Reserving, Reserved, Unstarted, Serving, Untallied
  <2> QED
    BY <1>1, <2>1, <2>2 DEF ReservationCounted, CountersAreExact, Counters
<1> QED
  BY <1>2, <1>3, <1>4, <1>5, <1>6 DEF IInv

LEMMA StepInv == IInv /\ [Next]_vars => IInv'
<1> SUFFICES ASSUME IInv, [Next]_vars PROVE IInv'
  OBVIOUS
<1>1. CASE UNCHANGED vars
  <2>1. TypeOK'
    BY <1>1 DEF IInv, TypeOK, vars
  <2>2. ConnSound' /\ ReceiverSound' /\ AdmittedKept' /\ HandledKept'
    BY <1>1 DEF IInv, ConnSound, ReceiverSound, AdmittedKept, HandledKept,
       vars
  <2>3. PlacesSound'
    BY <1>1 DEF IInv, PlacesSound, OnePlace, Unresolved, vars
  <2>4. ReservationCounted' /\ CountersAreExact'
    BY <1>1 DEF IInv, ReservationCounted, CountersAreExact, Once, vars
  <2> QED
    BY <2>1, <2>2, <2>3, <2>4 DEF IInv
<1>2. CASE ListenerStep \/ AcceptFails
  BY <1>2, CheckOpenInv, AcceptInv, AcceptFailsInv, CheckAcceptedInv,
     ReadRequestInv, CheckAdmissionInv, ListenerCountInv, TrySendInv,
     SendRefusedInv,
     ListenerJoinsWatcherInv DEF ListenerStep
<1>3. CASE WorkerStep \/ WorkerPanics
  BY <1>3, ReceiveInv, WorkerCountInv, StartWorkInv, HandleInv,
     WorkerPanicsInv, ReplyInv, BetweenInv, WakeListenerInv, DrainInv,
     CancelRequestInv DEF WorkerStep
<1>4. CASE \E c \in Callers : WatcherStep(c) \/ Connect(c) \/ Leave(c)
  BY <1>4, WatcherStepInv, ConnectInv, LeaveInv
<1> QED
  BY <1>1, <1>2, <1>3, <1>4 DEF Next

\* The queue never exceeds STS2_RUNTIME_V2_QUEUE_CAPACITY, no counter goes
\* below zero, and the threads are where the code has places.
THEOREM AdmissionTypes == Spec => []TypeOK
<1>1. IInv => TypeOK
  BY DEF IInv
<1> QED
  BY <1>1, InitInv, StepInv, PTL DEF Spec

\* At every point between two additions each counter is what it counts and one
\* for a request under way; so no decrement wraps, whichever thread is ahead.
THEOREM CountersTheorem == Spec => []CountersAreExact
<1>1. IInv => CountersAreExact
  BY DEF IInv
<1> QED
  BY <1>1, InitInv, StepInv, PTL DEF Spec

\* No admitted request is forgotten, and a caller that was refused was not
\* served, whatever shutdown, a panic or a caller's leaving races with.
THEOREM NoneLostTheorem == Spec => []NoneLost
<1>1. IInv => NoneLost
  <2> SUFFICES ASSUME IInv PROVE NoneLost
    OBVIOUS
  <2>1. ASSUME NEW i \in DOMAIN admitted, outcome[admitted[i]] = "none"
        PROVE  \/ InQueue(admitted[i]) /\ ~ReceiverDropped
               \/ worker.conn = admitted[i] /\ worker.at \in Unanswered
    <3>1. admitted[i] \in Callers /\ Holds(admitted, admitted[i])
      BY DEF IInv, TypeOK, Holds
    <3>2. \/ Holds(queue, admitted[i])
          \/ worker.conn = admitted[i] /\ worker.at \in Unanswered
      BY <2>1, <3>1 DEF IInv, AdmittedKept
    <3>3. ReceiverDropped => queue = <<>>
      BY DEF IInv, ReceiverSound, ReceiverDropped
    <3>4. Holds(queue, admitted[i]) => ~ReceiverDropped
      BY <3>3, EmptyHolds
    <3> QED
      BY <3>2, <3>4 DEF InQueue, Holds
  <2>2. \A c \in handled : outcome[c] \notin Refusals
    BY DEF IInv, HandledKept
  <2> QED
    BY <2>1, <2>2 DEF NoneLost
<1> QED
  BY <1>1, InitInv, StepInv, PTL DEF Spec
=============================================================================
