-------------------------- MODULE AgentWorker_proofs --------------------------
(***************************************************************************)
(* The way of a task through the worker loop, for any clients and any      *)
(* limits, as long as a response channel has room for two tokens: a        *)
(* completed request gives back the response of its task, the loop never   *)
(* waits for a client, and nothing is called for a run that is over.       *)
(*                                                                         *)
(* The invariant says what is in a channel: nothing until the graph ends,  *)
(* then at most [DONE], and last the response or an error, which the       *)
(* client has either read or will.  What a text begins with decides how a  *)
(* handler takes it, so that every text has to be thought of as a mark.    *)
(***************************************************************************)
EXTENDS AgentWorker, SequenceTheorems, TLAPS

\* A client's task is new, then once in the queue, then with the worker, then over; its
\* channel stays empty until the graph has ended.
Waits(c) == client[c] \in {"waiting", "gone"}

QueueInv ==
    /\ \A i, j \in 1 .. Len(queue) : queue[i] = queue[j] => i = j
    /\ \A i \in 1 .. Len(queue) : Waits(queue[i]) /\ queue[i] # running

\* Nothing has been given to c and nothing read.
Fresh(c) == c \in Sync => got[c] = "empty" /\ response[c] = "none"

\* t is what c's task comes to in the end.
Last(c, t) == t = "[ERROR]" \/ (c \in Sync => t = response[c])

WorkerInv ==
    /\ wpc = "idle" <=> running = NoClient
    /\ wpc # "idle" => Waits(running)
    /\ wpc = "run" => chan[running] = <<>> /\ Fresh(running)
    /\ wpc = "send" => /\ chan[running] \in {<<>>, <<"[DONE]">>}
                       /\ pending \in Text /\ Last(running, pending)
                       /\ running \in Sync => got[running] = "empty"

\* The last token is still in the channel.
Promised(c) ==
    /\ got[c] = "empty"
    /\ \E t \in Text : Last(c, t) /\ chan[c] \in {<<t>>, <<"[DONE]", t>>}

ClientInv(c) ==
    /\ client[c] = "new" => thread[c] = "none"
    /\ client[c] = "new" \/ Queued(c) => chan[c] = <<>> /\ Fresh(c)
    /\ c \in Sync /\ client[c] = "waiting" /\ Closed(c) =>
          (chan[c] = <<>> /\ Answered(c)) \/ Promised(c)
    /\ c \in Sync /\ client[c] = "done" => Answered(c)

Inv == TypeOK /\ QueueInv /\ WorkerInv /\ \A c \in Client : ClientInv(c)

\* No task is queued or running, and every channel is empty.
LEMMA Initially == Init => Inv
  <1> SUFFICES ASSUME Init PROVE Inv OBVIOUS
  <1>1. TypeOK BY CapAssumption, RunAssumption DEF Init, TypeOK, Text
  <1>2. QueueInv BY DEF Init, QueueInv
  <1>3. WorkerInv BY DEF Init, WorkerInv
  <1>4. \A c \in Client : ClientInv(c) BY DEF Init, ClientInv, Queued, Fresh
  <1> QED BY <1>1, <1>2, <1>3, <1>4 DEF Inv

-----------------------------------------------------------------------------
\* A handler gives up or is answered at once.
LEMMA LeaveStep ==
  ASSUME Inv, NEW c \in Client, Refuse(c) \/ FastPath(c) \/ Disconnect(c)
  PROVE  Inv'
  <1> USE DEF Inv
  <1>1. /\ client[c] \in {"new", "waiting"}
        /\ \/ client' = [client EXCEPT ![c] = "gone"]
           \/ client[c] = "new" /\ client' = [client EXCEPT ![c] = "done"]
           \/ client[c] = "new" /\ client' = [client EXCEPT ![c] = "failed"]
        /\ UNCHANGED <<queue, running, wpc, graphVars, pending, thread, tracked>>
    BY DEF Refuse, FastPath, Disconnect, Move
  <1>2. /\ chan' = chan \/ (client'[c] = "gone" /\ chan' = [chan EXCEPT ![c] = <<>>])
        /\ chan' \in [Client -> Seq(Text)]
    <2>1. CASE FastPath(c) \/ Refuse(c) BY <2>1 DEF Refuse, FastPath, TypeOK
    <2>2. CASE Disconnect(c) BY <2>2 DEF Disconnect, Move, TypeOK
    <2> QED BY <2>1, <2>2
  <1>3. /\ \A d \in Sync \ {c} : got'[d] = got[d] /\ response'[d] = response[d]
        /\ c \in Sync => \/ got'[c] = got[c] /\ response'[c] = response[c] /\ client'[c] # "done"
                         \/ got'[c] = response'[c] /\ client[c] = "new"
        /\ got' \in [Sync -> Text] /\ response' \in [Sync -> Text \cup {"none"}]
    <2>1. CASE FastPath(c) BY <2>1 DEF FastPath, TypeOK
    <2>2. CASE Refuse(c) \/ Disconnect(c)
      <3>1. got' = got /\ response' = response /\ client'[c] # "done"
        BY <2>2 DEF Refuse, Disconnect, Move, TypeOK
      <3>2. got \in [Sync -> Text] /\ response \in [Sync -> Text \cup {"none"}] BY DEF TypeOK
      <3> QED BY <3>1, <3>2
    <2> QED BY <2>1, <2>2
  <1>4. client' \in [Client -> {"new", "waiting", "done", "failed", "gone"}]
    BY <1>1 DEF TypeOK
  <1>5. TypeOK' BY <1>1, <1>2, <1>3, <1>4 DEF TypeOK, graphVars
  <1>6. client[c] = "new" => running # c /\ \A i \in 1 .. Len(queue) : queue[i] # c
    BY ClientAssumption DEF QueueInv, WorkerInv, Waits
  <1>7. \A d \in Client : Waits(d) /\ (d = c => client[c] # "new") => Waits(d)'
    BY <1>1 DEF Waits, TypeOK
  <1>8. QueueInv'
    <2>1. \A i \in 1 .. Len(queue) : queue[i] \in Client BY DEF TypeOK
    <2> QED BY <1>1, <1>6, <1>7, <2>1 DEF QueueInv
  <1>9. WorkerInv'
    <2>1. CASE running = c
      BY <1>1, <1>2, <1>3, <1>6, <1>7, <2>1, ClientAssumption
      DEF WorkerInv, Waits, Fresh, Last, TypeOK
    <2>2. CASE running # c
      <3>1. running \in Client => chan'[running] = chan[running]
        BY <1>2, <2>2 DEF TypeOK
      <3> QED
        BY <1>1, <1>3, <1>7, <2>2, <3>1, ClientAssumption DEF WorkerInv, Fresh, Last, TypeOK
    <2> QED BY <2>1, <2>2
  <1>10. ASSUME NEW d \in Client PROVE ClientInv(d)'
    <2>1. Queued(d)' <=> Queued(d) BY <1>1 DEF Queued
    <2>2. Closed(d)' <=> Closed(d) BY <1>1, <2>1 DEF Closed
    <2>3. CASE d = c
      <3>1. client[c] = "new" => ~Queued(c) BY <1>6 DEF Queued, TypeOK
      <3> QED BY <1>1, <1>2, <1>3, <2>1, <2>3, <3>1 DEF ClientInv, TypeOK, Fresh, Answered
    <2>4. CASE d # c
      <3>1. client'[d] = client[d] /\ chan'[d] = chan[d] /\ thread' = thread
        BY <1>1, <1>2, <2>4 DEF TypeOK
      <3>2. d \in Sync => got'[d] = got[d] /\ response'[d] = response[d] BY <1>3, <2>4
      <3> QED BY <2>1, <2>2, <3>1, <3>2 DEF ClientInv, Promised, Last, Answered, Fresh
    <2> QED BY <2>3, <2>4
  <1> QED BY <1>5, <1>8, <1>9, <1>10

\* A handler queues a task on a channel of its own.
LEMMA SubmitStep ==
  ASSUME Inv, NEW c \in Client, Submit(c)
  PROVE  Inv'
  <1> USE DEF Inv
  <1>1. /\ client[c] = "new" /\ Len(queue) < QueueCap
        /\ client' = [client EXCEPT ![c] = "waiting"] /\ queue' = Append(queue, c)
        /\ UNCHANGED <<got, running, wpc, graphVars, pending, thread, chan, tracked, response>>
    BY DEF Submit, Move
  <1>2. /\ queue' \in Seq(Client) /\ Len(queue') = Len(queue) + 1 /\ queue'[Len(queue) + 1] = c
        /\ \A i \in 1 .. Len(queue) : queue'[i] = queue[i]
        /\ Len(queue) \in Nat /\ DOMAIN queue = 1 .. Len(queue) /\ DOMAIN queue' = 1 .. Len(queue')
    BY <1>1, AppendProperties, LenProperties DEF TypeOK
  <1>3. TypeOK' BY <1>1, <1>2, CapAssumption DEF TypeOK, graphVars
  <1>4. c # running /\ \A i \in 1 .. Len(queue) : queue[i] # c
    BY <1>1, ClientAssumption DEF QueueInv, WorkerInv, Waits
  <1>5. QueueInv'
    <2>1. \A i \in 1 .. Len(queue') : i \in 1 .. Len(queue) \/ i = Len(queue) + 1 BY <1>2
    <2>2. \A i, j \in 1 .. Len(queue') : queue'[i] = queue'[j] => i = j
      BY <1>2, <1>4, <2>1 DEF QueueInv
    <2>3. client'[c] = "waiting" /\ \A d \in Client : d # c => client'[d] = client[d]
      BY <1>1 DEF TypeOK
    <2>4. \A i \in 1 .. Len(queue) : queue[i] \in Client BY DEF TypeOK
    <2>5. (\A i \in 1 .. Len(queue) : Waits(queue[i]) /\ queue[i] # running)'
      BY <1>1, <1>2, <1>4, <2>1, <2>3, <2>4 DEF QueueInv, Waits
    <2> QED BY <2>2, <2>5 DEF QueueInv
  <1>6. WorkerInv' BY <1>1, <1>4 DEF WorkerInv, Waits, TypeOK, Fresh, Last
  <1>7. ASSUME NEW d \in Client PROVE ClientInv(d)'
    <2>1. CASE d = c
      <3>1. Queued(d)'
        <4>1. Len(queue) + 1 \in DOMAIN queue' BY <1>2
        <4> QED BY <1>2, <2>1, <4>1 DEF Queued
      <3> QED BY <1>1, <2>1, <3>1 DEF ClientInv, Closed, TypeOK, Fresh
    <2>2. CASE d # c
      <3>1. Queued(d)' <=> Queued(d) BY <1>2, <2>2 DEF Queued
      <3> QED
        BY <1>1, <2>2, <3>1 DEF ClientInv, Closed, TypeOK, Promised, Last, Fresh, Answered
    <2> QED BY <2>1, <2>2
  <1> QED BY <1>3, <1>5, <1>6, <1>7

\* A client finds its channel empty and closed.
LEMMA EndStep ==
  ASSUME Inv, NEW c \in Client, EndOfChannel(c)
  PROVE  Inv'
  <1> USE DEF Inv, Closed, Queued, Last, Answered, Fresh, Move, graphVars
  <1>1. /\ client[c] = "waiting" /\ chan[c] = <<>> /\ Closed(c)
        /\ client' = [client EXCEPT ![c] = "done"]
        /\ UNCHANGED <<got, queue, running, wpc, graphVars, pending, thread, chan, tracked, response>>
    BY DEF EndOfChannel
  <1>2. TypeOK' BY <1>1 DEF TypeOK
  <1>3. QueueInv' BY <1>1 DEF QueueInv, Waits, TypeOK
  <1>4. WorkerInv' BY <1>1, ClientAssumption DEF WorkerInv, Waits, TypeOK
  <1>5. ASSUME NEW d \in Client PROVE ClientInv(d)'
    <2>1. CASE d = c
      <3>1. ~Promised(c) BY <1>1 DEF Promised
      <3>2. c \in Sync => Answered(c) BY <1>1, <3>1 DEF ClientInv
      <3> QED BY <1>1, <2>1, <3>2 DEF ClientInv, TypeOK
    <2>2. CASE d # c BY <1>1, <2>2 DEF ClientInv, TypeOK, Promised
    <2> QED BY <2>1, <2>2
  <1> QED BY <1>2, <1>3, <1>4, <1>5

\* A client takes the next token from its channel: [DONE] leaves what follows it, a
\* response is kept as far as its first characters allow.
LEMMA ReceiveStep ==
  ASSUME Inv, NEW c \in Client, Receive(c)
  PROVE  Inv'
  <1> USE DEF Inv
  <1>1. /\ client[c] = "waiting" /\ chan[c] # <<>>
        /\ Keep(c, Head(chan[c]))
        /\ chan' = [chan EXCEPT ![c] = IF client'[c] = "waiting" THEN Tail(chan[c]) ELSE <<>>]
        /\ UNCHANGED <<queue, running, wpc, graphVars, pending, thread, tracked, response>>
    BY DEF Receive
  <1>2. Head(chan[c]) \in Text /\ Tail(chan[c]) \in Seq(Text)
    BY <1>1, HeadTailProperties DEF TypeOK
  <1>3. /\ \/ client' = [client EXCEPT ![c] = "failed"] /\ c \in Sync
           \/ client' = client
        /\ \/ got' = got
           \/ c \in Sync /\ got' = [got EXCEPT ![c] = Head(chan[c])]
    BY <1>1 DEF Keep, Move, clientVars
  <1>4. TypeOK'
    <2>1. client' \in [Client -> {"new", "waiting", "done", "failed", "gone"}]
      BY <1>3 DEF TypeOK
    <2>2. got' \in [Sync -> Text] BY <1>2, <1>3 DEF TypeOK
    <2>3. chan' \in [Client -> Seq(Text)] BY <1>1, <1>2 DEF TypeOK
    <2> QED BY <1>1, <2>1, <2>2, <2>3 DEF TypeOK, graphVars
  <1>5. ~Queued(c) /\ (c = running => wpc = "send" /\ chan[c] = <<"[DONE]">>)
    <2>1. ~Queued(c) BY <1>1 DEF ClientInv
    <2>2. c = running => wpc = "send" /\ chan[c] = <<"[DONE]">>
      BY <1>1, ClientAssumption DEF WorkerInv, TypeOK
    <2> QED BY <2>1, <2>2
  <1>6. QueueInv' BY <1>1, <1>3, <1>5 DEF QueueInv, Waits, TypeOK, Queued
  <1>7. /\ chan'[c] = (IF client'[c] = "waiting" THEN Tail(chan[c]) ELSE <<>>)
        /\ \A d \in Client \ {c} : chan'[d] = chan[d] /\ client'[d] = client[d]
        /\ \A d \in Sync \ {c} : got'[d] = got[d]
    BY <1>1, <1>3 DEF TypeOK
  <1>8. ASSUME chan[c] = <<"[DONE]">>
        PROVE  client' = client /\ got' = got /\ chan'[c] = <<>>
    <2>1. Head(chan[c]) = "[DONE]" /\ Tail(chan[c]) = <<>> BY <1>8
    <2>2. client' = client /\ got' = got BY <1>1, <2>1 DEF Keep, clientVars
    <2> QED BY <1>1, <1>7, <2>1, <2>2
  <1>9. WorkerInv'
    <2>1. CASE running = c
      <3>1. wpc = "send" /\ Waits(c) /\ pending \in Text /\ Last(c, pending)
            /\ (c \in Sync => got[c] = "empty")
        BY <1>5, <2>1 DEF WorkerInv
      <3>2. client' = client /\ got' = got /\ chan'[c] = <<>> BY <1>5, <1>8, <2>1
      <3>3. wpc' = "send" /\ running' = c /\ pending' = pending /\ response' = response
        BY <1>1, <2>1, <3>1
      <3> QED BY <3>1, <3>2, <3>3, ClientAssumption DEF WorkerInv, Waits, Last
    <2>2. CASE running # c
      BY <1>1, <1>7, <2>2, ClientAssumption DEF WorkerInv, Waits, TypeOK, Fresh, Last
    <2> QED BY <2>1, <2>2
  <1>10. ASSUME c \in Sync, Closed(c)
         PROVE  client'[c] = "waiting" => (chan'[c] = <<>> /\ Answered(c)') \/ Promised(c)'
    <2>1. Promised(c) BY <1>1, <1>10 DEF ClientInv
    <2>2. PICK t \in Text : Last(c, t) /\ chan[c] \in {<<t>>, <<"[DONE]", t>>} /\ got[c] = "empty"
      BY <2>1 DEF Promised
    <2>3. response'[c] = response[c] BY <1>1
    <2>4. CASE chan[c] = <<"[DONE]", t>>
      <3>1. Head(chan[c]) = "[DONE]" /\ Tail(chan[c]) = <<t>> BY <2>4
      <3>2. client' = client /\ got' = got BY <1>1, <3>1 DEF Keep, clientVars
      <3>3. chan'[c] = <<t>> BY <1>1, <1>7, <3>1, <3>2
      <3> QED BY <2>2, <2>3, <3>2, <3>3 DEF Promised, Last
    <2>5. CASE chan[c] = <<t>>
      <3>1. Head(chan[c]) = t /\ Tail(chan[c]) = <<>> BY <2>5
      <3>2. CASE t = "[ERROR]"
        <4>1. client' = [client EXCEPT ![c] = "failed"] BY <1>1, <1>10, <3>1, <3>2 DEF Keep, Move
        <4> QED BY <4>1 DEF TypeOK
      <3>3. CASE t = "[DONE]"
        <4>1. client' = client /\ got' = got BY <1>1, <3>1, <3>3 DEF Keep, clientVars
        <4>2. response[c] = "[DONE]" BY <1>10, <2>2, <3>3 DEF Last
        <4> QED BY <1>1, <1>7, <2>2, <2>3, <3>1, <4>1, <4>2 DEF Answered
      <3>4. CASE t \notin {"[DONE]", "[ERROR]"}
        <4>1. client' = client /\ got' = [got EXCEPT ![c] = t]
          BY <1>1, <1>10, <3>1, <3>4 DEF Keep
        <4>2. got'[c] = t /\ response[c] = t BY <1>10, <2>2, <3>4, <4>1 DEF Last, TypeOK
        <4> QED BY <1>1, <1>7, <2>3, <3>1, <4>1, <4>2 DEF Answered
      <3> QED BY <3>2, <3>3, <3>4
    <2> QED BY <2>2, <2>4, <2>5
  <1>11. ASSUME NEW d \in Client PROVE ClientInv(d)'
    <2>1. CASE d = c
      <3>1. ~Queued(c)' /\ (Closed(c)' => Closed(c)) BY <1>1, <1>5 DEF Queued, Closed
      <3>2. client'[c] \in {"waiting", "failed"} BY <1>1, <1>3 DEF TypeOK
      <3> QED BY <1>10, <2>1, <3>1, <3>2 DEF ClientInv
    <2>2. CASE d # c
      BY <1>1, <1>7, <2>2 DEF ClientInv, Queued, Closed, Promised, Last, Answered, Fresh
    <2> QED BY <2>1, <2>2
  <1> QED BY <1>4, <1>6, <1>9, <1>11

\* The next task runs, on a channel that is still empty.
LEMMA PickUpStep ==
  ASSUME Inv, PickUp
  PROVE  Inv'
  <1> DEFINE c == Head(queue)
  <1> USE DEF Inv
  <1>1. /\ wpc = "idle" /\ queue # <<>>
        /\ running' = c /\ queue' = Tail(queue) /\ wpc' = "run"
        /\ node' = "reason" /\ steps' = 0 /\ last' \in Text
        /\ tracked' = tracked \cup {c}
        /\ UNCHANGED <<client, got, pending, thread, chan, response>>
    BY DEF PickUp, clientVars
  <1>2. /\ queue' \in Seq(Client) /\ Len(queue') = Len(queue) - 1 /\ c \in Client
        /\ Len(queue) \in Nat \ {0} /\ c = queue[1]
        /\ \A i \in 1 .. Len(queue') : queue'[i] = queue[i + 1]
        /\ DOMAIN queue = 1 .. Len(queue) /\ DOMAIN queue' = 1 .. Len(queue')
    BY <1>1, HeadTailProperties, LenProperties, EmptySeq DEF TypeOK
  <1> HIDE DEF c
  <1>3. TypeOK' BY <1>1, <1>2, CapAssumption, RunAssumption DEF TypeOK
  <1>4. Waits(c) /\ Queued(c) /\ c # NoClient
    BY <1>2, ClientAssumption DEF QueueInv, Queued
  <1>5. chan[c] = <<>> /\ Fresh(c) BY <1>2, <1>4 DEF ClientInv
  <1>6. QueueInv' BY <1>1, <1>2 DEF QueueInv, Waits
  <1>7. WorkerInv' BY <1>1, <1>4, <1>5 DEF WorkerInv, Waits, Fresh
  <1>8. ASSUME NEW d \in Client PROVE ClientInv(d)'
    <2>1. Queued(d) <=> Queued(d)' \/ d = c
      <3>1. ASSUME Queued(d) PROVE Queued(d)' \/ d = c
        <4>1. PICK i \in 1 .. Len(queue) : queue[i] = d BY <1>2, <3>1 DEF Queued
        <4>2. CASE i = 1 BY <1>2, <4>1, <4>2
        <4>3. CASE i # 1
          <5>1. i - 1 \in 1 .. Len(queue') /\ queue'[i - 1] = queue[(i - 1) + 1]
            BY <1>2, <4>1, <4>3
          <5> QED BY <1>2, <4>1, <5>1 DEF Queued
        <4> QED BY <4>2, <4>3
      <3>2. ASSUME Queued(d)' PROVE Queued(d)
        <4>1. PICK i \in 1 .. Len(queue') : queue'[i] = d BY <1>2, <3>2 DEF Queued
        <4>2. i + 1 \in 1 .. Len(queue) /\ queue[i + 1] = d BY <1>2, <4>1
        <4> QED BY <1>2, <4>2 DEF Queued
      <3> QED BY <1>4, <3>1, <3>2
    <2>2. running # d
      BY <1>1, ClientAssumption DEF WorkerInv
    <2>3. Closed(d)' => Closed(d) BY <1>1, <2>1, <2>2 DEF Closed
    <2> QED BY <1>1, <2>1, <2>3 DEF ClientInv, Promised, Last, Answered, Fresh
  <1> QED BY <1>3, <1>6, <1>7, <1>8

\* The steps of a run, and of the Python calls.
LEMMA CallStep ==
  ASSUME Inv, \/ CallNode \/ ReasonReturns \/ ActionReturns
              \/ \E c \in Client : BeginCall(c) \/ OrphanReturns(c)
  PROVE  Inv'
  <1> USE DEF Inv
  <1>1. /\ \E c \in Client \cup {NoClient} : \E v \in {"none", "queued", "busy"} :
              /\ thread' = [thread EXCEPT ![c] = v]
              /\ c # NoClient => v = "none" \/ client[c] # "new"
        /\ UNCHANGED <<clientVars, queue, running, wpc, pending, chan, tracked, response>>
    BY ClientAssumption
    DEF CallNode, ReasonReturns, ActionReturns, BeginCall, OrphanReturns, TypeOK, WorkerInv, Waits,
        ClientInv
  <1>2. node' \in {"none", "reason", "action", "end"} /\ steps' \in 0 .. MaxSteps /\ last' \in Text
    <2> USE RunAssumption DEF TypeOK
    <2>1. CASE CallNode BY <2>1 DEF CallNode
    <2>2. CASE ReasonReturns BY <2>2 DEF ReasonReturns
    <2>3. CASE ActionReturns BY <2>3 DEF ActionReturns
    <2>4. CASE \E c \in Client : BeginCall(c) \/ OrphanReturns(c)
      BY <2>4 DEF BeginCall, OrphanReturns, graphVars
    <2> QED BY <2>1, <2>2, <2>3, <2>4
  <1>3. TypeOK' BY <1>1, <1>2 DEF TypeOK, clientVars
  <1>4. QueueInv' /\ WorkerInv' BY <1>1 DEF QueueInv, WorkerInv, Waits, Fresh, Last, clientVars
  <1>5. \A c \in Client : ClientInv(c)'
    BY <1>1, ClientAssumption
    DEF ClientInv, Queued, Closed, Promised, Last, Answered, Fresh, clientVars, TypeOK
  <1> QED BY <1>3, <1>4, <1>5

\* A run is over by the clock, or since a node failed.
LEMMA RunOverStep ==
  ASSUME Inv, CallFails \/ Timeout
  PROVE  Inv'
  <1> USE DEF Inv
  <1>1. /\ wpc = "run" /\ wpc' = "send" /\ pending' = "[ERROR]"
        /\ \/ thread' = thread
           \/ thread' = [thread EXCEPT ![running] = "none"]
        /\ UNCHANGED <<clientVars, queue, running, graphVars, chan, tracked, response>>
    BY DEF CallFails, Timeout
  <1>2. TypeOK' BY <1>1 DEF TypeOK, clientVars, graphVars, Text
  <1>3. QueueInv' BY <1>1 DEF QueueInv, Waits, clientVars
  <1>4. WorkerInv' BY <1>1 DEF WorkerInv, Waits, Fresh, Last, Text, clientVars
  <1>5. \A c \in Client : ClientInv(c)'
    BY <1>1 DEF ClientInv, Queued, Closed, Promised, Last, Answered, Fresh, clientVars, TypeOK
  <1> QED BY <1>2, <1>3, <1>4, <1>5

\* A graph ends: the last message is its content, or there is an error to send.
LEMMA GraphEndsStep ==
  ASSUME Inv, GraphEnds
  PROVE  Inv'
  <1> USE DEF Inv
  <1>1. /\ wpc = "run" /\ wpc' = "send" /\ pending' = last
        /\ chan' = [chan EXCEPT ![running] =
                       IF client[running] = "waiting" THEN Append(@, "[DONE]") ELSE @]
        /\ response' = [c \in Sync |-> IF c = running THEN last ELSE response[c]]
        /\ UNCHANGED <<clientVars, queue, running, graphVars, thread, tracked>>
    BY DEF GraphEnds, SendTo
  <1>2. running \in Client /\ Waits(running) /\ chan[running] = <<>>
    BY <1>1, ClientAssumption DEF WorkerInv, TypeOK
  <1>3. /\ chan'[running] \in Seq(Text) /\ chan'[running] \in {<<>>, <<"[DONE]">>}
        /\ \A c \in Client \ {running} : chan'[c] = chan[c]
        /\ chan' = [c \in Client |-> chan'[c]]
    <2>1. "[DONE]" \in Text BY DEF Text
    <2>2. Append(<<>>, "[DONE]") = <<"[DONE]">> OBVIOUS
    <2>3. chan'[running] \in {<<>>, <<"[DONE]">>} BY <1>1, <1>2, <2>2 DEF TypeOK
    <2>4. <<>> \in Seq(Text) /\ <<"[DONE]">> \in Seq(Text) BY <2>1
    <2> QED BY <1>1, <1>2, <2>3, <2>4 DEF TypeOK
  <1>4. TypeOK' BY <1>1, <1>3 DEF TypeOK, clientVars, graphVars
  <1>5. QueueInv' BY <1>1 DEF QueueInv, Waits, clientVars
  <1>6. WorkerInv' BY <1>1, <1>2, <1>3 DEF WorkerInv, Waits, Fresh, Last, clientVars, TypeOK
  <1>7. ASSUME NEW c \in Client PROVE ClientInv(c)'
    <2>1. CASE c = running
      <3>1. ~Queued(c) BY <1>2, <2>1 DEF QueueInv, Queued, TypeOK
      <3> QED BY <1>1, <1>2, <2>1, <3>1 DEF ClientInv, Queued, Closed, Waits, clientVars
    <2>2. CASE c # running
      BY <1>1, <1>3, <2>2
      DEF ClientInv, Queued, Closed, Promised, Last, Answered, Fresh, clientVars
    <2> QED BY <2>1, <2>2
  <1> QED BY <1>4, <1>5, <1>6, <1>7

\* A token is put behind another.
LEMMA AppendToOne ==
  ASSUME NEW S, NEW a \in S, NEW b \in S PROVE Append(<<a>>, b) = <<a, b>>
  <1> DEFINE u == Append(<<a>>, b)
  <1>1. /\ <<a>> \in Seq(S) /\ <<a, b>> \in Seq(S) /\ Len(<<a>>) = 1 /\ Len(<<a, b>>) = 2
        /\ <<a>>[1] = a /\ <<a, b>>[1] = a /\ <<a, b>>[2] = b
    OBVIOUS
  <1>2. u \in Seq(S) /\ Len(u) = 2 /\ u[1] = a /\ u[2] = b
    BY <1>1, AppendProperties
  <1> HIDE DEF u
  <1>3. \A i \in 1 .. Len(u) : u[i] = <<a, b>>[i]
    BY <1>1, <1>2
  <1>4. u = <<a, b>>
    BY <1>1, <1>2, <1>3, SeqEqual
  <1> QED BY <1>4 DEF u

\* The worker sends what is left to send, for which there is room.
LEMMA SendFinalStep ==
  ASSUME Inv, SendFinal
  PROVE  Inv'
  <1> DEFINE c == running
             s == chan[running]
  <1> USE DEF Inv
  <1>1. /\ wpc = "send" /\ wpc' = "idle" /\ running' = NoClient /\ pending' = "none"
        /\ chan' = [chan EXCEPT ![c] =
                       IF client[c] = "waiting" THEN Append(s, pending) ELSE s]
        /\ node' = "none" /\ steps' = 0 /\ last' = "text" /\ tracked' = tracked \ {running}
        /\ UNCHANGED <<client, got, queue, thread, response>>
    BY DEF SendFinal, SendTo, clientVars, Untracked
  <1>2. /\ c \in Client /\ Waits(c) /\ pending \in Text /\ Last(c, pending)
        /\ s \in {<<>>, <<"[DONE]">>} /\ (c \in Sync => got[c] = "empty")
    BY <1>1, ClientAssumption DEF WorkerInv, TypeOK
  <1>3. s \in Seq(Text) BY <1>2 DEF TypeOK
  <1> HIDE DEF c, s
  <1>4. /\ Append(s, pending) \in Seq(Text)
        /\ Append(s, pending) \in {<<pending>>, <<"[DONE]", pending>>}
    <2>1. Append(s, pending) \in Seq(Text) BY <1>2, <1>3, AppendProperties
    <2>2. CASE s = <<>> BY <1>2, <2>1, <2>2
    <2>3. CASE s = <<"[DONE]">>
      <3>1. "[DONE]" \in Text BY DEF Text
      <3>2. Append(s, pending) = <<"[DONE]", pending>> BY <1>2, <2>3, <3>1, AppendToOne
      <3> QED BY <2>1, <3>2
    <2> QED BY <1>2, <2>2, <2>3
  <1>5. /\ chan'[c] = IF client[c] = "waiting" THEN Append(s, pending) ELSE s
        /\ \A d \in Client \ {c} : chan'[d] = chan[d]
        /\ chan' \in [Client -> Seq(Text)]
    BY <1>1, <1>2, <1>3, <1>4 DEF TypeOK
  <1>6. TypeOK' BY <1>1, <1>5, RunAssumption DEF TypeOK, Text
  <1>7. \A i \in 1 .. Len(queue) : queue[i] \in Client BY DEF TypeOK
  <1>8. QueueInv' BY <1>1, <1>7, ClientAssumption DEF QueueInv, Waits
  <1>9. WorkerInv' BY <1>1 DEF WorkerInv
  <1>10. ASSUME NEW d \in Client PROVE ClientInv(d)'
    <2>1. CASE d = c
      <3>1. ~Queued(d) BY <1>2, <2>1 DEF QueueInv, Queued, TypeOK, c
      <3>2. d \in Sync /\ client[d] = "waiting" => Promised(d)'
        BY <1>1, <1>2, <1>4, <1>5, <2>1 DEF Promised, Last
      <3> QED BY <1>1, <1>2, <2>1, <3>1, <3>2 DEF ClientInv, Queued, Waits
    <2>2. CASE d # c
      BY <1>1, <1>5, <2>2
      DEF ClientInv, Queued, Closed, Promised, Last, Answered, Fresh, c
    <2> QED BY <2>1, <2>2
  <1> QED BY <1>6, <1>8, <1>9, <1>10

\* Every step is one of a client, of a Python call or of the worker loop.
LEMMA Step == Inv /\ [Next]_vars => Inv'
  <1> SUFFICES ASSUME Inv, [Next]_vars PROVE Inv' OBVIOUS
  <1>1. CASE UNCHANGED vars
    BY <1>1
    DEF vars, clientVars, graphVars, Inv, TypeOK, QueueInv, WorkerInv, ClientInv, Waits, Queued,
        Closed, Promised, Last, Answered, Fresh
  <1>2. CASE Worker
    BY <1>2, PickUpStep, CallStep, RunOverStep, GraphEndsStep, SendFinalStep DEF Worker
  <1>3. ASSUME NEW c \in Client, Handler(c) PROVE Inv'
    BY <1>3, LeaveStep, SubmitStep, ReceiveStep, EndStep DEF Handler
  <1>4. ASSUME NEW c \in Client, BeginCall(c) \/ OrphanReturns(c) PROVE Inv'
    BY <1>4, CallStep
  <1> QED BY <1>1, <1>2, <1>3, <1>4 DEF Next

\* The invariant holds in every state.
LEMMA Invariant == Spec => []Inv
  BY Initially, Step, PTL DEF Spec

-----------------------------------------------------------------------------
\* The types of the worker's state; the queue never holds more than its capacity
\* (scheduler.rs:24-63).
THEOREM TypesHold == Spec => []TypeOK
  <1>1. Inv => TypeOK BY DEF Inv
  <1> QED BY <1>1, Invariant, PTL

\* What run_agent reports as completed is the response of the task's graph, or of the
\* fast path, whichever part of the run failed, timed out or was slow; only a response
\* that begins with [DONE] is given back as an empty one (handlers.rs:60-82,
\* task_loop.rs:42-73, graph_runner.rs:155-170).
THEOREM CompletedTasksGiveTheResponse == Spec => []CompletedIsResponse
  <1>1. Inv => CompletedIsResponse
    <2> SUFFICES ASSUME Inv, NEW c \in Sync, client[c] = "done" PROVE Answered(c)
      BY DEF CompletedIsResponse
    <2>1. c \in Client BY DEF Client
    <2> QED BY <2>1 DEF Inv, ClientInv
  <1> QED BY <1>1, Invariant, PTL

\* The worker loop never waits for a client: what it sends last always finds room, since a
\* channel has room for two tokens (task_loop.rs:42-73, scheduler.rs:46).
THEOREM WorkerNeverWaits == Spec => []NoHeadOfLine
  <1>1. Inv => NoHeadOfLine
    <2> SUFFICES ASSUME Inv, wpc = "send" PROVE CanSend(running) BY DEF NoHeadOfLine
    <2>1. Len(chan[running]) \in {0, 1} BY DEF Inv, WorkerInv
    <2>2. 0 < ChanCap /\ 1 < ChanCap BY CapAssumption
    <2>3. Len(chan[running]) < ChanCap BY <2>1, <2>2
    <2> QED BY <2>3 DEF CanSend
  <1> QED BY <1>1, Invariant, PTL

\* No node is called for a run that has failed or timed out (task_loop.rs:42-69, graph.rs:84-116).
THEOREM NothingIsCalledLate == Spec => NothingAfterTimeout
  <1> DEFINE Begun(c) == thread[c] = "none" /\ thread'[c] # "none"
             Ok(c)    == running = c /\ wpc = "run" /\ client[c] \notin {"done", "failed"}
  <1>1. Inv /\ [Next]_vars => [\A c \in Client : Begun(c) => Ok(c)]_vars
    <2> SUFFICES ASSUME Inv, Next, NEW c \in Client, Begun(c) PROVE Ok(c)
      OBVIOUS
    <2>1. CASE CallNode
      <3>1. running = c BY <2>1 DEF CallNode, Inv, TypeOK
      <3>2. Waits(c) BY <2>1, <3>1 DEF CallNode, Inv, WorkerInv
      <3> QED BY <2>1, <3>1, <3>2 DEF CallNode, Waits
    <2>2. ASSUME NEW d \in Client, BeginCall(d) PROVE FALSE
      BY <2>2 DEF BeginCall, Inv, TypeOK
    <2>3. ASSUME \/ ReasonReturns \/ ActionReturns \/ CallFails
                 \/ \E d \in Client : OrphanReturns(d)
          PROVE  FALSE
      BY <2>3 DEF ReasonReturns, ActionReturns, CallFails, OrphanReturns, Inv, TypeOK
    <2>4. ASSUME thread' = thread PROVE FALSE BY <2>4
    <2>5. ASSUME PickUp \/ GraphEnds \/ Timeout \/ SendFinal PROVE thread' = thread
      BY <2>5 DEF PickUp, GraphEnds, Timeout, SendFinal
    <2>6. ASSUME NEW d \in Client, Handler(d) PROVE thread' = thread
      BY <2>6 DEF Handler, Refuse, FastPath, Submit, Disconnect, Receive, EndOfChannel
    <2> QED BY <2>1, <2>2, <2>3, <2>4, <2>5, <2>6 DEF Next, Worker
  <1> QED BY <1>1, Invariant, PTL DEF Spec, NothingAfterTimeout

==============================================================================
