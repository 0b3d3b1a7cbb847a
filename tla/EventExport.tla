------------------------------ MODULE EventExport ------------------------------
(***************************************************************************)
(* Event export (conduit-events/src): the hub that listener workers hand   *)
(* dnstap events to, its bounded queue and its thread per sink, and the    *)
(* collectors at the far end.                                              *)
(*                                                                         *)
(* The hub is built once, from the configuration the dataplane starts      *)
(* with; a reload changes only the settings emissions are filtered by.     *)
(* Every channel operation is one step, so producers, the sink thread and  *)
(* the producers' own evictions interleave as they do in the program.      *)
(* Connect, handshake and write block while a collector is stuck: the code *)
(* sets no timeout on them.                                                *)
(***************************************************************************)
EXTENDS PolicyRules

-----------------------------------------------------------------------------
(***************************************************************************)
(* The Frame Streams framing and handshake of the dnstap transport         *)
(* (conduit-events/src/fstrm.rs), client and server side.                  *)
(*                                                                         *)
(* A stream is a sequence of bytes.  A read takes a stream and gives       *)
(* [ok, got, rest]; a stream that ends early is an error, as read_exact's  *)
(* is.  Lengths here fit one byte, so the other three of a big-endian u32  *)
(* are zero.                                                               *)
(***************************************************************************)

Accept == 1
Start == 2
Stop == 3
Ready == 4
ContentTypeField == 1
ControlFrameLengthMax == 512

Bad == [ok |-> FALSE, got |-> <<>>, rest |-> <<>>]

U32(n) == <<0, 0, 0, n>>
IsU32(s) == Len(s) >= 4 /\ SubSeq(s, 1, 3) = <<0, 0, 0>>

Take(s, n) == IF Len(s) < n THEN Bad
              ELSE [ok |-> TRUE, got |-> SubSeq(s, 1, n), rest |-> SubSeq(s, n + 1, Len(s))]
ReadU32(s) == IF IsU32(s) THEN [ok |-> TRUE, got |-> s[4], rest |-> SubSeq(s, 5, Len(s))]
              ELSE Bad

(* A control frame is escaped by an empty data frame; STOP has no type.    *)
WriteControlFrame(type, ct) ==
    LET body == U32(type) \o (IF ct = <<>> THEN <<>>
                              ELSE U32(ContentTypeField) \o U32(Len(ct)) \o ct)
    IN  U32(0) \o U32(Len(body)) \o body

WriteDataFrame(payload) == U32(Len(payload)) \o payload

(* The fields after the frame type: each is a content type with its        *)
(* length, and they fill the body to the last byte.                        *)
ParseControlBody(body) ==
    LET fields[s \in {SubSeq(body, k, Len(body)) : k \in 5..Len(body) + 1}] ==
            IF Len(s) < 8 THEN IF s = <<>> THEN [ok |-> TRUE, got |-> <<>>, rest |-> <<>>]
                               ELSE Bad
            ELSE IF s[4] # ContentTypeField THEN Bad
            ELSE LET ct == Take(SubSeq(s, 9, Len(s)), s[8])
                 IN  IF ~ct.ok THEN Bad
                     ELSE [fields[ct.rest] EXCEPT !.got = <<ct.got>> \o @]
        cts == fields[SubSeq(body, 5, Len(body))]
    IN  [ok |-> cts.ok, type |-> body[4], cts |-> cts.got]

NoFrame == [ok |-> FALSE, type |-> 0, cts |-> <<>>, rest |-> <<>>]

AfterDataLength(s) ==
    LET n == ReadU32(s)
        body == Take(n.rest, n.got)
        frame == ParseControlBody(body.got)
    IN  IF ~n.ok \/ n.got \notin 4..ControlFrameLengthMax \/ ~body.ok THEN NoFrame
        ELSE [ok |-> frame.ok, type |-> frame.type, cts |-> frame.cts, rest |-> body.rest]

ReadControlFrame(s) ==
    LET n == ReadU32(s)
    IN  IF ~n.ok \/ n.got # 0 THEN NoFrame ELSE AfterDataLength(n.rest)

(* The next frame after the handshake: "data", "stop" or an error.         *)
ReadFrame(s) ==
    LET n == ReadU32(s)
        data == Take(n.rest, n.got)
        control == AfterDataLength(n.rest)
    IN  CASE ~n.ok -> [kind |-> "error", got |-> <<>>, rest |-> <<>>]
          [] n.ok /\ n.got > 0 -> [kind |-> IF data.ok THEN "data" ELSE "error",
                                    got |-> data.got, rest |-> data.rest]
          [] OTHER -> [kind |-> IF control.ok /\ control.type = Stop THEN "stop"
                                ELSE "error",
                       got |-> <<>>, rest |-> control.rest]

MatchesContentType(frame, ct) == frame.cts = <<>> \/ ct \in ToSet(frame.cts)

Expect(s, type, ct) ==
    LET f == ReadControlFrame(s)
    IN  [ok |-> f.ok /\ f.type = type /\ MatchesContentType(f, ct), rest |-> f.rest]

(* connect_bidirectional, with what the collector sends back: READY is     *)
(* out before the answer is read, START only after a good ACCEPT.          *)
ConnectBidirectional(reply, ct) ==
    LET accepted == Expect(reply, Accept, ct)
    IN  [ok |-> accepted.ok,
         sent |-> WriteControlFrame(Ready, ct)
                  \o (IF accepted.ok THEN WriteControlFrame(Start, ct) ELSE <<>>)]

(* accept_bidirectional, with what the client has sent; ACCEPT goes out    *)
(* between the two reads.                                                  *)
AcceptBidirectional(incoming, ct) ==
    LET ready == Expect(incoming, Ready, ct)
        start == Expect(ready.rest, Start, ct)
    IN  [ok |-> ready.ok /\ start.ok,
         sent |-> IF ready.ok THEN WriteControlFrame(Accept, ct) ELSE <<>>,
         rest |-> start.rest]

-----------------------------------------------------------------------------
CONSTANTS
    Profile,        \* transaction -> what rules and routing make of it
    Reply,          \* collector -> the bytes it answers a READY with
    ContentType,    \* the bytes of protobuf:dnstap.Dnstap
    Scenes,         \* [booted, reloads, policy, txns]: what a behaviour starts from
    QueueDepth,     \* events a sink's queue holds (8192 in the code)
    MaxFaults       \* collector outages, encode failures and reloads

Txns == DOMAIN Profile
Collectors == DOMAIN Reply
Kinds == <<"query", "response", "retry">>
Rank(kind) == CHOOSE r \in DOMAIN Kinds : Kinds[r] = kind

VARIABLES
    scene,          \* the scene of this behaviour
    snap,           \* the event settings of the installed snapshot
    pin,            \* transaction -> the settings of the snapshot it runs on
    at,             \* transaction -> [stage, sink, step]
    queue,          \* sink -> its channel
    meter,          \* sink -> its SinkMetrics: [queue_dropped, connected]
    thread,         \* sink -> its thread: [pc, writers, hand, next]
    broken,         \* connections, <<sink, collector>>, whose far end is gone
    status,         \* collector -> "up", "down" or "stuck"
    flag,           \* sink_shutdown
    hub,            \* "open", "joining", "stopped" or "shared"
    faults,         \* outages, encode failures and reloads so far
    lost,           \* history: events each sink's queue has thrown away
    last            \* history: <<sink, collector, transaction>> -> rank written last

vars == <<scene, snap, pin, at, queue, meter, thread, broken, status,
          flag, hub, faults, lost, last>>
sinkSide == <<thread, broken, last>>
producerSide == <<pin, at, lost>>
world == <<status, faults, snap>>

Sinks == DOMAIN scene.booted
Dests(i) == scene.booted[i].dests

-----------------------------------------------------------------------------
(* What an event carries and who gets it.                                  *)

(* txn_view: pool and backend are known once a route was taken.            *)
View(t, kind) ==
    IF kind = "query" THEN [Profile[t] EXCEPT !.pool = None, !.backend = None]
    ELSE Profile[t]

(* build_tags_json: the keys of the tags object, in order.  A key that is  *)
(* both a flag and a string is listed twice unless keys are chosen.        *)
BuildTags(tags, mode) ==
    IF mode.all THEN SetToSeq(tags.flags) \o SetToSeq(tags.strings)
    ELSE SelectSeq(mode.keys, LAMBDA k : HasTag(tags, k))

(* build_extra_json: fields with no value are left out, and tags when no   *)
(* tag is exported.                                                        *)
BuildExtra(sink, v) ==
    LET Present(f) ==
            CASE f \in {"pool", "backend", "qname", "rcode", "answer_source",
                        "cache_instance"} -> v[f] # None
              [] f = "tags" -> BuildTags(v.tags, sink.tagMode) # <<>>
              [] OTHER -> TRUE
    IN  SelectSeq(sink.extra, Present)

EmitAllowed(sink, kind) == kind \in sink.emit

(* sink_event_matches: routing filters say nothing about a query event.    *)
SinkEventMatches(f, kind, v) ==
    /\ f.tag = None \/ HasTag(v.tags, f.tag)
    /\ \A i \in DOMAIN f.selectors : MatchesCtx(f.selectors[i], v)
    /\ kind # "query" => /\ f.pool \in {None, v.pool}
                         /\ f.backend \in {None, v.backend}
    /\ HashSampleKeyed(v.id, f.percent, f.key)

(* try_enqueue_query, _response and _retry: is there an event at all?      *)
HasEvent(t, kind) ==
    CASE kind = "query" -> Profile[t].qname # None
      [] kind = "response" -> Profile[t].answered
      [] kind = "retry" -> Profile[t].attempts > 1

(* compiled.sinks.get(idx): the settings sink i is filtered by are those   *)
(* at its position in the transaction's snapshot cfg, if there are any.    *)
Instance(cfg, i) == IF i \in DOMAIN cfg THEN <<cfg[i]>> ELSE <<>>

Wanted(cfg, t, i, kind) ==
    \A sink \in {Instance(cfg, i)} :
        /\ sink # <<>>
        /\ EmitAllowed(sink[1], kind)
        /\ SinkEventMatches(sink[1].filters, kind, View(t, kind))

Event(cfg, t, i, kind) ==
    LET sink == Instance(cfg, i)[1]
    IN  [kind |-> kind, txn |-> t, sink |-> sink.name,
         extra |-> BuildExtra(sink, View(t, kind))]

-----------------------------------------------------------------------------
(* Producers.  A transaction emits its query event after the request       *)
(* rules, and its response and retry events in Send; it may be resumed on  *)
(* a newer snapshot in between (the split_io runtime loads it again).      *)

(* try_enqueue_kind: the first sink after i that wants the event; 0 when   *)
(* the loop is over.                                                       *)
NextSink(cfg, t, i, kind) ==
    LET S == {j \in Sinks : j > i /\ HasEvent(t, kind) /\ Wanted(cfg, t, j, kind)}
    IN  IF S = {} THEN 0 ELSE CHOOSE j \in S : \A k \in S : j <= k

Emitting(kind, i) == [stage |-> kind, sink |-> i, step |-> "send"]

(* emit_response is followed by emit_retry.                                *)
EmitRetry(cfg, t, i) ==
    LET j == NextSink(cfg, t, i, "retry")
    IN  IF j > 0 THEN Emitting("retry", j) ELSE Emitting("done", 0)
EmitResponse(cfg, t, i) ==
    LET j == NextSink(cfg, t, i, "response")
    IN  IF j > 0 THEN Emitting("response", j) ELSE EmitRetry(cfg, t, 0)
EmitQuery(cfg, t, i) ==
    LET j == NextSink(cfg, t, i, "query")
    IN  IF j > 0 THEN Emitting("query", j) ELSE Emitting("forward", 0)

(* Where t goes once the call for its sink has returned.                   *)
Returned(t) ==
    CASE at[t].stage = "query" -> EmitQuery(pin[t], t, at[t].sink)
      [] at[t].stage = "response" -> EmitResponse(pin[t], t, at[t].sink)
      [] at[t].stage = "retry" -> EmitRetry(pin[t], t, at[t].sink)

Begin(t) ==
    /\ at[t].stage = "idle"
    /\ t \in scene.txns /\ hub = "open"
    /\ pin' = [pin EXCEPT ![t] = snap]
    /\ at' = [at EXCEPT ![t] = EmitQuery(snap, t, 0)]
    /\ UNCHANGED <<scene, queue, meter, flag, hub, lost, sinkSide, world>>

Resume(t) ==
    /\ at[t].stage = "forward"
    /\ \E cfg \in {pin[t], snap} :
          /\ pin' = [pin EXCEPT ![t] = cfg]
          /\ at' = [at EXCEPT ![t] = EmitResponse(cfg, t, 0)]
    /\ UNCHANGED <<scene, queue, meter, flag, hub, lost, sinkSide, world>>

CountDropped(i) == meter' = [meter EXCEPT ![i].queue_dropped = @ + 1]
Lose(i) == lost' = [lost EXCEPT ![i] = @ + 1]
Put(t, i) == queue' = [queue EXCEPT ![i] = Append(@, Event(pin[t], t, i, at[t].stage))]
Return(t) == at' = [at EXCEPT ![t] = Returned(t)]
Room(i) == Len(queue[i]) < QueueDepth

InCall(t, step) == /\ at[t].stage \in ToSet(Kinds)
                   /\ at[t].step = step
                   /\ UNCHANGED <<scene, pin, flag, hub, sinkSide, world>>

(* SinkQueue::try_enqueue.  The hub keeps a receiver of every channel, so  *)
(* the channel is never disconnected under a producer.                     *)
TrySend(t) ==
    LET i == at[t].sink
    IN  /\ InCall(t, "send")
        /\ IF Room(i) THEN Put(t, i) /\ Return(t) /\ UNCHANGED <<lost, meter>>
           ELSE IF scene.policy = "drop_newest"
                THEN CountDropped(i) /\ Lose(i) /\ Return(t) /\ UNCHANGED queue
                ELSE /\ at' = [at EXCEPT ![t].step = "evict"]
                     /\ UNCHANGED <<queue, meter, lost>>

(* The oldest event goes, unless the sink took it meanwhile.               *)
Evict(t) ==
    LET i == at[t].sink
    IN  /\ InCall(t, "evict")
        /\ at' = [at EXCEPT ![t].step = "resend"]
        /\ IF queue[i] = <<>> THEN UNCHANGED <<queue, lost>>
           ELSE queue' = [queue EXCEPT ![i] = Tail(@)] /\ Lose(i)
        /\ UNCHANGED meter

(* Another producer may have taken the room; either way one is counted.    *)
Resend_Accepted(t) ==
    LET i == at[t].sink
    IN  /\ InCall(t, "resend")
        /\ IF Room(i) THEN Put(t, i) /\ UNCHANGED <<lost, meter>>
           ELSE Lose(i) /\ CountDropped(i) /\ UNCHANGED queue
        /\ Return(t)
Resend(t) ==
    LET i == at[t].sink
    IN  /\ InCall(t, "resend")
        /\ IF Room(i) THEN Put(t, i) /\ UNCHANGED lost ELSE Lose(i) /\ UNCHANGED queue
        /\ CountDropped(i)
        /\ Return(t)

-----------------------------------------------------------------------------
(* The thread of sink i, DnstapSink::run_inner.                            *)

Thread(i, pc) == /\ thread[i].pc = pc
                 /\ UNCHANGED <<scene, producerSide, status, snap, flag, hub>>
Connected(i, up) == meter' = [meter EXCEPT ![i].connected = up]
Goto(i, pc) == thread' = [thread EXCEPT ![i].pc = pc]

(* The top of the loop.                                                    *)
Top(i) ==
    /\ Thread(i, "top")
    /\ IF flag THEN Goto(i, "finish") /\ UNCHANGED meter
       ELSE IF thread[i].writers = <<>>
            THEN /\ Connected(i, FALSE)
                 /\ thread' = [thread EXCEPT ![i].pc = "connect", ![i].next = 1]
            ELSE Goto(i, "recv") /\ UNCHANGED meter
    /\ UNCHANGED <<queue, broken, last, faults>>

(* connect_one: the connection and the handshake.                          *)
ConnectOne(c) == status[c] = "up" /\ ConnectBidirectional(Reply[c], ContentType).ok

(* connect_all, one destination at a time; the last one decides.           *)
Connect(i) ==
    LET k == thread[i].next
        c == Dests(i)[k]
        writers == IF ConnectOne(c) THEN Append(thread[i].writers, c) ELSE thread[i].writers
    IN  /\ Thread(i, "connect")
        /\ status[c] # "stuck"
        /\ broken' = IF ConnectOne(c) THEN broken \ {<<i, c>>} ELSE broken
        /\ IF k < Len(Dests(i))
           THEN /\ thread' = [thread EXCEPT ![i].writers = writers, ![i].next = k + 1]
                /\ UNCHANGED meter
           ELSE /\ thread' = [thread EXCEPT ![i].writers = writers,
                                 ![i].pc = IF writers = <<>> THEN "sleep" ELSE "recv"]
                /\ IF writers = <<>> THEN UNCHANGED meter ELSE Connected(i, TRUE)
        /\ UNCHANGED <<queue, last, faults>>

(* sleep_with_shutdown: the backoff delay is over, or the flag was seen.   *)
Sleep_GivesUp(i) ==
    /\ Thread(i, "sleep")
    /\ Goto(i, "finish")
    /\ UNCHANGED <<queue, meter, broken, last, faults>>
Sleep(i) ==
    /\ Thread(i, "sleep")
    /\ \/ flag /\ Goto(i, "finish")
       \/ Goto(i, "top")
    /\ UNCHANGED <<queue, meter, broken, last, faults>>

(* The hub drops a sink's queue when its turn to be joined has come.       *)
SenderDropped(i) == hub = "joining" /\ \A j \in Sinks : j < i => thread[j].pc = "exited"

Recv(i) ==
    /\ Thread(i, "recv")
    /\ IF queue[i] # <<>>
       THEN /\ thread' = [thread EXCEPT ![i].pc = "write", ![i].hand = <<Head(queue[i])>>,
                                        ![i].next = 1]
            /\ queue' = [queue EXCEPT ![i] = Tail(@)]
       ELSE Goto(i, IF SenderDropped(i) THEN "finish" ELSE "top") /\ UNCHANGED queue
    /\ UNCHANGED <<meter, broken, last, faults>>

EncodeFails(i) ==
    /\ Thread(i, "write")
    /\ thread[i].next = 1 /\ faults < MaxFaults
    /\ faults' = faults + 1
    /\ thread' = [thread EXCEPT ![i].pc = "top", ![i].hand = <<>>]
    /\ UNCHANGED <<queue, meter, broken, last>>

(* The collector reads the rank of an event's kind out of its frame.       *)
Received(event) == ReadFrame(WriteDataFrame(<<Rank(event.kind)>>)).got[1]

(* One write_frame of the retain_mut loop.  A connection whose far end is  *)
(* gone may still take a frame into its buffer before it fails.            *)
Written(i, c) ==
    /\ <<i, c>> \in broken \/ status[c] = "up"
    /\ last' = [last EXCEPT ![<<i, c, thread[i].hand[1].txn>>] = Received(thread[i].hand[1])]
    /\ thread' = [thread EXCEPT ![i].next = @ + 1]
    /\ UNCHANGED queue
WriteFails_Requeues(i, c) ==
    /\ <<i, c>> \in broken
    /\ queue' = [queue EXCEPT ![i] = Append(@, thread[i].hand[1])]
    /\ thread' = [thread EXCEPT ![i].writers = RemoveAt(@, thread[i].next)]
    /\ UNCHANGED last
WriteFails(i, c) ==
    /\ <<i, c>> \in broken
    /\ thread' = [thread EXCEPT ![i].writers = RemoveAt(@, thread[i].next)]
    /\ UNCHANGED <<last, queue>>

Write(i) ==
    /\ Thread(i, "write")
    /\ thread[i].next <= Len(thread[i].writers)
    /\ \E c \in {thread[i].writers[thread[i].next]} : Written(i, c) \/ WriteFails(i, c)
    /\ UNCHANGED <<meter, broken, faults>>

EndOfEvent(i) ==
    /\ Thread(i, "write")
    /\ thread[i].next > Len(thread[i].writers)
    /\ thread' = [thread EXCEPT ![i].pc = "top", ![i].hand = <<>>]
    /\ IF thread[i].writers = <<>> THEN Connected(i, FALSE) ELSE UNCHANGED meter
    /\ UNCHANGED <<queue, broken, last, faults>>

(* After the loop: STOP to every collector; its outcome is ignored.        *)
Finish(i) ==
    /\ Thread(i, "finish")
    /\ \A c \in ToSet(thread[i].writers) : <<i, c>> \in broken \/ status[c] # "stuck"
    /\ Connected(i, FALSE)
    /\ thread' = [thread EXCEPT ![i].pc = "exited", ![i].writers = <<>>]
    /\ UNCHANGED <<queue, broken, last, faults>>

-----------------------------------------------------------------------------
(* The supervisor joins the workers and then takes the hub out of its Arc; *)
(* an open scrape connection that still holds a clone leaves it running.   *)
Shutdown ==
    /\ hub = "open"
    /\ \A t \in Txns : at[t].stage \in {"idle", "done"}
    /\ hub' \in {"joining", "shared"}
    /\ flag' = (hub' = "joining")
    /\ UNCHANGED <<scene, queue, meter, producerSide, sinkSide, world>>

Joined ==
    /\ hub = "joining"
    /\ \A i \in Sinks : thread[i].pc = "exited"
    /\ hub' = "stopped"
    /\ UNCHANGED <<scene, queue, meter, flag, producerSide, sinkSide, world>>

(* Collectors, and the reloads of the Configurator.                        *)
CollectorFails(c) ==
    /\ status[c] = "up" /\ faults < MaxFaults
    /\ faults' = faults + 1
    /\ \E s \in {"down", "stuck"} :
          /\ status' = [status EXCEPT ![c] = s]
          /\ broken' = IF s = "down" THEN broken \cup {<<i, c>> : i \in Sinks} ELSE broken
    /\ UNCHANGED <<scene, snap, queue, meter, thread, flag, hub, last, producerSide>>

CollectorReturns(c) ==
    /\ status[c] # "up"
    /\ status' = [status EXCEPT ![c] = "up"]
    /\ UNCHANGED <<scene, snap, queue, meter, thread, broken, flag, hub, faults, last,
                   producerSide>>

Reload ==
    /\ faults < MaxFaults /\ hub = "open"
    /\ faults' = faults + 1
    /\ snap' \in scene.reloads \ {snap}
    /\ UNCHANGED <<scene, status, queue, meter, flag, hub, sinkSide, producerSide>>

-----------------------------------------------------------------------------
Init ==
    /\ scene \in Scenes
    /\ snap = scene.booted
    /\ pin = [t \in Txns |-> <<>>]
    /\ at = [t \in Txns |-> Emitting("idle", 0)]
    /\ queue = [i \in Sinks |-> <<>>]
    /\ meter = [i \in Sinks |-> [queue_dropped |-> 0, connected |-> FALSE]]
    /\ thread = [i \in Sinks |-> [pc |-> "top", writers |-> <<>>, hand |-> <<>>, next |-> 1]]
    /\ broken = {}
    /\ \E s \in {"up", "down"} : status = [c \in Collectors |-> s]
    /\ flag = FALSE /\ hub = "open" /\ faults = 0
    /\ lost = [i \in Sinks |-> 0]
    /\ last = [x \in Sinks \X Collectors \X Txns |-> 0]

Producer(t) == Begin(t) \/ Resume(t) \/ TrySend(t) \/ Evict(t) \/ Resend(t)
SinkThread(i) == Top(i) \/ Connect(i) \/ Sleep(i) \/ Recv(i) \/ EncodeFails(i) \/ Write(i)
                 \/ EndOfEvent(i) \/ Finish(i)

Next ==
    \/ \E t \in Txns : Producer(t)
    \/ \E i \in Sinks : SinkThread(i)
    \/ \E c \in Collectors : CollectorFails(c) \/ CollectorReturns(c)
    \/ Shutdown \/ Joined \/ Reload

(* Threads run: a transaction that is emitting or has been forwarded, and  *)
(* a sink's thread that no collector blocks, go on.  A collector does not  *)
(* stay stuck for ever, though one that is down may.                       *)
Emits(t) == at[t].stage \notin {"idle", "done"}
Runs(i) ==
    /\ i \in Sinks
    /\ LET th == thread[i]
           Open(c) == <<i, c>> \in broken \/ status[c] # "stuck"
       IN  CASE th.pc = "exited" -> FALSE
             [] th.pc = "connect" -> status[Dests(i)[th.next]] # "stuck"
             [] th.pc = "write" -> th.next > Len(th.writers) \/ Open(th.writers[th.next])
             [] th.pc = "finish" -> \A c \in ToSet(th.writers) : Open(c)
             [] OTHER -> TRUE
CanJoin == hub = "joining" /\ \A i \in Sinks : thread[i].pc = "exited"

Fairness ==
    /\ \A t \in Txns : []<>~Emits(t) \/ []<><<at'[t] # at[t]>>_vars
    /\ \A i \in {1, 2} : []<>~Runs(i) \/ []<><<thread'[i] # thread[i]>>_vars
    /\ \A c \in Collectors : []<>(status[c] # "stuck")
    /\ []<>~CanJoin

Spec == Init /\ [][Next]_vars /\ Fairness

-----------------------------------------------------------------------------
(* A sink's queue never throws an event away that its queue_dropped does   *)
(* not account for.  One counted drop stands for at most two events: a     *)
(* producer that evicts one and then loses the race for the room throws    *)
(* its own away as well (SinkQueue::try_enqueue).                          *)
LossIsCounted ==
    \A i \in Sinks :
        (\A t \in Txns : at[t].sink = i => at[t].step = "send") =>
            lost[i] <= 2 * meter[i].queue_dropped

(* A collector gets the frames of a transaction in the order they were     *)
(* emitted, whatever was dropped or cut off in between.                    *)
InEmissionOrder == [][\A x \in DOMAIN last : last'[x] >= last[x]]_last

(* Once a good collector of a sink is up for good, the sink's backlog goes *)
(* out, however long the outage was; and EventHub::shutdown returns, even  *)
(* while every collector is unreachable.                                   *)
Backlog(i) == i \in Sinks /\ queue[i] # <<>>
Reachable(i) == i \in Sinks /\ \E c \in ToSet(Dests(i)) : ConnectOne(c)
BacklogDrains ==
    /\ \A i \in {1, 2} :
         <>[](Reachable(i) /\ \A c \in Collectors : status[c] # "stuck")
             => (Backlog(i) ~> ~Backlog(i) \/ flag)
    /\ hub = "joining" ~> hub = "stopped"

=============================================================================
