----------------------------- MODULE LogStream -----------------------------
(***************************************************************************)
(* The way of a log record or an event of a task (LogManager::emit,        *)
(* WsLogStreamer, TaskEventRepo): into the buffer of its task or the table *)
(* of events, to the sessions that have subscribed to one of its three     *)
(* channels, and into the log file.  Any number of threads that run tasks  *)
(* do this at the same time, without a common lock, while a client pages   *)
(* through the log over HTTP (LogHandler::query) and others listen.        *)
(***************************************************************************)
EXTENDS TaskLogBuffer, LogFile, WsSession

CONSTANTS NoRun,      \* the empty run id
          PagedKey,   \* the task and run whose log is paged through
          PageSize    \* limits of a query

ASSUME StreamAssumption == /\ PagedKey \in Key /\ PageSize \subseteq Nat \ {0}
                           /\ Session \cap {"idle", "push", "visit", "prune"} = {}

VARIABLES em,         \* em[e]: what emitter e is doing
          count,      \* number of records so far
          events,     \* the table task_event
          unsaved,    \* events whose INSERT failed
          page,       \* the paging client: [next, got]
          pruned,     \* PagedKey has been pruned since the client started
          late        \* late[e][s]: posts of e to s without a subscription, see Unsubscribed

vars == <<bufferVars, fileVars, wsVars, em, count, events, unsaved, page, pruned, late>>
logVars == <<bufferVars, fileVars, count, events, unsaved, page, pruned>>

WsQuiet == <<st, hub, hubLock, sesVars, outVars, ws, linkVars, tokens>>

Idle == [at |-> "idle", topic |-> "log", id |-> 0, chans |-> <<>>, todo |-> {}, prune |-> FALSE]

Init == /\ BufferInit /\ FileInit /\ WsInit
        /\ em = [e \in Emitter |-> Idle] /\ count = 0 /\ events = <<>> /\ unsaved = {}
        /\ page = [next |-> 1, got |-> {}] /\ pruned = FALSE
        /\ late = [e \in Emitter |-> [s \in Session |-> 0]]
-----------------------------------------------------------------------------
(* channelTaskLogs and channelTaskEvents: with the task and the run, the   *)
(* task alone, the run alone; without a run only the second.               *)
Channels(topic, k) == IF k[2] = NoRun THEN << <<topic, k[1], NoRun>> >>
    ELSE << <<topic, k[1], k[2]>>, <<topic, k[1], NoRun>>, <<topic, NoRun, k[2]>> >>

Begun(e, topic, k, prune) ==
    em' = [em EXCEPT ![e] = [at |-> "push", topic |-> topic, id |-> count', chans |-> Channels(topic, k),
                             todo |-> {}, prune |-> prune]]

(* emit, stdoutLine and stderrLine, under LogManager's mutex. *)
emit(e, k) ==
    /\ em[e].at = "idle" /\ Outside("log")
    /\ count' = count + 1
    /\ append(k, count')
    /\ Begun(e, "log", k, shouldPrune)
    /\ UNCHANGED <<fileVars, WsQuiet, events, unsaved, page, pruned, late>>

(* The entry points differ in the record they make, not in what happens to it. *)
stdoutLine(e, k) == emit(e, k)
stderrLine(e, k) == emit(e, k)
emitEvent(e, k)  == emit(e, k)

(* TaskEventRepo::insertFromJson; a failed INSERT is only logged. *)
insertFromJson(k, id) ==
    \/ events' = Append(events, [key |-> k, id |-> id]) /\ UNCHANGED unsaved
    \/ unsaved' = unsaved \cup {id} /\ UNCHANGED events

(* TaskEventRepo::query by task and run, an empty one for any: the newest limit rows. *)
queryEvents(k, limit) ==
    LET hits == {i \in DOMAIN events : /\ k[1] \in {NoRun, events[i].key[1]}
                                       /\ k[2] \in {NoRun, events[i].key[2]}}
    IN  {events[i] : i \in {j \in hits : limit > 0 => Cardinality({n \in hits : n > j}) < limit}}

(* Mutant: the clients hear of an event that is not stored yet. *)
pushTaskEvent_NotStored(e, k) ==
    /\ em[e].at = "idle" /\ Outside("event")
    /\ count' = count + 1
    /\ Begun(e, "event", k, FALSE)
    /\ UNCHANGED <<bufferVars, fileVars, WsQuiet, events, unsaved, page, pruned, late>>
(* pushTaskEvent: the row comes before the push. *)
pushTaskEvent(e, k) ==
    /\ em[e].at = "idle" /\ Outside("event")
    /\ count' = count + 1
    /\ insertFromJson(k, count')
    /\ Begun(e, "event", k, FALSE)
    /\ UNCHANGED <<bufferVars, fileVars, WsQuiet, page, pruned, late>>

(* WsHub::broadcast on the next channel takes the hub's mutex... *)
Broadcast(e) ==
    /\ em[e].at = "push" /\ em[e].chans # <<>> /\ hubLock = Nobody
    /\ hubLock' = IF hub = {} THEN Nobody ELSE e
    /\ em' = [em EXCEPT ![e] = IF hub = {} THEN [em[e] EXCEPT !.chans = Tail(em[e].chans)]
                               ELSE [@ EXCEPT !.at = "visit", !.todo = hub]]
    /\ UNCHANGED <<logVars, st, hub, sesVars, outVars, ws, linkVars, tokens, budget, late>>

(* Session s is done; after the last one the mutex is given back. *)
Visited(e, s) ==
    IF em[e].todo = {s}
    THEN /\ em' = [em EXCEPT ![e].at = "push", ![e].chans = Tail(@), ![e].todo = {}]
         /\ hubLock' = Nobody
    ELSE em' = [em EXCEPT ![e].at = "visit", ![e].todo = @ \ {s}] /\ UNCHANGED hubLock

(* Mutant: a text goes to every session. *)
Visit_All(e, s) ==
    /\ em[e].at = "visit" /\ s \in em[e].todo
    /\ em' = [em EXCEPT ![e].at = s]
    /\ UNCHANGED <<logVars, st, hub, hubLock, sesVars, outVars, ws, linkVars, tokens, budget, late>>
(* ... asks each session whether it has subscribed ... *)
Visit(e, s) ==
    /\ em[e].at = "visit" /\ s \in em[e].todo
    /\ IF Head(em[e].chans) \in subs[s] THEN em' = [em EXCEPT ![e].at = s] /\ UNCHANGED hubLock
                                        ELSE Visited(e, s)
    /\ UNCHANGED <<logVars, st, hub, sesVars, outVars, ws, linkVars, tokens, budget, late>>

(* buildLogJson and buildTaskEventJson. *)
Text(e) == <<em[e].topic, e, em[e].id>>

(* ... and if so posts the text. *)
Post(e, s) ==
    /\ em[e].at = s
    /\ send(s, Text(e))
    /\ late' = [late EXCEPT ![e][s] = IF Head(em[e].chans) \in subs[s] THEN @ ELSE @ + 1]
    /\ Visited(e, s)
    /\ UNCHANGED <<logVars, st, hub, sesVars, wq, writing, seen, ws, linkVars, tokens, budget>>

(* The sinks come after the push; the thread may then have to prune. *)
Sink(e) ==
    /\ em[e].at = "push" /\ em[e].chans = <<>>
    /\ IF em[e].topic = "log" THEN consume ELSE UNCHANGED fileVars
    /\ em' = [em EXCEPT ![e] = IF @.prune THEN [@ EXCEPT !.at = "prune"] ELSE Idle]
    /\ UNCHANGED <<bufferVars, wsVars, count, events, unsaved, page, pruned, late>>

Prune(e) ==
    /\ em[e].at = "prune"
    /\ pruneOlderThan
    /\ pruned' = (pruned \/ bufs'[PagedKey] # bufs[PagedKey])
    /\ em' = [em EXCEPT ![e] = Idle]
    /\ UNCHANGED <<emits, fileVars, wsVars, count, events, unsaved, page, late>>

GrowOld(k) ==
    /\ Outside("age") /\ Age(k)
    /\ UNCHANGED <<fileVars, WsQuiet, em, count, events, unsaved, page, pruned, late>>

logRecordToJson(r) == r.id

(* LogHandler::query, by a client that asks for what comes next. *)
query(limit) ==
    LET r == get(PagedKey, page.next, limit)
    IN  /\ r.records # {} /\ Outside("page")
        /\ page' = [next |-> r.nextFrom, got |-> page.got \cup {logRecordToJson(x) : x \in r.records}]
        /\ UNCHANGED <<bufferVars, fileVars, WsQuiet, em, count, events, unsaved, pruned, late>>

(* broadcast_task_event and SystemHandler::broadcast: to everybody, with or without a token. *)
BroadcastAll ==
    /\ Outside("all") /\ hubLock = Nobody
    /\ posted' = [s \in Session |-> IF s \in hub THEN Append(posted[s], <<"all">>) ELSE posted[s]]
    /\ UNCHANGED <<logVars, st, hub, hubLock, sesVars, wq, writing, seen, ws, linkVars, tokens, em, late>>
-----------------------------------------------------------------------------
(* A session that subscribes anew, or gives up a subscription, starts a new count of late posts. *)
Unsubscribed(s) ==
    late' = [e \in Emitter |-> [late[e] EXCEPT ![s] = IF subs'[s] = subs[s] THEN @ ELSE 0]]

Emitting(e) ==
    \/ \E k \in Key : stdoutLine(e, k) \/ stderrLine(e, k) \/ emitEvent(e, k) \/ pushTaskEvent(e, k)
    \/ Broadcast(e) \/ Sink(e) \/ Prune(e)
    \/ \E s \in Session : Visit(e, s) \/ Post(e, s)

(* What the thread of the sessions has to do; what it waits for, clients   *)
(* and workers decide.                                                     *)
Handler(s) == Posted(s) \/ (Written(s) /\ st[s] # "open") \/ ReadEnds(s) \/ Joined(s)
              \/ ProxyReady(s)
Waited(s)  == Closed(s) \/ ProxyFailed(s) \/ ProxyStart(s)
Client(s)  == Connect(s) \/ ClientGone(s) \/ (Written(s) /\ st[s] = "open") \/ Forward(s)
              \/ \E c \in Command : handle_command(s, c)
Proxied(s) == ProxyRead(s) \/ ProxyPosted(s) \/ ProxyWritten(s) \/ ProxyClosed(s)

SessionStep(s) == /\ Handler(s) \/ Waited(s) \/ Client(s) \/ Proxied(s)
                  /\ Unsubscribed(s)
                  /\ UNCHANGED <<logVars, em>>
Tokens == /\ \E t \in Token : login(t) \/ Expire(t)
          /\ UNCHANGED <<logVars, em, late>>

Next == \/ \E e \in Emitter : Emitting(e)
        \/ \E s \in Session : SessionStep(s)
        \/ \E k \in Key : GrowOld(k)
        \/ \E limit \in PageSize : query(limit)
        \/ BroadcastAll \/ Tokens

(* Threads go on; clients, workers and clocks need not. *)
Fairness == /\ \A e \in Emitter : WF_vars(em[e].at # "idle" /\ Emitting(e))
            /\ \A s \in Session : WF_vars(Handler(s) /\ Unsubscribed(s) /\ UNCHANGED <<logVars, em>>)

Spec == Init /\ [][Next]_vars /\ Fairness
-----------------------------------------------------------------------------
TypeOK ==
    /\ \A k \in Key : bufs[k] = NoBuf \/ Len(bufs[k].q) \in 1..PerTaskMax
    /\ \A s \in Session : /\ st[s] \in {"new", "open", "closing", "shut", "leaving", "gone"}
                          /\ Len(wq[s]) \in 0..MaxPending /\ pwq[s] \in 0..MaxPending
                          /\ subs[s] \subseteq Channel
    /\ hub \subseteq Session /\ hubLock \in Emitter \cup {Nobody}

(* A client that follows next_from (task_log_buffer.cpp get) has seen every *)
(* record the buffer still holds below that number.  Only when the buffer   *)
(* was pruned and created anew, so that its numbers start at 1 again, may   *)
(* records stay hidden from it.                                             *)
PagesComplete ==
    bufs[PagedKey] # NoBuf /\ ~pruned =>
        \A i \in DOMAIN bufs[PagedKey].q :
            LET r == bufs[PagedKey].q[i] IN r.seq < page.next => r.id \in page.got

(* What one thread pushes reaches a client in the order of its records,     *)
(* whatever the other threads, the posted handlers and the write queue do   *)
(* (ws_server_beast.cpp send and do_write); and an event that is on its way *)
(* to a client is found by a query, unless its row could not be written     *)
(* (ws_log_streamer.cpp pushTaskEvent).                                     *)
StreamInOrder ==
    \A s \in Session, e \in Emitter :
        LET q    == wq[s] \o posted[s]
            mine == {i \in DOMAIN q : Len(q[i]) = 3 /\ q[i][2] = e}
        IN  \A i, j \in mine :
              /\ seen[s][e] <= q[i][3]
              /\ i < j => q[i][3] <= q[j][3]
              /\ q[i][1] = "event" =>
                   q[i][3] \in unsaved \cup {r.id : r \in queryEvents(<<NoRun, NoRun>>, 0)}

(* broadcast asks for the subscription and then posts, and the session may  *)
(* give it up in between, or lose all of them to a proxy: a thread then     *)
(* posts at most one text more, and none to a session that has left the     *)
(* hub.                                                                     *)
AtMostOneLatePush ==
    \A e \in Emitter, s \in Session : late[e][s] <= 1 /\ (em[e].at = s => s \in hub)

(* The file and the rotated files hold the newest lines: what rotation      *)
(* removes (log_rotation.cpp prune_) is older than all that is kept, even   *)
(* when a rename fails or leaves both files behind, but for the files whose *)
(* removal failed: the next ones in age are removed in spite of it.         *)
FileKeepsNewest ==
    LET kept(D) == LineSet(current) \cup UNION {LineSet(rotated[d]) : d \in D}
    IN  \A old \in (1..lines) \ kept(DOMAIN rotated), k \in kept(DOMAIN rotated \ stuck) : old < k

(* A handler on the thread of the sessions waits for ever. *)
ThreadHeld == <>[](ws # Nobody)

(* A connection that has ended, whoever ended it and whatever the session   *)
(* was waiting for, leaves the hub, and its proxy client is stopped, unless *)
(* the only thread of the sessions is held for ever: closing a session or   *)
(* the link of a proxy is a handshake without a time limit                  *)
(* (ws_server_beast.cpp send and handle_command), and so is connecting to a *)
(* worker, and stop_proxy waits for a thread that may be in such a close.   *)
SessionsLeave ==
    \/ ThreadHeld
    \/ \A s \in Session : st[s] \in {"closing", "shut", "leaving"} ~>
                             (st[s] = "gone" /\ s \notin hub /\ link[s] = "none")
=============================================================================
