----------------------------- MODULE WsSession -----------------------------
(***************************************************************************)
(* The WebSocket side of a server (server/src/ws): the hub, the sessions   *)
(* with their write queues, and the proxy client through which a session   *)
(* talks to a worker instead; and the tokens of AuthManager that the first *)
(* message must carry.                                                     *)
(*                                                                         *)
(* All handlers of all sessions run on one thread, the one of WsServer's   *)
(* io_context.  It is held up (ws) while a proxy connects, while a session *)
(* is closed, which is a handshake with the client, and while the thread   *)
(* of a proxy client is joined; the other end decides when, and whether,   *)
(* that is over.  Each proxy client has an io_context and a thread of its  *)
(* own.  send() only posts a handler, so that it may be called from any    *)
(* thread.                                                                 *)
(***************************************************************************)
EXTENDS Integers, Sequences

CONSTANTS Session, Token,
          Emitter,      \* threads that push texts
          Channel,      \* channel names
          Nobody,       \* no thread, no token
          MaxPending,   \* kMaxPendingMessages
          MaxRate,      \* kMaxCommandsPerWindow
          Profiles      \* bound: how often each kind of thing comes from outside

ASSUME WsAssumption == /\ MaxPending \in Nat \ {0} /\ MaxRate \in Nat \ {0}
                       /\ Nobody \notin Emitter

VARIABLES st,       \* st[s]: "new", "open", "closing" (in ws_.close), "shut" (closed by one side),
                    \* "leaving" (in stop_proxy), "gone" (reads have ended)
          hub,      \* WsHub::sessions_
          hubLock,  \* the thread inside WsHub::broadcast, or Nobody
          authed, subs, proxy, stamps,      \* members of WsSession
          posted,   \* posted[s]: texts of the handlers posted by send
          wq,       \* write_queue_
          writing,  \* an async_write is outstanding
          seen,     \* seen[s][e]: number of the last record of e that the client has received
          ws,       \* the session whose handler waits for its client or a worker, or Nobody
          link,     \* link[s]: the proxy client: "none", "up", "closing", "closed", "broken"
          conn,     \* connected_
          pposted, pwq,                     \* handlers and write_queue_ of the proxy client
          tokens,   \* tokens[t]: "none", "live", "expired"
          budget    \* what may still come from outside

sesVars  == <<authed, subs, proxy, stamps>>
outVars  == <<posted, wq, writing, seen>>
linkVars == <<link, conn, pposted, pwq>>
wsVars   == <<st, hub, hubLock, sesVars, outVars, ws, linkVars, tokens, budget>>

(* The bound: an action of the outside world takes one from the budget of its kind. *)
Outside(kind) == budget[kind] > 0 /\ budget' = [budget EXCEPT ![kind] = @ - 1]

WsInit ==
    /\ st = [s \in Session |-> "new"] /\ hub = {} /\ hubLock = Nobody
    /\ authed = [s \in Session |-> FALSE] /\ subs = [s \in Session |-> {}]
    /\ proxy = [s \in Session |-> FALSE] /\ stamps = [s \in Session |-> 0]
    /\ posted = [s \in Session |-> <<>>] /\ wq = [s \in Session |-> <<>>]
    /\ writing = [s \in Session |-> FALSE] /\ seen = [s \in Session |-> [e \in Emitter |-> 0]]
    /\ ws = Nobody
    /\ link = [s \in Session |-> "none"] /\ conn = [s \in Session |-> FALSE]
    /\ pposted = [s \in Session |-> 0] /\ pwq = [s \in Session |-> 0]
    /\ tokens = [t \in Token |-> "none"] /\ budget \in Profiles
-----------------------------------------------------------------------------
(* AuthManager: login makes a token, validate_token drops one that expired. *)
login(t) == /\ tokens[t] = "none"
            /\ tokens' = [tokens EXCEPT ![t] = "live"]
            /\ UNCHANGED <<st, hub, hubLock, sesVars, outVars, ws, linkVars, budget>>

Expire(t) == /\ tokens[t] = "live" /\ Outside("expire")
             /\ tokens' = [tokens EXCEPT ![t] = "expired"]
             /\ UNCHANGED <<st, hub, hubLock, sesVars, outVars, ws, linkVars>>

validate_token(t) == IF t # Nobody /\ tokens[t] = "expired"
                     THEN tokens' = [tokens EXCEPT ![t] = "none"] ELSE UNCHANGED tokens
Valid(t) == t # Nobody /\ tokens[t] = "live"
-----------------------------------------------------------------------------
WsThread == ws = Nobody       \* the thread of the io_context takes the next handler

send(s, text) == posted' = [posted EXCEPT ![s] = Append(@, text)]

remove_session(s) == hubLock = Nobody /\ hub' = hub \ {s}

(* do_accept and the handshake: the session joins the hub and reads. *)
Connect(s) ==
    /\ WsThread /\ st[s] = "new" /\ hubLock = Nobody /\ Outside("connect")
    /\ st' = [st EXCEPT ![s] = "open"] /\ hub' = hub \cup {s}
    /\ UNCHANGED <<hubLock, sesVars, outVars, ws, linkVars, tokens>>

(* The client closes the connection or disappears. *)
ClientGone(s) ==
    /\ st[s] = "open"
    /\ st' = [st EXCEPT ![s] = "shut"]
    /\ UNCHANGED <<hub, hubLock, sesVars, outVars, ws, linkVars, tokens, budget>>

(* ws_.close returns when the client has answered, or is gone; the session *)
(* leaves the hub, and its next read will fail.                            *)
close(s)  == st' = [st EXCEPT ![s] = "closing"] /\ ws' = s
Closed(s) ==
    /\ ws = s /\ st[s] = "closing"
    /\ st' = [st EXCEPT ![s] = "shut"] /\ ws' = Nobody
    /\ remove_session(s)
    /\ UNCHANGED <<hubLock, sesVars, outVars, linkVars, tokens, budget>>

(* A posted handler of send: a client that does not keep up is closed.  On *)
(* a connection that has ended there is nothing to wait for.               *)
Posted(s) ==
    /\ WsThread /\ posted[s] # <<>>
    /\ posted' = [posted EXCEPT ![s] = Tail(@)]
    /\ \/ /\ Len(wq[s]) >= MaxPending
          /\ \/ st[s] = "open" /\ close(s) /\ UNCHANGED hub
             \/ st[s] # "open" /\ remove_session(s) /\ UNCHANGED <<st, ws>>
          /\ UNCHANGED <<wq, writing>>
       \/ /\ Len(wq[s]) < MaxPending
          /\ wq' = [wq EXCEPT ![s] = Append(@, Head(posted[s]))]
          /\ writing' = [writing EXCEPT ![s] = @ \/ wq[s] = <<>>]
          /\ UNCHANGED <<st, hub, ws>>
    /\ UNCHANGED <<hubLock, sesVars, seen, linkVars, tokens, budget>>

(* A pushed text is <<topic, emitter, number>>. *)
Received(f, text) == IF Len(text) = 3 THEN [f EXCEPT ![text[2]] = text[3]] ELSE f

(* The completion of async_write: the next text, or the end on an error. *)
Written(s) ==
    /\ WsThread /\ writing[s]
    /\ \/ /\ st[s] = "open"
          /\ seen' = [seen EXCEPT ![s] = Received(@, Head(wq[s]))]
          /\ wq' = [wq EXCEPT ![s] = Tail(@)]
          /\ writing' = [writing EXCEPT ![s] = Tail(wq[s]) # <<>>]
          /\ UNCHANGED hub
       \/ /\ st[s] # "open"
          /\ remove_session(s)
          /\ writing' = [writing EXCEPT ![s] = FALSE]
          /\ UNCHANGED <<seen, wq>>
    /\ UNCHANGED <<st, hubLock, sesVars, posted, ws, linkVars, tokens, budget>>

(* WsProxyClient::stop, once its thread has been joined. *)
stop_proxy(s) == /\ link' = [link EXCEPT ![s] = "none"] /\ conn' = [conn EXCEPT ![s] = FALSE]
                 /\ pposted' = [pposted EXCEPT ![s] = 0] /\ pwq' = [pwq EXCEPT ![s] = 0]
                 /\ proxy' = [proxy EXCEPT ![s] = FALSE]

(* Mutant: the read handler leaves the proxy client to itself. *)
ReadEnds_KeepProxy(s) ==
    /\ WsThread /\ st[s] = "shut"
    /\ st' = [st EXCEPT ![s] = "gone"]
    /\ remove_session(s)
    /\ UNCHANGED <<hubLock, sesVars, outVars, ws, linkVars, tokens, budget>>
(* on_read with an error.  stop posts a close to the thread of the proxy   *)
(* client and stops its io_context; the thread may take the one before the *)
(* other, or be in a close already.                                        *)
ReadEnds(s) ==
    /\ WsThread /\ st[s] = "shut"
    /\ \/ /\ link[s] # "closing"
          /\ st' = [st EXCEPT ![s] = "gone"]
          /\ stop_proxy(s) /\ remove_session(s)
          /\ UNCHANGED ws
       \/ /\ link[s] \in {"up", "closing"}
          /\ st' = [st EXCEPT ![s] = "leaving"] /\ ws' = s
          /\ link' = [link EXCEPT ![s] = "closing"] /\ conn' = [conn EXCEPT ![s] = FALSE]
          /\ UNCHANGED <<proxy, hub, pposted, pwq>>
    /\ UNCHANGED <<hubLock, authed, subs, stamps, outVars, tokens, budget>>

(* The thread of the proxy client has ended. *)
Joined(s) ==
    /\ ws = s /\ st[s] = "leaving" /\ link[s] # "closing"
    /\ st' = [st EXCEPT ![s] = "gone"] /\ ws' = Nobody
    /\ stop_proxy(s) /\ remove_session(s)
    /\ UNCHANGED <<hubLock, authed, subs, stamps, outVars, tokens, budget>>
-----------------------------------------------------------------------------
(***************************************************************************)
(* handle_command.  A message of the client is the token it carries, its   *)
(* op and the channel of a subscription: op "none" is a message without    *)
(* one, "unparsable" is no JSON, and every other op is ignored as "other". *)
(***************************************************************************)
Op      == {"none", "subscribe", "unsubscribe", "ping", "proxy", "other", "unparsable"}
Command == [token : Token \cup {Nobody}, op : Op, ch : Channel]

(* on_read in proxy mode: the message goes to the proxy client, if it is connected. *)
Forward(s) ==
    /\ WsThread /\ st[s] = "open" /\ proxy[s] /\ Outside("command")
    /\ pposted' = [pposted EXCEPT ![s] = IF conn[s] THEN @ + 1 ELSE @]
    /\ UNCHANGED <<st, hub, hubLock, sesVars, outVars, ws, link, conn, pwq, tokens>>

(* What an authenticated session does with a message. *)
Perform(s, c) ==
    \/ /\ c.op = "subscribe"   /\ subs' = [subs EXCEPT ![s] = @ \cup {c.ch}] /\ UNCHANGED <<posted, ws>>
    \/ /\ c.op = "unsubscribe" /\ subs' = [subs EXCEPT ![s] = @ \ {c.ch}]    /\ UNCHANGED <<posted, ws>>
    \/ /\ c.op = "ping"        /\ send(s, <<"pong">>)    /\ UNCHANGED <<subs, ws>>
    \/ /\ c.op = "none" /\ ~authed[s] /\ send(s, <<"authed">>) /\ UNCHANGED <<subs, ws>>
    \/ /\ c.op = "proxy" \* the worker is unknown or not alive, or its id is missing
       /\ send(s, <<"proxy_error">>) /\ UNCHANGED <<subs, ws>>
    \/ /\ c.op = "proxy" /\ ws' = s /\ UNCHANGED <<subs, posted>>
    \/ /\ \/ c.op = "other"
          \/ c.op = "none" /\ authed[s]
       /\ UNCHANGED <<subs, posted, ws>>

handle_command(s, c) ==
    /\ WsThread /\ st[s] = "open" /\ ~proxy[s]
    /\ Outside(IF c.op \in {"subscribe", "unsubscribe"} THEN "subscription" ELSE "command")
    /\ \E fresh \in 0..stamps[s] :         \* the commands of the last ten seconds
         \/ /\ fresh >= MaxRate
            /\ close(s) /\ stamps' = [stamps EXCEPT ![s] = fresh]
            /\ UNCHANGED <<hub, authed, subs, posted, tokens>>
         \/ /\ fresh < MaxRate
            /\ stamps' = [stamps EXCEPT ![s] = fresh + 1]
            /\ \/ /\ c.op = "unparsable"
                  /\ UNCHANGED <<st, hub, authed, subs, posted, ws, tokens>>
               \/ /\ c.op # "unparsable" /\ ~authed[s] /\ ~Valid(c.token)
                  /\ close(s) /\ validate_token(c.token)
                  /\ UNCHANGED <<hub, authed, subs, posted>>
               \/ /\ c.op # "unparsable" /\ (authed[s] \/ Valid(c.token))
                  /\ authed' = [authed EXCEPT ![s] = TRUE]
                  /\ Perform(s, c)
                  /\ UNCHANGED <<st, hub, tokens>>
    /\ UNCHANGED <<hubLock, proxy, wq, writing, seen, linkVars>>
-----------------------------------------------------------------------------
(***************************************************************************)
(* WsProxyClient.  start() resolves, connects, shakes hands, sends the     *)
(* token and starts the thread, without a time limit and all while the     *)
(* thread of the sessions waits.                                           *)
(***************************************************************************)
ProxyFailed(s) ==
    /\ ws = s /\ st[s] # "closing" /\ link[s] = "none"
    /\ send(s, <<"proxy_error">>) /\ ws' = Nobody
    /\ UNCHANGED <<st, hub, hubLock, sesVars, wq, writing, seen, linkVars, tokens, budget>>

ProxyStart(s) ==
    /\ ws = s /\ st[s] # "closing" /\ link[s] = "none"
    /\ link' = [link EXCEPT ![s] = "up"] /\ conn' = [conn EXCEPT ![s] = TRUE]
    /\ UNCHANGED <<st, hub, hubLock, sesVars, outVars, ws, pposted, pwq, tokens, budget>>

(* The rest of handle_command; the thread of the proxy may be ahead of it. *)
ProxyReady(s) ==
    /\ ws = s /\ st[s] \notin {"closing", "leaving"} /\ link[s] # "none"
    /\ subs' = [subs EXCEPT ![s] = {}]
    /\ proxy' = [proxy EXCEPT ![s] = TRUE]
    /\ send(s, <<"proxy_ready">>) /\ ws' = Nobody
    /\ UNCHANGED <<st, hub, hubLock, authed, stamps, wq, writing, seen, linkVars, tokens, budget>>

(* A message of the worker is passed on; a clean close is not. *)
ProxyRead(s) ==
    /\ link[s] = "up"
    /\ \/ /\ Outside("reply") /\ send(s, <<"worker">>) /\ UNCHANGED <<link, conn>>
       \/ /\ link' = [link EXCEPT ![s] = "closed"] /\ conn' = [conn EXCEPT ![s] = FALSE]
          /\ UNCHANGED <<posted, budget>>
       \/ /\ link' = [link EXCEPT ![s] = "broken"] /\ conn' = [conn EXCEPT ![s] = FALSE]
          /\ send(s, <<"proxy_closed">>) /\ UNCHANGED budget
    /\ UNCHANGED <<st, hub, hubLock, sesVars, wq, writing, seen, ws, pposted, pwq, tokens>>

(* A posted handler of send. *)
ProxyPosted(s) ==
    /\ link[s] = "up" /\ pposted[s] > 0
    /\ pposted' = [pposted EXCEPT ![s] = @ - 1]
    /\ \/ ~conn[s] /\ UNCHANGED <<pwq, link, conn>>
       \/ /\ conn[s] /\ pwq[s] >= MaxPending   \* backpressure: the link is closed
          /\ link' = [link EXCEPT ![s] = "closing"] /\ UNCHANGED <<pwq, conn>>
       \/ /\ conn[s] /\ pwq[s] < MaxPending
          /\ pwq' = [pwq EXCEPT ![s] = @ + 1] /\ UNCHANGED <<link, conn>>
    /\ UNCHANGED <<st, hub, hubLock, sesVars, outVars, ws, tokens, budget>>

(* The worker has answered the close, or is gone; a thread whose io_context *)
(* was stopped meanwhile ends.                                             *)
ProxyClosed(s) ==
    /\ link[s] = "closing"
    /\ link' = [link EXCEPT ![s] = IF st[s] = "leaving" THEN "closed" ELSE "up"]
    /\ conn' = [conn EXCEPT ![s] = FALSE]
    /\ UNCHANGED <<st, hub, hubLock, sesVars, outVars, ws, pposted, pwq, tokens, budget>>

(* The completion of async_write, or its failure: the queue is not emptied then. *)
ProxyWritten(s) ==
    /\ link[s] = "up" /\ pwq[s] > 0
    /\ \/ pwq' = [pwq EXCEPT ![s] = @ - 1] /\ UNCHANGED conn
       \/ conn' = [conn EXCEPT ![s] = FALSE] /\ UNCHANGED pwq
    /\ UNCHANGED <<st, hub, hubLock, sesVars, outVars, ws, link, pposted, tokens, budget>>
=============================================================================
