------------------------------ MODULE Vision3D ------------------------------
(***************************************************************************)
(* driver_3dvision: a client of the 3DVision server.  Most commands are    *)
(* one HTTP request; ws.* keep a WebSocket with subscriptions.             *)
(*                                                                         *)
(* HttpClient::processReply and handleWsConnect wait in an event loop of   *)
(* their own, so that the next command is handled inside the handler that  *)
(* waits.  ctl.stack holds the handlers under way, the innermost last: one *)
(* returns only when it is the last, whatever it has waited for.           *)
(***************************************************************************)
EXTENDS Integers, SequencesExt

CONSTANTS
    MaxCommands,   \* bound: commands the host gives
    Addrs,         \* addresses of servers
    Topics         \* topics to subscribe to

VARIABLES
    ctl,   \* handlers under way, HttpClient's address and token, m_wsConnecting
    wire,  \* the server's side of the WebSocket: topics subscribed on this connection
    dev,   \* WebSocketClient
    said   \* commands given; the last answer; whether the host asked for the connection

vars == <<ctl, wire, dev, said>>

Default == CHOOSE a \in Addrs : TRUE

-----------------------------------------------------------------------------
(* buildMeta: the commands that declare a token, and the others. *)

UserMeta == [token |-> {"user.list", "user.add", "user.del", "user.detail", "user.modify",
                        "user.changePassword"}, open |-> {"login"}]
VesselMeta == [token |-> {"vessel.add", "vessel.modify", "vessel.del", "vessel.import",
                          "vessel.clone", "vessel.enable", "vessel.command"},
               open |-> {"vessel.list", "vessel.detail", "vessel.exists"}]
LogMeta == [token |-> {}, open |-> {"vessellog.list", "vessellog.last", "vessellog.lastAll",
            "material.list", "material.get", "material.add", "material.del"}]
FilterMeta == [token |-> {"filter.list", "filter.detail", "filter.replace", "filter.del",
                          "filter.exists"}, open |-> {}]
PlatformMeta == [token |-> {}, open |-> {"platform.version", "platform.console",
                 "platform.guideInfo", "platform.uploadModel", "platform.backupSystem",
                 "platform.restoreSystem", "platform.settings"}]
ModelMeta == [token |-> {}, open |-> {"custommodel.upload", "custommodel.list", "custommodel.del"}]

Groups == {UserMeta, VesselMeta, LogMeta, FilterMeta, PlatformMeta, ModelMeta}
TakesToken == UNION {g.token : g \in Groups}
HttpCommands == TakesToken \cup UNION {g.open : g \in Groups}

\* ws.connect has an address; the topics of the others are required.
WsMeta == [connect |-> Addrs, subscribe |-> Topics, unsubscribe |-> Topics, disconnect |-> {"-"}]

(* The handlers that take the token of the command over. *)
UserHandlers == {"user.list", "user.add", "user.del", "user.detail", "user.modify",
                 "user.changePassword"}
VesselHandlers == {"vessel.add", "vessel.modify", "vessel.del", "vessel.import", "vessel.clone",
                   "vessel.enable", "vessel.command"}
FilterHandlers == {"filter.list", "filter.detail", "filter.replace", "filter.del", "filter.exists"}
\* Logs, materials, platform and custom models: none does.
LogHandlers == {}
MaterialHandlers == {}
PlatformHandlers == {}
ModelHandlers == {}

SetsToken == UserHandlers \cup VesselHandlers \cup FilterHandlers \cup LogHandlers
               \cup MaterialHandlers \cup PlatformHandlers \cup ModelHandlers

-----------------------------------------------------------------------------
(* WebSocketClient *)

NoSocket == [socket |-> "closed", connected |-> FALSE, url |-> "", subs |-> {}, beat |-> FALSE]

\* An address switch closes the old connection and keeps the subscriptions;
\* opening the socket again drops the old one with its signals.
connectToServer(ws, url) ==
    IF ws.connected /\ ws.url = url THEN ws
    ELSE [ws EXCEPT !.beat = IF ws.socket # "closed" THEN FALSE ELSE @,
                    !.connected = IF ws.socket # "closed" THEN FALSE ELSE @,
                    !.url = url, !.socket = "opening"]

disconnect(ws) == NoSocket

onConnected(ws) == [ws EXCEPT !.socket = "open", !.connected = TRUE, !.beat = TRUE]

onDisconnected(ws) == [ws EXCEPT !.socket = "closed", !.connected = FALSE, !.beat = FALSE]

-----------------------------------------------------------------------------
(* HttpClient and the handlers *)

Init ==
    /\ ctl = [stack |-> <<>>, base |-> Default, token |-> "", connecting |-> FALSE]
    /\ wire = {}
    /\ dev = NoSocket
    /\ said = [n |-> 0, status |-> "none", code |-> 0, wanted |-> FALSE]

Answered(status, code) == [said EXCEPT !.n = @ + 1, !.status = status, !.code = code]

Push(frame) == Append(ctl.stack, frame)

\* A frame: an HTTP request with what the command gave and what was sent, or
\* ws.connect; state is what its loop has seen.
HttpFrame(kind, own, sent) == [kind |-> kind, own |-> own, sent |-> sent, state |-> "waiting"]
WsFrame(url) == [kind |-> "connect", own |-> <<url, "">>, sent |-> <<url, "">>, state |-> "waiting"]

(* An HTTP command: setBaseUrl, setToken, post; then the loop. *)
HandleHttp(c, addr, token) ==
    /\ token = "" \/ c \in TakesToken
    /\ LET held == IF c \in SetsToken /\ token # "" THEN token ELSE ctl.token
       IN  ctl' = [ctl EXCEPT !.base = addr, !.token = held,
                              !.stack = Push(HttpFrame(IF c = "login" THEN "login" ELSE "http",
                                                       <<addr, token>>, <<addr, held>>))]
    /\ said' = [said EXCEPT !.n = @ + 1]
    /\ UNCHANGED <<wire, dev>>

handleWsConnect(url) ==
    \/ /\ ctl.connecting
       /\ said' = Answered("error", 1)
       /\ UNCHANGED <<ctl, wire, dev>>
    \/ /\ ~ctl.connecting
       /\ dev.connected /\ dev.url = url
       /\ said' = [Answered("done", 0) EXCEPT !.wanted = TRUE]
       /\ UNCHANGED <<ctl, wire, dev>>
    \/ /\ ~ctl.connecting
       /\ ~(dev.connected /\ dev.url = url)
       /\ ctl' = [ctl EXCEPT !.connecting = TRUE, !.stack = Push(WsFrame(url))]
       /\ dev' = connectToServer(dev, url)
       /\ wire' = {}
       /\ said' = [said EXCEPT !.n = @ + 1, !.wanted = TRUE]

handleWsSubscribe(topic) ==
    /\ IF dev.connected
       THEN /\ dev' = [dev EXCEPT !.subs = @ \cup {topic}]
            /\ wire' = wire \cup {topic}
            /\ said' = Answered("done", 0)
       ELSE /\ said' = Answered("error", 1)
            /\ UNCHANGED <<wire, dev>>
    /\ UNCHANGED ctl

handleWsUnsubscribe(topic) ==
    /\ IF dev.connected
       THEN /\ dev' = [dev EXCEPT !.subs = @ \ {topic}]
            /\ wire' = wire \ {topic}
            /\ said' = Answered("done", 0)
       ELSE /\ said' = Answered("error", 1)
            /\ UNCHANGED <<wire, dev>>
    /\ UNCHANGED ctl

handleWsDisconnect ==
    /\ dev' = disconnect(dev)
    /\ wire' = {}
    /\ said' = [Answered("done", 0) EXCEPT !.wanted = FALSE]
    /\ UNCHANGED ctl

handle ==
    /\ said.n < MaxCommands
    /\ \/ \E c \in HttpCommands : \E a \in Addrs : \E t \in {"", "own"} : HandleHttp(c, a, t)
       \/ \E a \in WsMeta.connect : handleWsConnect(a)
       \/ \E t \in WsMeta.subscribe : handleWsSubscribe(t)
       \/ \E t \in WsMeta.unsubscribe : handleWsUnsubscribe(t)
       \/ \E x \in WsMeta.disconnect : handleWsDisconnect
       \/ /\ said' = Answered("error", 404)
          /\ UNCHANGED <<ctl, wire, dev>>

(* The loop of frame i, innermost or not, sees the reply (an object with
   code 0, with another code or without one; no object or an error), or its
   timer fires.  A timer that fires before the loop returns hides the reply. *)
HttpReply(i, reply) ==
    /\ ctl.stack[i].kind # "connect"
    /\ ctl.stack[i].state = "waiting"
    /\ ctl' = [ctl EXCEPT !.stack[i].state = reply]
    /\ UNCHANGED <<wire, dev, said>>

TimerFires(i) ==
    /\ LET f == ctl.stack[i] IN
         \/ f.kind = "connect" /\ f.state = "waiting"
         \/ f.kind # "connect" /\ f.state # "expired" /\ (f.state = "waiting" \/ i < Len(ctl.stack))
    /\ ctl' = [ctl EXCEPT !.stack[i].state = "expired"]
    /\ UNCHANGED <<wire, dev, said>>

\* sendResponse: a missing code is -1 here, 0 for handleLogin.
CodeOf(state) == CASE state = "ok" -> 0 [] state = "refused" -> 7 [] OTHER -> -1

(* The innermost handler returns: processReply's result goes to handleLogin,
   which keeps the token, and to sendResponse. *)
ReturnHttp ==
    LET f == Last(ctl.stack) IN
    /\ ctl.stack # <<>>
    /\ f.kind # "connect" /\ f.state # "waiting"
    /\ ctl' = [ctl EXCEPT !.stack = Front(@),
                          !.token = IF f.kind # "login" THEN @
                                    ELSE IF f.state = "ok" THEN "session"
                                    ELSE IF f.state = "nocode" THEN "" ELSE @]
    /\ said' = [said EXCEPT !.status = IF CodeOf(f.state) = 0 THEN "done" ELSE "error",
                            !.code = CodeOf(f.state)]
    /\ UNCHANGED <<wire, dev>>

(* For a mutant: a failed attempt is left under way. *)
ReturnWsConnectLeavesSocket ==
    LET f == Last(ctl.stack) IN
    /\ ctl.stack # <<>>
    /\ f.kind = "connect" /\ f.state # "waiting"
    /\ ctl' = [ctl EXCEPT !.stack = Front(@), !.connecting = FALSE]
    /\ said' = [said EXCEPT !.status = IF f.state = "ok" THEN "done" ELSE "error",
                            !.wanted = @ /\ f.state = "ok"]
    /\ UNCHANGED <<wire, dev>>

ReturnWsConnect ==
    LET f == Last(ctl.stack) IN
    /\ ctl.stack # <<>>
    /\ f.kind = "connect" /\ f.state # "waiting"
    /\ ctl' = [ctl EXCEPT !.stack = Front(@), !.connecting = FALSE]
    /\ IF f.state = "ok"
       THEN /\ said' = [said EXCEPT !.status = "done", !.code = 0]
            /\ UNCHANGED <<wire, dev>>
       ELSE /\ dev' = disconnect(dev)
            /\ wire' = {}
            /\ said' = [said EXCEPT !.status = "error", !.code = 1, !.wanted = FALSE]

\* What ws.connect's loop has seen, wherever it is in the stack.
WsSees(state) ==
    ctl' = [ctl EXCEPT !.stack = [i \in DOMAIN @ |-> IF @[i].kind = "connect"
                                                     THEN [@[i] EXCEPT !.state = state] ELSE @[i]]]

(* The socket, external: connects, fails, or is closed by the server. *)
SocketConnected ==
    /\ dev.socket = "opening"
    /\ dev' = onConnected(dev)
    /\ wire' = dev.subs
    /\ WsSees("ok")
    /\ UNCHANGED said

\* An error of an open socket is only reported as an event.
SocketError ==
    /\ dev.socket = "opening"
    /\ dev' = [dev EXCEPT !.socket = "closed"]
    /\ WsSees("failed")
    /\ UNCHANGED <<wire, said>>

SocketDisconnected ==
    /\ dev.socket = "open"
    /\ dev' = onDisconnected(dev)
    /\ wire' = {}
    /\ UNCHANGED <<ctl, said>>

Next ==
    \/ handle
    \/ \E i \in DOMAIN ctl.stack :
         \/ \E r \in {"ok", "refused", "nocode", "bad"} : HttpReply(i, r)
         \/ TimerFires(i)
    \/ ReturnHttp
    \/ ReturnWsConnect
    \/ SocketConnected
    \/ SocketError
    \/ SocketDisconnected

Spec == Init /\ [][Next]_vars

-----------------------------------------------------------------------------
(* Properties *)

TypeOK ==
    /\ Len(ctl.stack) <= said.n /\ said.n <= MaxCommands
    /\ ctl.connecting <=> \E i \in DOMAIN ctl.stack : ctl.stack[i].kind = "connect"
    /\ ctl.token \in {"", "own", "session"} /\ ctl.base \in Addrs
    /\ dev.socket \in {"closed", "opening", "open"}
    /\ dev.subs \subseteq Topics /\ wire \subseteq Topics
    /\ said.status \in {"none", "done", "error"} /\ said.wanted \in BOOLEAN

(***************************************************************************)
(* Whatever handlers run inside one another: a request goes to the address *)
(* and with the token its command named; the WebSocket is connected only   *)
(* if the host's last word on it, ws.connect or ws.disconnect, asked for   *)
(* it and did not fail; and the server's subscriptions are the client's.   *)
(***************************************************************************)
AnswersAreTrue ==
    /\ \A i \in DOMAIN ctl.stack : LET f == ctl.stack[i] IN
         f.kind = "http" => f.sent[1] = f.own[1] /\ (f.own[2] # "" => f.sent[2] = f.own[2])
    /\ dev.connected => said.wanted /\ wire = dev.subs
    /\ dev.beat <=> dev.connected
=============================================================================
