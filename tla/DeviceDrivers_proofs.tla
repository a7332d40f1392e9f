------------------------ MODULE DeviceDrivers_proofs ------------------------
(***************************************************************************)
(* Proofs about the drivers of DeviceDrivers, for any number of commands   *)
(* and any addresses, topics and nodes.                                    *)
(***************************************************************************)
EXTENDS DeviceDrivers, SequenceTheorems, FiniteSetTheorems, TLAPS

-----------------------------------------------------------------------------
(* driver_3dvision *)

\* Tokens: none, the one of the command, that of the session.
Tokens == {"", "own", "session"}

VisionFrame ==
    [kind : {"http", "login", "connect"}, own : (Addrs \X Tokens), sent : (Addrs \X Tokens),
     state : {"waiting", "ok", "refused", "nocode", "bad", "failed", "expired"}]

VisionSocket ==
    [socket : {"closed", "opening", "open"}, connected : BOOLEAN, url : Addrs \cup {""},
     subs : SUBSET Topics, beat : BOOLEAN]

VisionSaid == [n : Nat, status : {"none", "done", "error"}, code : Int, wanted : BOOLEAN]

(* A request goes where its command said, with the token it named. *)
SentAsAsked(f) ==
    f.kind = "http" => f.sent[1] = f.own[1] /\ (f.own[2] # "" => f.sent[2] = f.own[2])

VisionTypes ==
    /\ ctl \in [stack : Seq(VisionFrame), base : Addrs, token : Tokens, connecting : BOOLEAN]
    /\ dev \in VisionSocket
    /\ said \in VisionSaid

(***************************************************************************)
(* The socket is open exactly while the client counts as connected, and an *)
(* attempt is under way only while the host wants the connection: without  *)
(* the second, a socket that opens late would connect unasked.             *)
(***************************************************************************)
SocketInv ==
    /\ dev.connected <=> dev.socket = "open"
    /\ dev.beat <=> dev.connected
    /\ dev.socket # "closed" => said.wanted
    /\ dev.connected => wire = dev.subs

VisionInv ==
    /\ VisionTypes
    /\ \A i \in DOMAIN ctl.stack : SentAsAsked(ctl.stack[i])
    /\ SocketInv

(* Every command that declares a token has a handler that takes it over. *)
LEMMA TokensTaken == Vision!TakesToken \subseteq Vision!SetsToken
  <1>1. Vision!Groups = {Vision!UserMeta, Vision!VesselMeta, Vision!LogMeta, Vision!FilterMeta,
                         Vision!PlatformMeta, Vision!ModelMeta}
    BY DEF Vision!Groups
  <1>2. Vision!TakesToken = Vision!UserMeta.token \cup Vision!VesselMeta.token
            \cup Vision!LogMeta.token \cup Vision!FilterMeta.token
            \cup Vision!PlatformMeta.token \cup Vision!ModelMeta.token
    BY <1>1 DEF Vision!TakesToken
  <1>3. /\ Vision!UserMeta.token = Vision!UserHandlers
        /\ Vision!VesselMeta.token = Vision!VesselHandlers
        /\ Vision!FilterMeta.token = Vision!FilterHandlers
        /\ Vision!LogMeta.token = {} /\ Vision!PlatformMeta.token = {}
        /\ Vision!ModelMeta.token = {}
    BY DEF Vision!UserMeta, Vision!UserHandlers, Vision!VesselMeta, Vision!VesselHandlers,
           Vision!FilterMeta, Vision!FilterHandlers, Vision!LogMeta, Vision!PlatformMeta,
           Vision!ModelMeta
  <1> QED  BY <1>2, <1>3 DEF Vision!SetsToken

(* A handler that waits joins the others, innermost. *)
LEMMA PushFrame ==
    ASSUME VisionInv, NEW f \in VisionFrame, SentAsAsked(f)
    PROVE  /\ Vision!Push(f) \in Seq(VisionFrame)
           /\ \A i \in DOMAIN Vision!Push(f) : SentAsAsked(Vision!Push(f)[i])
  <1> DEFINE s == ctl.stack
  <1>1. s \in Seq(VisionFrame)
    BY DEF VisionInv, VisionTypes
  <1>2. /\ Append(s, f) \in Seq(VisionFrame)
        /\ Len(Append(s, f)) = Len(s) + 1 /\ Len(s) \in Nat
        /\ \A i \in 1..Len(s) : Append(s, f)[i] = s[i]
        /\ Append(s, f)[Len(s) + 1] = f
    BY <1>1, AppendProperties
  <1>3. \A i \in 1..Len(s) : SentAsAsked(s[i])
    BY <1>1 DEF VisionInv
  <1>4. \A i \in 1..(Len(s) + 1) : SentAsAsked(Append(s, f)[i])
    <2> HIDE DEF s
    <2> QED  BY <1>2, <1>3
  <1>5. DOMAIN Append(s, f) = 1..(Len(s) + 1)
    BY <1>1, <1>2
  <1> QED  BY <1>2, <1>4, <1>5 DEF Vision!Push

(* One that returns leaves the others as they are. *)
LEMMA PopFrame ==
    ASSUME VisionInv, ctl.stack # <<>>
    PROVE  /\ Vision!Front(ctl.stack) \in Seq(VisionFrame)
           /\ \A i \in DOMAIN Vision!Front(ctl.stack) : SentAsAsked(Vision!Front(ctl.stack)[i])
           /\ Vision!Last(ctl.stack) \in VisionFrame
  <1> DEFINE s == ctl.stack
             n == Len(s) - 1
  <1>0. s \in Seq(VisionFrame)
    BY DEF VisionInv, VisionTypes
  <1>1. s \in Seq(VisionFrame) /\ \A i \in 1..Len(s) : SentAsAsked(s[i])
    BY <1>0 DEF VisionInv
  <1>2. Len(s) \in Nat \ {0}
    BY <1>1, EmptySeq, LenProperties
  <1> HIDE DEF s
  <1>3. \A i \in 1..n : s[i] \in VisionFrame
    BY <1>1, <1>2, ElementOfSeq
  <1>4. /\ SubSeq(s, 1, n) \in Seq(VisionFrame)
        /\ DOMAIN SubSeq(s, 1, n) = 1..n
        /\ \A i \in 1..n : SubSeq(s, 1, n)[i] = s[i]
    BY <1>1, <1>2, <1>3
  <1>5. s[Len(s)] \in VisionFrame
    BY <1>1, <1>2, ElementOfSeq
  <1> QED  BY <1>1, <1>2, <1>4, <1>5 DEF Vision!Front, Vision!Last, s

(* A loop sees something: only the state of a frame changes. *)
LEMMA SeeFrames ==
    ASSUME VisionInv, NEW t \in Seq(VisionFrame), DOMAIN t = DOMAIN ctl.stack,
           \A i \in DOMAIN t : /\ t[i].kind = ctl.stack[i].kind
                               /\ t[i].own = ctl.stack[i].own
                               /\ t[i].sent = ctl.stack[i].sent
    PROVE  \A i \in DOMAIN t : SentAsAsked(t[i])
  <1> TAKE i \in DOMAIN t
  <1>1. SentAsAsked(ctl.stack[i])
    BY DEF VisionInv
  <1> QED  BY <1>1 DEF SentAsAsked

(* A step that changes the handlers only. *)
LEMMA HandlersChange ==
    ASSUME VisionInv, NEW t \in Seq(VisionFrame), \A i \in DOMAIN t : SentAsAsked(t[i]),
           NEW b \in Addrs, NEW k \in Tokens, NEW c \in BOOLEAN,
           ctl' = [stack |-> t, base |-> b, token |-> k, connecting |-> c],
           dev' \in VisionSocket,
           said' \in VisionSaid,
           SocketInv'
    PROVE  VisionInv'
  BY DEF VisionInv, VisionTypes

(* A command is counted and, if it is answered at once, the answer is kept. *)
LEMMA AnotherCommand ==
    ASSUME VisionTypes
    PROVE  /\ [said EXCEPT !.n = @ + 1] \in VisionSaid
           /\ [said EXCEPT !.n = @ + 1].wanted = said.wanted
           /\ \A s \in {"none", "done", "error"}, k \in Int :
                /\ Vision!Answered(s, k) \in VisionSaid
                /\ Vision!Answered(s, k).wanted = said.wanted
  <1>1. said \in VisionSaid
    BY DEF VisionTypes
  <1>2. PICK m \in Nat : m = said.n + 1
    BY <1>1 DEF VisionSaid
  <1>3. [said EXCEPT !.n = m] \in VisionSaid /\ [said EXCEPT !.n = m].wanted = said.wanted
    BY <1>1 DEF VisionSaid
  <1>4. ASSUME NEW s \in {"none", "done", "error"}, NEW k \in Int
        PROVE  /\ [said EXCEPT !.n = m, !.status = s, !.code = k] \in VisionSaid
               /\ [said EXCEPT !.n = m, !.status = s, !.code = k].wanted = said.wanted
    BY <1>1 DEF VisionSaid
  <1> QED  BY <1>2, <1>3, <1>4 DEF Vision!Answered

(* An HTTP command. *)
LEMMA HttpKeeps ==
    ASSUME VisionInv, NEW c \in Vision!HttpCommands, NEW a \in Addrs, NEW t \in {"", "own"},
           Vision!HandleHttp(c, a, t)
    PROVE  VisionInv'
  <1> DEFINE held == IF c \in Vision!SetsToken /\ t # "" THEN t ELSE ctl.token
             kind == IF c = "login" THEN "login" ELSE "http"
             f == Vision!HttpFrame(kind, <<a, t>>, <<a, held>>)
  <1>1. held \in Tokens
    BY DEF Tokens, VisionInv, VisionTypes
  <1>2. t # "" => held = t
    BY TokensTaken DEF Vision!HandleHttp
  <1>3. f \in VisionFrame
    BY <1>1 DEF Vision!HttpFrame, VisionFrame, Tokens
  <1>4. SentAsAsked(f)
    BY <1>2 DEF Vision!HttpFrame, SentAsAsked
  <1>5. ctl' = [ctl EXCEPT !.base = a, !.token = held, !.stack = Vision!Push(f)]
    BY DEF Vision!HandleHttp
  <1> HIDE DEF f, held
  <1>6. /\ Vision!Push(f) \in Seq(VisionFrame)
        /\ \A i \in DOMAIN Vision!Push(f) : SentAsAsked(Vision!Push(f)[i])
    BY <1>3, <1>4, PushFrame
  <1>7. ctl' = [stack |-> Vision!Push(f), base |-> a, token |-> held,
                connecting |-> ctl.connecting] /\ ctl.connecting \in BOOLEAN
    BY <1>5 DEF VisionInv, VisionTypes
  <1>8. said' = [said EXCEPT !.n = @ + 1] /\ dev' = dev /\ wire' = wire
    BY DEF Vision!HandleHttp
  <1>9. said' \in VisionSaid /\ said'.wanted = said.wanted
    BY <1>8, AnotherCommand DEF VisionInv, VisionTypes
  <1>10. SocketInv'
    BY <1>8, <1>9 DEF VisionInv, SocketInv
  <1> QED  BY <1>1, <1>6, <1>7, <1>8, <1>9, <1>10, HandlersChange DEF VisionInv, VisionTypes

(* ws.connect *)
LEMMA WsConnectKeeps ==
    ASSUME VisionInv, NEW url \in Addrs, Vision!handleWsConnect(url)
    PROVE  VisionInv'
  <1>0. VisionTypes /\ SocketInv
    BY DEF VisionInv
  <1>1. CASE ctl.connecting
    <2>1. said' = Vision!Answered("error", 1) /\ UNCHANGED <<ctl, wire, dev>>
      BY <1>1 DEF Vision!handleWsConnect
    <2>2. said' \in VisionSaid /\ said'.wanted = said.wanted
      BY <2>1, <1>0, AnotherCommand
    <2> QED  BY <2>1, <2>2 DEF VisionInv, VisionTypes, SocketInv
  <1>2. CASE ~ctl.connecting /\ dev.connected /\ dev.url = url
    <2>1. said' = [Vision!Answered("done", 0) EXCEPT !.wanted = TRUE] /\ UNCHANGED <<ctl, wire, dev>>
      BY <1>2 DEF Vision!handleWsConnect
    <2>2. said' \in VisionSaid /\ said'.wanted
      <3>1. Vision!Answered("done", 0) \in VisionSaid
        BY <1>0, AnotherCommand
      <3> QED  BY <2>1, <3>1 DEF VisionSaid
    <2> QED  BY <2>1, <2>2 DEF VisionInv, VisionTypes, SocketInv
  <1>3. CASE ~ctl.connecting /\ ~(dev.connected /\ dev.url = url)
    <2> DEFINE f == Vision!WsFrame(url)
    <2>1. /\ ctl' = [ctl EXCEPT !.connecting = TRUE, !.stack = Vision!Push(f)]
          /\ dev' = Vision!connectToServer(dev, url)
          /\ said' = [said EXCEPT !.n = @ + 1, !.wanted = TRUE]
      BY <1>3 DEF Vision!handleWsConnect
    <2>2. f \in VisionFrame /\ SentAsAsked(f)
      BY DEF Vision!WsFrame, VisionFrame, SentAsAsked, Tokens
    <2> HIDE DEF f
    <2>3. /\ Vision!Push(f) \in Seq(VisionFrame)
          /\ \A i \in DOMAIN Vision!Push(f) : SentAsAsked(Vision!Push(f)[i])
      BY <2>2, PushFrame
    <2>4. /\ ctl' = [stack |-> Vision!Push(f), base |-> ctl.base, token |-> ctl.token,
                     connecting |-> TRUE]
          /\ ctl.base \in Addrs /\ ctl.token \in Tokens
      BY <2>1, <1>0 DEF VisionTypes
    <2>5. said' \in VisionSaid /\ said'.wanted
      <3>1. [said EXCEPT !.n = @ + 1] \in VisionSaid
        BY <1>0, AnotherCommand
      <3>2. said' = [[said EXCEPT !.n = @ + 1] EXCEPT !.wanted = TRUE]
        BY <2>1, <1>0 DEF VisionTypes, VisionSaid
      <3> QED  BY <3>1, <3>2 DEF VisionSaid
    <2>6. /\ dev' \in VisionSocket
          /\ dev'.socket = "opening" /\ ~dev'.connected /\ ~dev'.beat
      BY <2>1, <1>0, <1>3 DEF Vision!connectToServer, VisionTypes, VisionSocket, SocketInv
    <2>7. SocketInv'
      BY <2>5, <2>6 DEF SocketInv
    <2> QED  BY <2>3, <2>4, <2>5, <2>6, <2>7, HandlersChange
  <1> QED  BY <1>1, <1>2, <1>3

(* ws.subscribe and ws.unsubscribe *)
LEMMA WsTopicsKeep ==
    ASSUME VisionInv, NEW t \in Topics, Vision!handleWsSubscribe(t) \/ Vision!handleWsUnsubscribe(t)
    PROVE  VisionInv'
  <1>0. VisionTypes /\ SocketInv
    BY DEF VisionInv
  <1>1. ctl' = ctl
    BY DEF Vision!handleWsSubscribe, Vision!handleWsUnsubscribe
  <1>2. said' \in VisionSaid /\ said'.wanted = said.wanted
    BY <1>0, AnotherCommand DEF Vision!handleWsSubscribe, Vision!handleWsUnsubscribe
  <1>3. CASE ~dev.connected
    <2>1. dev' = dev /\ wire' = wire
      BY <1>3 DEF Vision!handleWsSubscribe, Vision!handleWsUnsubscribe
    <2> QED  BY <1>1, <1>2, <2>1 DEF VisionInv, VisionTypes, SocketInv
  <1>4. CASE dev.connected
    <2>1. PICK T \in SUBSET Topics : dev' = [dev EXCEPT !.subs = T] /\ wire' = T
      <3>1. wire = dev.subs /\ dev.subs \subseteq Topics
        BY <1>0, <1>4 DEF SocketInv, VisionTypes, VisionSocket
      <3>2. \/ dev' = [dev EXCEPT !.subs = dev.subs \cup {t}] /\ wire' = dev.subs \cup {t}
            \/ dev' = [dev EXCEPT !.subs = dev.subs \ {t}] /\ wire' = dev.subs \ {t}
        BY <1>4, <3>1 DEF Vision!handleWsSubscribe, Vision!handleWsUnsubscribe
      <3>3. dev.subs \cup {t} \in SUBSET Topics /\ dev.subs \ {t} \in SUBSET Topics
        BY <3>1
      <3> QED  BY <3>2, <3>3
    <2>2. dev' \in VisionSocket /\ dev'.subs = T /\ dev'.socket = dev.socket
          /\ dev'.connected = dev.connected /\ dev'.beat = dev.beat
      BY <2>1, <1>0 DEF VisionTypes, VisionSocket
    <2> QED  BY <1>0, <1>1, <1>2, <2>1, <2>2 DEF VisionInv, VisionTypes, SocketInv
  <1> QED  BY <1>3, <1>4

(* The socket is closed, as ws.disconnect and a failed ws.connect do it. *)
LEMMA ClosedSocket ==
    /\ Vision!NoSocket \in VisionSocket
    /\ Vision!NoSocket.socket = "closed" /\ ~Vision!NoSocket.connected /\ ~Vision!NoSocket.beat
  BY DEF Vision!NoSocket, VisionSocket

(* A command of the host. *)
LEMMA CommandKeeps ==
    ASSUME VisionInv, Vision!handle
    PROVE  VisionInv'
  <1>1. ASSUME NEW c \in Vision!HttpCommands, NEW a \in Addrs, NEW t \in {"", "own"},
               Vision!HandleHttp(c, a, t)
        PROVE  VisionInv'
    BY <1>1, HttpKeeps
  <1>2. ASSUME NEW a \in Addrs, Vision!handleWsConnect(a)
        PROVE  VisionInv'
    BY <1>2, WsConnectKeeps
  <1>3. ASSUME NEW t \in Topics, Vision!handleWsSubscribe(t) \/ Vision!handleWsUnsubscribe(t)
        PROVE  VisionInv'
    BY <1>3, WsTopicsKeep
  <1>4. ASSUME Vision!handleWsDisconnect
        PROVE  VisionInv'
    <2>1. /\ dev' = Vision!NoSocket /\ ctl' = ctl
          /\ said' = [Vision!Answered("done", 0) EXCEPT !.wanted = FALSE]
      BY <1>4 DEF Vision!handleWsDisconnect, Vision!disconnect
    <2>2. said' \in VisionSaid
      <3>1. Vision!Answered("done", 0) \in VisionSaid
        BY AnotherCommand DEF VisionInv
      <3> QED  BY <2>1, <3>1 DEF VisionSaid
    <2> QED  BY <2>1, <2>2, ClosedSocket DEF VisionInv, VisionTypes, SocketInv
  <1>5. ASSUME said' = Vision!Answered("error", 404), UNCHANGED <<ctl, wire, dev>>
        PROVE  VisionInv'
    <2>1. said' \in VisionSaid /\ said'.wanted = said.wanted
      BY <1>5, AnotherCommand DEF VisionInv
    <2> QED  BY <1>5, <2>1 DEF VisionInv, VisionTypes, SocketInv
  <1> QED  BY <1>1, <1>2, <1>3, <1>4, <1>5 DEF Vision!handle, Vision!WsMeta

FrameStates == {"waiting", "ok", "refused", "nocode", "bad", "failed", "expired"}

(* The loops of some frames see something. *)
LEMMA LoopsSee ==
    ASSUME VisionInv, NEW W \in SUBSET DOMAIN ctl.stack, NEW state \in FrameStates,
           ctl' = [ctl EXCEPT !.stack = [i \in DOMAIN ctl.stack |->
                     IF i \in W THEN [ctl.stack[i] EXCEPT !.state = state] ELSE ctl.stack[i]]],
           dev' \in VisionSocket, said' \in VisionSaid, SocketInv'
    PROVE  VisionInv'
  <1> DEFINE s == ctl.stack
             t == [i \in DOMAIN s |-> IF i \in W THEN [s[i] EXCEPT !.state = state] ELSE s[i]]
  <1>1. s \in Seq(VisionFrame) /\ ctl.base \in Addrs /\ ctl.token \in Tokens
        /\ ctl.connecting \in BOOLEAN
    BY DEF VisionInv, VisionTypes
  <1>2. ctl' = [stack |-> t, base |-> ctl.base, token |-> ctl.token,
                connecting |-> ctl.connecting]
    BY DEF VisionInv, VisionTypes
  <1>3. ASSUME NEW i \in DOMAIN s
        PROVE  /\ t[i] \in VisionFrame
               /\ t[i].kind = s[i].kind /\ t[i].own = s[i].own /\ t[i].sent = s[i].sent
    <2>1. s[i] \in VisionFrame
      BY <1>1
    <2> QED  BY <2>1 DEF VisionFrame, FrameStates
  <1>4. DOMAIN s = 1..Len(s) /\ Len(s) \in Nat
    BY <1>1
  <1>5. t \in Seq(VisionFrame) /\ DOMAIN t = DOMAIN s
    <2> HIDE DEF s
    <2>1. \A i \in 1..Len(s) : t[i] \in VisionFrame
      BY <1>3, <1>4
    <2>2. t = [i \in 1..Len(s) |-> t[i]]
      BY <1>4
    <2> HIDE DEF t
    <2> QED  BY <1>4, <2>1, <2>2, IsASeq
  <1>6. \A i \in DOMAIN t : SentAsAsked(t[i])
    <2>1. \A i \in DOMAIN t : t[i].kind = s[i].kind /\ t[i].own = s[i].own /\ t[i].sent = s[i].sent
      BY <1>3
    <2> HIDE DEF t
    <2> QED  BY <1>5, <2>1, SeeFrames
  <1> HIDE DEF t
  <1>7. ctl'.stack = t
    BY <1>2
  <1>8. VisionTypes'
    <2>1. t \in Seq(VisionFrame)
      BY <1>5
    <2>2. ctl' \in [stack : Seq(VisionFrame), base : Addrs, token : Tokens, connecting : BOOLEAN]
      <3> HIDE DEF s
      <3> QED  BY ONLY <1>1, <1>2, <2>1
    <2> QED  BY <2>2 DEF VisionTypes
  <1> QED  BY <1>6, <1>7, <1>8 DEF VisionInv

(* A reply, or the timer of a loop. *)
LEMMA ReplyKeeps ==
    ASSUME VisionInv, NEW i \in DOMAIN ctl.stack, NEW r \in {"ok", "refused", "nocode", "bad"},
           Vision!HttpReply(i, r) \/ Vision!TimerFires(i)
    PROVE  VisionInv'
  <1>1. PICK state \in FrameStates : ctl' = [ctl EXCEPT !.stack[i].state = state]
    BY DEF FrameStates, Vision!HttpReply, Vision!TimerFires
  <1>2. dev' = dev /\ said' = said /\ wire' = wire
    BY DEF Vision!HttpReply, Vision!TimerFires
  <1>3. ctl.stack \in Seq(VisionFrame)
    BY DEF VisionInv, VisionTypes
  <1>4. [ctl.stack EXCEPT ![i].state = state]
          = [j \in DOMAIN ctl.stack |->
               IF j \in {i} THEN [ctl.stack[j] EXCEPT !.state = state] ELSE ctl.stack[j]]
    BY <1>3
  <1>5. ctl' = [ctl EXCEPT !.stack = [ctl.stack EXCEPT ![i].state = state]]
    BY <1>1 DEF VisionInv, VisionTypes
  <1>6. dev' \in VisionSocket /\ said' \in VisionSaid /\ SocketInv'
    BY <1>2 DEF VisionInv, VisionTypes, SocketInv
  <1> QED  BY <1>4, <1>5, <1>6, LoopsSee

(* A handler returns, of an HTTP command or of ws.connect. *)
LEMMA ReturnKeeps ==
    ASSUME VisionInv, Vision!ReturnHttp \/ Vision!ReturnWsConnect
    PROVE  VisionInv'
  <1> DEFINE t == Vision!Front(ctl.stack)
             f == Vision!Last(ctl.stack)
  <1>0. VisionTypes /\ SocketInv /\ said \in VisionSaid
    BY DEF VisionInv, VisionTypes
  <1>1. /\ t \in Seq(VisionFrame) /\ \A i \in DOMAIN t : SentAsAsked(t[i])
        /\ f \in VisionFrame
    BY PopFrame DEF Vision!ReturnHttp, Vision!ReturnWsConnect
  <1>2. CASE Vision!ReturnHttp
    <2>1. PICK k \in Tokens : ctl' = [ctl EXCEPT !.stack = t, !.token = k]
      <3>1. ctl.token \in Tokens /\ "session" \in Tokens /\ "" \in Tokens
        BY <1>0 DEF VisionTypes, Tokens
      <3> QED  BY <1>2, <3>1 DEF Vision!ReturnHttp
    <2>2. /\ ctl' = [stack |-> t, base |-> ctl.base, token |-> k, connecting |-> ctl.connecting]
          /\ ctl.base \in Addrs /\ ctl.connecting \in BOOLEAN
      BY <2>1, <1>0 DEF VisionTypes
    <2>3. PICK n \in Int : said' = [said EXCEPT !.status = IF n = 0 THEN "done" ELSE "error",
                                                !.code = n]
      <3>1. Vision!CodeOf(f.state) \in Int
        BY DEF Vision!CodeOf
      <3> QED  BY <1>2, <3>1 DEF Vision!ReturnHttp
    <2>4. said' \in VisionSaid /\ said'.wanted = said.wanted
      BY <2>3, <1>0 DEF VisionSaid
    <2>5. dev' = dev /\ wire' = wire
      BY <1>2 DEF Vision!ReturnHttp
    <2>6. SocketInv'
      BY <1>0, <2>4, <2>5 DEF SocketInv
    <2> HIDE DEF t
    <2> QED  BY <1>0, <1>1, <2>2, <2>4, <2>5, <2>6, HandlersChange DEF VisionTypes
  <1>3. CASE Vision!ReturnWsConnect
    <2>1. ctl' = [ctl EXCEPT !.stack = t, !.connecting = FALSE]
      BY <1>3 DEF Vision!ReturnWsConnect
    <2>2. /\ ctl' = [stack |-> t, base |-> ctl.base, token |-> ctl.token, connecting |-> FALSE]
          /\ ctl.base \in Addrs /\ ctl.token \in Tokens
      BY <2>1, <1>0 DEF VisionTypes
    <2>3. CASE f.state = "ok"
      <3>1. dev' = dev /\ wire' = wire /\ said' = [said EXCEPT !.status = "done", !.code = 0]
        BY <1>3, <2>3 DEF Vision!ReturnWsConnect
      <3>2. said' \in VisionSaid /\ said'.wanted = said.wanted
        <4>1. PICK n \in Int : n = 0
          OBVIOUS
        <4>2. said' = [said EXCEPT !.status = "done", !.code = n]
          BY <3>1, <4>1
        <4> QED  BY <4>2, <1>0 DEF VisionSaid
      <3>3. SocketInv'
        BY <1>0, <3>1, <3>2 DEF SocketInv
      <3> HIDE DEF t
      <3> QED  BY <1>0, <1>1, <2>2, <3>1, <3>2, <3>3, HandlersChange DEF VisionTypes
    <2>4. CASE f.state # "ok"
      <3>1. /\ dev' = Vision!NoSocket
            /\ said' = [said EXCEPT !.status = "error", !.code = 1, !.wanted = FALSE]
        BY <1>3, <2>4 DEF Vision!ReturnWsConnect, Vision!disconnect
      <3>2. said' \in VisionSaid
        <4>1. PICK n \in Int : n = 1
          OBVIOUS
        <4>2. said' = [said EXCEPT !.status = "error", !.code = n, !.wanted = FALSE]
          BY <3>1, <4>1
        <4> QED  BY <4>2, <1>0 DEF VisionSaid
      <3>3. SocketInv'
        BY <3>1, ClosedSocket DEF SocketInv
      <3> HIDE DEF t
      <3> QED  BY <1>1, <2>2, <3>1, <3>2, <3>3, ClosedSocket, HandlersChange
    <2> QED  BY <2>3, <2>4
  <1> QED  BY <1>2, <1>3

(* The socket opens, fails, or is closed by the server. *)
LEMMA SocketKeeps ==
    ASSUME VisionInv,
           Vision!SocketConnected \/ Vision!SocketError \/ Vision!SocketDisconnected
    PROVE  VisionInv'
  <1>0. VisionTypes /\ SocketInv /\ said \in VisionSaid /\ dev \in VisionSocket
    BY DEF VisionInv, VisionTypes
  <1>1. said' = said
    BY DEF Vision!SocketConnected, Vision!SocketError, Vision!SocketDisconnected
  <1>2. dev' \in VisionSocket /\ SocketInv'
    <2>1. CASE Vision!SocketConnected
      <3>1. dev' = [dev EXCEPT !.socket = "open", !.connected = TRUE, !.beat = TRUE]
            /\ wire' = dev.subs /\ dev.socket = "opening"
        BY <2>1 DEF Vision!SocketConnected, Vision!onConnected
      <3> QED  BY <3>1, <1>0, <1>1 DEF SocketInv, VisionSocket
    <2>2. CASE Vision!SocketError
      <3>1. dev' = [dev EXCEPT !.socket = "closed"] /\ wire' = wire /\ dev.socket = "opening"
        BY <2>2 DEF Vision!SocketError
      <3> QED  BY <3>1, <1>0, <1>1 DEF SocketInv, VisionSocket
    <2>3. CASE Vision!SocketDisconnected
      <3>1. dev' = [dev EXCEPT !.socket = "closed", !.connected = FALSE, !.beat = FALSE]
        BY <2>3 DEF Vision!SocketDisconnected, Vision!onDisconnected
      <3> QED  BY <3>1, <1>0, <1>1 DEF SocketInv, VisionSocket
    <2> QED  BY <2>1, <2>2, <2>3
  <1>3. ASSUME NEW state \in FrameStates, Vision!WsSees(state)
        PROVE  VisionInv'
    <2> DEFINE W == {i \in DOMAIN ctl.stack : ctl.stack[i].kind = "connect"}
    <2>1. [ctl EXCEPT !.stack = [i \in DOMAIN @ |-> IF @[i].kind = "connect"
                                   THEN [@[i] EXCEPT !.state = state] ELSE @[i]]]
            = [ctl EXCEPT !.stack = [i \in DOMAIN ctl.stack |->
                  IF i \in W THEN [ctl.stack[i] EXCEPT !.state = state] ELSE ctl.stack[i]]]
      BY <1>0 DEF VisionTypes
    <2> QED  BY <1>0, <1>1, <1>2, <1>3, <2>1, LoopsSee DEF Vision!WsSees
  <1>4. CASE Vision!SocketConnected \/ Vision!SocketError
    BY <1>3, <1>4 DEF FrameStates, Vision!SocketConnected, Vision!SocketError
  <1>5. CASE Vision!SocketDisconnected
    <2>1. ctl' = ctl
      BY <1>5 DEF Vision!SocketDisconnected
    <2> QED  BY <1>1, <1>2, <2>1 DEF VisionInv, VisionTypes
  <1> QED  BY <1>4, <1>5

(* The invariant of driver_3dvision holds while that driver runs. *)
LEMMA VisionStep ==
    ASSUME VisionInv, Vision!Next
    PROVE  VisionInv'
  <1>1. CASE Vision!handle
    BY <1>1, CommandKeeps
  <1>2. ASSUME NEW i \in DOMAIN ctl.stack,
               (\E r \in {"ok", "refused", "nocode", "bad"} : Vision!HttpReply(i, r))
                 \/ Vision!TimerFires(i)
        PROVE  VisionInv'
    BY <1>2, ReplyKeeps
  <1>3. CASE Vision!ReturnHttp \/ Vision!ReturnWsConnect
    BY <1>3, ReturnKeeps
  <1>4. CASE Vision!SocketConnected \/ Vision!SocketError \/ Vision!SocketDisconnected
    BY <1>4, SocketKeeps
  <1> QED  BY <1>1, <1>2, <1>3, <1>4 DEF Vision!Next

(***************************************************************************)
(* driver_3dvision, for any number of commands handled inside one another: *)
(* requests go to the address and with the token of their command, and the *)
(* WebSocket is connected only while the host wants it, with the           *)
(* subscriptions the server has (http_client.cpp, websocket_client.cpp).   *)
(***************************************************************************)
THEOREM VisionAnswersAreTrue == Spec => []VisionAnswers
  <1> DEFINE I == driver = "3dvision" => VisionInv
  <1>1. Init => I
    <2> SUFFICES ASSUME Vision!Init
                 PROVE  VisionInv
      BY DEF Init
    <2>1. /\ ctl = [stack |-> <<>>, base |-> Vision!Default, token |-> "", connecting |-> FALSE]
          /\ dev = Vision!NoSocket
          /\ said = [n |-> 0, status |-> "none", code |-> 0, wanted |-> FALSE]
      BY DEF Vision!Init
    <2>2. Vision!Default \in Addrs
      BY DevicesAssumption DEF Vision!Default
    <2>3. ctl.stack = <<>> /\ VisionTypes
      <3>1. said \in VisionSaid
        <4>1. PICK n \in Int, m \in Nat : n = 0 /\ m = 0
          OBVIOUS
        <4>2. said = [n |-> m, status |-> "none", code |-> n, wanted |-> FALSE]
          BY <2>1, <4>1
        <4> QED  BY <4>2 DEF VisionSaid
      <3>2. <<>> \in Seq(VisionFrame)
        OBVIOUS
      <3> QED  BY <2>1, <2>2, <3>1, <3>2, ClosedSocket DEF VisionTypes, Tokens
    <2>4. SocketInv
      BY <2>1, ClosedSocket DEF SocketInv
    <2> QED  BY <2>3, <2>4 DEF VisionInv
  <1>2. I /\ [Next]_vars => I'
    <2>1. ASSUME I, Next
          PROVE  I'
      BY <2>1, VisionStep DEF Next, DriverStep
    <2>2. ASSUME I, UNCHANGED vars
          PROVE  I'
      BY <2>2 DEF vars, VisionInv, VisionTypes, SocketInv
    <2> QED  BY <2>1, <2>2
  <1>3. I => VisionAnswers
    BY DEF VisionInv, SocketInv, SentAsAsked, VisionAnswers, Vision!AnswersAreTrue
  <1> QED  BY <1>1, <1>2, <1>3, PTL DEF Spec

-----------------------------------------------------------------------------
(* The walk of driver_opcua *)

WalkFrame == [node : OpcNodes, expand : BOOLEAN, read : BOOLEAN, todo : SUBSET OpcNodes]

WalkCtl ==
    [cmd : {"none", "inspect_node", "snapshot_nodes"}, stack : Seq(WalkFrame),
     visited : SUBSET OpcNodes, listed : Seq(OpcNodes), recurse : BOOLEAN, start : SUBSET OpcNodes]

WalkDev ==
    [class : [OpcNodes -> {"object", "variable", "method"}],
     refs : [OpcNodes -> SUBSET OpcNodes], there : SUBSET OpcNodes, changes : Nat]

WalkSaid ==
    [n : Nat, cmd : {"none", "status", "unknown", "inspect_node", "snapshot_nodes"},
     status : {"none", "done", "error"}, code : Nat, listed : Seq(OpcNodes), root : OpcNodes,
     recurse : BOOLEAN, stable : BOOLEAN, there : SUBSET OpcNodes]

WalkTypes == ctl \in WalkCtl /\ dev \in WalkDev /\ said \in WalkSaid

Depth == Len(ctl.stack)
Frame(i) == ctl.stack[i]

(***************************************************************************)
(* The calls under way: only the innermost may not have read its node yet, *)
(* and those that have gone, or may still go, to a child are of different  *)
(* nodes, since a node is expanded on its first visit only.                *)
(***************************************************************************)
NestInv ==
    /\ \A i \in 1..Depth :
         /\ i < Depth => Frame(i).read
         /\ Frame(i).read => Frame(i).node \in ctl.visited
         /\ Frame(i).todo # {} => Frame(i).read /\ Frame(i).expand
    /\ \A i, j \in 1..Depth :
         i < j /\ (j < Depth \/ Frame(j).todo # {}) => Frame(i).node # Frame(j).node

(* The outermost call is that of the root, and children are expanded as the
   command says. *)
RootInv ==
    /\ ctl.cmd = "none" => Depth = 0
    /\ Depth > 0 =>
        /\ Frame(1).node = said.root /\ Frame(1).expand
        /\ ~Frame(1).read => ctl.visited = {}
        /\ \A i \in 2..Depth : Frame(i).expand = ctl.recurse
        /\ ctl.visited = {ctl.listed[i] : i \in DOMAIN ctl.listed}
        /\ dev.there \subseteq ctl.start
        /\ said.status = "none"

\* What the walk would follow from a node now.
Offers(n) == IF UaClient!isDirectory(n) THEN UaClient!Followed(n) ELSE {}

Exhausted(S) == \A n \in S : Offers(n) \subseteq S

Goal ==
    IF ctl.recurse
    THEN {m \in OpcNodes : \A S \in SUBSET OpcNodes : said.root \in S /\ Exhausted(S) => m \in S}
    ELSE {said.root} \cup Offers(said.root)

\* A node some call has still to list.
Ahead(m) == \E i \in 1..Depth : m \in Frame(i).todo \/ (m = Frame(i).node /\ ~Frame(i).read)

(***************************************************************************)
(* While no node has been deleted: the walk is at nodes of its goal only,  *)
(* and what a visited node offers has been visited or is still ahead.      *)
(***************************************************************************)
CoverInv ==
    Depth > 0 /\ dev.there = ctl.start =>
        /\ ctl.visited \subseteq Goal
        /\ \A i \in 1..Depth : Frame(i).node \in Goal /\ Frame(i).todo \subseteq Goal
        /\ said.root \in ctl.visited \/ Ahead(said.root)
        /\ \A n \in ctl.visited : ctl.recurse \/ n = said.root =>
              \A m \in Offers(n) : m \in ctl.visited \/ Ahead(m)

(* The answer lists what was to be reached, as OpcUaWalk says. *)
AnswerInv ==
    said.status = "done" /\ said.cmd \in {"inspect_node", "snapshot_nodes"} /\ said.stable
        => UaClient!ToSet(said.listed) = UaClient!Reachable(said.root)

WalkInv ==
    /\ WalkTypes
    /\ NestInv
    /\ RootInv
    /\ CoverInv
    /\ AnswerInv

(* The innermost call is replaced, or returns. *)
LEMMA TopFacts ==
    ASSUME NEW S, NEW s \in Seq(S), s # <<>>
    PROVE  LET n == Len(s)
               f == SubSeq(s, 1, Len(s) - 1)
           IN  /\ n \in Nat \ {0} /\ s[n] \in S /\ DOMAIN s = 1..n
               /\ f \in Seq(S) /\ Len(f) = n - 1
               /\ \A i \in 1..(n - 1) : f[i] = s[i]
               /\ \A x \in S : /\ Append(f, x) \in Seq(S) /\ Len(Append(f, x)) = n
                                /\ \A i \in 1..(n - 1) : Append(f, x)[i] = s[i]
                                /\ Append(f, x)[n] = x
  <1> DEFINE n == Len(s)
             f == SubSeq(s, 1, n - 1)
  <1>1. n \in Nat \ {0} /\ DOMAIN s = 1..n
    BY EmptySeq, LenProperties
  <1>2. \A i \in 1..n : s[i] \in S
    BY <1>1, ElementOfSeq
  <1>3. f \in Seq(S) /\ Len(f) = n - 1 /\ \A i \in 1..(n - 1) : f[i] = s[i]
    BY <1>1, <1>2
  <1>4. ASSUME NEW x \in S
        PROVE  /\ Append(f, x) \in Seq(S) /\ Len(Append(f, x)) = n
               /\ \A i \in 1..(n - 1) : Append(f, x)[i] = s[i]
               /\ Append(f, x)[n] = x
    <2> HIDE DEF f
    <2>1. /\ Append(f, x) \in Seq(S) /\ Len(Append(f, x)) = Len(f) + 1
          /\ \A i \in 1..Len(f) : Append(f, x)[i] = f[i]
          /\ Append(f, x)[Len(f) + 1] = x
      BY <1>3, AppendProperties
    <2> HIDE DEF n
    <2> QED  BY <2>1, <1>1, <1>3
  <1>5. s[n] \in S
    <2> HIDE DEF n
    <2> QED  BY <1>1, <1>2
  <1> QED  BY <1>1, <1>3, <1>4, <1>5

(* The calls never nest deeper than there are nodes: all but the innermost are of
   different nodes. *)
LEMMA DepthBounded ==
    ASSUME WalkTypes, NestInv
    PROVE  Depth <= Cardinality(OpcNodes) + 1
  <1> DEFINE n == Depth - 1
             f == [i \in 1..n |-> Frame(i).node]
  <1>1. ctl.stack \in Seq(WalkFrame)
    BY DEF WalkTypes, WalkCtl
  <1>2. Depth \in Nat /\ \A i \in 1..Depth : Frame(i) \in WalkFrame
    BY <1>1 DEF Depth, Frame
  <1>3. CASE Depth = 0
    BY <1>3, FS_CardinalityType, DevicesAssumption
  <1>4. CASE Depth # 0
    <2>0. n \in Nat /\ \A i \in 1..n : i \in 1..Depth /\ i < Depth
      BY <1>2, <1>4
    <2>1. f \in [1..n -> OpcNodes]
      BY <1>2, <2>0 DEF WalkFrame
    <2>2. ASSUME NEW i \in 1..n, NEW j \in 1..n, f[i] = f[j]
          PROVE  i = j
      <3>1. i < j => Frame(i).node # Frame(j).node
        BY <2>0 DEF NestInv
      <3>2. j < i => Frame(j).node # Frame(i).node
        BY <2>0 DEF NestInv
      <3>3. Frame(i).node = Frame(j).node
        BY <2>2
      <3> HIDE DEF f
      <3> QED  BY <3>1, <3>2, <3>3, <2>0
    <2>3. f \in Injection(1..n, OpcNodes)
      BY <2>1, <2>2 DEF Injection, IsInjective
    <2> HIDE DEF f, n
    <2>4. Cardinality(1..n) <= Cardinality(OpcNodes)
      BY <2>3, FS_Injection, DevicesAssumption
    <2>5. Cardinality(1..n) = n
      BY <2>0, FS_Interval
    <2>6. Cardinality(OpcNodes) \in Nat
      BY FS_CardinalityType, DevicesAssumption
    <2> QED  BY <2>0, <2>4, <2>5, <2>6, <1>2 DEF n
  <1> QED  BY <1>3, <1>4

(* What a node offers are nodes, and the goal holds what its nodes offer. *)
LEMMA GoalFacts ==
    ASSUME WalkTypes
    PROVE  /\ \A n \in OpcNodes : Offers(n) \subseteq OpcNodes
           /\ said.root \in Goal /\ Goal \subseteq OpcNodes
           /\ ctl.recurse => \A n \in Goal : Offers(n) \subseteq Goal
           /\ ~ctl.recurse => Goal = {said.root} \cup Offers(said.root)
  <1>1. \A n \in OpcNodes : dev.refs[n] \subseteq OpcNodes
    BY DEF WalkTypes, WalkDev
  <1>2. \A n \in OpcNodes : Offers(n) \subseteq OpcNodes
    BY <1>1 DEF Offers, UaClient!Followed
  <1>3. said.root \in OpcNodes
    BY DEF WalkTypes, WalkSaid
  <1>4. CASE ctl.recurse
    <2>1. Goal = {m \in OpcNodes : \A S \in SUBSET OpcNodes :
                    said.root \in S /\ Exhausted(S) => m \in S}
      BY <1>4 DEF Goal
    <2>2. \A n \in Goal : Offers(n) \subseteq Goal
      BY <2>1, <1>2 DEF Exhausted
    <2> QED  BY <2>1, <2>2, <1>2, <1>3, <1>4
  <1>5. CASE ~ctl.recurse
    BY <1>2, <1>3, <1>5 DEF Goal
  <1> QED  BY <1>4, <1>5

(* A step of the walk alone does not move its goal. *)
LEMMA GoalStays ==
    ASSUME dev' = dev, said' = said, ctl'.recurse = ctl.recurse
    PROVE  Goal' = Goal /\ \A n : Offers(n)' = Offers(n)
  BY DEF Goal, Exhausted, Offers, UaClient!Followed, UaClient!isDirectory, UaClient!isBrowsable

(* The frames are typed, and numbered from 1 to Depth. *)
LEMMA FrameFacts ==
    ASSUME WalkTypes
    PROVE  /\ ctl.stack \in Seq(WalkFrame) /\ Depth \in Nat
           /\ \A i \in 1..Depth : Frame(i) \in WalkFrame
           /\ ctl.stack # <<>> => Depth \in Nat \ {0} /\ UaClient!Top = Frame(Depth)
  <1>1. ctl.stack \in Seq(WalkFrame)
    BY DEF WalkTypes, WalkCtl
  <1>2. Depth \in Nat /\ \A i \in 1..Depth : Frame(i) \in WalkFrame
    BY <1>1 DEF Depth, Frame
  <1>3. ctl.stack # <<>> => Depth # 0
    BY <1>1, EmptySeq DEF Depth
  <1> QED  BY <1>1, <1>2, <1>3 DEF UaClient!Top, UaClient!Last, Depth, Frame

(* The fields a step of the walk leaves alone. *)
SameWalk ==
    /\ dev' = dev /\ said' = said
    /\ ctl'.cmd = ctl.cmd /\ ctl'.recurse = ctl.recurse /\ ctl'.start = ctl.start

(* What readNodeSnapshot does to the frames. *)
SnapshotEffect ==
    LET f == Frame(Depth)
        g == ctl'.stack[Depth]
    IN  /\ Depth \in Nat \ {0} /\ Depth' = Depth /\ ctl' \in WalkCtl
        /\ \A i \in 1..(Depth - 1) : ctl'.stack[i] = ctl.stack[i]
        /\ ~f.read /\ g.read
        /\ g.node = f.node /\ g.expand = f.expand
        /\ g.todo = IF f.node \notin ctl.visited /\ f.expand THEN Offers(f.node) ELSE {}
        /\ ctl'.visited = ctl.visited \cup {f.node}
        /\ ctl'.listed = Append(ctl.listed, f.node)

LEMMA SnapshotDoes ==
    ASSUME WalkTypes, UaClient!readNodeSnapshot
    PROVE  SnapshotEffect /\ SameWalk
  <1> DEFINE s == ctl.stack
             f == Frame(Depth)
             T == IF f.node \notin ctl.visited /\ f.expand THEN Offers(f.node) ELSE {}
             g == [f EXCEPT !.read = TRUE, !.todo = T]
             t == Append(SubSeq(s, 1, Len(s) - 1), g)
  <1>1. /\ s \in Seq(WalkFrame) /\ s # <<>> /\ Depth \in Nat \ {0} /\ UaClient!Top = f
        /\ f \in WalkFrame
    BY FrameFacts DEF UaClient!readNodeSnapshot
  <1>2. ~f.read /\ f.node \in OpcNodes
    BY <1>1 DEF UaClient!readNodeSnapshot, WalkFrame
  <1>3. T \in SUBSET OpcNodes
    BY <1>2, GoalFacts
  <1>4. T = IF f.node \notin ctl.visited /\ f.expand /\ UaClient!isDirectory(f.node)
            THEN UaClient!Followed(f.node) ELSE {}
    BY DEF Offers
  <1>5. ctl' = [ctl EXCEPT !.visited = @ \cup {f.node}, !.listed = Append(@, f.node), !.stack = t]
    <2> HIDE DEF f
    <2> QED  BY <1>1, <1>4 DEF UaClient!readNodeSnapshot, UaClient!Front
  <1>6. dev' = dev /\ said' = said
    BY DEF UaClient!readNodeSnapshot
  <1> HIDE DEF T
  <1>7. /\ g \in WalkFrame /\ g.read /\ g.node = f.node /\ g.expand = f.expand /\ g.todo = T
    <2> HIDE DEF f
    <2> QED  BY <1>1, <1>3 DEF WalkFrame
  <1> HIDE DEF f, g
  <1>8. /\ t \in Seq(WalkFrame) /\ Len(t) = Len(s)
        /\ \A i \in 1..(Len(s) - 1) : t[i] = s[i]
        /\ t[Len(s)] = g
    BY <1>1, <1>7, TopFacts
  <1> HIDE DEF t
  <1>9. ctl \in WalkCtl
    BY DEF WalkTypes
  <1>10. /\ ctl.visited \cup {f.node} \in SUBSET OpcNodes
         /\ Append(ctl.listed, f.node) \in Seq(OpcNodes)
    BY <1>2, <1>9 DEF WalkCtl
  <1>11. /\ ctl' \in WalkCtl /\ ctl'.stack = t /\ ctl'.visited = ctl.visited \cup {f.node}
         /\ ctl'.listed = Append(ctl.listed, f.node)
         /\ ctl'.cmd = ctl.cmd /\ ctl'.recurse = ctl.recurse /\ ctl'.start = ctl.start
    BY <1>5, <1>8, <1>9, <1>10 DEF WalkCtl
  <1>12. Depth = Len(s) /\ Depth' = Len(t)
    BY <1>11 DEF Depth
  <1>13. /\ Depth \in Nat \ {0} /\ Depth' = Depth
         /\ \A i \in 1..(Depth - 1) : ctl'.stack[i] = ctl.stack[i]
         /\ ctl'.stack[Depth] = g
    BY <1>1, <1>8, <1>11, <1>12
  <1> QED  BY <1>2, <1>6, <1>7, <1>11, <1>13 DEF SnapshotEffect, SameWalk, f, T

(* What browseChildren does to the frames, when it goes to child m. *)
BrowseEffect(m) ==
    LET f == Frame(Depth)
        g == ctl'.stack[Depth]
        h == ctl'.stack[Depth + 1]
    IN  /\ Depth \in Nat \ {0} /\ Depth' = Depth + 1 /\ ctl' \in WalkCtl
        /\ m \in f.todo /\ f.read
        /\ \A i \in 1..(Depth - 1) : ctl'.stack[i] = ctl.stack[i]
        /\ g.read /\ g.node = f.node /\ g.expand = f.expand /\ g.todo = f.todo \ {m}
        /\ h.node = m /\ h.expand = ctl.recurse /\ ~h.read /\ h.todo = {}
        /\ ctl'.visited = ctl.visited /\ ctl'.listed = ctl.listed

LEMMA BrowseDoes ==
    ASSUME WalkTypes, UaClient!browseChildren
    PROVE  (\E m \in OpcNodes : BrowseEffect(m)) /\ SameWalk
  <1> DEFINE s == ctl.stack
             f == Frame(Depth)
  <1>1. /\ s \in Seq(WalkFrame) /\ s # <<>> /\ Depth \in Nat \ {0} /\ UaClient!Top = f
        /\ f \in WalkFrame
    BY FrameFacts DEF UaClient!browseChildren
  <1>2. PICK m \in f.todo :
          ctl' = [ctl EXCEPT !.stack = Append(Append(UaClient!Front(@), [f EXCEPT !.todo = @ \ {m}]),
                                              UaClient!Call(m, ctl.recurse))]
    BY <1>1 DEF UaClient!browseChildren
  <1>3. dev' = dev /\ said' = said /\ f.read
    BY <1>1 DEF UaClient!browseChildren
  <1> DEFINE g == [f EXCEPT !.todo = @ \ {m}]
             h == UaClient!Call(m, ctl.recurse)
             t == Append(SubSeq(s, 1, Len(s) - 1), g)
             u == Append(t, h)
  <1>4. m \in OpcNodes
    BY <1>1 DEF WalkFrame
  <1>5. ctl \in WalkCtl /\ ctl.recurse \in BOOLEAN
    BY DEF WalkTypes, WalkCtl
  <1>6. /\ g \in WalkFrame /\ g.read /\ g.node = f.node /\ g.expand = f.expand
        /\ g.todo = f.todo \ {m}
    <2> HIDE DEF f
    <2> QED  BY <1>1, <1>3 DEF WalkFrame
  <1>7. h \in WalkFrame /\ h.node = m /\ h.expand = ctl.recurse /\ ~h.read /\ h.todo = {}
    BY <1>4, <1>5 DEF WalkFrame, UaClient!Call
  <1>8. ctl' = [ctl EXCEPT !.stack = u]
    BY <1>2, <1>5 DEF WalkCtl, UaClient!Front
  <1> HIDE DEF f, g, h
  <1>9. /\ t \in Seq(WalkFrame) /\ Len(t) = Len(s)
        /\ \A i \in 1..(Len(s) - 1) : t[i] = s[i]
        /\ t[Len(s)] = g
    BY <1>1, <1>6, TopFacts
  <1> HIDE DEF t
  <1>10. /\ u \in Seq(WalkFrame) /\ Len(u) = Len(t) + 1
         /\ \A i \in 1..Len(t) : u[i] = t[i]
         /\ u[Len(t) + 1] = h
    BY <1>7, <1>9, AppendProperties
  <1> HIDE DEF u
  <1>11. /\ ctl' \in WalkCtl /\ ctl'.stack = u /\ ctl'.visited = ctl.visited
         /\ ctl'.listed = ctl.listed
         /\ ctl'.cmd = ctl.cmd /\ ctl'.recurse = ctl.recurse /\ ctl'.start = ctl.start
    BY <1>5, <1>8, <1>10 DEF WalkCtl
  <1>12. Depth = Len(s) /\ Depth' = Len(u)
    BY <1>11 DEF Depth
  <1>13. /\ Depth' = Depth + 1
         /\ \A i \in 1..(Depth - 1) : ctl'.stack[i] = ctl.stack[i]
         /\ ctl'.stack[Depth] = g /\ ctl'.stack[Depth + 1] = h
    <2>1. \A i \in 1..Len(s) : u[i] = t[i]
      BY <1>9, <1>10
    <2>2. Len(s) \in 1..Len(s) /\ \A i \in 1..(Len(s) - 1) : i \in 1..Len(s)
      BY <1>1, <1>12
    <2> QED  BY <2>1, <2>2, <1>9, <1>10, <1>11, <1>12
  <1>14. BrowseEffect(m)
    BY <1>1, <1>3, <1>6, <1>7, <1>11, <1>13 DEF BrowseEffect, f
  <1> QED  BY <1>3, <1>4, <1>11, <1>14 DEF SameWalk

(* What the return of a call does to the frames, if it is not the outermost. *)
ReturnEffect ==
    /\ Depth \in Nat \ {0, 1} /\ Depth' = Depth - 1 /\ ctl' \in WalkCtl
    /\ Frame(Depth).read /\ Frame(Depth).todo = {}
    /\ \A i \in 1..(Depth - 1) : ctl'.stack[i] = ctl.stack[i]
    /\ ctl'.visited = ctl.visited /\ ctl'.listed = ctl.listed

LEMMA ReturnDoes ==
    ASSUME WalkTypes, UaClient!Returns, Depth > 1
    PROVE  ReturnEffect /\ SameWalk
  <1> DEFINE s == ctl.stack
             t == SubSeq(s, 1, Len(s) - 1)
  <1>1. /\ s \in Seq(WalkFrame) /\ s # <<>> /\ Depth \in Nat \ {0}
        /\ UaClient!Top = Frame(Depth)
    BY FrameFacts DEF UaClient!Returns
  <1>2. Frame(Depth).read /\ Frame(Depth).todo = {} /\ dev' = dev
    BY <1>1 DEF UaClient!Returns
  <1>3. ctl' = [ctl EXCEPT !.stack = t] /\ said' = said
    BY DEF UaClient!Returns, Depth, UaClient!Front
  <1>4. t \in Seq(WalkFrame) /\ Len(t) = Len(s) - 1 /\ \A i \in 1..(Len(s) - 1) : t[i] = s[i]
    BY <1>1, TopFacts
  <1> HIDE DEF t
  <1>5. /\ ctl' \in WalkCtl /\ ctl'.stack = t /\ ctl'.visited = ctl.visited
        /\ ctl'.listed = ctl.listed
        /\ ctl'.cmd = ctl.cmd /\ ctl'.recurse = ctl.recurse /\ ctl'.start = ctl.start
    BY <1>3, <1>4 DEF WalkTypes, WalkCtl
  <1>6. Depth = Len(s) /\ Depth' = Len(t)
    BY <1>5 DEF Depth
  <1>7. Depth' = Depth - 1 /\ \A i \in 1..(Depth - 1) : ctl'.stack[i] = ctl.stack[i]
    BY <1>4, <1>5, <1>6
  <1> QED  BY <1>1, <1>2, <1>3, <1>5, <1>7 DEF ReturnEffect, SameWalk

(* An answer stays true while the walks and the server go on: it is about the
   nodes there when it was given. *)
LEMMA AnswerStays ==
    ASSUME AnswerInv, said' = said, dev'.class = dev.class, dev'.refs = dev.refs
    PROVE  AnswerInv'
  BY DEF AnswerInv, UaClient!Reachable, UaClient!Closed, UaClient!Children,
         UaClient!isDirectory, UaClient!isBrowsable, UaClient!ToSet

(* readNodeSnapshot keeps the nesting. *)
LEMMA SnapshotNests ==
    ASSUME WalkTypes, NestInv, SnapshotEffect
    PROVE  NestInv'
  <1> DEFINE n == Depth
             F(i) == ctl.stack[i]
             G(i) == ctl'.stack[i]
  <1>1. /\ n \in Nat \ {0} /\ Depth' = n
        /\ \A i \in 1..(n - 1) : G(i) = F(i)
        /\ ~F(n).read /\ G(n).read /\ G(n).node = F(n).node /\ G(n).expand = F(n).expand
        /\ G(n).todo = IF F(n).node \notin ctl.visited /\ F(n).expand THEN Offers(F(n).node) ELSE {}
        /\ ctl'.visited = ctl.visited \cup {F(n).node}
    BY DEF SnapshotEffect, Frame
  <1>2. /\ \A i \in 1..n : /\ i < n => F(i).read
                           /\ F(i).read => F(i).node \in ctl.visited
                           /\ F(i).todo # {} => F(i).read /\ F(i).expand
        /\ \A i, j \in 1..n : i < j /\ (j < n \/ F(j).todo # {}) => F(i).node # F(j).node
    BY DEF NestInv, Frame
  <1>3. G(n).todo # {} => F(n).node \notin ctl.visited /\ G(n).expand
    BY <1>1
  <1> HIDE DEF n, F, G
  <1>4. \A i \in 1..n : i = n \/ (i \in 1..(n - 1) /\ i < n)
    BY <1>1
  <1>5. ASSUME NEW i \in 1..n
        PROVE  /\ i < n => G(i).read
               /\ G(i).read => G(i).node \in ctl'.visited
               /\ G(i).todo # {} => G(i).read /\ G(i).expand
    BY <1>1, <1>2, <1>3, <1>4
  <1>6. ASSUME NEW i \in 1..n, NEW j \in 1..n, i < j, j < n \/ G(j).todo # {}
        PROVE  G(i).node # G(j).node
    <2>1. i \in 1..(n - 1) /\ i < n
      BY <1>1, <1>6
    <2>2. G(i) = F(i) /\ F(i).node \in ctl.visited
      BY <1>1, <1>2, <2>1
    <2>3. CASE j = n
      BY <1>1, <1>3, <1>6, <2>2, <2>3
    <2>4. CASE j # n
      BY <1>1, <1>2, <1>4, <1>6, <2>2, <2>4
    <2> QED  BY <2>3, <2>4
  <1> QED  BY <1>1, <1>5, <1>6 DEF NestInv, Frame, n, G

(* browseChildren keeps it: the caller still had a child to go to. *)
LEMMA BrowseNests ==
    ASSUME WalkTypes, NestInv, NEW m, BrowseEffect(m)
    PROVE  NestInv'
  <1> DEFINE n == Depth
             F(i) == ctl.stack[i]
             G(i) == ctl'.stack[i]
  <1>1. /\ n \in Nat \ {0} /\ Depth' = n + 1 /\ m \in F(n).todo
        /\ \A i \in 1..(n - 1) : G(i) = F(i)
        /\ G(n).read /\ G(n).node = F(n).node /\ G(n).expand = F(n).expand /\ F(n).read
        /\ ~G(n + 1).read /\ G(n + 1).todo = {}
        /\ ctl'.visited = ctl.visited
    BY DEF BrowseEffect, Frame
  <1>2. /\ \A i \in 1..n : /\ i < n => F(i).read
                           /\ F(i).read => F(i).node \in ctl.visited
                           /\ F(i).todo # {} => F(i).read /\ F(i).expand
        /\ \A i, j \in 1..n : i < j /\ (j < n \/ F(j).todo # {}) => F(i).node # F(j).node
    BY DEF NestInv, Frame
  <1>3. F(n).todo # {}
    BY <1>1
  <1> HIDE DEF n, F, G
  <1>4. \A i \in 1..(n + 1) : i = n + 1 \/ i = n \/ (i \in 1..(n - 1) /\ i < n)
    BY <1>1
  <1>5. \A i \in 1..n : G(i).read /\ G(i).node = F(i).node /\ G(i).expand = F(i).expand
    BY <1>1, <1>2, <1>4
  <1>6. n \in 1..n /\ \A i \in 1..(n - 1) : i \in 1..n
    BY <1>1
  <1>7. ASSUME NEW i \in 1..(n + 1)
        PROVE  /\ i < n + 1 => G(i).read
               /\ G(i).read => G(i).node \in ctl'.visited
               /\ G(i).todo # {} => G(i).read /\ G(i).expand
    <2>1. CASE i = n + 1
      BY <1>1, <2>1
    <2>2. CASE i = n
      BY <1>1, <1>2, <1>3, <1>6, <2>2
    <2>3. CASE i \in 1..(n - 1) /\ i < n
      BY <1>1, <1>2, <1>6, <2>3
    <2> QED  BY <1>4, <2>1, <2>2, <2>3
  <1>8. ASSUME NEW i \in 1..(n + 1), NEW j \in 1..(n + 1), i < j,
               j < n + 1 \/ G(j).todo # {}
        PROVE  G(i).node # G(j).node
    <2>1. i \in 1..n /\ j \in 1..n /\ (j < n \/ F(j).todo # {})
      BY <1>1, <1>3, <1>4, <1>8
    <2> QED  BY <1>2, <1>5, <1>8, <2>1
  <1> QED  BY <1>1, <1>7, <1>8 DEF NestInv, Frame, n, G

(* A return keeps it: the caller is of a node of its own. *)
LEMMA ReturnNests ==
    ASSUME WalkTypes, NestInv, ReturnEffect
    PROVE  NestInv'
  <1> DEFINE n == Depth
             F(i) == ctl.stack[i]
             G(i) == ctl'.stack[i]
  <1>1. /\ n \in Nat \ {0, 1} /\ Depth' = n - 1
        /\ \A i \in 1..(n - 1) : G(i) = F(i)
        /\ ctl'.visited = ctl.visited
    BY DEF ReturnEffect
  <1>2. /\ \A i \in 1..n : /\ i < n => F(i).read
                           /\ F(i).read => F(i).node \in ctl.visited
                           /\ F(i).todo # {} => F(i).read /\ F(i).expand
        /\ \A i, j \in 1..n : i < j /\ (j < n \/ F(j).todo # {}) => F(i).node # F(j).node
    BY DEF NestInv, Frame
  <1> HIDE DEF n, F, G
  <1>3. \A i \in 1..(n - 1) : i \in 1..n /\ i < n
    BY <1>1
  <1> QED  BY <1>1, <1>2, <1>3 DEF NestInv, Frame, n, F, G

(* One more node is listed. *)
LEMMA ListedAppend ==
    ASSUME NEW l \in Seq(OpcNodes), NEW x \in OpcNodes
    PROVE  LET a == Append(l, x) IN {a[i] : i \in DOMAIN a} = {l[i] : i \in DOMAIN l} \cup {x}
  <1> DEFINE a == Append(l, x)
             n == Len(l)
  <1>1. /\ n \in Nat /\ DOMAIN l = 1..n /\ DOMAIN a = 1..(n + 1)
        /\ \A i \in 1..n : a[i] = l[i]
        /\ a[n + 1] = x
    BY AppendProperties, LenProperties
  <1> HIDE DEF a, n
  <1>2. 1..(n + 1) = 1..n \cup {n + 1}
    BY <1>1
  <1>3. {a[i] : i \in 1..(n + 1)} = {l[i] : i \in 1..n} \cup {x}
    BY <1>1, <1>2
  <1> QED  BY <1>1, <1>3 DEF a

(* The outermost call stays that of the root. *)
LEMMA RootStays ==
    ASSUME WalkTypes, NestInv, RootInv, SameWalk,
           SnapshotEffect \/ (\E m \in OpcNodes : BrowseEffect(m)) \/ ReturnEffect
    PROVE  RootInv'
  <1>0. /\ Depth \in Nat \ {0}
        /\ ctl.cmd # "none"
        /\ Frame(1).node = said.root /\ Frame(1).expand
        /\ ~Frame(1).read => ctl.visited = {}
        /\ \A i \in 2..Depth : Frame(i).expand = ctl.recurse
        /\ ctl.visited = {ctl.listed[i] : i \in DOMAIN ctl.listed}
        /\ dev.there \subseteq ctl.start
        /\ said.status = "none"
    BY DEF RootInv, SnapshotEffect, BrowseEffect, ReturnEffect
  <1>1. CASE SnapshotEffect
    <2>1. \A i \in 1..Depth : /\ ctl'.stack[i].node = ctl.stack[i].node
                              /\ ctl'.stack[i].expand = ctl.stack[i].expand
      <3>1. \A i \in 1..Depth : i = Depth \/ i \in 1..(Depth - 1)
        BY <1>0
      <3> QED  BY <1>1, <3>1 DEF SnapshotEffect, Frame
    <2>2. ctl'.stack[1].read
      <3>1. CASE Depth = 1
        BY <1>1, <3>1 DEF SnapshotEffect
      <3>2. CASE Depth # 1
        <4>1. 1 \in 1..(Depth - 1) /\ 1 \in 1..Depth /\ 1 < Depth
          BY <1>0, <3>2
        <4> QED  BY <1>1, <4>1 DEF SnapshotEffect, NestInv, Frame
      <3> QED  BY <3>1, <3>2
    <2>3. ctl'.visited = {ctl'.listed[i] : i \in DOMAIN ctl'.listed}
      <3>1. Frame(Depth).node \in OpcNodes /\ ctl.listed \in Seq(OpcNodes)
        BY <1>0, FrameFacts DEF WalkFrame, WalkTypes, WalkCtl
      <3>2. PICK x \in OpcNodes : x = Frame(Depth).node
        BY <3>1
      <3>3. ctl'.visited = ctl.visited \cup {x} /\ ctl'.listed = Append(ctl.listed, x)
        BY <1>1, <3>2 DEF SnapshotEffect
      <3>4. {Append(ctl.listed, x)[i] : i \in DOMAIN Append(ctl.listed, x)} = ctl.visited \cup {x}
        <4>1. ASSUME NEW l \in Seq(OpcNodes), NEW v, v = {l[i] : i \in DOMAIN l}
              PROVE  {Append(l, x)[i] : i \in DOMAIN Append(l, x)} = v \cup {x}
          BY <4>1, ListedAppend
        <4>2. ctl.visited = {ctl.listed[i] : i \in DOMAIN ctl.listed}
          BY <1>0
        <4> QED  BY <3>1, <4>1, <4>2
      <3> QED  BY <3>3, <3>4
    <2>4. Depth' = Depth /\ 1 \in 1..Depth /\ \A i \in 2..Depth : i \in 1..Depth
      BY <1>0, <1>1 DEF SnapshotEffect
    <2> QED  BY <1>0, <2>1, <2>2, <2>3, <2>4 DEF RootInv, Frame, SameWalk
  <1>2. ASSUME NEW m \in OpcNodes, BrowseEffect(m)
        PROVE  RootInv'
    <2> DEFINE n == Depth
               F(i) == ctl.stack[i]
               G(i) == ctl'.stack[i]
    <2>1. /\ Depth' = n + 1
          /\ \A i \in 1..(n - 1) : G(i) = F(i)
          /\ G(n).read /\ G(n).node = F(n).node /\ G(n).expand = F(n).expand /\ F(n).read
          /\ G(n + 1).expand = ctl.recurse
          /\ ctl'.visited = ctl.visited /\ ctl'.listed = ctl.listed
      BY <1>2 DEF BrowseEffect, Frame
    <2>2. /\ n \in Nat \ {0} /\ F(1).node = said.root /\ F(1).expand
          /\ ~F(1).read => ctl.visited = {}
          /\ \A i \in 2..n : F(i).expand = ctl.recurse
      BY <1>0 DEF Frame
    <2> HIDE DEF n, F, G
    <2>3. \A i \in 1..(n + 1) : i = n + 1 \/ i = n \/ i \in 1..(n - 1)
      BY <2>2
    <2>4. G(1).node = F(1).node /\ G(1).expand = F(1).expand /\ (F(1).read => G(1).read)
      <3>1. 1 = n \/ 1 \in 1..(n - 1)
        BY <2>2
      <3> QED  BY <2>1, <3>1
    <2>5. ASSUME NEW i \in 2..(n + 1)
          PROVE  G(i).expand = ctl.recurse
      <3>1. i = n + 1 \/ (i = n /\ i \in 2..n) \/ (i \in 1..(n - 1) /\ i \in 2..n)
        BY <2>2
      <3> QED  BY <2>1, <2>2, <3>1
    <2>6. /\ Frame(1)'.node = said'.root /\ Frame(1)'.expand
          /\ ~Frame(1)'.read => ctl'.visited = {}
      BY <2>1, <2>2, <2>4 DEF Frame, SameWalk, G
    <2>7. \A i \in 2..Depth' : Frame(i)'.expand = ctl'.recurse
      BY <2>1, <2>5 DEF Frame, SameWalk, G
    <2>8. /\ ctl'.visited = {ctl'.listed[i] : i \in DOMAIN ctl'.listed}
          /\ ctl'.cmd # "none" /\ dev'.there \subseteq ctl'.start /\ said'.status = "none"
      BY <1>0, <2>1 DEF SameWalk
    <2> QED  BY <2>6, <2>7, <2>8 DEF RootInv
  <1>3. CASE ReturnEffect
    <2> DEFINE n == Depth
               F(i) == ctl.stack[i]
               G(i) == ctl'.stack[i]
    <2>1. /\ Depth' = n - 1 /\ n \in Nat \ {0, 1}
          /\ \A i \in 1..(n - 1) : G(i) = F(i)
          /\ ctl'.visited = ctl.visited /\ ctl'.listed = ctl.listed
      BY <1>3 DEF ReturnEffect
    <2>2. /\ F(1).node = said.root /\ F(1).expand
          /\ ~F(1).read => ctl.visited = {}
          /\ \A i \in 2..n : F(i).expand = ctl.recurse
      BY <1>0 DEF Frame
    <2> HIDE DEF n, F, G
    <2>3. 1 \in 1..(n - 1) /\ \A i \in 2..(n - 1) : i \in 1..(n - 1) /\ i \in 2..n
      BY <2>1
    <2>4. G(1) = F(1) /\ \A i \in 2..(n - 1) : G(i).expand = ctl.recurse
      BY <2>1, <2>2, <2>3
    <2>5. /\ Frame(1)'.node = said'.root /\ Frame(1)'.expand
          /\ ~Frame(1)'.read => ctl'.visited = {}
      BY <2>1, <2>2, <2>4 DEF Frame, SameWalk, G
    <2>6. \A i \in 2..Depth' : Frame(i)'.expand = ctl'.recurse
      BY <2>1, <2>4 DEF Frame, SameWalk, G
    <2> QED  BY <1>0, <2>1, <2>5, <2>6 DEF RootInv, SameWalk
  <1> QED  BY <1>1, <1>2, <1>3

(* What readNodeSnapshot takes from those ahead it has visited, and what the node
   offers is ahead now or was seen to on its first visit. *)
LEMMA SnapshotCovers ==
    ASSUME WalkTypes, NestInv, RootInv, CoverInv, SameWalk, SnapshotEffect
    PROVE  CoverInv'
  <1> SUFFICES ASSUME dev.there = ctl.start
               PROVE  /\ ctl'.visited \subseteq Goal
                      /\ \A i \in 1..Depth : ctl'.stack[i].node \in Goal
                                               /\ ctl'.stack[i].todo \subseteq Goal
                      /\ said.root \in ctl'.visited \/ Ahead(said.root)'
                      /\ \A k \in ctl'.visited : ctl.recurse \/ k = said.root =>
                            \A m \in Offers(k) : m \in ctl'.visited \/ Ahead(m)'
    <2>1. Goal' = Goal /\ \A k : Offers(k)' = Offers(k)
      BY GoalStays DEF SameWalk
    <2>2. Depth' = Depth /\ dev' = dev /\ said' = said /\ ctl'.start = ctl.start
          /\ ctl'.recurse = ctl.recurse
      BY DEF SameWalk, SnapshotEffect
    <2> QED  BY <2>1, <2>2 DEF CoverInv, Frame
  <1> DEFINE n == Depth
             F(i) == ctl.stack[i]
             G(i) == ctl'.stack[i]
             v == F(n).node
  <1>1. /\ n \in Nat \ {0} /\ Depth' = n
        /\ \A i \in 1..(n - 1) : G(i) = F(i)
        /\ ~F(n).read /\ G(n).read /\ G(n).node = v
        /\ G(n).todo = IF v \notin ctl.visited /\ F(n).expand THEN Offers(v) ELSE {}
        /\ ctl'.visited = ctl.visited \cup {v}
    BY DEF SnapshotEffect, Frame
  <1>2. /\ ctl.visited \subseteq Goal
        /\ \A i \in 1..n : F(i).node \in Goal /\ F(i).todo \subseteq Goal
        /\ said.root \in ctl.visited \/ Ahead(said.root)
        /\ \A k \in ctl.visited : ctl.recurse \/ k = said.root =>
              \A m \in Offers(k) : m \in ctl.visited \/ Ahead(m)
    BY <1>1 DEF CoverInv, Frame
  <1>3. n \in 1..n /\ \A i \in 1..n : i = n \/ i \in 1..(n - 1)
    BY <1>1
  <1>4. F(n).todo = {}
    BY <1>1, <1>3 DEF NestInv, Frame
  <1>5. /\ F(n).expand /\ ~ctl.recurse => v = said.root
        /\ (ctl.recurse \/ v = said.root) /\ v \notin ctl.visited => F(n).expand
    <2>1. n = 1 \/ n \in 2..n
      BY <1>1
    <2>2. F(1).node = said.root /\ F(1).expand
      BY <1>1 DEF RootInv, Frame
    <2>3. n \in 2..n => F(n).expand = ctl.recurse
      BY <1>1 DEF RootInv, Frame
    <2>4. n \in 2..n => said.root \in ctl.visited
      <3> SUFFICES ASSUME n \in 2..n
                   PROVE  said.root \in ctl.visited
        OBVIOUS
      <3>1. 1 \in 1..Depth /\ 1 < Depth
        BY <1>1
      <3>2. Frame(1).node \in ctl.visited
        BY <3>1 DEF NestInv
      <3> QED  BY <2>2, <3>2 DEF Frame
    <2> QED  BY <2>1, <2>2, <2>3, <2>4
  <1>6. G(n).todo \subseteq Goal
    <2>1. v \in Goal
      BY <1>2, <1>3
    <2>2. F(n).expand => Offers(v) \subseteq Goal
      BY <2>1, <1>5, GoalFacts
    <2> QED  BY <2>2, <1>1
  <1>7. ASSUME NEW m, Ahead(m)
        PROVE  m \in ctl'.visited \/ Ahead(m)'
    <2>1. PICK i \in 1..n : m \in F(i).todo \/ (m = F(i).node /\ ~F(i).read)
      BY <1>7 DEF Ahead, Frame
    <2>2. CASE i = n
      BY <2>1, <2>2, <1>1, <1>4
    <2>3. CASE i \in 1..(n - 1)
      <3>1. m \in G(i).todo \/ (m = G(i).node /\ ~G(i).read)
        BY <2>1, <2>3, <1>1
      <3> QED  BY <3>1, <1>1 DEF Ahead, Frame
    <2> QED  BY <2>2, <2>3, <1>3
  <1>8. ASSUME NEW k \in ctl'.visited, ctl.recurse \/ k = said.root, NEW m \in Offers(k)
        PROVE  m \in ctl'.visited \/ Ahead(m)'
    <2>1. CASE k \in ctl.visited
      BY <2>1, <1>1, <1>2, <1>7, <1>8
    <2>2. CASE k \notin ctl.visited
      <3>1. k = v /\ F(n).expand
        BY <2>2, <1>1, <1>5, <1>8
      <3>2. m \in G(n).todo
        BY <3>1, <2>2, <1>1, <1>8
      <3> QED  BY <3>2, <1>1, <1>3 DEF Ahead, Frame
    <2> QED  BY <2>1, <2>2
  <1>9. \A i \in 1..n : G(i).node \in Goal /\ G(i).todo \subseteq Goal
    <2> HIDE DEF n, F, G, v
    <2> QED  BY <1>1, <1>2, <1>3, <1>6 DEF v
  <1>10. said.root \in ctl'.visited \/ Ahead(said.root)'
    <2>1. PICK r : r = said.root /\ r = said'.root
      BY DEF SameWalk
    <2>2. r \in ctl'.visited \/ Ahead(r)'
      BY <2>1, <1>1, <1>2, <1>7
    <2> QED  BY <2>1, <2>2 DEF Ahead, Frame
  <1>11. ctl'.visited \subseteq Goal
    BY <1>1, <1>2, <1>3
  <1> QED  BY <1>8, <1>9, <1>10, <1>11

(* A child is ahead before browseChildren goes to it, and after. *)
LEMMA BrowseCovers ==
    ASSUME WalkTypes, NestInv, RootInv, CoverInv, SameWalk, NEW c \in OpcNodes, BrowseEffect(c)
    PROVE  CoverInv'
  <1> DEFINE n == Depth
             F(i) == ctl.stack[i]
             G(i) == ctl'.stack[i]
  <1>1. /\ n \in Nat \ {0} /\ Depth' = n + 1 /\ c \in F(n).todo /\ F(n).read
        /\ \A i \in 1..(n - 1) : G(i) = F(i)
        /\ G(n).node = F(n).node /\ G(n).todo = F(n).todo \ {c}
        /\ G(n + 1).node = c /\ ~G(n + 1).read /\ G(n + 1).todo = {}
        /\ ctl'.visited = ctl.visited
    BY DEF BrowseEffect, Frame
  <1>2. /\ Goal' = Goal /\ (\A k : Offers(k)' = Offers(k))
        /\ dev' = dev /\ said' = said /\ ctl'.start = ctl.start /\ ctl'.recurse = ctl.recurse
    BY GoalStays DEF SameWalk
  <1>3. ASSUME NEW m, Ahead(m)
        PROVE  Ahead(m)'
    <2>1. PICK i \in 1..n : m \in F(i).todo \/ (m = F(i).node /\ ~F(i).read)
      BY <1>3 DEF Ahead, Frame
    <2>2. n + 1 \in 1..(n + 1) /\ n \in 1..(n + 1) /\ \A j \in 1..(n - 1) : j \in 1..(n + 1)
      BY <1>1
    <2>3. \E j \in 1..(n + 1) : m \in G(j).todo \/ (m = G(j).node /\ ~G(j).read)
      <3>1. CASE i = n /\ m = c
        BY <3>1, <2>2, <1>1
      <3>2. CASE i = n /\ m # c
        BY <3>2, <2>1, <2>2, <1>1
      <3>3. CASE i \in 1..(n - 1)
        BY <3>3, <2>1, <2>2, <1>1
      <3>4. i = n \/ i \in 1..(n - 1)
        BY <1>1
      <3> QED  BY <3>1, <3>2, <3>3, <3>4
    <2> QED  BY <2>3, <1>1 DEF Ahead, Frame
  <1> SUFFICES ASSUME dev.there = ctl.start
               PROVE  /\ ctl'.visited \subseteq Goal
                      /\ \A i \in 1..(n + 1) : G(i).node \in Goal /\ G(i).todo \subseteq Goal
                      /\ said.root \in ctl'.visited \/ Ahead(said.root)'
                      /\ \A k \in ctl'.visited : ctl.recurse \/ k = said.root =>
                            \A m \in Offers(k) : m \in ctl'.visited \/ Ahead(m)'
    BY <1>1, <1>2 DEF CoverInv, Frame
  <1>4. /\ ctl.visited \subseteq Goal
        /\ \A i \in 1..n : F(i).node \in Goal /\ F(i).todo \subseteq Goal
        /\ said.root \in ctl.visited \/ Ahead(said.root)
        /\ \A k \in ctl.visited : ctl.recurse \/ k = said.root =>
              \A m \in Offers(k) : m \in ctl.visited \/ Ahead(m)
    BY <1>1 DEF CoverInv, Frame
  <1>5. \A i \in 1..(n + 1) : G(i).node \in Goal /\ G(i).todo \subseteq Goal
    <2> HIDE DEF n, F, G
    <2>1. n \in 1..n /\ \A i \in 1..(n - 1) : i \in 1..n
      BY <1>1
    <2>2. \A i \in 1..(n + 1) : i = n + 1 \/ i = n \/ i \in 1..(n - 1)
      BY <1>1
    <2> QED  BY <2>1, <2>2, <1>1, <1>4
  <1>6. said.root \in ctl'.visited \/ Ahead(said.root)'
    <2>1. PICK r : r = said.root /\ r = said'.root
      BY <1>2
    <2>2. r \in ctl'.visited \/ Ahead(r)'
      BY <2>1, <1>1, <1>3, <1>4
    <2> QED  BY <2>1, <2>2 DEF Ahead, Frame
  <1>7. \A k \in ctl'.visited : ctl.recurse \/ k = said.root =>
           \A m \in Offers(k) : m \in ctl'.visited \/ Ahead(m)'
    BY <1>1, <1>3, <1>4
  <1> QED  BY <1>1, <1>4, <1>5, <1>6, <1>7

(* A call that returns has nothing ahead. *)
LEMMA ReturnCovers ==
    ASSUME WalkTypes, NestInv, RootInv, CoverInv, SameWalk, ReturnEffect
    PROVE  CoverInv'
  <1> DEFINE n == Depth
             F(i) == ctl.stack[i]
             G(i) == ctl'.stack[i]
  <1>1. /\ n \in Nat \ {0, 1} /\ Depth' = n - 1 /\ F(n).todo = {} /\ F(n).read
        /\ \A i \in 1..(n - 1) : G(i) = F(i)
        /\ ctl'.visited = ctl.visited
    BY DEF ReturnEffect, Frame
  <1>2. /\ Goal' = Goal /\ (\A k : Offers(k)' = Offers(k))
        /\ dev' = dev /\ said' = said /\ ctl'.start = ctl.start /\ ctl'.recurse = ctl.recurse
    BY GoalStays DEF SameWalk
  <1>3. ASSUME NEW m, Ahead(m)
        PROVE  Ahead(m)'
    <2>1. PICK i \in 1..n : m \in F(i).todo \/ (m = F(i).node /\ ~F(i).read)
      BY <1>3 DEF Ahead, Frame
    <2>2. i \in 1..(n - 1)
      BY <2>1, <1>1
    <2>3. m \in G(i).todo \/ (m = G(i).node /\ ~G(i).read)
      BY <2>1, <2>2, <1>1
    <2> QED  BY <2>2, <2>3, <1>1 DEF Ahead, Frame
  <1>4. \A i \in 1..(n - 1) : i \in 1..n /\ G(i) = F(i)
    BY <1>1
  <1> SUFFICES ASSUME dev.there = ctl.start
               PROVE  /\ ctl'.visited \subseteq Goal
                      /\ \A i \in 1..(n - 1) : G(i).node \in Goal /\ G(i).todo \subseteq Goal
                      /\ said.root \in ctl'.visited \/ Ahead(said.root)'
                      /\ \A k \in ctl'.visited : ctl.recurse \/ k = said.root =>
                            \A m \in Offers(k) : m \in ctl'.visited \/ Ahead(m)'
    BY <1>1, <1>2 DEF CoverInv, Frame
  <1>5. /\ ctl.visited \subseteq Goal
        /\ \A i \in 1..n : F(i).node \in Goal /\ F(i).todo \subseteq Goal
        /\ said.root \in ctl.visited \/ Ahead(said.root)
        /\ \A k \in ctl.visited : ctl.recurse \/ k = said.root =>
              \A m \in Offers(k) : m \in ctl.visited \/ Ahead(m)
    BY <1>1 DEF CoverInv, Frame
  <1>6. said.root \in ctl'.visited \/ Ahead(said.root)'
    <2>1. PICK r : r = said.root /\ r = said'.root
      BY <1>2
    <2>2. r \in ctl'.visited \/ Ahead(r)'
      BY <2>1, <1>1, <1>3, <1>5
    <2> QED  BY <2>1, <2>2 DEF Ahead, Frame
  <1>7. \A k \in ctl'.visited : ctl.recurse \/ k = said.root =>
           \A m \in Offers(k) : m \in ctl'.visited \/ Ahead(m)'
    BY <1>1, <1>3, <1>5
  <1>8. \A i \in 1..(n - 1) : G(i).node \in Goal /\ G(i).todo \subseteq Goal
    BY <1>4, <1>5
  <1> QED  BY <1>1, <1>5, <1>6, <1>7, <1>8

(* Between commands nothing is under way. *)
LEMMA QuietWalk ==
    ASSUME ctl' = UaClient!Quiet
    PROVE  ctl' \in WalkCtl /\ NestInv' /\ RootInv' /\ CoverInv'
  <1>1. ctl' = [cmd |-> "none", stack |-> <<>>, visited |-> {}, listed |-> <<>>,
                recurse |-> FALSE, start |-> {}]
    BY DEF UaClient!Quiet
  <1>2. <<>> \in Seq(WalkFrame) /\ <<>> \in Seq(OpcNodes)
    OBVIOUS
  <1>3. ctl' \in WalkCtl
    BY <1>1, <1>2 DEF WalkCtl
  <1>4. Depth' = 0 /\ ctl'.cmd = "none"
    BY <1>1 DEF Depth
  <1> QED  BY <1>3, <1>4 DEF NestInv, RootInv, CoverInv

(* The walk is over: what it visited is its goal. *)
LEMMA GoalReached ==
    ASSUME WalkTypes, CoverInv, Depth = 1, Frame(1).read, Frame(1).todo = {},
           dev.there = ctl.start
    PROVE  ctl.visited = Goal
  <1>1. \A m : ~Ahead(m)
    BY DEF Ahead
  <1>2. /\ ctl.visited \subseteq Goal /\ said.root \in ctl.visited
        /\ \A n \in ctl.visited : ctl.recurse \/ n = said.root => Offers(n) \subseteq ctl.visited
    BY <1>1 DEF CoverInv
  <1>3. CASE ctl.recurse
    <2>1. Exhausted(ctl.visited)
      BY <1>2, <1>3 DEF Exhausted
    <2>2. ctl.visited \in SUBSET OpcNodes
      BY DEF WalkTypes, WalkCtl
    <2> QED  BY <1>2, <1>3, <2>1, <2>2 DEF Goal
  <1>4. CASE ~ctl.recurse
    BY <1>2, <1>4 DEF Goal
  <1> QED  BY <1>3, <1>4

(* What a command says of its walk. *)
LEMMA AnswerTypes ==
    ASSUME WalkTypes, NEW st \in {"done", "error"}, NEW k \in Nat, UaClient!Answer(st, k)
    PROVE  /\ said' \in WalkSaid /\ ctl' = UaClient!Quiet
           /\ said'.status = st /\ said'.listed = ctl.listed /\ said'.recurse = ctl.recurse
           /\ said'.root = said.root /\ said'.there = dev.there
           /\ said'.stable <=> dev.there = ctl.start
  <1> DEFINE b == dev.there = ctl.start
  <1>1. said \in WalkSaid /\ ctl.listed \in Seq(OpcNodes) /\ ctl.recurse \in BOOLEAN
        /\ dev.there \in SUBSET OpcNodes /\ b \in BOOLEAN
    BY DEF WalkTypes, WalkCtl, WalkDev
  <1>2. said' = [said EXCEPT !.status = st, !.code = k, !.listed = ctl.listed,
                             !.recurse = ctl.recurse, !.stable = b, !.there = dev.there]
    BY DEF UaClient!Answer
  <1>3. ctl' = UaClient!Quiet
    BY DEF UaClient!Answer
  <1>4. b <=> dev.there = ctl.start
    OBVIOUS
  <1> HIDE DEF b
  <1>5. said' \in WalkSaid
    BY <1>1, <1>2 DEF WalkSaid
  <1>6. /\ said'.status = st /\ said'.listed = ctl.listed /\ said'.recurse = ctl.recurse
        /\ said'.root = said.root /\ said'.there = dev.there /\ said'.stable = b
    BY <1>1, <1>2 DEF WalkSaid
  <1> QED  BY <1>3, <1>4, <1>5, <1>6

(* The outermost call returns, or the walk fails. *)
LEMMA AnswerKeeps ==
    ASSUME WalkInv, dev' = dev,
           \/ UaClient!Answer("error", 2)
           \/ /\ UaClient!Answer("done", 0)
              /\ Depth = 1 /\ Frame(1).read /\ Frame(1).todo = {}
    PROVE  WalkInv'
  <1>0. WalkTypes /\ CoverInv /\ RootInv
    BY DEF WalkInv
  <1>1. CASE UaClient!Answer("error", 2)
    <2>1. said' \in WalkSaid /\ ctl' = UaClient!Quiet /\ said'.status = "error"
      BY <1>0, <1>1, AnswerTypes
    <2>2. WalkTypes' /\ NestInv' /\ RootInv' /\ CoverInv'
      BY <1>0, <2>1, QuietWalk DEF WalkTypes
    <2> QED  BY <2>1, <2>2 DEF WalkInv, AnswerInv
  <1>2. CASE UaClient!Answer("done", 0) /\ Depth = 1 /\ Frame(1).read /\ Frame(1).todo = {}
    <2>1. /\ said' \in WalkSaid /\ ctl' = UaClient!Quiet
          /\ said'.listed = ctl.listed /\ said'.recurse = ctl.recurse
          /\ said'.root = said.root /\ said'.there = dev.there
          /\ said'.stable <=> dev.there = ctl.start
      BY <1>0, <1>2, AnswerTypes
    <2>2. WalkTypes' /\ NestInv' /\ RootInv' /\ CoverInv'
      BY <1>0, <2>1, QuietWalk DEF WalkTypes
    <2>3. ASSUME dev.there = ctl.start
          PROVE  UaClient!ToSet(said.listed)' = UaClient!Reachable(said.root)'
      <3>1. ctl.visited = Goal
        BY <1>0, <1>2, <2>3, GoalReached
      <3>2. ctl.visited = {ctl.listed[i] : i \in DOMAIN ctl.listed}
        BY <1>0, <1>2 DEF RootInv
      <3>3. UaClient!ToSet(said.listed)' = ctl.visited
        BY <2>1, <3>2 DEF UaClient!ToSet
      <3>4. \A k : UaClient!Children(k)' = Offers(k)
        BY <2>1 DEF UaClient!Children, Offers, UaClient!Followed, UaClient!isDirectory,
                    UaClient!isBrowsable
      <3>5. \A S : UaClient!Closed(S)' <=> Exhausted(S)
        BY <3>4 DEF UaClient!Closed, Exhausted
      <3>6. PICK r : r = said.root /\ r = said'.root
        BY <2>1
      <3>7. UaClient!Reachable(r)' = Goal
        BY <2>1, <3>4, <3>5, <3>6 DEF UaClient!Reachable, Goal
      <3>8. UaClient!Reachable(said.root)' = UaClient!Reachable(r)'
        BY <3>6 DEF UaClient!Reachable
      <3> QED  BY <3>1, <3>3, <3>7, <3>8
    <2> QED  BY <2>1, <2>2, <2>3 DEF WalkInv, AnswerInv
  <1> QED  BY <1>1, <1>2

(* A command begins. *)
LEMMA BeginTypes ==
    ASSUME WalkTypes, NEW c \in {"status", "unknown", "inspect_node", "snapshot_nodes"}
    PROVE  UaClient!Begin(c) \in WalkSaid /\ UaClient!Begin(c).cmd = c
  <1>1. said \in WalkSaid
    BY DEF WalkTypes
  <1>2. PICK m \in Nat : m = said.n + 1
    BY <1>1 DEF WalkSaid
  <1>3. UaClient!Begin(c) = [said EXCEPT !.n = m, !.cmd = c, !.listed = <<>>]
    BY <1>2 DEF UaClient!Begin
  <1>4. <<>> \in Seq(OpcNodes)
    OBVIOUS
  <1> QED  BY <1>1, <1>3, <1>4 DEF WalkSaid

(* A walk starts at its root, which is ahead. *)
LEMMA WalkBegins ==
    ASSUME WalkTypes, NEW c \in {"inspect_node", "snapshot_nodes"}, NEW r \in OpcNodes,
           NEW b \in BOOLEAN, UaClient!Walk(c, r, b)
    PROVE  WalkInv'
  <1> DEFINE f == UaClient!Call(r, TRUE)
  <1>1. /\ dev' = dev
        /\ said' = [UaClient!Begin(c) EXCEPT !.status = "none", !.root = r]
        /\ ctl' = [UaClient!Quiet EXCEPT !.cmd = c, !.stack = <<f>>, !.recurse = b,
                                         !.start = dev.there]
    BY DEF UaClient!Walk
  <1>2. said' \in WalkSaid /\ said'.cmd = c /\ said'.status = "none" /\ said'.root = r
    <2> DEFINE a == UaClient!Begin(c)
    <2>1. a \in WalkSaid /\ a.cmd = c
      BY BeginTypes
    <2>2. said' = [a EXCEPT !.status = "none", !.root = r]
      BY <1>1
    <2> HIDE DEF a
    <2> QED  BY <2>1, <2>2 DEF WalkSaid
  <1>3. f \in WalkFrame /\ f.node = r /\ f.expand /\ ~f.read /\ f.todo = {}
    BY DEF UaClient!Call, WalkFrame
  <1> HIDE DEF f
  <1>4. ctl' = [cmd |-> c, stack |-> <<f>>, visited |-> {}, listed |-> <<>>, recurse |-> b,
                start |-> dev.there]
    BY <1>1 DEF UaClient!Quiet
  <1>5. <<f>> \in Seq(WalkFrame) /\ <<>> \in Seq(OpcNodes) /\ Len(<<f>>) = 1 /\ <<f>>[1] = f
    BY <1>3
  <1>6. dev.there \in SUBSET OpcNodes
    BY DEF WalkTypes, WalkDev
  <1>7. WalkTypes'
    <2>1. dev \in WalkDev /\ c \in {"none", "inspect_node", "snapshot_nodes"}
      BY DEF WalkTypes
    <2>2. {} \in SUBSET OpcNodes
      OBVIOUS
    <2>3. ctl' \in WalkCtl
      BY <1>4, <1>5, <1>6, <2>1, <2>2 DEF WalkCtl
    <2> QED  BY <1>1, <1>2, <2>1, <2>3 DEF WalkTypes
  <1>8. Depth' = 1 /\ ctl'.stack[1] = f /\ ctl'.visited = {} /\ ctl'.listed = <<>>
        /\ ctl'.recurse = b /\ ctl'.start = dev.there /\ ctl'.cmd = c
    BY <1>4, <1>5 DEF Depth
  <1>9. \A i \in 1..1 : i = 1
    OBVIOUS
  <1>10. NestInv'
    BY <1>3, <1>8, <1>9 DEF NestInv, Frame
  <1>11. RootInv'
    <2>1. {ctl'.listed[i] : i \in DOMAIN ctl'.listed} = {}
      BY <1>8
    <2>2. Frame(1)'.node = said'.root /\ Frame(1)'.expand /\ \A i \in 2..1 : FALSE
      BY <1>2, <1>3, <1>8 DEF Frame
    <2> QED  BY <1>1, <1>2, <1>8, <2>1, <2>2 DEF RootInv
  <1>12. CoverInv'
    <2>1. said'.root \in Goal'
      BY <1>2 DEF Goal
    <2>2. \A i \in 1..1 : Frame(i)'.node \in Goal' /\ Frame(i)'.todo \subseteq Goal'
      BY <1>2, <1>3, <1>8, <1>9, <2>1 DEF Frame
    <2>3. Ahead(said.root)'
      BY <1>2, <1>3, <1>8 DEF Ahead, Frame
    <2> QED  BY <1>8, <2>2, <2>3 DEF CoverInv
  <1>13. AnswerInv'
    BY <1>2 DEF AnswerInv
  <1> QED  BY <1>7, <1>10, <1>11, <1>12, <1>13 DEF WalkInv

(* A command of the host. *)
LEMMA RequestKeeps ==
    ASSUME WalkInv, UaClient!handle
    PROVE  WalkInv'
  <1>0. WalkTypes /\ Depth = 0 /\ NestInv
    BY DEF WalkInv, RootInv, UaClient!handle
  <1>1. ASSUME NEW c \in {"status", "unknown", "inspect_node", "snapshot_nodes"},
               NEW st \in {"done", "error"}, NEW k \in Nat,
               said' = [UaClient!Begin(c) EXCEPT !.status = st, !.code = k],
               ctl' = ctl, dev' = dev,
               st = "error" \/ c = "status"
        PROVE  WalkInv'
    <2>1. said' \in WalkSaid /\ said'.cmd = c /\ said'.status = st
      <3> DEFINE a == UaClient!Begin(c)
      <3>1. a \in WalkSaid /\ a.cmd = c
        BY <1>0, BeginTypes
      <3>2. said' = [a EXCEPT !.status = st, !.code = k]
        BY <1>1
      <3> HIDE DEF a
      <3> QED  BY <3>1, <3>2 DEF WalkSaid
    <2>2. WalkTypes' /\ Depth' = 0
      BY <1>0, <1>1, <2>1 DEF WalkTypes, Depth
    <2>3. NestInv' /\ RootInv' /\ CoverInv'
      BY <2>2 DEF NestInv, RootInv, CoverInv
    <2>4. AnswerInv'
      BY <1>1, <2>1 DEF AnswerInv
    <2> QED  BY <2>2, <2>3, <2>4 DEF WalkInv
  <1>2. PICK c \in {"status", "unknown", "inspect_node", "snapshot_nodes"} :
         \/ /\ c \in {"status", "unknown"}
            /\ said' = IF c = "status"
                       THEN [UaClient!Begin(c) EXCEPT !.status = "done", !.code = 0]
                       ELSE [UaClient!Begin(c) EXCEPT !.status = "error", !.code = 404]
            /\ UNCHANGED <<ctl, wire, dev>>
         \/ UaClient!InvalidParameters(c) \/ UaClient!ConnectFails(c)
         \/ c = "inspect_node" /\ \E n \in OpcNodes, r \in BOOLEAN : UaClient!Walk(c, n, r)
         \/ c = "snapshot_nodes" /\ UaClient!Walk(c, UaClient!Objects, TRUE)
    BY DEF UaClient!handle, UaClient!Described
  <1>3. CASE /\ c \in {"status", "unknown"}
             /\ said' = IF c = "status"
                        THEN [UaClient!Begin(c) EXCEPT !.status = "done", !.code = 0]
                        ELSE [UaClient!Begin(c) EXCEPT !.status = "error", !.code = 404]
             /\ UNCHANGED <<ctl, wire, dev>>
    <2>1. CASE c = "status"
      <3>1. said' = [UaClient!Begin(c) EXCEPT !.status = "done", !.code = 0]
        BY <1>3, <2>1
      <3> QED  BY <1>1, <1>3, <2>1, <3>1
    <2>2. CASE c # "status"
      <3>1. said' = [UaClient!Begin(c) EXCEPT !.status = "error", !.code = 404]
        BY <1>3, <2>2
      <3>2. PICK k \in Nat : k = 404
        OBVIOUS
      <3>3. said' = [UaClient!Begin(c) EXCEPT !.status = "error", !.code = k]
        BY <3>1, <3>2
      <3>4. ctl' = ctl /\ dev' = dev
        BY <1>3
      <3> QED  BY <1>1, <3>3, <3>4
    <2> QED  BY <2>1, <2>2
  <1>4. CASE UaClient!InvalidParameters(c) \/ UaClient!ConnectFails(c)
    BY <1>1, <1>4 DEF UaClient!InvalidParameters, UaClient!ConnectFails
  <1>5. CASE \E n \in OpcNodes, r \in BOOLEAN :
               c \in {"inspect_node", "snapshot_nodes"} /\ UaClient!Walk(c, n, r)
    BY <1>0, <1>5, WalkBegins
  <1>6. UaClient!Objects \in OpcNodes
    BY DevicesAssumption DEF UaClient!Objects
  <1> QED  BY <1>2, <1>3, <1>4, <1>5, <1>6

(* A node is deleted: the walk under way is no longer judged. *)
LEMMA DeletionKeeps ==
    ASSUME WalkInv, NEW n \in OpcNodes, UaClient!NodeDeleted(n)
    PROVE  WalkInv'
  <1>0. WalkTypes /\ NestInv /\ RootInv /\ AnswerInv
    BY DEF WalkInv
  <1>1. /\ dev' = [dev EXCEPT !.there = @ \ {n}, !.changes = @ + 1] /\ ctl' = ctl /\ said' = said
        /\ n \in dev.there
    BY DEF UaClient!NodeDeleted
  <1>2. PICK k \in Nat : k = dev.changes + 1
    BY <1>0 DEF WalkTypes, WalkDev
  <1>3. dev' = [dev EXCEPT !.there = @ \ {n}, !.changes = k]
    BY <1>1, <1>2
  <1>4. /\ dev' \in WalkDev /\ dev'.class = dev.class /\ dev'.refs = dev.refs
        /\ dev'.there = dev.there \ {n}
    BY <1>0, <1>3 DEF WalkTypes, WalkDev
  <1>5. WalkTypes'
    BY <1>0, <1>1, <1>4 DEF WalkTypes
  <1>6. Depth' = Depth /\ \A i : Frame(i)' = Frame(i)
    BY <1>1 DEF Depth, Frame
  <1>7. NestInv'
    BY <1>0, <1>1, <1>6 DEF NestInv
  <1>8. RootInv'
    BY <1>0, <1>1, <1>4, <1>6 DEF RootInv
  <1>9. CoverInv'
    <2>1. Depth > 0 => dev'.there # ctl'.start
      BY <1>0, <1>1, <1>4 DEF RootInv
    <2> QED  BY <1>6, <2>1 DEF CoverInv
  <1>10. AnswerInv'
    BY <1>0, <1>1, <1>4, AnswerStays
  <1> QED  BY <1>5, <1>7, <1>8, <1>9, <1>10 DEF WalkInv

(* The invariant of the walk holds while driver_opcua runs. *)
LEMMA WalkStep ==
    ASSUME WalkInv, UaClient!Next
    PROVE  WalkInv'
  <1>0. WalkTypes /\ NestInv /\ RootInv /\ CoverInv /\ AnswerInv
    BY DEF WalkInv
  <1>1. ASSUME SameWalk, ctl' \in WalkCtl
        PROVE  WalkTypes' /\ AnswerInv'
    BY <1>0, <1>1, AnswerStays DEF SameWalk, WalkTypes
  <1>2. CASE UaClient!handle
    BY <1>2, RequestKeeps
  <1>3. CASE UaClient!readNodeSnapshot
    <2>1. SnapshotEffect /\ SameWalk
      BY <1>0, <1>3, SnapshotDoes
    <2>2. NestInv' /\ RootInv' /\ CoverInv'
      BY <1>0, <2>1, SnapshotNests, RootStays, SnapshotCovers
    <2>3. ctl' \in WalkCtl
      BY <2>1 DEF SnapshotEffect
    <2> QED  BY <1>1, <2>1, <2>2, <2>3 DEF WalkInv
  <1>4. CASE UaClient!browseChildren
    <2>1. PICK m \in OpcNodes : BrowseEffect(m)
      BY <1>0, <1>4, BrowseDoes
    <2>2. SameWalk
      BY <1>0, <1>4, BrowseDoes
    <2>3. NestInv' /\ RootInv' /\ CoverInv'
      BY <1>0, <2>1, <2>2, BrowseNests, RootStays, BrowseCovers
    <2>4. ctl' \in WalkCtl
      BY <2>1 DEF BrowseEffect
    <2> QED  BY <1>1, <2>2, <2>3, <2>4 DEF WalkInv
  <1>5. CASE UaClient!Returns
    <2>1. CASE Depth > 1
      <3>1. ReturnEffect /\ SameWalk
        BY <1>0, <1>5, <2>1, ReturnDoes
      <3>2. NestInv' /\ RootInv' /\ CoverInv'
        BY <1>0, <3>1, ReturnNests, RootStays, ReturnCovers
      <3>3. ctl' \in WalkCtl
        BY <3>1 DEF ReturnEffect
      <3> QED  BY <1>1, <3>1, <3>2, <3>3 DEF WalkInv
    <2>2. CASE ~(Depth > 1)
      <3>1. Depth \in Nat \ {0} /\ UaClient!Top = Frame(Depth)
        BY <1>0, <1>5, FrameFacts DEF UaClient!Returns
      <3>2. Depth = 1
        BY <2>2, <3>1
      <3>3. /\ UaClient!Answer("done", 0) /\ dev' = dev
            /\ Frame(1).read /\ Frame(1).todo = {}
        BY <1>5, <2>2, <3>1, <3>2 DEF UaClient!Returns, Depth
      <3> QED  BY <3>2, <3>3, AnswerKeeps
    <2> QED  BY <2>1, <2>2
  <1>6. CASE UaClient!ReadFails
    BY <1>6, AnswerKeeps DEF UaClient!ReadFails
  <1>7. ASSUME NEW n \in OpcNodes, UaClient!NodeDeleted(n)
        PROVE  WalkInv'
    BY <1>7, DeletionKeeps
  <1> QED  BY <1>2, <1>3, <1>4, <1>5, <1>6, <1>7 DEF UaClient!Next

(***************************************************************************)
(* The walk of driver_opcua, for any server: it lists exactly the nodes to *)
(* be reached, unless one is deleted meanwhile, and its calls never nest   *)
(* deeper than there are nodes (readNodeSnapshot and browseChildren).      *)
(***************************************************************************)
THEOREM WalkIsExact == Spec => []OpcUaWalk
  <1> DEFINE I == driver = "opcua" => WalkInv
  <1>1. Init => I
    <2> SUFFICES ASSUME UaClient!Init
                 PROVE  WalkInv
      BY DEF Init
    <2>1. UaClient!Objects \in OpcNodes
      BY DevicesAssumption DEF UaClient!Objects
    <2>2. /\ ctl = [cmd |-> "none", stack |-> <<>>, visited |-> {}, listed |-> <<>>,
                    recurse |-> FALSE, start |-> {}]
          /\ said = [n |-> 0, cmd |-> "none", status |-> "none", code |-> 0, listed |-> <<>>,
                     root |-> UaClient!Objects, recurse |-> FALSE, stable |-> TRUE, there |-> {}]
      BY DEF UaClient!Init, UaClient!Quiet
    <2>3. ctl \in WalkCtl
      <3>1. <<>> \in Seq(WalkFrame) /\ <<>> \in Seq(OpcNodes)
        OBVIOUS
      <3> QED  BY <2>2, <3>1 DEF WalkCtl
    <2>4. said \in WalkSaid
      <3>1. PICK z \in Nat : z = 0
        OBVIOUS
      <3>2. said = [n |-> z, cmd |-> "none", status |-> "none", code |-> z, listed |-> <<>>,
                    root |-> UaClient!Objects, recurse |-> FALSE, stable |-> TRUE, there |-> {}]
        BY <2>2, <3>1
      <3>3. <<>> \in Seq(OpcNodes)
        OBVIOUS
      <3> QED  BY <2>1, <3>2, <3>3 DEF WalkSaid
    <2>5. dev \in WalkDev
      <3>1. dev \in [class : [OpcNodes -> {"object", "variable", "method"}],
                     refs : [OpcNodes -> SUBSET OpcNodes], there : {OpcNodes}, changes : {0}]
        BY DEF UaClient!Init
      <3>2. {0} \subseteq Nat /\ {OpcNodes} \subseteq SUBSET OpcNodes
        OBVIOUS
      <3> QED  BY <3>1, <3>2 DEF WalkDev
    <2>6. Depth = 0 /\ ctl.cmd = "none" /\ said.status = "none"
      BY <2>2 DEF Depth
    <2> QED  BY <2>3, <2>4, <2>5, <2>6
             DEF WalkInv, WalkTypes, NestInv, RootInv, CoverInv, AnswerInv
  <1>2. I /\ [Next]_vars => I'
    <2>1. ASSUME I, Next
          PROVE  I'
      BY <2>1, WalkStep DEF Next, DriverStep
    <2>2. ASSUME I, UNCHANGED vars
          PROVE  I'
      <3>1. ctl' = ctl /\ dev' = dev /\ said' = said /\ driver' = driver
        BY <2>2 DEF vars
      <3>2. WalkInv => WalkInv'
        <4> SUFFICES ASSUME WalkInv
                     PROVE  WalkInv'
          OBVIOUS
        <4>1. Goal' = Goal /\ \A k : Offers(k)' = Offers(k)
          BY <3>1, GoalStays
        <4>2. WalkTypes' /\ NestInv' /\ RootInv'
          BY <3>1 DEF WalkInv, WalkTypes, NestInv, RootInv, Depth, Frame
        <4>3. CoverInv'
          BY <3>1, <4>1 DEF WalkInv, CoverInv, Depth, Frame, Ahead
        <4>4. AnswerInv'
          BY <3>1, AnswerStays DEF WalkInv
        <4> QED  BY <4>2, <4>3, <4>4 DEF WalkInv
      <3> QED  BY <2>2, <3>1, <3>2
    <2> QED  BY <2>1, <2>2
  <1>3. I => OpcUaWalk
    <2> SUFFICES ASSUME WalkInv
                 PROVE  UaClient!AnswersAreTrue
      BY DEF OpcUaWalk
    <2>1. Len(ctl.stack) <= Cardinality(OpcNodes) + 1
      BY DepthBounded DEF WalkInv, Depth
    <2>2. ASSUME said.status = "done", said.cmd \in {"inspect_node", "snapshot_nodes"}, said.stable
          PROVE  UaClient!ToSet(said.listed) = UaClient!Reachable(said.root)
      BY <2>2 DEF WalkInv, AnswerInv
    <2>3. UaClient!Cardinality(OpcNodes) = Cardinality(OpcNodes)
      BY DEF UaClient!Cardinality, Cardinality
    <2> QED  BY <2>1, <2>2, <2>3 DEF UaClient!AnswersAreTrue
  <1> QED  BY <1>1, <1>2, <1>3, PTL DEF Spec
-----------------------------------------------------------------------------
(* driver_opcua_server: any number of commands and of nodes in a command,  *)
(* and any number of writes of clients.                                    *)

UaNodes == DOMAIN dev.nodes

UaMains == {"idle", "upsert", "undo", "delete", "written", "join"}

UaJobs ==
    [item : {<<>>} \cup (UaServer!Ids \X UaServer!Values), todo : Seq(UaServer!Specs),
     next : Seq(UaServer!Specs), moved : BOOLEAN, made : Seq(UaServer!Ids),
     at : UaServer!UpsertSteps, created : BOOLEAN, ids : Seq(UaServer!Ids), recursive : BOOLEAN]

UaControl == [up : BOOLEAN, mode : UaServer!EventModes, fail : BOOLEAN, job : UaJobs, main : UaMains]

UaTypes ==
    /\ ctl \in UaControl
    /\ DOMAIN said = {"n", "cmd", "status", "code", "before", "val"}
    /\ DOMAIN dev = {"nodes", "entries"}

\* A node has its parent, and its entry if it has the context and the callback.
UaStore ==
    \A i \in UaNodes :
        /\ "parent" \in DOMAIN dev.nodes[i]
        /\ UaServer!nodeExists(dev, dev.nodes[i].parent)
        /\ dev.nodes[i].linked => i \in DOMAIN dev.entries

\* The first k nodes the command has made.
UaMade(k) == {ctl.job.made[j] : j \in 1..k}

\* The node that was created and is not recorded as made: the next step will be
\* for it, or the failure of one left it behind.
UaFresh == IF ctl.job.created THEN {Head(ctl.job.todo).id} ELSE {}

\* No node is being put in place.
UaRested(job) == job.next = <<>> /\ job.made = <<>> /\ job.at = "node" /\ job.created = FALSE

(***************************************************************************)
(* While upsert_nodes or run is at work, or undoes what it did: the nodes  *)
(* are those there were before and those it made, each made once, under a  *)
(* node that was there already, and one that it has not finished.  So the  *)
(* node made last has none below it but that one, and taking back the      *)
(* nodes in the reverse order takes nothing else.                          *)
(***************************************************************************)
UaUpsert ==
    ctl.main \in {"upsert", "undo"} =>
        /\ said.cmd \in {"upsert_nodes", "run"} /\ said.status = "none"
        /\ said.before \cup UaMade(Len(ctl.job.made)) \subseteq UaNodes
        /\ UaNodes \subseteq said.before \cup UaMade(Len(ctl.job.made)) \cup UaFresh
        /\ UaFresh \cap (said.before \cup UaMade(Len(ctl.job.made))) = {}
        /\ UaFresh \subseteq said.val /\ UaServer!Root \notin UaFresh
        /\ \A i \in UaFresh \cap UaNodes : ~dev.nodes[i].linked /\ dev.nodes[i].parent \notin UaFresh
        /\ \A j, k \in 1..Len(ctl.job.made) : ctl.job.made[j] = ctl.job.made[k] => j = k
        /\ \A k \in 1..Len(ctl.job.made) : ctl.job.made[k] \notin said.before
        /\ \A i \in said.before : dev.nodes[i].parent \in said.before \cup {UaServer!Root}
        /\ \A k \in 1..Len(ctl.job.made) :
              dev.nodes[ctl.job.made[k]].parent \in said.before \cup {UaServer!Root} \cup UaMade(k - 1)

\* The node being put in place is there.
UaAt ==
    ctl.main = "upsert" =>
        /\ ctl.job.at # "node" => ctl.job.todo # <<>> /\ Head(ctl.job.todo).id \in UaNodes
        /\ ctl.job.at = "context" => Head(ctl.job.todo).id \in DOMAIN dev.entries
        /\ ctl.job.at = "node" => ctl.job.created = FALSE

\* No node the host named is lost sight of between the passes.
UaPass ==
    ctl.main = "upsert" =>
        /\ said.val \subseteq UaNodes \cup UaServer!IdsOf(ctl.job.todo) \cup UaServer!IdsOf(ctl.job.next)
        /\ UaServer!IdsOf(ctl.job.todo) \cup UaServer!IdsOf(ctl.job.next)
             \cup UaMade(Len(ctl.job.made)) \subseteq said.val

\* What delete_nodes still has to delete is on its list.
UaDelete ==
    ctl.main = "delete" =>
        /\ said.cmd = "delete_nodes" /\ said.status = "none"
        /\ said.val \cap UaNodes \subseteq {ctl.job.ids[k] : k \in DOMAIN ctl.job.ids}

UaOther ==
    /\ ctl.main \in {"idle", "written", "join"} => UaRested(ctl.job)
    /\ ctl.main = "written" => said.cmd = "write_values"
    /\ ctl.main = "join" => said.cmd \in {"stop_server", "run"}

UaAnswer ==
    /\ said.cmd = "upsert_nodes" =>
         /\ said.status = "done" => UaNodes = said.before \cup said.val
         /\ said.status = "error" =>
              /\ said.before \subseteq UaNodes
              /\ \A i, j \in UaNodes \ said.before : i = j /\ i \in said.val /\ ~dev.nodes[i].linked
    /\ said.cmd = "delete_nodes" /\ said.status = "done" => said.val \cap UaNodes = {}

UaInv == UaTypes /\ UaStore /\ UaUpsert /\ UaAt /\ UaPass /\ UaDelete /\ UaOther /\ UaAnswer

-----------------------------------------------------------------------------
(* Trees of nodes and lists of specifications *)

\* A tree holds its node and, with a node, those below it.
LEMMA TreeClosed ==
    ASSUME NEW d, NEW id
    PROVE  /\ UaServer!Tree(d, id) \subseteq DOMAIN d.nodes
           /\ id \in DOMAIN d.nodes => id \in UaServer!Tree(d, id)
           /\ \A j \in UaServer!Tree(d, id) : UaServer!Children(d, j) \subseteq UaServer!Tree(d, id)
  <1>1. ASSUME NEW j \in UaServer!Tree(d, id), NEW i \in UaServer!Children(d, j)
        PROVE  i \in UaServer!Tree(d, id)
    BY <1>1 DEF UaServer!Tree, UaServer!Children
  <1> QED  BY <1>1 DEF UaServer!Tree

\* A specification names one of the nodes, which is not the root.
LEMMA SpecIds ==
    /\ \A s \in UaServer!Specs : s.id \in UaServer!Ids
    /\ UaServer!Root \notin UaServer!Ids
  BY DevicesAssumption DEF UaServer!Specs, UaServer!Ids, UaServer!Root

LEMMA IdsOfTail ==
    ASSUME NEW S, NEW b \in Seq(S), b # <<>>
    PROVE  /\ Head(b) \in S /\ Tail(b) \in Seq(S)
           /\ UaServer!IdsOf(b) = {Head(b).id} \cup UaServer!IdsOf(Tail(b))
  <1>1. Head(b) \in S /\ Tail(b) \in Seq(S) /\ Len(b) \in Nat /\ Len(b) > 0 /\ Len(Tail(b)) = Len(b) - 1
    OBVIOUS
  <1>2. \A i \in DOMAIN Tail(b) : i + 1 \in DOMAIN b /\ Tail(b)[i] = b[i + 1]
    BY <1>1
  <1>3. \A i \in DOMAIN b : i = 1 \/ (i - 1 \in DOMAIN Tail(b) /\ b[i] = Tail(b)[i - 1])
    BY <1>1
  <1>4. 1 \in DOMAIN b /\ Head(b) = b[1]
    BY <1>1
  <1>5. UaServer!IdsOf(b) \subseteq {Head(b).id} \cup UaServer!IdsOf(Tail(b))
    BY <1>3, <1>4 DEF UaServer!IdsOf
  <1>6. {Head(b).id} \cup UaServer!IdsOf(Tail(b)) \subseteq UaServer!IdsOf(b)
    BY <1>2, <1>4 DEF UaServer!IdsOf
  <1> QED  BY <1>1, <1>5, <1>6

LEMMA IdsOfAppend ==
    ASSUME NEW S, NEW b \in Seq(S), NEW s \in S
    PROVE  /\ Append(b, s) \in Seq(S)
           /\ UaServer!IdsOf(Append(b, s)) = UaServer!IdsOf(b) \cup {s.id}
  <1>1. /\ Append(b, s) \in Seq(S) /\ Len(Append(b, s)) = Len(b) + 1 /\ Len(b) \in Nat
        /\ \A i \in 1..Len(b) : Append(b, s)[i] = b[i]
        /\ Append(b, s)[Len(b) + 1] = s
        /\ DOMAIN b = 1..Len(b) /\ DOMAIN Append(b, s) = 1..(Len(b) + 1)
    OBVIOUS
  <1> DEFINE c == Append(b, s)
  <1> HIDE DEF c
  <1>2. UaServer!IdsOf(c) \subseteq UaServer!IdsOf(b) \cup {s.id}
    <2> SUFFICES ASSUME NEW i \in DOMAIN c
                 PROVE  c[i].id \in UaServer!IdsOf(b) \cup {s.id}
      BY DEF UaServer!IdsOf
    <2>1. i \in 1..Len(b) \/ i = Len(b) + 1
      BY <1>1 DEF c
    <2> QED  BY <1>1, <2>1 DEF c, UaServer!IdsOf
  <1>3. UaServer!IdsOf(b) \cup {s.id} \subseteq UaServer!IdsOf(c)
    BY <1>1 DEF c, UaServer!IdsOf
  <1> QED  BY <1>1, <1>2, <1>3 DEF c

-----------------------------------------------------------------------------
(* The serving thread *)

\* The nodes, their parents and their entries are what they were.
UaKept ==
    /\ DOMAIN dev' = DOMAIN dev
    /\ DOMAIN dev'.nodes = DOMAIN dev.nodes
    /\ DOMAIN dev.entries \subseteq DOMAIN dev'.entries
    /\ \A i \in DOMAIN dev.nodes :
         /\ "parent" \in DOMAIN dev'.nodes[i] /\ dev'.nodes[i].parent = dev.nodes[i].parent
         /\ dev'.nodes[i].linked => dev.nodes[i].linked

LEMMA KeptStore ==
    ASSUME UaTypes, UaStore, UaKept
    PROVE  UaStore'
  <1> SUFFICES ASSUME NEW i \in DOMAIN dev'.nodes
               PROVE  /\ "parent" \in DOMAIN dev'.nodes[i]
                      /\ UaServer!nodeExists(dev, dev.nodes[i].parent)'
                      /\ dev'.nodes[i].linked => i \in DOMAIN dev'.entries
    BY DEF UaStore, UaNodes
  <1> QED  BY DEF UaStore, UaNodes, UaKept, UaServer!nodeExists

\* The nodes made are what they were.
LEMMA UpsertKept ==
    ASSUME UaUpsert, UaKept, said' = said, ctl.main \in {"upsert", "undo"}, ctl'.job.made = ctl.job.made,
           UaFresh' = UaFresh
    PROVE  UaUpsert'
  <1>1. UaNodes' = UaNodes /\ (\A k : UaMade(k)' = UaMade(k))
    BY DEF UaNodes, UaKept, UaMade
  <1>2. \A i \in said.before : dev'.nodes[i].parent = dev.nodes[i].parent
    BY DEF UaUpsert, UaKept, UaNodes
  <1>3. \A k \in 1..Len(ctl.job.made) :
          dev'.nodes[ctl.job.made[k]].parent = dev.nodes[ctl.job.made[k]].parent
    BY DEF UaUpsert, UaKept, UaNodes, UaMade
  <1>4. \A i \in UaNodes : dev'.nodes[i].parent = dev.nodes[i].parent
                           /\ (dev'.nodes[i].linked => dev.nodes[i].linked)
    BY DEF UaKept, UaNodes
  <1> QED  BY <1>1, <1>2, <1>3, <1>4 DEF UaUpsert

LEMMA KeptInv ==
    ASSUME UaInv, UaKept, ctl' = ctl, said' = said
    PROVE  UaInv'
  <1>1. UaTypes' /\ UaStore'
    BY KeptStore DEF UaInv, UaTypes, UaKept
  <1>2. UaNodes' = UaNodes /\ (\A k : UaMade(k)' = UaMade(k))
    BY DEF UaNodes, UaKept, UaMade
  <1>3. UaUpsert'
    <2>1. CASE ctl.main \in {"upsert", "undo"}
      <3>1. UaFresh' = UaFresh
        BY DEF UaFresh
      <3> QED  BY <2>1, <3>1, UpsertKept DEF UaInv
    <2> QED  BY <2>1 DEF UaUpsert
  <1>4. UaPass' /\ UaDelete' /\ UaOther'
    BY <1>2 DEF UaInv, UaPass, UaDelete, UaOther, UaRested
  <1>5. UaAt' /\ UaAnswer'
    BY <1>2 DEF UaInv, UaAt, UaAnswer, UaKept, UaNodes
  <1> QED  BY <1>1, <1>3, <1>4, <1>5 DEF UaInv

\* A field of a node is written, or one of an entry.
LEMMA NodeWritten ==
    ASSUME UaTypes, UaStore, NEW id \in DOMAIN dev.nodes, NEW f, f \notin {"parent", "linked"}, NEW x,
           dev' = [dev EXCEPT !.nodes[id][f] = x]
    PROVE  UaKept
  <1>1. DOMAIN dev' = DOMAIN dev /\ dev'.entries = dev.entries
        /\ dev'.nodes = [dev.nodes EXCEPT ![id][f] = x]
    BY DEF UaTypes
  <1> QED  BY <1>1 DEF UaKept, UaStore, UaNodes

LEMMA EntryWritten ==
    ASSUME UaTypes, UaStore, NEW id, NEW x, dev' = [dev EXCEPT !.entries[id].cur = x]
    PROVE  UaKept
  <1>1. DOMAIN dev' = DOMAIN dev /\ dev'.nodes = dev.nodes
        /\ dev'.entries = [dev.entries EXCEPT ![id].cur = x]
    BY DEF UaTypes
  <1> QED  BY <1>1 DEF UaKept, UaStore, UaNodes

LEMMA ThreadKeeps ==
    ASSUME UaInv,
           UaServer!ThreadSteps \/ UaServer!SessionChanges
             \/ (\E id \in UaServer!Ids : UaServer!ExternalWrite(id)) \/ UNCHANGED UaServer!vars
    PROVE  UaInv'
  <1>1. ctl' = ctl /\ said' = said
    BY DEF UaServer!ThreadSteps, UaServer!SessionChanges, UaServer!ExternalWrite, UaServer!Iterate,
           UaServer!IterateEnds, UaServer!variableWritten, UaServer!emitEvent, UaServer!vars
  <1>2. CASE dev' = dev
    <2>1. UaKept
      BY <1>2 DEF UaKept, UaInv, UaStore, UaNodes
    <2> QED  BY <1>1, <2>1, KeptInv
  <1>3. CASE UaServer!variableWritten
    <2>1. CASE dev' # dev
      <3>1. PICK x : dev' = [dev EXCEPT !.entries[wire.node].cur = x]
        BY <1>3, <2>1 DEF UaServer!variableWritten
      <3>2. UaKept
        BY <3>1, EntryWritten DEF UaInv
      <3> QED  BY <1>1, <3>2, KeptInv
    <2> QED  BY <1>2, <2>1
  <1>4. ASSUME NEW id \in UaServer!Ids, UaServer!ExternalWrite(id)
        PROVE  UaInv'
    <2>1. id \in DOMAIN dev.nodes /\ dev' = [dev EXCEPT !.nodes[id].val = 7]
      BY <1>4 DEF UaServer!ExternalWrite
    <2>2. UaKept
      BY <2>1, NodeWritten DEF UaInv
    <2> QED  BY <1>1, <2>2, KeptInv
  <1>5. dev' = dev \/ UaServer!variableWritten \/ \E id \in UaServer!Ids : UaServer!ExternalWrite(id)
    BY DEF UaServer!ThreadSteps, UaServer!SessionChanges, UaServer!Iterate,
           UaServer!IterateEnds, UaServer!emitEvent, UaServer!vars
  <1> QED  BY <1>2, <1>3, <1>4, <1>5

-----------------------------------------------------------------------------
(* The commands *)

\* A command with no list of nodes begins, or is answered at once.
LEMMA OtherCommand ==
    ASSUME UaInv, UaTypes', UaKept,
           ctl'.main \in {"idle", "written", "join"}, UaRested(ctl'.job),
           said'.cmd \notin {"upsert_nodes", "delete_nodes"},
           ctl'.main = "written" => said'.cmd = "write_values",
           ctl'.main = "join" => said'.cmd \in {"stop_server", "run"}
    PROVE  UaInv'
  <1>1. UaStore'
    BY KeptStore DEF UaInv
  <1>2. UaUpsert' /\ UaAt' /\ UaPass' /\ UaDelete' /\ UaOther' /\ UaAnswer'
    BY DEF UaUpsert, UaAt, UaPass, UaDelete, UaOther, UaAnswer
  <1> QED  BY <1>1, <1>2 DEF UaInv

LEMMA SameNodes ==
    ASSUME UaInv, dev' = dev
    PROVE  UaKept
  BY DEF UaKept, UaInv, UaStore, UaNodes

\* upsert_nodes and run begin with what is there.
LEMMA UpsertBegins ==
    ASSUME UaInv, UaTypes', dev' = dev, NEW batch \in Seq(UaServer!Specs),
           ctl'.main = "upsert", ctl'.job.todo = batch, UaRested(ctl'.job),
           said'.cmd \in {"upsert_nodes", "run"}, said'.status = "none",
           said'.before = DOMAIN dev.nodes, said'.val = UaServer!IdsOf(batch)
    PROVE  UaInv'
  <1>1. UaStore'
    BY SameNodes, KeptStore DEF UaInv
  <1>2. UaMade(Len(ctl.job.made))' = {} /\ Len(ctl.job.made)' = 0 /\ UaFresh' = {}
    BY DEF UaMade, UaFresh, UaRested
  <1>3. UaUpsert' /\ UaAt'
    BY <1>2 DEF UaInv, UaUpsert, UaAt, UaNodes, UaStore, UaServer!nodeExists, UaRested
  <1>4. UaServer!IdsOf(<<>>) = {}
    BY DEF UaServer!IdsOf
  <1>5. UaPass'
    BY <1>2, <1>4 DEF UaPass, UaRested
  <1>6. UaDelete' /\ UaOther' /\ UaAnswer'
    BY DEF UaDelete, UaOther, UaAnswer
  <1> QED  BY <1>1, <1>3, <1>5, <1>6 DEF UaInv

\* The lists of the commands.
LEMMA Lists ==
    ASSUME NEW S, NEW max \in Nat, NEW b \in UNION {[1..n -> S] : n \in 0..max}
    PROVE  b \in Seq(S)
  <1>1. PICK n \in 0..max : b \in [1..n -> S]
    OBVIOUS
  <1>2. n \in Nat
    OBVIOUS
  <1> QED  BY <1>1, <1>2

LEMMA CommandsKeep ==
    ASSUME UaInv, UaServer!handle
    PROVE  UaInv'
  <1>1. /\ UaTypes /\ ctl.main = "idle" /\ UaRested(ctl.job)
    BY DEF UaInv, UaOther, UaServer!handle
  <1>2. ASSUME ctl' = ctl, dev' = dev, NEW cmd, NEW status, NEW code, NEW val,
               UaServer!Answer(cmd, status, code, val), cmd \notin {"upsert_nodes", "delete_nodes"}
        PROVE  UaInv'
    <2>1. /\ DOMAIN said' = {"n", "cmd", "status", "code", "before", "val"}
          /\ said'.cmd = cmd
      BY <1>1, <1>2 DEF UaTypes, UaServer!Answer
    <2>2. UaTypes'
      BY <1>1, <1>2, <2>1 DEF UaTypes
    <2> QED  BY <1>1, <1>2, <2>1, <2>2, OtherCommand, SameNodes
  <1>3. ASSUME NEW cmd, NEW code, UaServer!Refuse(cmd, code), cmd \notin {"upsert_nodes", "delete_nodes"}
        PROVE  UaInv'
    BY <1>2, <1>3 DEF UaServer!Refuse
  <1>4. CASE UaServer!StatusCommand
    BY <1>2, <1>4 DEF UaServer!StatusCommand
  <1>5. ASSUME NEW m \in UaServer!EventModes, NEW cmd,
               UaServer!start(m, "idle", <<>>) \/ ctl' = [ctl EXCEPT !.mode = m],
               NEW status, NEW code, UaServer!Answer(cmd, status, code, {}), dev' = dev,
               cmd \notin {"upsert_nodes", "delete_nodes"}
        PROVE  UaInv'
    <2>1. /\ ctl' \in UaControl
          /\ ctl'.main = "idle" /\ UaRested(ctl'.job)
      <3>1. CASE ctl' = [ctl EXCEPT !.mode = m]
        BY <1>1, <3>1 DEF UaTypes, UaControl
      <3>2. CASE UaServer!start(m, "idle", <<>>)
        <4>1. <<>> \in Seq(UaServer!Specs)
          OBVIOUS
        <4> QED  BY <1>1, <3>2, <4>1 DEF UaTypes, UaControl, UaJobs, UaMains, UaServer!start, UaRested
      <3> QED  BY <1>5, <3>1, <3>2
    <2>2. /\ DOMAIN said' = {"n", "cmd", "status", "code", "before", "val"}
          /\ said'.cmd = cmd
      BY <1>1, <1>5 DEF UaTypes, UaServer!Answer
    <2>3. UaTypes'
      BY <1>1, <1>5, <2>1, <2>2 DEF UaTypes
    <2> QED  BY <1>5, <2>1, <2>2, <2>3, OtherCommand, SameNodes
  <1>6. ASSUME NEW m \in UaServer!EventModes, UaServer!StartServer(m)
        PROVE  UaInv'
    BY <1>3, <1>5, <1>6 DEF UaServer!StartServer
  <1>7. CASE UaServer!StopServer
    <2>1. CASE UaServer!Refuse("stop_server", 3)
      BY <1>3, <2>1
    <2>2. CASE /\ ctl' = [ctl EXCEPT !.main = "join"]
               /\ UaServer!Answer("stop_server", "none", 0, {})
               /\ UNCHANGED dev
      <3>1. /\ DOMAIN said' = {"n", "cmd", "status", "code", "before", "val"}
            /\ said'.cmd = "stop_server"
        BY <1>1, <2>2 DEF UaTypes, UaServer!Answer
      <3>2. UaTypes' /\ ctl'.main = "join" /\ ctl'.job = ctl.job
        BY <1>1, <2>2, <3>1 DEF UaTypes, UaControl, UaMains
      <3> QED  BY <1>1, <2>2, <3>1, <3>2, OtherCommand, SameNodes
    <2> QED  BY <1>7, <2>1, <2>2 DEF UaServer!StopServer
  <1>8. ASSUME NEW b \in Seq(UaServer!Specs), NEW cmd \in {"upsert_nodes", "run"}, dev' = dev,
               \/ ctl' = [ctl EXCEPT !.main = "upsert", !.job.todo = b]
               \/ \E m \in UaServer!EventModes : UaServer!start(m, "upsert", b),
               UaServer!Answer(cmd, "none", 0, UaServer!IdsOf(b))
        PROVE  UaInv'
    <2>1. /\ DOMAIN said' = {"n", "cmd", "status", "code", "before", "val"}
          /\ said'.cmd = cmd /\ said'.status = "none"
          /\ said'.before = DOMAIN dev.nodes /\ said'.val = UaServer!IdsOf(b)
      BY <1>1, <1>8 DEF UaTypes, UaServer!Answer
    <2>2. /\ ctl' \in UaControl
          /\ ctl'.main = "upsert" /\ ctl'.job.todo = b
          /\ UaRested(ctl'.job)
      <3>1. CASE ctl' = [ctl EXCEPT !.main = "upsert", !.job.todo = b]
        BY <1>1, <3>1 DEF UaTypes, UaControl, UaJobs, UaMains, UaRested
      <3>2. ASSUME NEW m \in UaServer!EventModes, UaServer!start(m, "upsert", b)
            PROVE  /\ ctl' \in UaControl
                   /\ ctl'.main = "upsert" /\ ctl'.job.todo = b
                   /\ UaRested(ctl'.job)
        BY <1>1, <3>2 DEF UaTypes, UaControl, UaJobs, UaMains, UaServer!start, UaRested
      <3> QED  BY <1>8, <3>1, <3>2
    <2>3. UaTypes'
      BY <1>1, <1>8, <2>1, <2>2 DEF UaTypes
    <2> QED  BY <1>8, <2>1, <2>2, <2>3, UpsertBegins
  <1>9. ASSUME NEW m \in UaServer!EventModes, NEW b \in UaServer!Batches(MaxRun),
               UaServer!RunServer(m, b)
        PROVE  UaInv'
    <2>1. b \in Seq(UaServer!Specs)
      BY DevicesAssumption, Lists DEF UaServer!Batches
    <2>2. CASE UaServer!Refuse("run", 3)
      BY <1>3, <2>2
    <2>3. CASE /\ UaServer!Answer("run", "error", 1, {})
               /\ ctl' = [ctl EXCEPT !.mode = m] /\ UNCHANGED dev
      BY <1>5, <2>3
    <2>4. CASE /\ UaServer!start(m, "upsert", b)
               /\ UaServer!Answer("run", "none", 0, UaServer!IdsOf(b))
               /\ UNCHANGED dev
      BY <1>8, <2>1, <2>4
    <2> QED  BY <1>9, <2>2, <2>3, <2>4 DEF UaServer!RunServer
  <1>10. ASSUME NEW b \in UaServer!Batches(MaxBatch), UaServer!UpsertNodes(b)
         PROVE  UaInv'
    <2>1. b \in Seq(UaServer!Specs)
      BY DevicesAssumption, Lists DEF UaServer!Batches
    <2> QED  BY <1>8, <1>10, <2>1 DEF UaServer!UpsertNodes
  <1>11. ASSUME NEW ids \in UaServer!IdLists, NEW r \in BOOLEAN, UaServer!DeleteNodes(ids, r)
         PROVE  UaInv'
    <2>1. ids \in Seq(UaServer!Ids)
      BY DevicesAssumption, Lists DEF UaServer!IdLists
    <2>2. /\ DOMAIN said' = {"n", "cmd", "status", "code", "before", "val"}
          /\ said'.cmd = "delete_nodes" /\ said'.status = "none"
          /\ said'.val = {ids[k] : k \in DOMAIN ids}
      BY <1>1, <1>11 DEF UaTypes, UaServer!DeleteNodes, UaServer!Answer, UaServer!ToSet
    <2>3. /\ ctl' \in UaControl
          /\ ctl'.main = "delete" /\ ctl'.job.ids = ids
      BY <1>1, <1>11, <2>1 DEF UaTypes, UaControl, UaJobs, UaMains, UaServer!DeleteNodes
    <2>4. dev' = dev
      BY <1>11 DEF UaServer!DeleteNodes
    <2>5. UaTypes' /\ UaStore'
      BY <1>1, <2>2, <2>3, <2>4, SameNodes, KeptStore DEF UaTypes, UaInv
    <2>6. UaUpsert' /\ UaAt' /\ UaPass' /\ UaDelete' /\ UaOther' /\ UaAnswer'
      BY <2>2, <2>3 DEF UaUpsert, UaAt, UaPass, UaDelete, UaOther, UaAnswer
    <2> QED  BY <2>5, <2>6 DEF UaInv
  <1>12. ASSUME NEW i \in UaServer!Ids, NEW v \in UaServer!Values, NEW strict \in BOOLEAN,
                UaServer!writeSingleValue(i, v, strict)
         PROVE  UaInv'
    <2>1. CASE UaServer!Refuse("write_values", 2)
      BY <1>3, <2>1
    <2>2. ASSUME ~UaServer!Refuse("write_values", 2)
          PROVE  UaInv'
      <3>1. PICK x : /\ UaServer!Takes(i, v, strict)
                     /\ dev' = [dev EXCEPT !.nodes[i].val = x]
                     /\ ctl' = [ctl EXCEPT !.main = "written", !.job.item = <<i, v>>]
                     /\ UaServer!Answer("write_values", "none", 0, {i})
        BY <1>12, <2>2 DEF UaServer!writeSingleValue
      <3>2. UaKept
        BY <1>1, <3>1, NodeWritten DEF UaServer!Takes, UaInv
      <3>3. /\ DOMAIN said' = {"n", "cmd", "status", "code", "before", "val"}
            /\ said'.cmd = "write_values"
        BY <1>1, <3>1 DEF UaTypes, UaServer!Answer
      <3>4. <<i, v>> \in UaServer!Ids \X UaServer!Values
        OBVIOUS
      <3>5. PICK it \in UaServer!Ids \X UaServer!Values : it = <<i, v>>
        BY <3>4
      <3>6. /\ ctl' \in UaControl
            /\ ctl'.main = "written" /\ UaRested(ctl'.job)
        <4>1. ctl' = [ctl EXCEPT !.main = "written", !.job.item = it]
          BY <3>1, <3>5
        <4> QED  BY <1>1, <3>5, <4>1 DEF UaTypes, UaControl, UaJobs, UaMains, UaRested
      <3>7. UaTypes'
        BY <1>1, <3>2, <3>3, <3>6 DEF UaTypes, UaKept
      <3> QED  BY <3>2, <3>3, <3>6, <3>7, OtherCommand
    <2> QED  BY <2>1, <2>2
  <1>13. ASSUME NEW i \in UaServer!Ids, NEW r \in BOOLEAN, UaServer!InspectNode(i, r)
         PROVE  UaInv'
    BY <1>2, <1>3, <1>13 DEF UaServer!InspectNode
  <1>14. ASSUME NEW r \in BOOLEAN, UaServer!SnapshotNodes(r)
         PROVE  UaInv'
    BY <1>2, <1>14 DEF UaServer!SnapshotNodes
  <1>15. CASE UaServer!HandleNodes
    BY <1>3, <1>10, <1>11, <1>12, <1>13, <1>14, <1>15 DEF UaServer!HandleNodes
  <1> QED  BY <1>4, <1>6, <1>7, <1>9, <1>15 DEF UaServer!handle

-----------------------------------------------------------------------------
(* The steps of upsert_nodes *)

\* The node upsertNode works on, and what there is.
LEMMA Upserting ==
    ASSUME UaInv, ctl.main = "upsert", ctl.job.todo # <<>>, NEW s, s = Head(ctl.job.todo)
    PROVE  /\ UaTypes /\ UaStore /\ UaUpsert /\ UaAt /\ UaPass /\ ctl.job \in UaJobs
           /\ ctl.job.todo \in Seq(UaServer!Specs) /\ ctl.job.next \in Seq(UaServer!Specs)
           /\ ctl.job.made \in Seq(UaServer!Ids)
           /\ s \in UaServer!Specs /\ Tail(ctl.job.todo) \in Seq(UaServer!Specs) /\ s.id \in UaServer!Ids
           /\ UaServer!IdsOf(ctl.job.todo) = {s.id} \cup UaServer!IdsOf(Tail(ctl.job.todo))
           /\ UaFresh = IF ctl.job.created THEN {s.id} ELSE {}
  <1>1. /\ UaTypes /\ UaStore /\ UaUpsert /\ UaAt /\ UaPass /\ ctl.job \in UaJobs
        /\ ctl.job.todo \in Seq(UaServer!Specs) /\ ctl.job.next \in Seq(UaServer!Specs)
        /\ ctl.job.made \in Seq(UaServer!Ids)
    BY DEF UaInv, UaTypes, UaControl, UaJobs
  <1> QED  BY <1>1, IdsOfTail, SpecIds DEF UaFresh

\* upsertNode goes on to its next step with the node.
LEMMA StepKeeps ==
    ASSUME UaInv, UaKept, said' = said, ctl.main = "upsert", ctl.job.todo # <<>>,
           NEW x \in UaServer!UpsertSteps, x # "node", ctl' = [ctl EXCEPT !.job.at = x],
           NEW s, s = Head(ctl.job.todo), s.id \in UaNodes, x = "context" => s.id \in DOMAIN dev'.entries
    PROVE  UaInv'
  <1>1. UaTypes /\ UaStore /\ UaUpsert /\ UaAt /\ UaPass /\ ctl.job \in UaJobs
    BY Upserting
  <1>2. /\ ctl' \in UaControl /\ ctl'.main = "upsert" /\ ctl'.job = [ctl.job EXCEPT !.at = x]
        /\ ctl'.job.at = x /\ ctl'.job.todo = ctl.job.todo /\ ctl'.job.next = ctl.job.next
        /\ ctl'.job.made = ctl.job.made /\ ctl'.job.created = ctl.job.created
    BY <1>1 DEF UaTypes, UaControl, UaJobs
  <1>3. UaFresh' = UaFresh /\ UaNodes' = UaNodes /\ (\A k : UaMade(k)' = UaMade(k))
    <2>1. UaFresh' = UaFresh
      BY <1>2, Zenon DEF UaFresh
    <2>2. UaNodes' = UaNodes /\ (\A k : UaMade(k)' = UaMade(k))
      BY <1>2 DEF UaNodes, UaKept, UaMade
    <2> QED  BY <2>1, <2>2
  <1>4. UaTypes' /\ UaStore' /\ UaUpsert'
    BY <1>1, <1>2, <1>3, KeptStore, UpsertKept DEF UaTypes, UaKept
  <1>5. UaAt'
    BY <1>2, <1>3 DEF UaAt
  <1>6. UaPass'
    BY <1>1, <1>2, <1>3 DEF UaPass
  <1>7. UaDelete' /\ UaOther' /\ UaAnswer'
    BY <1>1, <1>2 DEF UaDelete, UaOther, UaAnswer, UaUpsert
  <1> QED  BY <1>4, <1>5, <1>6, <1>7 DEF UaInv

LEMMA OrphanWaitsKeeps ==
    ASSUME UaInv, UaServer!OrphanWaits
    PROVE  UaInv'
  <1> DEFINE s == Head(ctl.job.todo)
  <1>1. /\ ctl.main = "upsert" /\ ctl.job.todo # <<>> /\ ctl.job.at = "node" /\ said' = said /\ dev' = dev
        /\ ctl' = [ctl EXCEPT !.job.todo = Tail(@), !.job.next = Append(@, s)]
    BY DEF UaServer!OrphanWaits, UaServer!Upserts, UaServer!firstSpec
  <1>2. /\ UaTypes /\ UaStore /\ UaUpsert /\ UaAt /\ UaPass /\ ctl.job \in UaJobs
        /\ ctl.job.next \in Seq(UaServer!Specs) /\ s \in UaServer!Specs
        /\ Tail(ctl.job.todo) \in Seq(UaServer!Specs)
        /\ UaServer!IdsOf(ctl.job.todo) = {s.id} \cup UaServer!IdsOf(Tail(ctl.job.todo))
    BY <1>1, Upserting
  <1>3. ctl.job.created = FALSE
    BY <1>1, <1>2 DEF UaAt
  <1> HIDE DEF s
  <1>4. /\ Append(ctl.job.next, s) \in Seq(UaServer!Specs)
        /\ UaServer!IdsOf(Append(ctl.job.next, s)) = UaServer!IdsOf(ctl.job.next) \cup {s.id}
    BY <1>2, IdsOfAppend
  <1>5. PICK t \in Seq(UaServer!Specs), x \in Seq(UaServer!Specs) :
            t = Tail(ctl.job.todo) /\ x = Append(ctl.job.next, s)
    BY <1>2, <1>4
  <1>6. ctl' = [ctl EXCEPT !.job.todo = t, !.job.next = x]
    BY <1>1, <1>5
  <1>7. /\ ctl' \in UaControl /\ ctl'.main = "upsert"
        /\ ctl'.job.todo = t /\ ctl'.job.next = x /\ ctl'.job.made = ctl.job.made
        /\ ctl'.job.at = "node" /\ ctl'.job.created = FALSE
    <2>0. ctl \in UaControl /\ ctl.main = "upsert"
      BY <1>1, <1>2 DEF UaTypes
    <2>1. ctl' \in UaControl
      BY <2>0, <1>6 DEF UaControl, UaJobs
    <2>2. /\ ctl'.main = "upsert" /\ ctl'.job.todo = t /\ ctl'.job.next = x /\ ctl'.job.made = ctl.job.made
      BY <2>0, <1>6 DEF UaControl, UaJobs
    <2>3. ctl'.job.at = ctl.job.at
      BY <2>0, <1>6 DEF UaControl, UaJobs
    <2>4. ctl'.job.created = ctl.job.created
      BY <2>0, <1>6 DEF UaControl, UaJobs
    <2> QED  BY <1>1, <1>3, <2>1, <2>2, <2>3, <2>4
  <1>8. UaKept
    BY <1>1, SameNodes
  <1>9. UaFresh' = UaFresh /\ UaNodes' = UaNodes /\ (\A k : UaMade(k)' = UaMade(k))
    BY <1>1, <1>3, <1>7 DEF UaFresh, UaNodes, UaMade
  <1>10. UaTypes' /\ UaStore' /\ UaUpsert'
    BY <1>1, <1>2, <1>7, <1>8, <1>9, KeptStore, UpsertKept DEF UaTypes, UaKept
  <1>11. UaPass'
    BY <1>1, <1>2, <1>4, <1>5, <1>7, <1>9 DEF UaPass
  <1>12. UaAt' /\ UaDelete' /\ UaOther' /\ UaAnswer'
    BY <1>1, <1>2, <1>7 DEF UaAt, UaDelete, UaOther, UaAnswer, UaUpsert
  <1> QED  BY <1>10, <1>11, <1>12 DEF UaInv

LEMMA NodeFoundKeeps ==
    ASSUME UaInv, UaServer!NodeFound
    PROVE  UaInv'
  <1>1. /\ ctl.main = "upsert" /\ ctl.job.todo # <<>> /\ said' = said /\ dev' = dev
        /\ Head(ctl.job.todo).id \in UaNodes /\ ctl' = [ctl EXCEPT !.job.at = "access"]
    BY DEF UaServer!NodeFound, UaServer!Upserts, UaServer!firstSpec, UaNodes
  <1>2. PICK x \in UaServer!UpsertSteps : x = "access"
    BY DEF UaServer!UpsertSteps
  <1> QED  BY <1>1, <1>2, SameNodes, StepKeeps

\* A field of the node is written, and its names or its value with it.
LEMMA UpdatesKeep ==
    ASSUME UaInv, UaServer!updateAccess \/ UaServer!updateValue
    PROVE  UaInv'
  <1>1. /\ ctl.main = "upsert" /\ ctl.job.todo # <<>> /\ ctl.job.at # "node" /\ said' = said
    BY DEF UaServer!updateAccess, UaServer!updateValue, UaServer!Upserts
  <1>2. Head(ctl.job.todo).id \in UaNodes /\ UaTypes /\ UaStore
    BY <1>1 DEF UaInv, UaAt
  <1>3. UaKept
    <2>1. dev' = dev \/ \E x : \/ dev' = [dev EXCEPT !.nodes[Head(ctl.job.todo).id].access = x]
                               \/ dev' = [dev EXCEPT !.nodes[Head(ctl.job.todo).id].val = x]
      BY DEF UaServer!updateAccess, UaServer!updateValue, UaServer!firstSpec
    <2> QED  BY <1>2, <2>1, SameNodes, NodeWritten DEF UaNodes
  <1>4. PICK x \in UaServer!UpsertSteps : ctl' = [ctl EXCEPT !.job.at = x] /\ x \notin {"node", "context"}
    BY DEF UaServer!updateAccess, UaServer!updateValue, UaServer!UpsertSteps
  <1> QED  BY <1>1, <1>2, <1>3, <1>4, StepKeeps

LEMMA EntryEnsuredKeeps ==
    ASSUME UaInv, UaServer!EntryEnsured
    PROVE  UaInv'
  <1> DEFINE s == Head(ctl.job.todo)
  <1>1. /\ ctl.main = "upsert" /\ ctl.job.todo # <<>> /\ ctl.job.at = "entry" /\ said' = said
        /\ dev' = [dev EXCEPT !.entries = UaServer!ensureEntry(dev, s)]
        /\ ctl' = [ctl EXCEPT !.job.at = "context"]
    BY DEF UaServer!EntryEnsured, UaServer!Upserts, UaServer!firstSpec
  <1>2. s.id \in UaNodes /\ UaTypes /\ UaStore
    BY <1>1 DEF UaInv, UaAt
  <1>3. DOMAIN UaServer!ensureEntry(dev, s) = DOMAIN dev.entries \cup {s.id}
    BY DEF UaServer!ensureEntry, UaServer!Put
  <1>4. DOMAIN dev' = DOMAIN dev /\ dev'.nodes = dev.nodes /\ dev'.entries = UaServer!ensureEntry(dev, s)
    BY <1>1, <1>2 DEF UaTypes
  <1>5. UaKept /\ s.id \in DOMAIN dev'.entries
    BY <1>2, <1>3, <1>4 DEF UaKept, UaStore, UaNodes
  <1>6. PICK x \in UaServer!UpsertSteps : x = "context"
    BY DEF UaServer!UpsertSteps
  <1> QED  BY <1>1, <1>2, <1>5, <1>6, StepKeeps

LEMMA NodeCreatedKeeps ==
    ASSUME UaInv, UaServer!NodeCreated
    PROVE  UaInv'
  <1> DEFINE s == Head(ctl.job.todo)
  <1>1. /\ ctl.main = "upsert" /\ ctl.job.todo # <<>> /\ ctl.job.at = "node" /\ said' = said
        /\ UaServer!nodeExists(dev, s.parent) /\ s.id \notin DOMAIN dev.nodes
        /\ dev' = [dev EXCEPT !.nodes = UaServer!Put(@, s.id, UaServer!NewNode(s))]
        /\ ctl' = [ctl EXCEPT !.job.at = "access", !.job.created = TRUE]
    BY DEF UaServer!NodeCreated, UaServer!Upserts, UaServer!firstSpec
  <1>2. /\ UaTypes /\ UaStore /\ UaUpsert /\ UaAt /\ UaPass /\ ctl.job \in UaJobs
        /\ s \in UaServer!Specs /\ s.id \in UaServer!Ids
        /\ UaServer!IdsOf(ctl.job.todo) = {s.id} \cup UaServer!IdsOf(Tail(ctl.job.todo))
    BY <1>1, Upserting
  <1>3. UaFresh = {}
    BY <1>1, <1>2 DEF UaAt, UaFresh
  <1>4. s.id # UaServer!Root
    BY <1>2, SpecIds
  <1>5. PICK x \in UaServer!UpsertSteps, c \in BOOLEAN : x = "access" /\ c = TRUE
    BY DEF UaServer!UpsertSteps
  <1>6. /\ ctl' \in UaControl /\ ctl'.main = "upsert" /\ ctl'.job.at = "access" /\ ctl'.job.created = TRUE
        /\ ctl'.job.todo = ctl.job.todo /\ ctl'.job.next = ctl.job.next /\ ctl'.job.made = ctl.job.made
    <2>0. ctl \in UaControl /\ ctl.main = "upsert"
      BY <1>1, <1>2 DEF UaTypes
    <2>1. ctl' = [ctl EXCEPT !.job.at = x, !.job.created = c]
      BY <1>1, <1>5
    <2>2. ctl' \in UaControl
      BY <2>0, <2>1 DEF UaControl, UaJobs
    <2>3. /\ ctl'.main = "upsert" /\ ctl'.job.at = x /\ ctl'.job.todo = ctl.job.todo
          /\ ctl'.job.next = ctl.job.next /\ ctl'.job.made = ctl.job.made
      BY <2>0, <2>1 DEF UaControl, UaJobs
    <2>4. ctl'.job.created = c
      BY <2>0, <2>1 DEF UaControl, UaJobs
    <2> QED  BY <1>5, <2>2, <2>3, <2>4
  <1>7. UaFresh' = {s.id} /\ (\A k : UaMade(k)' = UaMade(k))
    BY <1>6 DEF UaFresh, UaMade
  <1>8. UaServer!NewNode(s).parent = s.parent /\ UaServer!NewNode(s).linked = FALSE
        /\ "parent" \in DOMAIN UaServer!NewNode(s)
    BY DEF UaServer!NewNode
  <1> HIDE DEF s
  <1>9. /\ DOMAIN dev' = {"nodes", "entries"} /\ dev'.entries = dev.entries
        /\ DOMAIN dev'.nodes = DOMAIN dev.nodes \cup {s.id}
        /\ \A i \in DOMAIN dev.nodes : dev'.nodes[i] = dev.nodes[i]
        /\ dev'.nodes[s.id] = UaServer!NewNode(s)
    BY <1>1, <1>2 DEF UaTypes, UaServer!Put
  <1>10. UaStore'
    <2> SUFFICES ASSUME NEW i \in DOMAIN dev'.nodes
                 PROVE  /\ "parent" \in DOMAIN dev'.nodes[i]
                        /\ dev'.nodes[i].parent = UaServer!Root
                             \/ dev'.nodes[i].parent \in DOMAIN dev'.nodes
                        /\ dev'.nodes[i].linked => i \in DOMAIN dev'.entries
      BY DEF UaStore, UaNodes, UaServer!nodeExists
    <2> QED  BY <1>1, <1>2, <1>8, <1>9 DEF UaStore, UaNodes, UaServer!nodeExists
  <1>11. UaNodes' = UaNodes \cup {s.id} /\ s.id \notin UaNodes
    BY <1>1, <1>9 DEF UaNodes
  <1>12. s.parent # s.id
    BY <1>1, <1>4 DEF UaServer!nodeExists
  <1>13. UaUpsert'
    <2>1. /\ said.cmd \in {"upsert_nodes", "run"} /\ said.status = "none"
          /\ said.before \cup UaMade(Len(ctl.job.made)) = UaNodes
      BY <1>1, <1>2, <1>3 DEF UaUpsert
    <2>2. {s.id} \subseteq said.val /\ UaServer!Root \notin {s.id}
      BY <1>1, <1>2, <1>4 DEF UaPass
    <2>3. \A i \in said.before : dev'.nodes[i].parent \in said.before \cup {UaServer!Root}
      BY <1>1, <1>2, <1>9, <2>1 DEF UaNodes, UaUpsert
    <2>4. \A k \in 1..Len(ctl.job.made) : dev'.nodes[ctl.job.made[k]].parent
                                            \in said.before \cup {UaServer!Root} \cup UaMade(k - 1)
      <3> SUFFICES ASSUME NEW k \in 1..Len(ctl.job.made)
                   PROVE  dev'.nodes[ctl.job.made[k]].parent
                            \in said.before \cup {UaServer!Root} \cup UaMade(k - 1)
        OBVIOUS
      <3>1. ctl.job.made[k] \in UaMade(Len(ctl.job.made))
        BY DEF UaMade
      <3>2. dev'.nodes[ctl.job.made[k]] = dev.nodes[ctl.job.made[k]]
        BY <1>9, <2>1, <3>1 DEF UaNodes
      <3> QED  BY <1>1, <1>2, <3>2 DEF UaUpsert
    <2>5. \A i \in {s.id} \cap UaNodes' : ~dev'.nodes[i].linked /\ dev'.nodes[i].parent \notin {s.id}
      BY <1>8, <1>9, <1>12
    <2>6. /\ \A j, k \in 1..Len(ctl.job.made) : ctl.job.made[j] = ctl.job.made[k] => j = k
          /\ \A k \in 1..Len(ctl.job.made) : ctl.job.made[k] \notin said.before
      BY <1>1, <1>2 DEF UaUpsert
    <2> QED  BY <1>1, <1>6, <1>7, <1>11, <2>1, <2>2, <2>3, <2>4, <2>5, <2>6 DEF UaUpsert
  <1>14. UaTypes'
    BY <1>1, <1>2, <1>6, <1>9 DEF UaTypes
  <1>15. UaPass'
    BY <1>1, <1>2, <1>6, <1>7, <1>11 DEF UaPass
  <1>16. UaAt' /\ UaDelete' /\ UaOther' /\ UaAnswer'
    BY <1>1, <1>2, <1>6, <1>11 DEF UaAt, UaDelete, UaOther, UaAnswer, UaUpsert, s
  <1> QED  BY <1>10, <1>13, <1>14, <1>15, <1>16 DEF UaInv

\* A node is recorded as made; it is under one that is there.
LEMMA NodeRecorded ==
    ASSUME UaUpsert, UaStore, ctl.main = "upsert", said' = said, ctl'.main = "upsert", UaFresh' = {},
           ctl.job.made \in Seq(UaServer!Ids), NEW id \in UaServer!Ids, UaFresh = {id}, id \in UaNodes,
           UaNodes' = UaNodes, \A i \in UaNodes : dev'.nodes[i].parent = dev.nodes[i].parent,
           ctl'.job.made = Append(ctl.job.made, id)
    PROVE  UaUpsert' /\ UaMade(Len(ctl.job.made))' = UaMade(Len(ctl.job.made)) \cup {id}
  <1> DEFINE n == Len(ctl.job.made)
             m == ctl.job.made
             c == Append(m, id)
  <1>1. n \in Nat /\ Len(c) = n + 1 /\ (\A j \in 1..n : c[j] = m[j]) /\ c[n + 1] = id
    OBVIOUS
  <1>2. ctl'.job.made = c /\ Len(ctl'.job.made) = n + 1
    BY <1>1
  <1>3. \A k : UaMade(k) = {m[j] : j \in 1..k} /\ UaMade(k)' = {c[j] : j \in 1..k}
    BY <1>2 DEF UaMade
  <1>4. n = Len(ctl.job.made) /\ m = ctl.job.made
    OBVIOUS
  <1> HIDE DEF n, m, c
  <1>5. \A k \in 0..n : {c[j] : j \in 1..k} = {m[j] : j \in 1..k}
    BY <1>1
  <1>6. {c[j] : j \in 1..(n + 1)} = {m[j] : j \in 1..n} \cup {id}
    <2>1. \A j \in 1..(n + 1) : j \in 1..n \/ j = n + 1
      BY <1>1
    <2> QED  BY <1>1, <2>1
  <1>7. UaMade(Len(ctl.job.made))' = UaMade(Len(ctl.job.made)) \cup {id}
    <2>1. UaMade(Len(ctl.job.made))' = {c[j] : j \in 1..(n + 1)}
      BY <1>2 DEF UaMade
    <2> QED  BY <1>3, <1>4, <1>6, <2>1
  <1>8. /\ said.cmd \in {"upsert_nodes", "run"} /\ said.status = "none"
        /\ UaNodes = said.before \cup {m[j] : j \in 1..n} \cup {id}
        /\ id \notin said.before /\ id \notin {m[j] : j \in 1..n} /\ dev.nodes[id].parent # id
        /\ \A j, k \in 1..n : m[j] = m[k] => j = k
        /\ \A k \in 1..n : m[k] \notin said.before
        /\ \A i \in said.before : dev.nodes[i].parent \in said.before \cup {UaServer!Root}
        /\ \A k \in 1..n : dev.nodes[m[k]].parent
                               \in said.before \cup {UaServer!Root} \cup {m[j] : j \in 1..(k - 1)}
    <2>1. /\ said.cmd \in {"upsert_nodes", "run"} /\ said.status = "none"
          /\ said.before \cup UaMade(n) \subseteq UaNodes
          /\ UaNodes \subseteq said.before \cup UaMade(n) \cup UaFresh
          /\ UaFresh \cap (said.before \cup UaMade(n)) = {}
          /\ \A i \in UaFresh \cap UaNodes : dev.nodes[i].parent \notin UaFresh
          /\ \A j, k \in 1..n : m[j] = m[k] => j = k
          /\ \A k \in 1..n : m[k] \notin said.before
          /\ \A i \in said.before : dev.nodes[i].parent \in said.before \cup {UaServer!Root}
          /\ \A k \in 1..n : dev.nodes[m[k]].parent \in said.before \cup {UaServer!Root} \cup UaMade(k - 1)
      BY <1>4 DEF UaUpsert
    <2>2. UaMade(n) = {m[j] : j \in 1..n} /\ \A k \in 1..n : UaMade(k - 1) = {m[j] : j \in 1..(k - 1)}
      BY <1>3
    <2>3. /\ UaNodes = said.before \cup {m[j] : j \in 1..n} \cup {id}
          /\ id \notin said.before /\ id \notin {m[j] : j \in 1..n} /\ dev.nodes[id].parent # id
      BY <2>1, <2>2
    <2> QED  BY <2>1, <2>2, <2>3
  <1>9. \A k \in 1..(n + 1) : k \in 1..n \/ k = n + 1
    BY <1>1
  <1>10. \A j \in 1..n : m[j] # id
    BY <1>8
  <1>11. \A j, k \in 1..(n + 1) : c[j] = c[k] => j = k
    BY <1>1, <1>8, <1>9, <1>10
  <1>12. \A k \in 1..(n + 1) : c[k] \notin said.before
    BY <1>1, <1>8, <1>9
  <1>13. \A i \in said.before : dev'.nodes[i].parent \in said.before \cup {UaServer!Root}
    BY <1>8
  <1>14. ASSUME NEW k \in 1..(n + 1)
         PROVE  dev'.nodes[c[k]].parent \in said.before \cup {UaServer!Root} \cup {c[j] : j \in 1..(k - 1)}
    <2>1. CASE k \in 1..n
      <3>1. dev'.nodes[c[k]].parent = dev.nodes[m[k]].parent
        BY <1>1, <1>8, <2>1
      <3>2. {c[j] : j \in 1..(k - 1)} = {m[j] : j \in 1..(k - 1)}
        <4>1. k - 1 \in 0..n
          BY <1>1, <2>1
        <4> QED  BY <1>5, <4>1
      <3> QED  BY <1>8, <2>1, <3>1, <3>2
    <2>2. CASE k = n + 1
      <3>1. dev'.nodes[c[k]].parent = dev.nodes[id].parent
        BY <1>1, <1>8, <2>2
      <3>2. dev.nodes[id].parent \in {UaServer!Root} \cup UaNodes
        BY DEF UaStore, UaNodes, UaServer!nodeExists
      <3>3. {c[j] : j \in 1..(k - 1)} = {m[j] : j \in 1..n}
        BY <1>1, <1>5, <2>2
      <3> QED  BY <1>8, <3>1, <3>2, <3>3
    <2> QED  BY <1>9, <2>1, <2>2
  <1>15. UaNodes' = said.before \cup UaMade(Len(ctl.job.made))'
    BY <1>3, <1>4, <1>7, <1>8
  <1>16. UaUpsert'
    BY <1>2, <1>3, <1>8, <1>11, <1>12, <1>13, <1>14, <1>15 DEF UaUpsert
  <1> QED  BY <1>7, <1>16

LEMMA NodeLinkedKeeps ==
    ASSUME UaInv, UaServer!NodeLinked
    PROVE  UaInv'
  <1> DEFINE s == Head(ctl.job.todo)
  <1>1. /\ ctl.main = "upsert" /\ ctl.job.todo # <<>> /\ ctl.job.at = "context" /\ said' = said
        /\ dev' = [dev EXCEPT !.nodes[s.id].linked = TRUE]
        /\ ctl' = [ctl EXCEPT !.job.at = "node", !.job.todo = Tail(@), !.job.moved = TRUE, !.job.created = FALSE,
                              !.job.made = IF ctl.job.created THEN Append(@, s.id) ELSE @]
    BY DEF UaServer!NodeLinked, UaServer!Upserts, UaServer!firstSpec
  <1>2. /\ UaTypes /\ UaStore /\ UaUpsert /\ UaAt /\ UaPass /\ ctl.job \in UaJobs
        /\ ctl.job.made \in Seq(UaServer!Ids) /\ s.id \in UaServer!Ids
        /\ Tail(ctl.job.todo) \in Seq(UaServer!Specs)
        /\ UaServer!IdsOf(ctl.job.todo) = {s.id} \cup UaServer!IdsOf(Tail(ctl.job.todo))
        /\ UaFresh = IF ctl.job.created THEN {s.id} ELSE {}
    BY <1>1, Upserting
  <1>3. s.id \in UaNodes /\ s.id \in DOMAIN dev.entries
    BY <1>1, <1>2 DEF UaAt
  <1>4. Append(ctl.job.made, s.id) \in Seq(UaServer!Ids)
    BY <1>2
  <1> HIDE DEF s
  <1>5. PICK t \in Seq(UaServer!Specs), x \in Seq(UaServer!Ids) :
            /\ t = Tail(ctl.job.todo)
            /\ x = IF ctl.job.created THEN Append(ctl.job.made, s.id) ELSE ctl.job.made
    BY <1>2, <1>4
  <1>6. PICK a \in UaServer!UpsertSteps, b \in BOOLEAN, c \in BOOLEAN : a = "node" /\ b = FALSE /\ c = TRUE
    BY DEF UaServer!UpsertSteps
  <1>7. /\ ctl' \in UaControl /\ ctl'.main = "upsert" /\ ctl'.job.at = "node" /\ ctl'.job.created = FALSE
        /\ ctl'.job.todo = t /\ ctl'.job.next = ctl.job.next /\ ctl'.job.made = x
    <2>0. ctl \in UaControl /\ ctl.main = "upsert"
      BY <1>1, <1>2 DEF UaTypes
    <2>1. ctl' = [ctl EXCEPT !.job.at = a, !.job.todo = t, !.job.moved = c, !.job.created = b, !.job.made = x]
      BY <1>1, <1>5, <1>6
    <2>2. ctl' \in UaControl
      BY <2>0, <2>1 DEF UaControl, UaJobs
    <2>3. /\ ctl'.main = "upsert" /\ ctl'.job.at = a /\ ctl'.job.todo = t
          /\ ctl'.job.next = ctl.job.next /\ ctl'.job.made = x
      BY <2>0, <2>1 DEF UaControl, UaJobs
    <2>4. ctl'.job.created = b
      BY <2>0, <2>1 DEF UaControl, UaJobs
    <2> QED  BY <1>6, <2>2, <2>3, <2>4
  <1>8. /\ DOMAIN dev' = {"nodes", "entries"} /\ dev'.entries = dev.entries /\ UaNodes' = UaNodes
        /\ \A i \in UaNodes : "parent" \in DOMAIN dev'.nodes[i] /\ dev'.nodes[i].parent = dev.nodes[i].parent
        /\ \A i \in UaNodes : i # s.id => dev'.nodes[i] = dev.nodes[i]
    <2>1. /\ DOMAIN dev' = {"nodes", "entries"} /\ dev'.entries = dev.entries
          /\ dev'.nodes = [dev.nodes EXCEPT ![s.id].linked = TRUE]
      BY <1>1, <1>2 DEF UaTypes
    <2> QED  BY <1>2, <1>3, <2>1 DEF UaStore, UaNodes
  <1>9. UaStore'
    <2> SUFFICES ASSUME NEW i \in UaNodes
                 PROVE  /\ "parent" \in DOMAIN dev'.nodes[i]
                        /\ dev'.nodes[i].parent = UaServer!Root \/ dev'.nodes[i].parent \in UaNodes
                        /\ dev'.nodes[i].linked => i \in DOMAIN dev'.entries
      BY <1>8 DEF UaStore, UaNodes, UaServer!nodeExists
    <2> QED  BY <1>2, <1>3, <1>8 DEF UaStore, UaNodes, UaServer!nodeExists
  <1>10. UaFresh' = {}
    BY <1>7 DEF UaFresh
  <1>11. /\ UaUpsert'
         /\ \/ UaMade(Len(ctl.job.made))' = UaMade(Len(ctl.job.made)) \cup {s.id}
            \/ UaMade(Len(ctl.job.made))' = UaMade(Len(ctl.job.made))
    <2>1. CASE ctl.job.created
      <3>1. ctl'.job.made = Append(ctl.job.made, s.id) /\ UaFresh = {s.id}
        BY <1>2, <1>5, <1>7, <2>1
      <3> QED  BY <1>1, <1>2, <1>3, <1>7, <1>8, <1>10, <3>1, NodeRecorded
    <2>2. CASE ~ctl.job.created
      <3>1. ctl'.job.made = ctl.job.made /\ UaFresh = {}
        BY <1>2, <1>5, <1>7, <2>2
      <3>2. \A k : UaMade(k)' = UaMade(k)
        BY <3>1 DEF UaMade
      <3>3. \A k \in 1..Len(ctl.job.made) : ctl.job.made[k] \in UaMade(Len(ctl.job.made))
        BY DEF UaMade
      <3>4. \A k \in 1..Len(ctl.job.made) : ctl.job.made[k] \in UaNodes
        BY <1>1, <1>2, <3>3 DEF UaUpsert
      <3>5. UaUpsert'
        <4>1. /\ said.cmd \in {"upsert_nodes", "run"} /\ said.status = "none"
              /\ said.before \cup UaMade(Len(ctl.job.made)) = UaNodes
              /\ \A j, k \in 1..Len(ctl.job.made) : ctl.job.made[j] = ctl.job.made[k] => j = k
              /\ \A k \in 1..Len(ctl.job.made) : ctl.job.made[k] \notin said.before
              /\ \A i \in said.before : dev.nodes[i].parent \in said.before \cup {UaServer!Root}
              /\ \A k \in 1..Len(ctl.job.made) :
                    dev.nodes[ctl.job.made[k]].parent \in said.before \cup {UaServer!Root} \cup UaMade(k - 1)
          BY <1>1, <1>2, <3>1 DEF UaUpsert
        <4>2. \A i \in said.before : dev'.nodes[i].parent \in said.before \cup {UaServer!Root}
          BY <1>8, <4>1
        <4>3. \A k \in 1..Len(ctl.job.made) :
                dev'.nodes[ctl.job.made[k]].parent \in said.before \cup {UaServer!Root} \cup UaMade(k - 1)
          BY <1>8, <3>4, <4>1
        <4>4. UaMade(Len(ctl.job.made))' = UaMade(Len(ctl.job.made))
          BY <3>1 DEF UaMade
        <4>5. said' = said /\ ctl'.job.made = ctl.job.made /\ UaNodes' = UaNodes /\ ctl'.main = "upsert"
          BY <1>1, <1>7, <1>8, <3>1
        <4> QED  BY ONLY <1>10, <3>2, <4>1, <4>2, <4>3, <4>4, <4>5 DEF UaUpsert
      <3> QED  BY <3>1, <3>2, <3>5
    <2> QED  BY <2>1, <2>2
  <1>12. UaTypes'
    BY <1>1, <1>2, <1>7, <1>8 DEF UaTypes
  <1>13. UaPass'
    BY <1>1, <1>2, <1>3, <1>5, <1>7, <1>8, <1>11 DEF UaPass
  <1>14. UaAt' /\ UaDelete' /\ UaOther' /\ UaAnswer'
    BY <1>1, <1>2, <1>7 DEF UaAt, UaDelete, UaOther, UaAnswer, UaUpsert
  <1> QED  BY <1>9, <1>11, <1>12, <1>13, <1>14 DEF UaInv

\* What was done to the node stays, and is not recorded.
LEMMA UpsertNodeFailsKeeps ==
    ASSUME UaInv, UaServer!upsertNodeFails
    PROVE  UaInv'
  <1>1. /\ ctl.main = "upsert" /\ ctl' = [ctl EXCEPT !.main = "undo"] /\ dev' = dev /\ said' = said
        /\ UaTypes /\ UaStore /\ UaUpsert
    BY DEF UaServer!upsertNodeFails, UaInv
  <1>2. ctl' \in UaControl /\ ctl'.main = "undo" /\ ctl'.job = ctl.job
    BY <1>1 DEF UaTypes, UaControl, UaMains
  <1>3. UaKept /\ UaFresh' = UaFresh
    BY <1>1, <1>2, SameNodes DEF UaFresh
  <1>4. UaTypes' /\ UaStore' /\ UaUpsert'
    BY <1>1, <1>2, <1>3, KeptStore, UpsertKept DEF UaTypes, UaKept
  <1>5. UaAt' /\ UaPass' /\ UaDelete' /\ UaOther' /\ UaAnswer'
    BY <1>1, <1>2 DEF UaAt, UaPass, UaDelete, UaOther, UaAnswer, UaUpsert
  <1> QED  BY <1>4, <1>5 DEF UaInv

LEMMA UpsertNodeKeeps ==
    ASSUME UaInv, UaServer!upsertNode
    PROVE  UaInv'
  BY OrphanWaitsKeeps, NodeFoundKeeps, NodeCreatedKeeps, UpdatesKeep, EntryEnsuredKeeps, NodeLinkedKeeps,
     UpsertNodeFailsKeeps DEF UaServer!upsertNode


\* A command with a list of nodes is answered.
LEMMA Ended ==
    ASSUME UaTypes, NEW status, NEW code, UaServer!Ends(status, code)
    PROVE  /\ ctl' \in UaControl /\ ctl'.main = "idle"
           /\ UaRested(ctl'.job)
           /\ DOMAIN said' = {"n", "cmd", "status", "code", "before", "val"}
           /\ said'.cmd = said.cmd /\ said'.before = said.before /\ said'.val = said.val
           /\ said'.status = status
  <1>1. UaServer!NoJob \in UaJobs /\ UaRested(UaServer!NoJob)
    BY DEF UaServer!NoJob, UaJobs, UaRested, UaServer!UpsertSteps
  <1>2. ctl' = [ctl EXCEPT !.main = "idle", !.job = UaServer!NoJob]
        /\ said' = [said EXCEPT !.status = status, !.code = code]
    BY DEF UaServer!Ends
  <1>3. /\ ctl' \in UaControl /\ ctl'.main = "idle" /\ ctl'.job = UaServer!NoJob
    BY <1>1, <1>2 DEF UaTypes, UaControl, UaMains
  <1>4. /\ DOMAIN said' = {"n", "cmd", "status", "code", "before", "val"}
        /\ said'.cmd = said.cmd /\ said'.before = said.before /\ said'.val = said.val
        /\ said'.status = status
    BY <1>2 DEF UaTypes
  <1> QED  BY <1>1, <1>3, <1>4

LEMMA EndedKeeps ==
    ASSUME UaInv, NEW status, NEW code, UaServer!Ends(status, code), UaKept, UaAnswer'
    PROVE  UaInv'
  <1>1. UaTypes' /\ UaStore'
    BY Ended, KeptStore DEF UaInv, UaTypes, UaKept
  <1>2. UaUpsert' /\ UaAt' /\ UaPass' /\ UaDelete' /\ UaOther'
    BY Ended DEF UaInv, UaUpsert, UaAt, UaPass, UaDelete, UaOther
  <1> QED  BY <1>1, <1>2 DEF UaInv

LEMMA PassEndsKeeps ==
    ASSUME UaInv, UaServer!PassEnds
    PROVE  UaInv'
  <1>1. /\ ctl.main = "upsert" /\ ctl.job.todo = <<>> /\ dev' = dev /\ UaTypes /\ UaUpsert /\ UaPass
        /\ ctl.job.next \in Seq(UaServer!Specs) /\ ctl.job.at = "node" /\ ctl.job.created = FALSE
        /\ UaFresh = {}
    BY DEF UaInv, UaAt, UaTypes, UaControl, UaJobs, UaServer!PassEnds, UaFresh
  <1>2. UaServer!IdsOf(<<>>) = {} /\ UaNodes' = UaNodes /\ UaKept
    BY <1>1, SameNodes DEF UaServer!IdsOf, UaNodes
  <1>3. ASSUME ctl.job.next = <<>>, NEW status \in {"started", "done"}, UaServer!Ends(status, 0)
        PROVE  UaInv'
    <2>1. UaNodes = said.before \cup said.val
      BY <1>1, <1>2, <1>3 DEF UaUpsert, UaPass
    <2>2. UaAnswer'
      BY <1>1, <1>2, <1>3, <2>1, Ended DEF UaAnswer, UaUpsert
    <2> QED  BY <1>2, <1>3, <2>2, EndedKeeps
  <1>4. CASE /\ ctl' = [ctl EXCEPT !.job.todo = ctl.job.next, !.job.next = <<>>, !.job.moved = FALSE]
             /\ UNCHANGED said
    <2>1. PICK t \in Seq(UaServer!Specs), x \in Seq(UaServer!Specs) : t = ctl.job.next /\ x = <<>>
      <3>1. <<>> \in Seq(UaServer!Specs)
        OBVIOUS
      <3> QED  BY <1>1, <3>1
    <2>2. ctl' = [ctl EXCEPT !.job.todo = t, !.job.next = x, !.job.moved = FALSE]
      BY <1>4, <2>1
    <2>3. /\ ctl' \in UaControl /\ ctl'.main = "upsert" /\ ctl'.job.todo = t /\ ctl'.job.next = x
          /\ ctl'.job.made = ctl.job.made /\ ctl'.job.at = "node" /\ ctl'.job.created = FALSE
      BY <1>1, <2>2 DEF UaTypes, UaControl, UaJobs
    <2>4. UaTypes' /\ UaStore' /\ UaUpsert' /\ UaAt'
      <3>1. UaFresh' = UaFresh
        BY <1>1, <2>3 DEF UaFresh
      <3> QED  BY <1>1, <1>2, <1>4, <2>3, <3>1, KeptStore, UpsertKept DEF UaInv, UaTypes, UaAt
    <2>5. UaMade(Len(ctl.job.made))' = UaMade(Len(ctl.job.made))
      BY <2>3 DEF UaMade
    <2>6. UaPass'
      BY <1>1, <1>2, <1>4, <2>1, <2>3, <2>5 DEF UaPass
    <2>7. UaDelete' /\ UaOther' /\ UaAnswer'
      BY <1>1, <1>4, <2>3 DEF UaDelete, UaOther, UaAnswer, UaUpsert
    <2> QED  BY <2>4, <2>6, <2>7 DEF UaInv
  <1>5. CASE ctl' = [ctl EXCEPT !.main = "undo"] /\ UNCHANGED said
    <2>1. ctl' \in UaControl /\ ctl'.main = "undo" /\ ctl'.job = ctl.job
      BY <1>1, <1>5 DEF UaTypes, UaControl, UaMains
    <2>2. UaTypes' /\ UaStore' /\ UaUpsert'
      <3>1. UaFresh' = UaFresh
        BY <2>1 DEF UaFresh
      <3> QED  BY <1>1, <1>2, <1>5, <2>1, <3>1, KeptStore, UpsertKept DEF UaInv, UaTypes
    <2>3. UaAt' /\ UaPass' /\ UaDelete' /\ UaOther' /\ UaAnswer'
      BY <1>1, <1>5, <2>1 DEF UaAt, UaPass, UaDelete, UaOther, UaAnswer, UaUpsert
    <2> QED  BY <2>2, <2>3 DEF UaInv
  <1>6. CASE ctl.job.next = <<>> /\ UaServer!Ends(IF said.cmd = "run" THEN "started" ELSE "done", 0)
    <2>1. PICK status \in {"started", "done"} : status = IF said.cmd = "run" THEN "started" ELSE "done"
      OBVIOUS
    <2>2. UaServer!Ends(status, 0)
      BY <1>6, <2>1
    <2> QED  BY <1>3, <1>6, <2>2
  <1> QED  BY <1>4, <1>5, <1>6 DEF UaServer!PassEnds

-----------------------------------------------------------------------------
(* Nodes that go *)

\* What is below a node that goes goes with it.
LEMMA Removed ==
    ASSUME UaTypes, UaStore, NEW T, NEW E, E \subseteq T,
           \A j \in T : UaServer!Children(dev, j) \subseteq T, dev' = UaServer!Without(dev, T, E)
    PROVE  /\ DOMAIN dev' = {"nodes", "entries"} /\ UaStore'
           /\ DOMAIN dev'.nodes = DOMAIN dev.nodes \ T
           /\ \A i \in DOMAIN dev'.nodes : dev'.nodes[i] = dev.nodes[i]
  <1>1. /\ DOMAIN dev' = {"nodes", "entries"}
        /\ DOMAIN dev'.nodes = DOMAIN dev.nodes \ T
        /\ DOMAIN dev'.entries = DOMAIN dev.entries \ E
        /\ \A i \in DOMAIN dev'.nodes : dev'.nodes[i] = dev.nodes[i]
    BY DEF UaServer!Without
  <1>2. UaStore'
    <2> SUFFICES ASSUME NEW i \in DOMAIN dev'.nodes
                 PROVE  /\ "parent" \in DOMAIN dev'.nodes[i]
                        /\ dev'.nodes[i].parent = UaServer!Root
                             \/ dev'.nodes[i].parent \in DOMAIN dev'.nodes
                        /\ dev'.nodes[i].linked => i \in DOMAIN dev'.entries
      BY DEF UaStore, UaNodes, UaServer!nodeExists
    <2>1. i \in DOMAIN dev.nodes /\ i \notin T
      BY <1>1
    <2>2. dev.nodes[i].parent \notin T
      BY <2>1 DEF UaServer!Children
    <2> QED  BY <1>1, <2>1, <2>2 DEF UaStore, UaNodes, UaServer!nodeExists
  <1> QED  BY <1>1, <1>2

LEMMA DeleteKeeps ==
    ASSUME UaInv, UaServer!DeleteOne \/ UaServer!DeleteEnds
    PROVE  UaInv'
  <1>1. /\ ctl.main = "delete" /\ UaTypes /\ UaStore /\ UaDelete /\ ctl.job.ids \in Seq(UaServer!Ids)
    BY DEF UaInv, UaTypes, UaControl, UaJobs, UaServer!DeleteOne, UaServer!DeleteEnds
  <1>2. ASSUME UaServer!Ends("error", 2), dev' = dev
        PROVE  UaInv'
    <2>1. UaAnswer'
      BY <1>1, <1>2, Ended DEF UaAnswer, UaDelete
    <2> QED  BY <1>2, <2>1, EndedKeeps, SameNodes
  <1>3. CASE UaServer!DeleteEnds
    <2>1. ctl.job.ids = <<>> /\ dev' = dev /\ UaServer!Ends("done", 0)
      BY <1>3 DEF UaServer!DeleteEnds
    <2>2. said.val \cap UaNodes = {} /\ UaNodes' = UaNodes
      BY <1>1, <2>1 DEF UaDelete, UaNodes
    <2>3. UaAnswer'
      BY <1>1, <2>1, <2>2, Ended DEF UaAnswer, UaDelete
    <2> QED  BY <2>1, <2>3, EndedKeeps, SameNodes
  <1>4. ASSUME NEW id, id = Head(ctl.job.ids), ctl.job.ids # <<>>, id \in DOMAIN dev.nodes,
               dev' = UaServer!Without(dev, UaServer!Tree(dev, id),
                                       UaServer!collectDescendantNodeIds(dev, id, ctl.job.recursive)),
               ctl' = [ctl EXCEPT !.job.ids = Tail(@)], said' = said
        PROVE  UaInv'
    <2> DEFINE T == UaServer!Tree(dev, id)
               E == UaServer!collectDescendantNodeIds(dev, id, ctl.job.recursive)
    <2>1. /\ id \in T /\ (\A j \in T : UaServer!Children(dev, j) \subseteq T)
      BY <1>4, TreeClosed
    <2>2. E \subseteq T
      BY <2>1 DEF UaServer!collectDescendantNodeIds
    <2> HIDE DEF T, E
    <2>3. dev' = UaServer!Without(dev, T, E)
      BY <1>4 DEF T, E
    <2>4. /\ DOMAIN dev' = {"nodes", "entries"} /\ UaStore'
          /\ DOMAIN dev'.nodes = DOMAIN dev.nodes \ T
      BY <1>1, <2>1, <2>2, <2>3, Removed
    <2>5. PICK t \in Seq(UaServer!Ids) : t = Tail(ctl.job.ids)
      <3>1. Tail(ctl.job.ids) \in Seq(UaServer!Ids)
        BY <1>1, <1>4, HeadTailProperties
      <3> QED  BY <3>1
    <2>6. ctl' = [ctl EXCEPT !.job.ids = t]
      BY <1>4, <2>5
    <2>7. ctl' \in UaControl /\ ctl'.main = "delete" /\ ctl'.job.ids = t
      BY <1>1, <2>6 DEF UaTypes, UaControl, UaJobs
    <2>8. \A k \in DOMAIN ctl.job.ids : ctl.job.ids[k] = id \/ \E j \in DOMAIN t : t[j] = ctl.job.ids[k]
      <3> SUFFICES ASSUME NEW k \in DOMAIN ctl.job.ids, k # 1
                   PROVE  \E j \in DOMAIN t : t[j] = ctl.job.ids[k]
        BY <1>1, <1>4
      <3>1. k - 1 \in DOMAIN t /\ t[k - 1] = ctl.job.ids[k]
        BY <1>1, <1>4, <2>5
      <3> QED  BY <3>1
    <2>9. UaDelete'
      <3>1. said.cmd = "delete_nodes" /\ said.status = "none"
        BY <1>1 DEF UaDelete
      <3>2. ASSUME NEW i \in said.val, i \in DOMAIN dev'.nodes
            PROVE  \E j \in DOMAIN t : t[j] = i
        <4>1. i \in DOMAIN dev.nodes /\ i # id
          BY <2>1, <2>4, <3>2
        <4>2. PICK k \in DOMAIN ctl.job.ids : ctl.job.ids[k] = i
          BY <1>1, <4>1 DEF UaDelete, UaNodes
        <4> QED  BY <2>8, <4>1, <4>2
      <3>3. said'.val \cap UaNodes' \subseteq {t[j] : j \in DOMAIN t}
        BY <1>4, <3>2 DEF UaNodes
      <3> QED  BY <1>4, <2>7, <3>1, <3>3 DEF UaDelete
    <2>10. UaTypes'
      BY <1>1, <1>4, <2>4, <2>7 DEF UaTypes
    <2>11. UaUpsert' /\ UaAt' /\ UaPass' /\ UaOther' /\ UaAnswer'
      BY <1>1, <1>4, <2>7 DEF UaUpsert, UaAt, UaPass, UaOther, UaAnswer, UaDelete
    <2> QED  BY <2>4, <2>9, <2>10, <2>11 DEF UaInv
  <1>5. CASE UaServer!DeleteOne
    BY <1>2, <1>4, <1>5 DEF UaServer!DeleteOne
  <1> QED  BY <1>3, <1>5

\* The node made last has none below it but one left unfinished: only that one goes with it.
LEMMA RollbackKeeps ==
    ASSUME UaInv, UaServer!rollback_failure
    PROVE  UaInv'
  <1> DEFINE m == ctl.job.made
             n == Len(m)
             last == m[n]
             f == SubSeq(m, 1, n - 1)
  <1>1. /\ ctl.main = "undo" /\ said' = said /\ UaTypes /\ UaStore /\ UaUpsert
        /\ m \in Seq(UaServer!Ids) /\ m # <<>>
    BY DEF UaInv, UaTypes, UaControl, UaJobs, UaServer!rollback_failure
  <1>2. /\ n \in Nat /\ n > 0 /\ last \in UaServer!Ids
        /\ f \in Seq(UaServer!Ids) /\ Len(f) = n - 1 /\ (\A k \in 1..(n - 1) : f[k] = m[k])
    BY <1>1
  <1>3. /\ dev' = UaServer!Without(dev, UaServer!Tree(dev, last), {last})
        /\ ctl' = [ctl EXCEPT !.job.made = f]
    BY DEF UaServer!rollback_failure, UaServer!Last, UaServer!Front
  <1>4. /\ said.cmd \in {"upsert_nodes", "run"} /\ said.status = "none"
        /\ said.before \cup {m[j] : j \in 1..n} \subseteq UaNodes
        /\ UaNodes \subseteq said.before \cup {m[j] : j \in 1..n} \cup UaFresh
        /\ UaFresh \cap (said.before \cup {m[j] : j \in 1..n}) = {} /\ UaFresh \subseteq said.val
        /\ UaServer!Root \notin UaFresh
        /\ \A i \in UaFresh \cap UaNodes : ~dev.nodes[i].linked /\ dev.nodes[i].parent \notin UaFresh
        /\ \A j, k \in 1..n : m[j] = m[k] => j = k
        /\ \A k \in 1..n : m[k] \notin said.before
        /\ \A i \in said.before : dev.nodes[i].parent \in said.before \cup {UaServer!Root}
        /\ \A k \in 1..n :
              dev.nodes[m[k]].parent \in said.before \cup {UaServer!Root} \cup {m[j] : j \in 1..(k - 1)}
    BY <1>1 DEF UaUpsert, UaMade
  <1> HIDE DEF m, n, last, f
  <1>5. last \in DOMAIN dev.nodes /\ last \notin said.before /\ last # UaServer!Root
    BY <1>2, <1>4, SpecIds DEF UaNodes, last
  <1>6. \A i \in UaServer!Children(dev, last) : i \in UaFresh
    <2> SUFFICES ASSUME NEW i \in DOMAIN dev.nodes, dev.nodes[i].parent = last, i \notin UaFresh
                 PROVE  FALSE
      BY DEF UaServer!Children
    <2>1. CASE i \in said.before
      BY <1>4, <1>5, <2>1
    <2>2. CASE i \in {m[j] : j \in 1..n}
      <3>1. PICK k \in 1..n : i = m[k]
        BY <2>2
      <3>2. last \in {m[j] : j \in 1..(k - 1)}
        BY <1>4, <1>5, <3>1
      <3>3. PICK j \in 1..(k - 1) : m[j] = last
        BY <3>2
      <3>4. j \in 1..n /\ n \in 1..n /\ j # n
        BY <1>2
      <3> QED  BY <1>4, <3>3, <3>4 DEF last
    <2> QED  BY <1>4, <2>1, <2>2 DEF UaNodes
  <1>7. \A f0 \in UaFresh : UaServer!Children(dev, f0) = {}
    <2> SUFFICES ASSUME NEW f0 \in UaFresh, NEW i \in DOMAIN dev.nodes, dev.nodes[i].parent = f0
                 PROVE  FALSE
      BY DEF UaServer!Children
    <2>1. f0 # UaServer!Root
      BY <1>4
    <2>2. f0 \notin said.before /\ f0 \notin {m[j] : j \in 1..n}
      BY <1>4
    <2>3. CASE i \in said.before
      BY <1>4, <2>1, <2>2, <2>3
    <2>4. CASE i \in {m[j] : j \in 1..n}
      <3>1. PICK k \in 1..n : i = m[k]
        BY <2>4
      <3>2. f0 \in {m[j] : j \in 1..(k - 1)}
        BY <1>4, <2>1, <2>2, <3>1
      <3>3. PICK j \in 1..(k - 1) : m[j] = f0
        BY <3>2
      <3>4. j \in 1..n
        BY <1>2
      <3> QED  BY <2>2, <3>3, <3>4
    <2>5. CASE i \in UaFresh
      BY <1>4, <2>5 DEF UaNodes
    <2> QED  BY <1>4, <2>3, <2>4, <2>5 DEF UaNodes
  <1> DEFINE T == UaServer!Tree(dev, last)
  <1>8. /\ DOMAIN dev' = {"nodes", "entries"} /\ UaStore' /\ last \in T /\ T \subseteq {last} \cup UaFresh
        /\ DOMAIN dev'.nodes = DOMAIN dev.nodes \ T
        /\ \A i \in DOMAIN dev'.nodes : dev'.nodes[i] = dev.nodes[i]
    <2>1. last \in T /\ (\A j \in T : UaServer!Children(dev, j) \subseteq T) /\ {last} \subseteq T
      BY <1>5, TreeClosed
    <2>2. T \subseteq {last} \cup UaFresh
      <3> DEFINE S == {last} \cup (UaFresh \cap DOMAIN dev.nodes)
      <3>1. S \in SUBSET DOMAIN dev.nodes /\ last \in S
        BY <1>5
      <3>2. \A j \in S : UaServer!Children(dev, j) \subseteq S
        BY <1>6, <1>7 DEF UaServer!Children
      <3>3. T \subseteq S
        BY <3>1, <3>2 DEF UaServer!Tree
      <3> QED  BY <3>3
    <2>3. dev' = UaServer!Without(dev, T, {last})
      BY <1>3
    <2> HIDE DEF T
    <2> QED  BY <1>1, <2>1, <2>2, <2>3, Removed
  <1> HIDE DEF T
  <1>9. ctl' \in UaControl /\ ctl'.main = "undo" /\ ctl'.job.made = f /\ UaFresh' = UaFresh
    <2>1. /\ ctl' \in UaControl /\ ctl'.main = "undo" /\ ctl'.job = [ctl.job EXCEPT !.made = f]
      BY <1>1, <1>2, <1>3 DEF UaTypes, UaControl, UaJobs
    <2>2. /\ ctl'.job.made = f /\ ctl'.job.todo = ctl.job.todo /\ ctl'.job.created = ctl.job.created
      BY <1>1, <2>1 DEF UaTypes, UaControl, UaJobs
    <2> QED  BY <2>1, <2>2, Zenon DEF UaFresh
  <1>10. UaTypes'
    BY <1>1, <1>8, <1>9 DEF UaTypes
  <1>11. UaUpsert'
    <2>1. \A k \in 0..(n - 1) : {f[j] : j \in 1..k} = {m[j] : j \in 1..k}
      BY <1>2
    <2>2. {f[j] : j \in 1..(n - 1)} = {m[j] : j \in 1..n} \ {last}
      <3>1. \A j \in 1..n : j \in 1..(n - 1) \/ j = n
        BY <1>2
      <3>2. \A j \in 1..(n - 1) : j \in 1..n /\ j # n /\ n \in 1..n
        BY <1>2
      <3>3. {f[j] : j \in 1..(n - 1)} \subseteq {m[j] : j \in 1..n} \ {last}
        BY <1>2, <1>4, <3>2 DEF last
      <3>4. {m[j] : j \in 1..n} \ {last} \subseteq {f[j] : j \in 1..(n - 1)}
        BY <1>2, <3>1 DEF last
      <3> QED  BY <3>3, <3>4
    <2>3. /\ said.before \cup {f[j] : j \in 1..(n - 1)} \subseteq UaNodes'
          /\ UaNodes' \subseteq said.before \cup {f[j] : j \in 1..(n - 1)} \cup UaFresh
          /\ UaFresh \cap (said.before \cup {f[j] : j \in 1..(n - 1)}) = {}
      BY <1>4, <1>5, <1>8, <2>2 DEF UaNodes
    <2>9. \A i \in UaFresh \cap UaNodes' : ~dev'.nodes[i].linked /\ dev'.nodes[i].parent \notin UaFresh
      BY <1>4, <1>8 DEF UaNodes
    <2>4. \A k \in 1..(n - 1) : k \in 1..n /\ f[k] = m[k]
      BY <1>2
    <2>5. \A i \in said.before : dev'.nodes[i].parent \in said.before \cup {UaServer!Root}
      BY <1>4, <1>8, <2>3 DEF UaNodes
    <2>6. ASSUME NEW k \in 1..(n - 1)
          PROVE  dev'.nodes[f[k]].parent \in said.before \cup {UaServer!Root} \cup {f[j] : j \in 1..(k - 1)}
      <3>1. f[k] \in DOMAIN dev'.nodes
        BY <2>3 DEF UaNodes
      <3>2. dev'.nodes[f[k]] = dev.nodes[m[k]]
        BY <1>8, <2>4, <3>1
      <3>3. k - 1 \in 0..(n - 1)
        BY <1>2
      <3>4. {f[j] : j \in 1..(k - 1)} = {m[j] : j \in 1..(k - 1)}
        BY <2>1, <3>3
      <3> QED  BY <1>4, <2>4, <3>2, <3>4
    <2>7. Len(ctl'.job.made) = n - 1 /\ ctl'.job.made = f
      BY <1>2, <1>9
    <2>8. /\ \A j, k \in 1..(n - 1) : f[j] = f[k] => j = k
          /\ \A k \in 1..(n - 1) : f[k] \notin said.before
      BY <1>4, <2>4
    <2> QED  BY <1>1, <1>4, <1>9, <2>3, <2>5, <2>6, <2>7, <2>8, <2>9 DEF UaUpsert, UaMade
  <1>12. UaAt' /\ UaPass' /\ UaDelete' /\ UaOther' /\ UaAnswer'
    BY <1>1, <1>4, <1>9 DEF UaAt, UaPass, UaDelete, UaOther, UaAnswer
  <1> QED  BY <1>8, <1>10, <1>11, <1>12 DEF UaInv

LEMMA UpsertFailsKeeps ==
    ASSUME UaInv, UaServer!UpsertFails
    PROVE  UaInv'
  <1>1. /\ ctl.main = "undo" /\ ctl.job.made = <<>> /\ dev' = dev /\ UaTypes /\ UaUpsert
    BY DEF UaInv, UaServer!UpsertFails
  <1>2. /\ said.before \subseteq UaNodes /\ UaNodes' = UaNodes /\ said.status = "none"
        /\ said.cmd \in {"upsert_nodes", "run"}
        /\ \A i, j \in UaNodes \ said.before : i = j /\ i \in said.val /\ ~dev.nodes[i].linked
    <2>1. UaMade(Len(ctl.job.made)) = {} /\ UaNodes' = UaNodes
      BY <1>1 DEF UaMade, UaNodes
    <2>2. /\ said.before \subseteq UaNodes /\ UaNodes \subseteq said.before \cup UaFresh
          /\ UaFresh \subseteq said.val /\ said.status = "none" /\ said.cmd \in {"upsert_nodes", "run"}
          /\ \A i \in UaFresh \cap UaNodes : ~dev.nodes[i].linked
      BY <1>1, <2>1 DEF UaUpsert
    <2>3. \A i, j \in UaFresh : i = j
      BY DEF UaFresh
    <2> QED  BY <2>1, <2>2, <2>3
  <1>3. CASE said.cmd = "run"
    <2>1. ctl' = [ctl EXCEPT !.main = "join", !.fail = TRUE, !.job = UaServer!NoJob] /\ said' = said
      BY <1>3 DEF UaServer!UpsertFails
    <2>2. UaServer!NoJob \in UaJobs /\ UaRested(UaServer!NoJob)
      BY DEF UaServer!NoJob, UaJobs, UaRested, UaServer!UpsertSteps
    <2>3. ctl' \in UaControl /\ ctl'.main = "join" /\ ctl'.job = UaServer!NoJob
      BY <1>1, <2>1, <2>2 DEF UaTypes, UaControl, UaMains
    <2>4. UaTypes'
      BY <1>1, <2>1, <2>3 DEF UaTypes
    <2> QED  BY <1>1, <1>3, <2>1, <2>2, <2>3, <2>4, OtherCommand, SameNodes
  <1>4. CASE said.cmd # "run"
    <2>1. UaServer!Ends("error", 2)
      BY <1>4 DEF UaServer!UpsertFails
    <2>2. UaAnswer'
      BY <1>1, <1>2, <1>4, <2>1, Ended DEF UaAnswer
    <2> QED  BY <1>1, <2>1, <2>2, EndedKeeps, SameNodes
  <1> QED  BY <1>3, <1>4

LEMMA WriteCachedKeeps ==
    ASSUME UaInv, UaServer!WriteCached
    PROVE  UaInv'
  <1>1. UaTypes /\ ctl.main = "written" /\ said.cmd = "write_values" /\ UaServer!Ends("done", 0)
    BY DEF UaInv, UaOther, UaServer!WriteCached
  <1>2. dev' = dev \/ \E id, x : dev' = [dev EXCEPT !.entries[id].cur = x]
    BY DEF UaServer!WriteCached
  <1>3. UaKept
    BY <1>2, EntryWritten, SameNodes DEF UaInv
  <1>4. UaAnswer'
    BY <1>1, Ended DEF UaAnswer
  <1> QED  BY <1>1, <1>3, <1>4, EndedKeeps

LEMMA JoinedKeeps ==
    ASSUME UaInv, UaServer!Joined
    PROVE  UaInv'
  <1>1. /\ UaTypes /\ ctl.main = "join" /\ said.cmd \in {"stop_server", "run"}
        /\ ctl' = [UaServer!Down EXCEPT !.mode = ctl.mode] /\ dev' = UaServer!Nothing
    BY DEF UaInv, UaOther, UaServer!Joined
  <1>2. UaServer!NoJob \in UaJobs /\ UaRested(UaServer!NoJob)
    BY DEF UaServer!NoJob, UaJobs, UaRested, UaServer!UpsertSteps
  <1>3. ctl' \in UaControl /\ ctl'.main = "idle" /\ ctl'.job = UaServer!NoJob
    BY <1>1, <1>2 DEF UaTypes, UaControl, UaMains, UaServer!Down
  <1>4. DOMAIN said' = {"n", "cmd", "status", "code", "before", "val"} /\ said'.cmd = said.cmd
    BY <1>1 DEF UaTypes, UaServer!Joined
  <1>5. DOMAIN dev' = {"nodes", "entries"} /\ DOMAIN dev'.nodes = {}
    BY <1>1 DEF UaServer!Nothing
  <1>6. UaTypes' /\ UaStore'
    BY <1>3, <1>4, <1>5 DEF UaTypes, UaStore, UaNodes
  <1>7. UaUpsert' /\ UaAt' /\ UaPass' /\ UaDelete' /\ UaOther' /\ UaAnswer'
    BY <1>1, <1>2, <1>3, <1>4 DEF UaUpsert, UaAt, UaPass, UaDelete, UaOther, UaAnswer
  <1> QED  BY <1>6, <1>7 DEF UaInv

-----------------------------------------------------------------------------
(***************************************************************************)
(* driver_opcua_server keeps its word for any number of nodes in a command *)
(* and whatever clients write meanwhile: upsert_nodes that succeeds has    *)
(* all its nodes, one that fails takes back every node it finished and     *)
(* leaves at most the one it could not finish, delete_nodes leaves none of *)
(* its nodes, a node always has its parent and one whose writes are        *)
(* reported its entry (opcua_server_runtime.cpp, upsertNode, upsertNodes   *)
(* and deleteNodes).                                                       *)
(***************************************************************************)
THEOREM BatchesAreUndone == Spec => []OpcUaAnswers
  <1> DEFINE I == driver = "opcua_server" => UaInv
  <1>1. Init => I
    <2> SUFFICES ASSUME UaServer!Init
                 PROVE  UaInv
      BY DEF Init
    <2>1. UaServer!NoJob \in UaJobs /\ UaRested(UaServer!NoJob)
      BY DEF UaServer!NoJob, UaJobs, UaRested, UaServer!UpsertSteps
    <2>2. ctl \in UaControl /\ ctl.main = "idle" /\ ctl.job = UaServer!NoJob
      BY <2>1 DEF UaServer!Init, UaServer!Down, UaControl, UaMains, UaServer!EventModes
    <2>3. /\ DOMAIN said = {"n", "cmd", "status", "code", "before", "val"} /\ said.cmd = "none"
          /\ DOMAIN dev = {"nodes", "entries"} /\ DOMAIN dev.nodes = {}
      BY DEF UaServer!Init, UaServer!Nothing
    <2> QED  BY <2>1, <2>2, <2>3
             DEF UaInv, UaTypes, UaStore, UaNodes, UaUpsert, UaAt, UaPass, UaDelete, UaOther, UaAnswer
  <1>2. I /\ [Next]_vars => I'
    <2> SUFFICES ASSUME I, [Next]_vars, driver' = "opcua_server"
                 PROVE  UaInv'
      OBVIOUS
    <2>1. driver = "opcua_server" /\ UaInv /\ (UaServer!Next \/ UNCHANGED UaServer!vars)
      BY DEF Next, DriverStep, vars, UaServer!vars
    <2>2. CASE UaServer!handle
      BY <2>1, <2>2, CommandsKeep
    <2>3. CASE UaServer!HostSteps
      BY <2>1, <2>3, UpsertNodeKeeps, PassEndsKeeps, RollbackKeeps, UpsertFailsKeeps, DeleteKeeps,
         WriteCachedKeeps, JoinedKeeps DEF UaServer!HostSteps
    <2> QED  BY <2>1, <2>2, <2>3, ThreadKeeps DEF UaServer!Next
  <1>3. I => OpcUaAnswers
    <2> SUFFICES ASSUME UaInv
                 PROVE  UaServer!AnswersAreTrue
      BY DEF OpcUaAnswers
    <2> QED  BY DEF UaInv, UaStore, UaAnswer, UaNodes, UaServer!AnswersAreTrue
  <1> QED  BY <1>1, <1>2, <1>3, PTL DEF Spec
=============================================================================
