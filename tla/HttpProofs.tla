----------------------------- MODULE HttpProofs -----------------------------
(***************************************************************************)
(* What a request that can be cancelled guarantees for any number of       *)
(* descriptors, addresses and redirects, whenever the resolver answers, the*)
(* user cancels and other threads reuse the descriptors' numbers; and that *)
(* a stream is a queue of the server's bytes, for a ring, pieces and reads *)
(* of any size.                                                            *)
(***************************************************************************)
EXTENDS HttpStream, HttpRequest, SequenceTheorems, TLAPS

Connecting == {"register", "connect", "drop"}
WithoutSocket == {"start", "ask", "direct", "wait", "abandon", "reclaim", "list", "addr", "end"}

\* The token knows no socket but the request's, and that one is open.
TokenIsOwn ==
    /\ token.fd # NoFd => token.fd = request.fd
    /\ request.fd # NoFd => holder[request.fd] = "request"
    /\ request.pc \in WithoutSocket => request.fd = NoFd
    /\ request.pc \in Connecting => request.fd # NoFd /\ request.addr <= Addresses
    /\ request.pc = "register" => token.fd = NoFd

\* A hop whose name has not been asked for.
Fresh(r) == r.pc = "none" /\ ~r.abandoned /\ ~r.done /\ r.ctx = "none" /\ r.list = "none"

\* The answer is in the context, or there was none.
Delivered(r) ==
    r.pc = "exited" /\ r.done /\ r.ctx = "live" /\ r.list \in {"none", "ctx"}

\* The thread has the context, and the list if it has got one.
WithThread(r) ==
    /\ r.pc \in {"asking", "answered"} /\ ~r.done
    /\ r.ctx = "live" /\ r.list \in {"none", "thread"}

\* The caller is through with the hop: either everything is released or an
\* abandoned thread, still running, will release it.
Left(r) ==
    \/ r.pc \in {"none", "exited"} /\ r.ctx # "live" /\ r.list \in {"none", "freed"}
    \/ WithThread(r) /\ r.abandoned

\* What the requesting thread's place says of the resolver of its hop.
PlaceFits(pc, r) ==
    /\ pc \in {"start", "ask", "direct"} => Fresh(r)
    /\ pc \in {"wait", "abandon"} => ~r.abandoned /\ (WithThread(r) \/ Delivered(r))
    /\ pc = "reclaim" => Delivered(r)
    /\ pc \in {"list", "addr"} \cup Connecting =>
           r.pc \in {"none", "exited"} /\ r.ctx # "live" /\ r.list = "caller"
    /\ pc \in {"talk", "close", "end"} => Left(r)

HopsInOrder ==
    \A h \in Hops : /\ h < request.hop => Left(resolver[h])
                    /\ h > request.hop => Fresh(resolver[h])

RequestInv ==
    /\ RequestTypeOK /\ TokenIsOwn /\ ~cutOther
    /\ PlaceFits(request.pc, Here) /\ HopsInOrder

-----------------------------------------------------------------------------
\* What the answer makes of the record of its hop.
Answered(r, l) == [r EXCEPT !.pc = "answered", !.list = l]

\* An answer of getaddrinfo() (dns_resolver_thread) leaves whoever owned the
\* context and the list their owner, wherever the caller is by then.
LEMMA AnswerKeepsOwner ==
    ASSUME NEW r \in Resolver, r.pc = "asking", NEW l \in {"none", "thread"}
    PROVE  /\ Answered(r, l) \in Resolver
           /\ ~Fresh(r)
           /\ Left(r) => Left(Answered(r, l))
           /\ \A p \in RequestPlaces : PlaceFits(p, r) => PlaceFits(p, Answered(r, l))
<1>1. Answered(r, l) \in Resolver /\ ~Fresh(r)
  BY DEF Answered, Resolver, ThreadPlaces, ListOwners, Fresh
<1>2. Left(r) => Left(Answered(r, l))
  BY DEF Answered, Left, WithThread, Resolver
<1>3. WithThread(r) => WithThread(Answered(r, l))
  BY DEF Answered, WithThread, Resolver
<1>4. ~Delivered(r) /\ Answered(r, l).abandoned = r.abandoned
  BY DEF Delivered, Answered, Resolver
<1> QED
  BY <1>1, <1>2, <1>3, <1>4 DEF PlaceFits, Connecting

\* The hand-over under the context's mutex: of an abandoned hop everything is
\* released, of any other the caller finds the answer delivered.
LEMMA HandOverKeepsOwner ==
    ASSUME NEW r \in Resolver, r.pc = "answered"
    PROVE  /\ HandedOver(r) \in Resolver
           /\ ~Fresh(r)
           /\ Left(r) => Left(HandedOver(r))
           /\ \A p \in RequestPlaces : PlaceFits(p, r) => PlaceFits(p, HandedOver(r))
<1>1. HandedOver(r) \in Resolver /\ ~Fresh(r)
  BY DEF HandedOver, Resolver, ThreadPlaces, ListOwners, Fresh
<1>2. Left(r) => Left(HandedOver(r))
  BY DEF HandedOver, Left, WithThread, Resolver
<1>3. WithThread(r) /\ ~r.abandoned => Delivered(HandedOver(r)) /\ ~HandedOver(r).abandoned
  BY DEF HandedOver, WithThread, Delivered, Resolver
<1>4. ~Delivered(r)
  BY DEF Delivered
<1> QED
  BY <1>1, <1>2, <1>3, <1>4 DEF PlaceFits, Connecting

LEMMA InitRequest == RequestInit => RequestInv
<1> SUFFICES ASSUME RequestInit PROVE RequestInv
  OBVIOUS
<1> USE RequestBounds DEF RequestInit
<1>a. request \in [pc : RequestPlaces, addr : 1 .. Addresses + 1, hop : Hops,
                   fd : Fds \cup {NoFd}, again : BOOLEAN]
  BY DEF Hops, RequestPlaces
<1>b. resolver \in [Hops -> Resolver]
  BY DEF Resolver, ThreadPlaces, ListOwners
<1>1. RequestTypeOK
  BY <1>a, <1>b DEF RequestTypeOK
<1>2. TokenIsOwn /\ ~cutOther
  BY DEF TokenIsOwn, Connecting
<1>3. 0 \in Hops /\ \A h \in Hops : Fresh(resolver[h]) /\ ~(h < 0)
  BY DEF Hops, Fresh
<1>4. PlaceFits(request.pc, Here)
  BY <1>3 DEF PlaceFits, Here, Connecting
<1>5. HopsInOrder
  BY <1>3 DEF HopsInOrder
<1> QED
  BY <1>1, <1>2, <1>4, <1>5 DEF RequestInv

\* A step of the requesting thread that stays in its hop and touches no
\* resolver but that hop's leaves the other hops as they are.
LEMMA StaysInHop ==
    ASSUME RequestTypeOK, HopsInOrder,
           request'.hop = request.hop,
           resolver' = resolver \/ \E r \in Resolver : resolver' = [resolver EXCEPT ![request.hop] = r]
    PROVE  HopsInOrder'
<1> SUFFICES ASSUME NEW h \in Hops
             PROVE  /\ h < request.hop => Left(resolver'[h])
                    /\ h > request.hop => Fresh(resolver'[h])
  BY DEF HopsInOrder
<1>1. h # request.hop => resolver'[h] = resolver[h]
  BY DEF RequestTypeOK
<1>2. request.hop \in Nat /\ h \in Nat
  BY RequestBounds DEF RequestTypeOK, Hops
<1> QED
  BY <1>1, <1>2 DEF HopsInOrder

\* The values of the variable request.
Requests == [pc : RequestPlaces, addr : 1 .. Addresses + 1, hop : Hops,
             fd : Fds \cup {NoFd}, again : BOOLEAN]

\* The steps of the requesting thread that resolve the name.
LEMMA StepResolve ==
    RequestInv /\ (\/ Starts \/ Asks \/ AnswersInPlace \/ Waits
                   \/ Abandons \/ Reclaims) => RequestInv'
<1> SUFFICES ASSUME RequestInv,
                    Starts \/ Asks \/ AnswersInPlace \/ Waits \/ Abandons \/ Reclaims
             PROVE  RequestInv'
  OBVIOUS
<1> USE RequestBounds DEF RequestInv
<1>1. /\ request.hop \in Hops /\ Here \in Resolver /\ request.pc \in RequestPlaces
      /\ UNCHANGED <<timed, token, holder, cut, cutOther>>
      /\ \E p \in {"end", "ask", "direct", "close", "wait", "list", "abandon", "reclaim"} : Goes(p)
  BY DEF RequestTypeOK, Here, Starts, Asks, AnswersInPlace, Waits, Abandons, Reclaims, OnlyMoves, TakesAnswer
<1>2. \/ resolver' = resolver
      \/ \E r \in Resolver : resolver' = [resolver EXCEPT ![request.hop] = r]
  <2>1. CASE Starts
    BY <2>1 DEF Starts, OnlyMoves
  <2>2. CASE Asks \/ AnswersInPlace
    <3>1. \A r \in Resolver : /\ [r EXCEPT !.pc = "asking", !.ctx = "live"] \in Resolver
                              /\ [r EXCEPT !.list = "caller"] \in Resolver
      BY DEF Resolver, ThreadPlaces, ListOwners
    <3> QED
      BY <2>2, <1>1, <3>1 DEF Asks, AnswersInPlace, ListGoes, Here, RequestTypeOK
  <2>3. CASE Waits \/ Abandons \/ Reclaims
    <3>1. \A r \in Resolver :
            /\ [r EXCEPT !.abandoned = TRUE] \in Resolver
            /\ [r EXCEPT !.ctx = "freed", !.list = IF @ = "ctx" THEN "caller" ELSE @] \in Resolver
      BY DEF Resolver, ListOwners
    <3> QED
      BY <2>3, <1>1, <3>1 DEF Waits, Abandons, Reclaims, TakesAnswer, Here, RequestTypeOK
  <2> QED
    BY <2>1, <2>2, <2>3
<1>3. RequestTypeOK'
  <2>1. resolver' \in [Hops -> Resolver]
    BY <1>1, <1>2 DEF RequestTypeOK
  <2>2. request' \in Requests
    BY <1>1 DEF RequestTypeOK, Goes, RequestPlaces, Requests
  <2> QED
    BY <2>1, <2>2, <1>1 DEF RequestTypeOK, Requests
<1>4. request'.hop = request.hop /\ request'.fd = request.fd
  BY <1>1 DEF Goes, RequestTypeOK
<1>5. HopsInOrder'
  BY <1>2, <1>4, StaysInHop
<1>6. TokenIsOwn' /\ ~cutOther'
  <2>1. request.pc \in {"start", "ask", "direct", "wait", "abandon", "reclaim"}
    BY DEF Starts, Asks, AnswersInPlace, Waits, Abandons, Reclaims
  <2>2. request'.pc \notin Connecting
    BY <1>1 DEF Goes, RequestTypeOK, Connecting
  <2> QED
    BY <1>1, <1>4, <2>1, <2>2 DEF TokenIsOwn, WithoutSocket
<1>7. PlaceFits(request.pc, Here)'
  <2> USE <1>1 DEF Here, RequestTypeOK, Goes, Connecting
  <2>1. CASE Starts
    BY <2>1 DEF Starts, OnlyMoves, PlaceFits, Fresh, Left
  <2>2. CASE Asks \/ AnswersInPlace
    <3>0. Fresh(Here)
      BY <2>2 DEF Asks, AnswersInPlace, PlaceFits
    <3>1. \/ request'.pc \in {"close", "direct"} /\ Here' = Here
          \/ request'.pc = "list" /\ Here' = [Here EXCEPT !.list = "caller"]
          \/ request'.pc = "wait" /\ Here' = [Here EXCEPT !.pc = "asking", !.ctx = "live"]
      BY <2>2 DEF Asks, AnswersInPlace, ListGoes
    <3>2. CASE request'.pc \in {"close", "direct"} /\ Here' = Here
      BY <3>0, <3>2 DEF PlaceFits, Fresh, Left
    <3>3. CASE request'.pc = "list" /\ Here' = [Here EXCEPT !.list = "caller"]
      BY <3>0, <3>3 DEF PlaceFits, Fresh, Resolver
    <3>4. CASE request'.pc = "wait" /\ Here' = [Here EXCEPT !.pc = "asking", !.ctx = "live"]
      BY <3>0, <3>4 DEF PlaceFits, Fresh, WithThread, Resolver
    <3> QED
      BY <3>1, <3>2, <3>3, <3>4
  <2>3. CASE Waits
    <3>1. CASE Here.pc = "exited" /\ TakesAnswer
      <4>1. Delivered(Here)
        BY <2>3, <3>1 DEF Waits, PlaceFits, WithThread
      <4>2. /\ request'.pc = IF Here.list = "ctx" THEN "list" ELSE "close"
            /\ Here' = [Here EXCEPT !.ctx = "freed",
                                    !.list = IF @ = "ctx" THEN "caller" ELSE @]
        BY <3>1 DEF TakesAnswer
      <4> QED
        BY <4>1, <4>2 DEF PlaceFits, Left, Delivered, Resolver
    <3>2. CASE Goes("abandon") /\ UNCHANGED resolver
      BY <2>3, <3>2 DEF Waits, PlaceFits
    <3> QED
      BY <2>3, <3>1, <3>2 DEF Waits
  <2>4. CASE Abandons
    BY <2>4 DEF Abandons, PlaceFits, Left, WithThread, Delivered, Resolver
  <2>5. CASE Reclaims
    BY <2>5 DEF Reclaims, TakesAnswer, PlaceFits, Left, Delivered, Resolver
  <2> QED
    BY <2>1, <2>2, <2>3, <2>4, <2>5
<1> QED
  BY <1>3, <1>5, <1>6, <1>7

\* The steps from the list of addresses to a connection: only the list may
\* change of what the hop holds, and it is released on the way out.
LEMMA StepConnect ==
    RequestInv /\ (\/ ChecksList \/ TriesAddress \/ Registers \/ ServerConnects
                   \/ ConnectGivesUp \/ DropsSocket) => RequestInv'
<1> DEFINE Step == \/ ChecksList \/ TriesAddress \/ Registers \/ ServerConnects
                   \/ ConnectGivesUp \/ DropsSocket
<1> SUFFICES ASSUME RequestInv, Step PROVE RequestInv'
  OBVIOUS
<1> USE RequestBounds DEF RequestInv
<1>1. /\ request.hop \in Hops /\ Here \in Resolver /\ request.pc \in RequestPlaces
      /\ request.pc \in {"list", "addr"} \cup Connecting
      /\ request.fd \in Fds \cup {NoFd} /\ request.addr \in 1 .. Addresses + 1
      /\ UNCHANGED <<timed, cutOther>>
  BY DEF RequestTypeOK, Here, ChecksList, TriesAddress, Registers, ServerConnects,
         ConnectGivesUp, DropsSocket, OnlyMoves, Connecting, cancel_unregister_and_close
<1>2. /\ Here.pc \in {"none", "exited"} /\ Here.ctx # "live" /\ Here.list = "caller"
      /\ [Here EXCEPT !.list = "freed"] \in Resolver
  BY <1>1 DEF PlaceFits, Resolver, ListOwners
<1>3. \/ resolver' = resolver /\ request'.pc \in {"addr", "register", "connect", "drop"}
      \/ /\ resolver' = [resolver EXCEPT ![request.hop] = [Here EXCEPT !.list = "freed"]]
         /\ request'.pc \in {"close", "talk"}
  <2> USE <1>1, <1>2 DEF RequestTypeOK
  <2>1. CASE ChecksList
    BY <2>1 DEF ChecksList, ListGoes, Goes, Here
  <2>2. CASE TriesAddress
    BY <2>2 DEF TriesAddress, ListGoes, Goes, Here
  <2>3. CASE Registers
    BY <2>3 DEF Registers, ListGoes, Goes, Here
  <2>4. CASE ServerConnects
    BY <2>4 DEF ServerConnects, ListGoes, Goes, Here
  <2>5. CASE ConnectGivesUp
    BY <2>5 DEF ConnectGivesUp, Goes, OnlyMoves
  <2>6. CASE DropsSocket
    BY <2>6 DEF DropsSocket
  <2> QED
    BY <2>1, <2>2, <2>3, <2>4, <2>5, <2>6
<1>0. request \in Requests /\ Fds \subseteq Fds \cup {NoFd}
  BY DEF RequestTypeOK, Requests
<1>4. request' \in Requests /\ request'.hop = request.hop
  <2> USE <1>0, <1>1 DEF RequestPlaces, Goes, Requests
  <2>0. 1 \in 1 .. Addresses + 1 /\ (request.addr <= Addresses => request.addr + 1 \in 1 .. Addresses + 1)
    OBVIOUS
  <2>1. ASSUME NEW p \in RequestPlaces, Goes(p) PROVE request' \in Requests /\ request'.hop = request.hop
    BY <2>1
  <2>2. ASSUME request' = [request EXCEPT !.pc = "addr", !.addr = 1]
        PROVE  request' \in Requests /\ request'.hop = request.hop
    BY <2>0, <2>2
  <2>3. ASSUME NEW f \in Fds, request' = [request EXCEPT !.pc = "register", !.fd = f]
        PROVE  request' \in Requests /\ request'.hop = request.hop
    BY <2>3
  <2>4. ASSUME request' = [request EXCEPT !.addr = @ + 1], request.addr <= Addresses
        PROVE  request' \in Requests /\ request'.hop = request.hop
    BY <2>0, <2>4
  <2>5. ASSUME request' = [request EXCEPT !.pc = "close", !.fd = NoFd]
        PROVE  request' \in Requests /\ request'.hop = request.hop
    BY <2>5
  <2>6. ASSUME request' = [request EXCEPT !.pc = "addr", !.addr = @ + 1, !.fd = NoFd],
               request.addr <= Addresses
        PROVE  request' \in Requests /\ request'.hop = request.hop
    BY <2>0, <2>6
  <2> HIDE DEF Requests
  <2> QED
    BY <2>1, <2>2, <2>3, <2>4, <2>5, <2>6 DEF ChecksList, TriesAddress, Registers, ServerConnects,
       ConnectGivesUp, DropsSocket, TokenIsOwn, Connecting
<1>5. /\ token' \in [fd : Fds \cup {NoFd}, cancelled : BOOLEAN]
      /\ holder' \in [Fds -> {"nobody", "request", "other"}]
      /\ cut' \in BOOLEAN
  <2> USE <1>1 DEF RequestTypeOK
  <2>1. CASE TriesAddress
    BY <2>1 DEF TriesAddress
  <2>2. CASE Registers
    BY <2>2 DEF Registers
  <2>3. CASE DropsSocket
    BY <2>3 DEF DropsSocket, cancel_unregister_and_close, Unregistered
  <2> QED
    BY <2>1, <2>2, <2>3 DEF ChecksList, ServerConnects, ConnectGivesUp, OnlyMoves
<1>6. RequestTypeOK'
  <2>1. resolver' \in [Hops -> Resolver]
    BY <1>1, <1>2, <1>3 DEF RequestTypeOK
  <2> QED
    BY <2>1, <1>1, <1>4, <1>5 DEF RequestTypeOK, Requests
<1>7. HopsInOrder'
  BY <1>2, <1>3, <1>4, StaysInHop
<1>8. PlaceFits(request.pc, Here)'
  <2>1. CASE resolver' = resolver /\ request'.pc \in {"addr", "register", "connect", "drop"}
    <3>1. Here' = Here
      BY <2>1, <1>4 DEF Here
    <3> QED
      BY <2>1, <3>1, <1>2 DEF PlaceFits, Connecting
  <2>2. CASE /\ resolver' = [resolver EXCEPT ![request.hop] = [Here EXCEPT !.list = "freed"]]
             /\ request'.pc \in {"close", "talk"}
    <3>1. Here' = [Here EXCEPT !.list = "freed"]
      BY <2>2, <1>1, <1>4 DEF Here, RequestTypeOK
    <3>2. Left(Here')
      BY <1>1, <1>2, <3>1 DEF Left, Resolver
    <3> QED
      BY <2>2, <3>2 DEF PlaceFits, Connecting
  <2> QED
    BY <1>3, <2>1, <2>2
<1>9. TokenIsOwn'
  <2> USE <1>1 DEF RequestTypeOK, TokenIsOwn, WithoutSocket, Connecting, Goes
  <2>1. CASE ChecksList
    BY <2>1 DEF ChecksList
  <2>2. CASE TriesAddress
    <3>1. token' = token /\ request.fd = NoFd /\ token.fd = NoFd
      BY <2>2 DEF TriesAddress
    <3>2. CASE Goes("close") \/ request' = [request EXCEPT !.addr = @ + 1]
      <4>1. request'.fd = NoFd /\ request'.pc \notin Connecting
        BY <2>2, <3>1, <3>2 DEF TriesAddress
      <4> QED
        BY <3>1, <4>1
    <3>3. ASSUME NEW f \in Fds, holder' = [holder EXCEPT ![f] = "request"],
                 request' = [request EXCEPT !.pc = "register", !.fd = f],
                 request.addr <= Addresses
          PROVE  TokenIsOwn'
      <4>1. /\ request'.fd = f /\ request'.pc = "register" /\ request'.addr = request.addr
            /\ holder'[f] = "request"
        BY <3>3
      <4> QED
        BY <3>1, <3>3, <4>1
    <3> QED
      BY <2>2, <3>2, <3>3 DEF TriesAddress
  <2>3. CASE Registers
    <3>1. CASE token.cancelled
      <4>1. /\ request'.fd = NoFd /\ request'.pc = "close" /\ token' = token
        BY <2>3, <3>1 DEF Registers
      <4>2. token.fd = NoFd
        BY <2>3 DEF Registers
      <4> QED
        BY <4>1, <4>2
    <3>2. CASE ~token.cancelled
      <4>1. /\ request'.fd = request.fd /\ request'.pc = "connect" /\ token'.fd = request.fd
            /\ request'.addr = request.addr /\ holder' = holder
        BY <2>3, <3>2 DEF Registers
      <4> QED
        BY <2>3, <4>1 DEF Registers
    <3> QED
      BY <3>1, <3>2
  <2>4. CASE ServerConnects
    BY <2>4 DEF ServerConnects
  <2>5. CASE ConnectGivesUp
    BY <2>5 DEF ConnectGivesUp, OnlyMoves
  <2>6. CASE DropsSocket
    BY <2>6 DEF DropsSocket, cancel_unregister_and_close, Unregistered
  <2> QED
    BY <2>1, <2>2, <2>3, <2>4, <2>5, <2>6
<1> QED
  BY <1>1, <1>6, <1>7, <1>8, <1>9

\* Talking and closing: the token and the descriptor are given back together,
\* and a redirect begins a hop that nobody has touched.
LEMMA StepTalk ==
    RequestInv /\ (ServerAnswers \/ TalkGivesUp \/ ClosesConn) => RequestInv'
<1> SUFFICES ASSUME RequestInv, ServerAnswers \/ TalkGivesUp \/ ClosesConn
             PROVE  RequestInv'
  OBVIOUS
<1> USE RequestBounds DEF RequestInv
<1>1. /\ request.hop \in Hops /\ Hops \subseteq Nat /\ UNCHANGED <<timed, cut, cutOther, resolver>>
      /\ Left(Here)
  <2>1. request.hop \in Hops /\ Hops \subseteq Nat
    BY DEF RequestTypeOK, Hops
  <2>2. request.pc \in {"talk", "close"} /\ UNCHANGED <<timed, cut, cutOther, resolver>>
    BY DEF ServerAnswers, TalkGivesUp, ClosesConn, OnlyMoves
  <2> QED
    BY <2>1, <2>2 DEF PlaceFits
<1>2. CASE ServerAnswers \/ TalkGivesUp
  <2>1. /\ request'.pc = "close" /\ request'.hop = request.hop /\ request'.fd = request.fd
        /\ UNCHANGED <<token, holder>>
        /\ request' \in Requests
    <3>1. PICK g \in BOOLEAN : request' = [request EXCEPT !.pc = "close", !.again = g]
      BY <1>2 DEF ServerAnswers, TalkGivesUp
    <3>2. UNCHANGED <<token, holder>>
      BY <1>2 DEF ServerAnswers, TalkGivesUp, OnlyMoves
    <3> QED
      BY <3>1, <3>2 DEF RequestTypeOK, RequestPlaces, Requests
  <2>2. RequestTypeOK'
    BY <1>1, <2>1 DEF RequestTypeOK, Requests
  <2>3. TokenIsOwn'
    BY <2>1 DEF TokenIsOwn, WithoutSocket, Connecting
  <2>4. PlaceFits(request.pc, Here)' /\ HopsInOrder'
    BY <1>1, <2>1 DEF PlaceFits, Here, HopsInOrder, Connecting
  <2> QED
    BY <1>1, <2>2, <2>3, <2>4
<1>3. CASE ClosesConn
  <2> DEFINE next == request.again /\ request.hop < MaxHops
  <2>1. /\ request' \in Requests
        /\ request'.fd = NoFd
        /\ next => request'.pc = "start" /\ request'.hop = request.hop + 1
        /\ ~next => request'.pc = "end" /\ request'.hop = request.hop
    <3>1. CASE next
      <4>1. request' = [request EXCEPT !.pc = "start", !.hop = @ + 1, !.fd = NoFd, !.again = FALSE]
        BY <1>3, <3>1 DEF ClosesConn
      <4>2. request.hop + 1 \in Hops
        BY <1>1, <3>1 DEF Hops
      <4> QED
        BY <3>1, <4>1, <4>2 DEF RequestTypeOK, RequestPlaces, Requests
    <3>2. CASE ~next
      <4>1. request' = [request EXCEPT !.pc = "end", !.fd = NoFd, !.again = FALSE]
        BY <1>3, <3>2 DEF ClosesConn
      <4> QED
        BY <3>2, <4>1 DEF RequestTypeOK, RequestPlaces, Requests
    <3> QED
      BY <3>1, <3>2
  <2>2. /\ token' \in [fd : Fds \cup {NoFd}, cancelled : BOOLEAN] /\ token'.fd = NoFd
        /\ holder' \in [Fds -> {"nobody", "request", "other"}]
    BY <1>3 DEF ClosesConn, RequestTypeOK, Unregistered, TokenIsOwn
  <2>3. RequestTypeOK'
    BY <1>1, <2>1, <2>2 DEF RequestTypeOK, Requests
  <2>4. TokenIsOwn'
    BY <2>1, <2>2 DEF TokenIsOwn, Connecting
  <2>5. HopsInOrder'
    <3> SUFFICES ASSUME NEW h \in Hops
                 PROVE  /\ h < request'.hop => Left(resolver[h])
                        /\ h > request'.hop => Fresh(resolver[h])
      BY <1>1 DEF HopsInOrder
    <3>1. h \in Nat /\ request.hop \in Nat /\ request'.hop \in {request.hop, request.hop + 1}
      BY <1>1, <2>1
    <3> QED
      BY <1>1, <3>1 DEF HopsInOrder, Here
  <2>6. PlaceFits(request.pc, Here)'
    <3>1. CASE next
      <4>1. request'.hop \in Hops /\ request'.hop > request.hop
        BY <1>1, <2>1, <3>1 DEF RequestTypeOK, Hops
      <4>2. Fresh(Here')
        BY <1>1, <4>1 DEF HopsInOrder, Here
      <4> QED
        BY <2>1, <3>1, <4>2 DEF PlaceFits, Connecting
    <3>2. CASE ~next
      BY <1>1, <2>1, <3>2 DEF PlaceFits, Here, Connecting
    <3> QED
      BY <3>1, <3>2
  <2> QED
    BY <1>1, <2>3, <2>4, <2>5, <2>6
<1> QED
  BY <1>2, <1>3

\* The steps of the other threads: the resolver's, at whichever hop it was
\* asked, the user's cancel, and everybody else's sockets.
LEMMA StepOthers ==
    RequestInv /\ (\/ \E h \in Hops : Answers(h) \/ HandsOver(h)
                   \/ http_cancel_token_cancel \/ OthersOpenOrClose) => RequestInv'
<1> SUFFICES ASSUME RequestInv,
                    \/ \E h \in Hops : Answers(h) \/ HandsOver(h)
                    \/ http_cancel_token_cancel \/ OthersOpenOrClose
             PROVE  RequestInv'
  OBVIOUS
<1> USE RequestBounds DEF RequestInv
<1>1. ASSUME NEW h \in Hops, Answers(h) \/ HandsOver(h) PROVE RequestInv'
  <2>0. UNCHANGED <<timed, request, token, holder, cut, cutOther>> /\ resolver[h] \in Resolver
    BY <1>1 DEF Answers, HandsOver, RequestTypeOK
  <2>1. PICK r \in Resolver :
            /\ resolver' = [resolver EXCEPT ![h] = r]
            /\ ~Fresh(resolver[h])
            /\ Left(resolver[h]) => Left(r)
            /\ \A p \in RequestPlaces : PlaceFits(p, resolver[h]) => PlaceFits(p, r)
    <3>1. CASE Answers(h)
      <4>1. PICK l \in {"none", "thread"} :
                resolver' = [resolver EXCEPT ![h] = Answered(@, l)]
        BY <3>1, <2>0 DEF Answers, Answered, RequestTypeOK
      <4> QED
        BY <3>1, <4>1, <2>0, AnswerKeepsOwner DEF Answers
    <3>2. CASE HandsOver(h)
      <4>1. resolver' = [resolver EXCEPT ![h] = HandedOver(@)]
        BY <3>2 DEF HandsOver
      <4> QED
        BY <3>2, <4>1, <2>0, HandOverKeepsOwner DEF HandsOver
    <3> QED
      BY <1>1, <3>1, <3>2
  <2>2. resolver' \in [Hops -> Resolver] /\ request.hop \in Hops /\ request.pc \in RequestPlaces
    BY <2>1 DEF RequestTypeOK
  <2>3. RequestTypeOK'
    BY <2>0, <2>2 DEF RequestTypeOK
  <2>4. TokenIsOwn' /\ ~cutOther'
    BY <2>0 DEF TokenIsOwn
  <2>5. HopsInOrder'
    BY <2>0, <2>1 DEF HopsInOrder, RequestTypeOK
  <2>6. PlaceFits(request.pc, Here)'
    BY <2>0, <2>1, <2>2 DEF Here, RequestTypeOK
  <2> QED
    BY <2>3, <2>4, <2>5, <2>6
<1>2. ASSUME http_cancel_token_cancel \/ OthersOpenOrClose PROVE RequestInv'
  <2>1. UNCHANGED <<timed, request, resolver>>
    BY <1>2 DEF http_cancel_token_cancel, OthersOpenOrClose
  <2>2. /\ token' \in [fd : Fds \cup {NoFd}, cancelled : BOOLEAN] /\ token'.fd = token.fd
        /\ holder' \in [Fds -> {"nobody", "request", "other"}]
        /\ cut' \in BOOLEAN /\ cutOther' = FALSE
        /\ \A f \in Fds : holder[f] = "request" => holder'[f] = "request"
    <3>1. CASE http_cancel_token_cancel
      BY <3>1 DEF http_cancel_token_cancel, RequestTypeOK, TokenIsOwn
    <3>2. CASE OthersOpenOrClose
      BY <3>2 DEF OthersOpenOrClose, RequestTypeOK
    <3> QED
      BY <1>2, <3>1, <3>2
  <2>3. RequestTypeOK'
    BY <2>1, <2>2 DEF RequestTypeOK
  <2>4. TokenIsOwn'
    BY <2>1, <2>2 DEF TokenIsOwn, RequestTypeOK
  <2>5. PlaceFits(request.pc, Here)' /\ HopsInOrder'
    BY <2>1 DEF Here, HopsInOrder
  <2> QED
    BY <2>2, <2>3, <2>4, <2>5
<1> QED
  BY <1>1, <1>2

\* The inductive invariant holds in every reachable state.
LEMMA RequestInvHolds == RequestSpec => []RequestInv
<1>1. RequestInv /\ [RequestNext]_requestVars => RequestInv'
  <2>1. RequestInv /\ UNCHANGED requestVars => RequestInv'
    BY DEF requestVars, RequestInv, RequestTypeOK, TokenIsOwn, Here, HopsInOrder
  <2> QED
    BY <2>1, StepResolve, StepConnect, StepTalk, StepOthers DEF RequestNext, RequestStep
<1> QED
  BY <1>1, InitRequest, PTL DEF RequestSpec

\* http_conn.c: for any number of descriptors, addresses and redirects, a
\* cancel shuts down only the request's own socket, the resolver's context is
\* alive whenever the thread or the caller is about to touch it, and context
\* and address list are released exactly once, whoever came last.
THEOREM RequestIsSound == RequestSpec => []RequestSound
<1>1. RequestInv => RequestSound
  <2> SUFFICES ASSUME RequestInv PROVE RequestSound
    OBVIOUS
  <2> USE RequestBounds DEF RequestInv
  <2>0. request.hop \in Hops /\ Hops \subseteq Nat /\ request.pc \in RequestPlaces
    BY DEF RequestTypeOK, Hops
  <2>1. CancelHitsOwnSocket
    BY DEF CancelHitsOwnSocket
  <2>2. ContextAlive
    <3> SUFFICES ASSUME NEW h \in Hops,
                        \/ resolver[h].pc \in {"asking", "answered"}
                        \/ h = request.hop /\ request.pc \in {"wait", "abandon", "reclaim"}
                 PROVE  resolver[h].ctx = "live"
      BY DEF ContextAlive
    <3>1. CASE h = request.hop
      BY <3>1, <2>0 DEF PlaceFits, Here, Fresh, Left, WithThread, Delivered, RequestPlaces, Connecting
    <3>2. CASE h # request.hop
      BY <3>2, <2>0 DEF HopsInOrder, Left, Fresh, WithThread
    <3> QED
      BY <3>1, <3>2
  <2>3. NothingLeaked
    <3> SUFFICES ASSUME NEW h \in Hops, resolver[h].pc \in {"none", "exited"},
                        h < request.hop \/ request.pc = "end"
                 PROVE  resolver[h].ctx # "live" /\ resolver[h].list \in {"none", "freed"}
      BY DEF NothingLeaked
    <3>1. CASE h < request.hop
      BY <3>1 DEF HopsInOrder, Left, WithThread
    <3>2. CASE h = request.hop /\ request.pc = "end"
      BY <3>2 DEF PlaceFits, Here, Left, WithThread
    <3>3. CASE h > request.hop
      BY <3>3 DEF HopsInOrder, Fresh
    <3>4. h \in Nat /\ request.hop \in Nat
      BY <2>0
    <3> QED
      BY <3>1, <3>2, <3>3, <3>4
  <2> QED
    BY <2>1, <2>2, <2>3 DEF RequestSound
<1> QED
  BY <1>1, RequestInvHolds, PTL
-----------------------------------------------------------------------------
(***************************************************************************)
(* The stream: to its reader, the ring between the pump and the decoder is *)
(* a queue of the server's bytes, for rings, pieces and reads of any size. *)
(***************************************************************************)
Slots == 0 .. RingCapacity - 1
Turn(a) == a % RingCapacity
RingSet == [cell : [Slots -> Nat], head : Slots, tail : Slots, fill : 0 .. RingCapacity]
PumpSet == [pc : PumpPlaces, held : Seq(Nat), left : Nat]

StreamTypes ==
    /\ drawn \in Nat
    /\ pump \in PumpSet
    /\ ring \in RingSet
    /\ flags \in [stop : BOOLEAN, ended : BOOLEAN]
    /\ reader \in [pc : ReaderPlaces, want : Nat, fd : BOOLEAN]
    /\ taken \in Seq(Nat)

\* What the threads are about to move is never nothing.
NeverIdle ==
    /\ pump.pc = "body" => pump.left > 0
    /\ pump.pc = "push" => pump.held # <<>>
    /\ reader.pc = "read" => reader.want > 0

\* The bytes given away, in the ring and in the pump's hand follow each other
\* and are all that was taken from the socket; only the end may drop some.
InSequence ==
    /\ ring.head = Turn(ring.tail + ring.fill)
    /\ \A i \in 1 .. ring.fill : ring.cell[Turn(ring.tail + (i - 1))] = Len(taken) + i
    /\ \A i \in 1 .. Len(pump.held) : pump.held[i] = Len(taken) + ring.fill + i
    /\ pump.pc \notin {"end", "gone"} => Len(taken) + ring.fill + Len(pump.held) = drawn
    /\ pump.pc # "push" => pump.held = <<>>

StreamInv ==
    /\ StreamTypes /\ NeverIdle /\ InSequence
    /\ flags.ended <=> pump.pc = "gone"

LEMMA LesserNat ==
    ASSUME NEW a \in Nat, NEW b \in Nat
    PROVE  Lesser(a, b) \in Nat /\ Lesser(a, b) <= a /\ Lesser(a, b) <= b
           /\ (a > 0 /\ b > 0 => Lesser(a, b) > 0)
           /\ (Lesser(a, b) = a \/ Lesser(a, b) = b)
  BY DEF Lesser

\* An index wraps once.
LEMMA TurnOnce ==
    ASSUME NEW a \in Nat, a < 2 * RingCapacity
    PROVE  /\ Turn(a) \in Slots
           /\ Turn(a) = IF a < RingCapacity THEN a ELSE a - RingCapacity
<1>0. RingCapacity \in Nat \ {0}
  BY StreamBounds
<1>1. Turn(a) \in Slots
  BY <1>0 DEF Slots, Turn
<1>2. a < RingCapacity => Turn(a) = a
  BY <1>0 DEF Turn
<1>3. a >= RingCapacity => Turn(a) = a - RingCapacity
  BY <1>0 DEF Turn
<1> QED
  BY <1>0, <1>1, <1>2, <1>3

\* Wrapping after each of two moves is wrapping after both.
LEMMA TurnSum ==
    ASSUME NEW a \in Slots, NEW n \in Nat, NEW i \in Nat, n + i <= RingCapacity
    PROVE  Turn(Turn(a + n) + i) = Turn(a + (n + i))
<1>1. RingCapacity \in Nat \ {0} /\ a \in Nat /\ a < RingCapacity
  BY StreamBounds DEF Slots
<1>2. PICK b \in Nat : b = Turn(a + n) /\ b < RingCapacity
                       /\ b = IF a + n < RingCapacity THEN a + n ELSE a + n - RingCapacity
  BY <1>1, TurnOnce DEF Slots
<1>3. Turn(b + i) = IF b + i < RingCapacity THEN b + i ELSE b + i - RingCapacity
  BY <1>1, <1>2, TurnOnce
<1>4. Turn(a + (n + i)) =
          IF a + (n + i) < RingCapacity THEN a + (n + i) ELSE a + (n + i) - RingCapacity
  BY <1>1, TurnOnce
<1> QED
  BY <1>1, <1>2, <1>3, <1>4

\* A sequence in two parts.
LEMMA Cut ==
    ASSUME NEW s \in Seq(Nat), NEW n \in Nat, n <= Len(s)
    PROVE  /\ SubSeq(s, 1, n) \in Seq(Nat) /\ Len(SubSeq(s, 1, n)) = n
           /\ \A i \in 1 .. n : SubSeq(s, 1, n)[i] = s[i]
           /\ SubSeq(s, n + 1, Len(s)) \in Seq(Nat) /\ Len(SubSeq(s, n + 1, Len(s))) = Len(s) - n
           /\ \A i \in 1 .. Len(s) - n : SubSeq(s, n + 1, Len(s))[i] = s[n + i]
<1>1. Len(s) \in Nat /\ \A i \in 1 .. Len(s) : s[i] \in Nat
  BY LenProperties, ElementOfSeq
<1>2. /\ SubSeq(s, 1, n) \in Seq(Nat) /\ Len(SubSeq(s, 1, n)) = IF 1 <= n THEN n - 1 + 1 ELSE 0
      /\ \A i \in 1 .. n - 1 + 1 : SubSeq(s, 1, n)[i] = s[1 + i - 1]
  <2>1. 1 \in Int /\ n \in Int /\ \A i \in 1 .. n : s[i] \in Nat
    BY <1>1
  <2> QED
    BY <2>1, SubSeqProperties
<1>3. /\ SubSeq(s, n + 1, Len(s)) \in Seq(Nat)
      /\ Len(SubSeq(s, n + 1, Len(s))) = IF n + 1 <= Len(s) THEN Len(s) - (n + 1) + 1 ELSE 0
      /\ \A i \in 1 .. Len(s) - (n + 1) + 1 : SubSeq(s, n + 1, Len(s))[i] = s[n + 1 + i - 1]
  <2>1. n + 1 \in Int /\ Len(s) \in Int /\ \A i \in n + 1 .. Len(s) : s[i] \in Nat
    BY <1>1
  <2> QED
    BY <2>1, SubSeqProperties
<1>4. \A i \in 1 .. n : SubSeq(s, 1, n)[i] = s[i]
  <2> SUFFICES ASSUME NEW i \in 1 .. n PROVE SubSeq(s, 1, n)[i] = s[i]
    OBVIOUS
  <2>1. i \in 1 .. n - 1 + 1 /\ 1 + i - 1 = i
    OBVIOUS
  <2> QED
    BY <1>2, <2>1
<1>5. \A i \in 1 .. Len(s) - n : SubSeq(s, n + 1, Len(s))[i] = s[n + i]
  <2> SUFFICES ASSUME NEW i \in 1 .. Len(s) - n PROVE SubSeq(s, n + 1, Len(s))[i] = s[n + i]
    OBVIOUS
  <2>1. i \in 1 .. Len(s) - (n + 1) + 1 /\ n + 1 + i - 1 = n + i
    BY <1>1
  <2> QED
    BY <1>3, <2>1
<1> QED
  BY <1>1, <1>2, <1>3, <1>4, <1>5

\* The bytes of s are the ones after the first k, in order.
Follow(k, s) == \A i \in 1 .. Len(s) : s[i] = k + i

\* Two stretches of bytes, one after the other, are one.
LEMMA Joined ==
    ASSUME NEW k \in Nat, NEW q \in Seq(Nat), NEW r \in Seq(Nat), NEW u \in Seq(Nat),
           Follow(k, q), Follow(k + Len(q), r), Follow(k, u), Len(u) = Len(q) + Len(r)
    PROVE  u = q \o r
<1>1. Len(q) \in Nat /\ Len(r) \in Nat
  BY LenProperties
<1>2. /\ q \o r \in Seq(Nat) /\ Len(q \o r) = Len(q) + Len(r)
      /\ \A i \in 1 .. Len(q) + Len(r) : (q \o r)[i] = IF i <= Len(q) THEN q[i] ELSE r[i - Len(q)]
  BY ConcatProperties
<1>3. ASSUME NEW i \in 1 .. Len(u)
      PROVE  u[i] = (q \o r)[i]
  <2>1. u[i] = k + i /\ i \in Nat /\ i \in 1 .. Len(q) + Len(r) /\ i <= Len(q) + Len(r)
    BY <1>1 DEF Follow
  <2>2. CASE i <= Len(q)
    <3>1. i \in 1 .. Len(q)
      BY <1>1, <2>2
    <3>2. q[i] = k + i
      BY <3>1 DEF Follow
    <3> QED
      BY <1>2, <2>1, <2>2, <3>2
  <2>3. CASE ~(i <= Len(q))
    <3>1. i - Len(q) \in 1 .. Len(r)
      BY <1>1, <2>1, <2>3
    <3>2. r[i - Len(q)] = k + Len(q) + (i - Len(q))
      BY <3>1 DEF Follow
    <3>3. k + Len(q) + (i - Len(q)) = k + i
      BY <1>1, <2>1
    <3> QED
      BY <1>2, <2>1, <2>3, <3>2, <3>3
  <2> QED
    BY <2>2, <2>3
<1> QED
  BY <1>2, <1>3, SeqEqual

\* What the reader will get, oldest first, are the bytes after those it has.
LEMMA ContentIs ==
    ASSUME StreamTypes, InSequence
    PROVE  /\ Content \in Seq(Nat) /\ Len(Content) = ring.fill
           /\ \A i \in 1 .. ring.fill : Content[i] = Len(taken) + i
<1>1. /\ RingCapacity \in Nat \ {0} /\ ring.fill \in Nat /\ ring.tail \in Nat /\ ring.tail < RingCapacity
      /\ ring.fill <= RingCapacity /\ Len(taken) \in Nat
  BY StreamBounds DEF StreamTypes, Slots, RingSet
<1>2. \A i \in 1 .. ring.fill : ring.cell[(ring.tail + i - 1) % RingCapacity] = Len(taken) + i
  <2> SUFFICES ASSUME NEW i \in 1 .. ring.fill
               PROVE  ring.cell[(ring.tail + i - 1) % RingCapacity] = Len(taken) + i
    OBVIOUS
  <2>1. ring.tail + i - 1 = ring.tail + (i - 1)
    BY <1>1
  <2> QED
    BY <2>1 DEF InSequence, Turn
<1>3. Content \in [1 .. ring.fill -> Nat]
  BY <1>1, <1>2 DEF Content
<1>4. Content \in Seq(Nat) /\ Len(Content) = ring.fill
  BY <1>1, <1>3
<1> QED
  BY <1>2, <1>4 DEF Content

\* A push puts its bytes behind the ones that are there, around the end of the ring.
LEMMA StoreEffect ==
    ASSUME StreamTypes, InSequence, NEW s \in Seq(Nat), ring.fill + Len(s) <= RingCapacity,
           \A i \in 1 .. Len(s) : s[i] = Len(taken) + ring.fill + i
    PROVE  /\ Store(s) \in RingSet
           /\ Store(s).tail = ring.tail /\ Store(s).fill = ring.fill + Len(s)
           /\ Store(s).head = Turn(ring.tail + (ring.fill + Len(s)))
           /\ \A i \in 1 .. ring.fill + Len(s) :
                  Store(s).cell[Turn(ring.tail + (i - 1))] = Len(taken) + i
<1> DEFINE n == Len(s)
           Back(i) == Turn(i + RingCapacity - ring.head)
           cells == [i \in Slots |-> IF Back(i) < n THEN s[Back(i) + 1] ELSE ring.cell[i]]
<1>1. /\ RingCapacity \in Nat \ {0} /\ ring.fill \in Nat /\ ring.tail \in Nat /\ ring.tail < RingCapacity
      /\ ring.head \in Nat /\ ring.head < RingCapacity
      /\ n \in Nat /\ n <= RingCapacity /\ ring.fill + n <= RingCapacity
      /\ ring.fill <= RingCapacity /\ Len(taken) \in Nat
  BY StreamBounds DEF StreamTypes, Slots, RingSet
<1>0. /\ ring.cell \in [Slots -> Nat] /\ DOMAIN ring.cell = Slots /\ ring \in RingSet
      /\ ring.head \in Slots /\ ring.tail \in Slots
  BY DEF StreamTypes, RingSet
<1>2. Store(s) = [ring EXCEPT !.cell = cells, !.head = Turn(ring.head + n), !.fill = ring.fill + n]
  BY <1>0, <1>1 DEF Store, Turn, RingSet
<1>3. ASSUME NEW i \in Slots
      PROVE  /\ Back(i) \in Nat
             /\ Back(i) = IF i < ring.head THEN i + RingCapacity - ring.head ELSE i - ring.head
  <2>1. i \in Nat /\ i < RingCapacity
    BY <1>1 DEF Slots
  <2>2. i + RingCapacity - ring.head \in Nat /\ i + RingCapacity - ring.head < 2 * RingCapacity
    BY <1>1, <2>1
  <2> QED
    BY <1>1, <2>1, <2>2, TurnOnce DEF Slots
<1> HIDE DEF Back
<1>4. cells \in [Slots -> Nat]
  <2> SUFFICES ASSUME NEW i \in Slots
               PROVE  (IF Back(i) < n THEN s[Back(i) + 1] ELSE ring.cell[i]) \in Nat
    OBVIOUS
  <2>1. Back(i) \in Nat
    BY <1>3
  <2>2. CASE Back(i) < n
    <3>1. Back(i) + 1 \in 1 .. Len(s)
      BY <1>1, <2>1, <2>2
    <3>2. s[Back(i) + 1] \in Nat
      BY <3>1
    <3> QED
      BY <2>2, <3>2
  <2>3. CASE ~(Back(i) < n)
    BY <1>0, <2>3
  <2> QED
    BY <2>2, <2>3
<1>5. Turn(ring.head + n) = Turn(ring.tail + (ring.fill + n)) /\ Turn(ring.head + n) \in Slots
  <2>1. Turn(Turn(ring.tail + ring.fill) + n) = Turn(ring.tail + (ring.fill + n))
    BY <1>0, <1>1, TurnSum
  <2>2. ring.head + n \in Nat /\ ring.head + n < 2 * RingCapacity
    BY <1>1
  <2> QED
    BY <2>1, <2>2, TurnOnce DEF InSequence
<1>6. ASSUME NEW i \in 1 .. ring.fill + n
      PROVE  cells[Turn(ring.tail + (i - 1))] = Len(taken) + i
  <2>0. i \in Nat /\ i >= 1 /\ i <= ring.fill + n /\ i - 1 \in Nat
    BY <1>1
  <2>1. PICK x \in Nat : x = ring.tail + (i - 1) /\ x < 2 * RingCapacity
    BY <1>1, <2>0
  <2>2. PICK at \in Slots : at = Turn(x) /\ at = IF x < RingCapacity THEN x ELSE x - RingCapacity
    BY <2>1, TurnOnce
  <2>3. PICK h : h = ring.head /\ h = IF ring.tail + ring.fill < RingCapacity THEN ring.tail + ring.fill
                                     ELSE ring.tail + ring.fill - RingCapacity
    BY <1>1, TurnOnce DEF InSequence
  <2>4. /\ i <= ring.fill => ~(Back(at) < n)
        /\ i > ring.fill => Back(at) < n /\ Back(at) + 1 = i - ring.fill /\ i - ring.fill \in 1 .. n
    <3>1. PICK b : b = Back(at) /\ b = IF at < h THEN at + RingCapacity - h ELSE at - h
      BY <1>3, <2>3
    <3>2. PICK t : t = ring.tail
      OBVIOUS
    <3>3. PICK f : f = ring.fill
      OBVIOUS
    <3>4. PICK m : m = n
      OBVIOUS
    <3>5. /\ RingCapacity \in Nat \ {0}
          /\ t \in Nat /\ f \in Nat /\ m \in Nat /\ t < RingCapacity /\ f + m <= RingCapacity
          /\ i \in Nat /\ i >= 1 /\ i <= f + m /\ x = t + (i - 1)
          /\ h = IF t + f < RingCapacity THEN t + f ELSE t + f - RingCapacity
      BY <1>1, <2>0, <2>1, <2>3, <3>2, <3>3, <3>4
    <3>6. /\ i <= f => ~(b < m)
          /\ i > f => b < m /\ b + 1 = i - f /\ i - f \in 1 .. m
      <4>1. at = IF x < RingCapacity THEN x ELSE x - RingCapacity
        BY <2>2
      <4>2. b = IF at < h THEN at + RingCapacity - h ELSE at - h
        BY <3>1
      <4> QED
        BY <3>5, <4>1, <4>2
    <3> QED
      BY <3>1, <3>3, <3>4, <3>6
  <2>5. CASE i <= ring.fill
    <3>1. ring.cell[Turn(ring.tail + (i - 1))] = Len(taken) + i
      BY <2>0, <2>5, <1>1 DEF InSequence
    <3>2. ring.cell[at] = Len(taken) + i
      BY <2>1, <2>2, <3>1
    <3> QED
      BY <2>1, <2>2, <2>4, <2>5, <3>2
  <2>6. CASE i > ring.fill
    <3>1. s[i - ring.fill] = Len(taken) + ring.fill + (i - ring.fill)
      BY <2>4, <2>6
    <3>2. cells[at] = s[i - ring.fill]
      BY <2>2, <2>4, <2>6
    <3>3. cells[at] = Len(taken) + i
      BY <1>1, <2>0, <3>1, <3>2
    <3> QED
      BY <2>1, <2>2, <3>3
  <2> QED
    BY <1>1, <2>0, <2>5, <2>6
<1>7. ring.fill + n \in 0 .. RingCapacity
  BY <1>1
<1> HIDE DEF cells, n
<1>8. Store(s) \in RingSet
  BY <1>0, <1>2, <1>4, <1>5, <1>7 DEF RingSet
<1>9. /\ Store(s).cell = cells /\ Store(s).tail = ring.tail /\ Store(s).fill = ring.fill + n
      /\ Store(s).head = Turn(ring.head + n)
  BY <1>0, <1>2 DEF RingSet
<1> QED
  BY <1>5, <1>6, <1>8, <1>9 DEF n

\* The ring once its oldest n bytes are taken.
Without(n) == [ring EXCEPT !.tail = (@ + n) % RingCapacity, !.fill = @ - n]

\* A read takes its bytes from the tail, and leaves the others where they are.
LEMMA TakeEffect ==
    ASSUME StreamTypes, InSequence, NEW n \in 1 .. ring.fill,
           NEW r, r = Without(n)
    PROVE  /\ r \in RingSet /\ r.fill = ring.fill - n
           /\ r.head = Turn(r.tail + r.fill)
           /\ \A i \in 1 .. r.fill : r.cell[Turn(r.tail + (i - 1))] = Len(taken) + n + i
<1>1. /\ RingCapacity \in Nat \ {0} /\ ring.fill \in Nat /\ ring.tail \in Nat /\ ring.tail < RingCapacity
      /\ ring.fill <= RingCapacity /\ Len(taken) \in Nat /\ n \in Nat /\ n <= ring.fill /\ ring.tail \in Slots
  BY StreamBounds DEF StreamTypes, Slots, RingSet
<1>2. ring \in RingSet /\ ring.fill - n \in 0 .. RingCapacity
  BY <1>1 DEF StreamTypes
<1>3. Turn(ring.tail + n) \in Slots
  BY <1>1, TurnOnce
<1>4. r = [ring EXCEPT !.tail = Turn(ring.tail + n), !.fill = ring.fill - n]
  BY <1>2 DEF Turn, RingSet, Without
<1>5. r \in RingSet /\ r.fill = ring.fill - n /\ r.tail = Turn(ring.tail + n) /\ r.head = ring.head
      /\ r.cell = ring.cell
  BY <1>2, <1>3, <1>4 DEF RingSet
<1>6. r.head = Turn(r.tail + r.fill)
  <2>1. Turn(Turn(ring.tail + n) + (ring.fill - n)) = Turn(ring.tail + (n + (ring.fill - n)))
    BY <1>1, TurnSum
  <2>2. n + (ring.fill - n) = ring.fill
    BY <1>1
  <2> QED
    BY <1>5, <2>1, <2>2 DEF InSequence
<1>7. ASSUME NEW i \in 1 .. r.fill
      PROVE  r.cell[Turn(r.tail + (i - 1))] = Len(taken) + n + i
  <2>1. i \in Nat /\ i - 1 \in Nat /\ n + (i - 1) <= RingCapacity /\ n + i \in 1 .. ring.fill
        /\ n + (i - 1) = (n + i) - 1 /\ Len(taken) + (n + i) = Len(taken) + n + i
    <3>1. i \in 1 .. ring.fill - n
      BY <1>5
    <3> QED
      BY <1>1, <3>1
  <2>2. Turn(Turn(ring.tail + n) + (i - 1)) = Turn(ring.tail + (n + (i - 1)))
    BY <1>1, <2>1, TurnSum
  <2>3. ring.cell[Turn(ring.tail + ((n + i) - 1))] = Len(taken) + (n + i)
    BY <2>1 DEF InSequence
  <2> QED
    BY <1>5, <2>1, <2>2, <2>3
<1> QED
  BY <1>5, <1>6, <1>7

LEMMA InitStream == StreamInit => StreamInv /\ Bytes!QueueInit
<1> SUFFICES ASSUME StreamInit PROVE StreamInv /\ Bytes!QueueInit
  OBVIOUS
<1>1. RingCapacity \in Nat \ {0} /\ 0 \in Slots
  BY StreamBounds DEF Slots
<1>2. StreamTypes
  <2>1. ring \in RingSet
    BY <1>1 DEF StreamInit, RingSet, Slots
  <2> QED
    BY <2>1 DEF StreamInit, StreamTypes, PumpSet, PumpPlaces, ReaderPlaces
<1>3. InSequence
  <2>1. Turn(0) = 0
    BY <1>1, TurnOnce
  <2> QED
    BY <2>1 DEF StreamInit, InSequence
<1>4. StreamInv
  BY <1>2, <1>3 DEF StreamInv, StreamInit, NeverIdle
<1>5. Content = <<>>
  BY <1>2, <1>3, ContentIs DEF StreamInit
<1> QED
  BY <1>4, <1>5 DEF StreamInit, Bytes!QueueInit

\* A step that moves no byte of the ring and declares no end is no step of the queue.
LEMMA QueueRests ==
    ASSUME UNCHANGED <<ring, taken, flags>>
    PROVE  UNCHANGED <<Content, taken, flags.ended>>
  BY DEF Content

\* The steps of the pump that read from the socket.
LEMMA PumpReads ==
    ASSUME StreamInv, Checks \/ ReadsSome \/ ReadsSizeLine \/ ReadsExact \/ ReadsCrlf
    PROVE  StreamInv' /\ UNCHANGED <<ring, taken, flags>>
<1>1. UNCHANGED <<ring, flags, reader, taken>> /\ pump.pc \in {"check", "recv", "line", "body", "crlf"}
  BY DEF Checks, ReadsSome, ReadsSizeLine, ReadsExact, ReadsCrlf, PumpLeaves, PumpAwake
<1> SUFFICES StreamInv'
  BY <1>1
<1>2. /\ pump \in PumpSet /\ pump.left \in Nat /\ pump.held = <<>> /\ drawn \in Nat
      /\ pump.pc = "body" => pump.left > 0
  BY <1>1 DEF StreamInv, StreamTypes, NeverIdle, InSequence, PumpSet
<1>3. ASSUME UNCHANGED drawn, pump' \in PumpSet, pump'.pc \notin {"push", "gone"}, pump'.held = <<>>,
             pump'.pc = "body" => pump'.left > 0
      PROVE  StreamInv'
  <2>1. StreamTypes' /\ NeverIdle' /\ ~flags'.ended /\ pump'.pc # "gone"
    BY <1>1, <1>3 DEF StreamInv, StreamTypes, NeverIdle
  <2>2. InSequence'
    BY <1>1, <1>2, <1>3 DEF StreamInv, InSequence
  <2> QED
    BY <2>1, <2>2 DEF StreamInv
<1>4. ASSUME NEW pc \in {"recv", "line", "check", "end"}, pump' = [pump EXCEPT !.pc = pc], UNCHANGED drawn
      PROVE  StreamInv'
  <2>1. pump' \in PumpSet /\ pump'.pc = pc /\ pump'.held = <<>>
    BY <1>2, <1>4 DEF PumpPlaces, PumpSet
  <2> QED
    BY <1>3, <1>4, <2>1
<1>5. ASSUME NEW k \in Nat, k > 0, Draws(k)
      PROVE  StreamInv'
  <2>1. Lesser(pump.left, k) \in Nat /\ pump.left - Lesser(pump.left, k) \in Nat
    BY <1>2, <1>5, LesserNat
  <2>2. Len(taken) \in Nat /\ ring.fill \in Nat /\ Len(taken) + ring.fill = drawn
    BY <1>1, <1>2, StreamBounds DEF StreamInv, StreamTypes, InSequence, RingSet
  <2>3. /\ NextBytes(k) \in Seq(Nat) /\ Len(NextBytes(k)) = k
        /\ \A i \in 1 .. k : NextBytes(k)[i] = drawn + i
    <3>1. NextBytes(k) \in [1 .. k -> Nat]
      BY <1>2, <1>5 DEF NextBytes
    <3> QED
      BY <1>5, <3>1 DEF NextBytes
  <2>4. /\ pump' = [pump EXCEPT !.pc = "push", !.held = NextBytes(k), !.left = pump.left - Lesser(pump.left, k)]
        /\ drawn' = drawn + k
    BY <1>2, <1>5 DEF Draws, PumpSet
  <2>5. pump' \in PumpSet /\ pump'.pc = "push" /\ pump'.held = NextBytes(k)
    BY <1>2, <2>1, <2>3, <2>4 DEF PumpSet, PumpPlaces
  <2> HIDE DEF NextBytes
  <2>6. NextBytes(k) # <<>> /\ drawn' \in Nat
    BY <1>2, <1>5, <2>3, <2>4
  <2>7. StreamTypes' /\ NeverIdle' /\ ~flags'.ended /\ pump'.pc # "gone"
    BY <1>1, <2>5, <2>6 DEF StreamInv, StreamTypes, NeverIdle
  <2>8. InSequence'
    <3>1. Len(pump'.held) = k /\ \A i \in 1 .. Len(pump'.held) : pump'.held[i] = Len(taken) + ring.fill + i
      BY <2>2, <2>3, <2>5
    <3>2. Len(taken) + ring.fill + Len(pump'.held) = drawn'
      BY <2>2, <2>4, <3>1
    <3> QED
      BY <1>1, <2>5, <3>1, <3>2 DEF StreamInv, InSequence
  <2> QED
    BY <2>7, <2>8 DEF StreamInv
<1>6. CASE Checks
  BY <1>4, <1>6 DEF Checks, PumpGoes
<1>7. CASE ReadsSome
  <2>1. CASE Dry /\ PumpGoes("end") /\ UNCHANGED drawn
    BY <1>4, <2>1 DEF PumpGoes
  <2>2. CASE \E k \in 1 .. Lesser(ReadChunk, server.sent - drawn) : Draws(k)
    <3>1. PICK k \in 1 .. Lesser(ReadChunk, server.sent - drawn) : Draws(k)
      BY <2>2
    <3>2. k \in Nat /\ k > 0
      OBVIOUS
    <3> QED
      BY <1>5, <3>1, <3>2, Zenon
  <2> QED
    BY <1>7, <2>1, <2>2 DEF ReadsSome
<1>8. CASE ReadsSizeLine
  <2>1. CASE Dry /\ PumpGoes("end")
    BY <1>4, <1>8, <2>1 DEF PumpGoes, ReadsSizeLine
  <2>2. CASE \E k \in 1 .. MaxBytes - drawn : pump' = [pump EXCEPT !.pc = "body", !.left = k]
    <3>1. PICK k \in 1 .. MaxBytes - drawn : pump' = [pump EXCEPT !.pc = "body", !.left = k]
      BY <2>2
    <3>2. k \in Nat /\ k > 0
      OBVIOUS
    <3>3. pump' \in PumpSet /\ pump'.pc = "body" /\ pump'.held = <<>> /\ pump'.left = k
      BY <1>2, <3>1, <3>2 DEF PumpSet, PumpPlaces
    <3> QED
      <4>1. UNCHANGED drawn
        BY <1>8 DEF ReadsSizeLine
      <4> QED
        BY <1>3, <3>2, <3>3, <4>1
  <2> QED
    BY <1>8, <2>1, <2>2 DEF ReadsSizeLine
<1>9. CASE ReadsExact
  <2>1. Piece \in Nat /\ Piece > 0
    <3>1. pump.left \in Nat /\ pump.left > 0 /\ ReadChunk \in Nat /\ ReadChunk > 0
      BY <1>2, <1>9, StreamBounds DEF ReadsExact, PumpAwake
    <3> QED
      BY <3>1 DEF Piece, Lesser
  <2>2. CASE Dry /\ PumpGoes("end") /\ UNCHANGED drawn
    BY <1>4, <2>2 DEF PumpGoes
  <2>3. CASE Draws(Piece)
    BY <1>5, <2>1, <2>3, Zenon
  <2> QED
    BY <1>9, <2>2, <2>3 DEF ReadsExact
<1>10. CASE ReadsCrlf
  BY <1>4, <1>10 DEF ReadsCrlf, PumpGoes
<1> QED
  BY <1>6, <1>7, <1>8, <1>9, <1>10

\* What a step is to the queue.
QueueMoves == Bytes!QueueNext \/ UNCHANGED <<Content, taken, flags.ended>>

\* A push: all or part of what the pump holds goes into the ring.
LEMMA PumpPushes ==
    ASSUME StreamInv, Pushes
    PROVE  StreamInv' /\ QueueMoves
<1>1. /\ UNCHANGED <<drawn, flags, reader, taken>> /\ pump.pc = "push" /\ ~flags.ended
      /\ pump \in PumpSet /\ pump.left \in Nat /\ pump.held \in Seq(Nat) /\ pump.held # <<>>
      /\ ring \in RingSet
  BY DEF Pushes, PumpLeaves, PumpAwake, StreamInv, StreamTypes, NeverIdle, PumpSet
<1>2. /\ RingCapacity \in Nat \ {0} /\ ring.fill \in Nat /\ ring.fill <= RingCapacity
      /\ Len(taken) \in Nat /\ Len(pump.held) \in Nat /\ Len(pump.held) > 0
  BY <1>1, StreamBounds DEF StreamInv, StreamTypes, RingSet
<1>3. CASE UNCHANGED ring /\ UNCHANGED pump
  <2>1. StreamInv'
    BY <1>1, <1>3 DEF StreamInv, StreamTypes, NeverIdle, InSequence
  <2> QED
    BY <1>1, <1>3, <2>1, QueueRests DEF QueueMoves
<1>4. CASE UNCHANGED ring /\ pump' = [pump EXCEPT !.pc = "end", !.held = <<>>]
  <2>1. pump' \in PumpSet /\ pump'.pc = "end" /\ pump'.held = <<>>
    <3>1. <<>> \in Seq(Nat) /\ "end" \in PumpPlaces
      BY EmptySeq DEF PumpPlaces
    <3> QED
      BY <1>1, <1>4, <3>1 DEF PumpSet
  <2>2. StreamInv'
    BY <1>1, <1>4, <2>1 DEF StreamInv, StreamTypes, NeverIdle, InSequence
  <2> QED
    BY <1>1, <1>4, <2>2, QueueRests DEF QueueMoves
<1>5. ASSUME Space > 0,
             ring' = Store(SubSeq(pump.held, 1, Lesser(Len(pump.held), Space))),
             pump' = [pump EXCEPT !.held = SubSeq(@, Lesser(Len(pump.held), Space) + 1, Len(@)),
                                  !.pc = IF Lesser(Len(pump.held), Space) < Len(pump.held) THEN "push" ELSE AfterPush]
      PROVE  StreamInv' /\ QueueMoves
  <2>1. PICK n : n = Lesser(Len(pump.held), Space)
    OBVIOUS
  <2>2. /\ n \in Nat /\ n > 0 /\ n <= Len(pump.held) /\ ring.fill + n <= RingCapacity
        /\ Space \in Nat
    BY <1>2, <1>5, <2>1, LesserNat DEF Space
  <2>3. PICK s \in Seq(Nat) : /\ s = SubSeq(pump.held, 1, n) /\ Len(s) = n
                              /\ \A i \in 1 .. n : s[i] = pump.held[i]
    BY <1>1, <2>2, Cut
  <2>4. PICK t \in Seq(Nat) : /\ t = SubSeq(pump.held, n + 1, Len(pump.held)) /\ Len(t) = Len(pump.held) - n
                              /\ \A i \in 1 .. Len(pump.held) - n : t[i] = pump.held[n + i]
    BY <1>1, <2>2, Cut
  <2>5. \A i \in 1 .. Len(pump.held) : pump.held[i] = Len(taken) + ring.fill + i
    BY DEF StreamInv, InSequence
  <2>6. \A i \in 1 .. Len(s) : s[i] = Len(taken) + ring.fill + i
    BY <1>2, <2>2, <2>3, <2>5
  <2>7. /\ ring' = Store(s) /\ ring' \in RingSet /\ ring'.tail = ring.tail /\ ring'.fill = ring.fill + n
        /\ ring'.head = Turn(ring'.tail + ring'.fill)
        /\ \A i \in 1 .. ring'.fill : ring'.cell[Turn(ring'.tail + (i - 1))] = Len(taken) + i
    <3>1. ring' = Store(s)
      BY <1>5, <2>1, <2>3
    <3> QED
      <4>1. StreamTypes /\ InSequence /\ ring.fill + Len(s) <= RingCapacity
        BY <2>2, <2>3 DEF StreamInv
      <4>2. /\ Store(s) \in RingSet
            /\ Store(s).tail = ring.tail /\ Store(s).fill = ring.fill + Len(s)
            /\ Store(s).head = Turn(ring.tail + (ring.fill + Len(s)))
            /\ \A i \in 1 .. ring.fill + Len(s) :
                   Store(s).cell[Turn(ring.tail + (i - 1))] = Len(taken) + i
        BY <2>6, <4>1, StoreEffect
      <4> HIDE DEF Store
      <4> QED
        BY <2>3, <3>1, <4>2
  <2>8. PICK pc : pc = IF n < Len(pump.held) THEN "push" ELSE AfterPush
    OBVIOUS
  <2>9. /\ pc \in PumpPlaces \ {"end", "gone"}
        /\ pc = "push" <=> n < Len(pump.held)
        /\ pc = "body" => pump.left > 0
    BY <2>8 DEF AfterPush, PumpPlaces
  <2>10. pump' \in PumpSet /\ pump'.pc = pc /\ pump'.held = t /\ pump'.left = pump.left
    BY <1>1, <1>5, <2>1, <2>4, <2>8, <2>9 DEF PumpSet
  <2>11. StreamTypes' /\ NeverIdle'
    <3>1. pc = "push" => Len(t) > 0
      BY <1>2, <2>2, <2>4, <2>9
    <3>2. pc = "push" => t # <<>>
      BY <3>1, EmptySeq
    <3> QED
      BY <1>1, <2>7, <2>9, <2>10, <3>2 DEF StreamInv, StreamTypes, NeverIdle
  <2>12. InSequence'
    <3>1. \A i \in 1 .. Len(t) : t[i] = Len(taken) + (ring.fill + n) + i
      <4> SUFFICES ASSUME NEW i \in 1 .. Len(t) PROVE t[i] = Len(taken) + (ring.fill + n) + i
        OBVIOUS
      <4>1. n + i \in 1 .. Len(pump.held) /\ i \in Nat
        BY <1>2, <2>2, <2>4
      <4>2. t[i] = Len(taken) + ring.fill + (n + i)
        BY <2>4, <2>5, <4>1
      <4> QED
        BY <1>2, <2>2, <4>1, <4>2
    <3>2. Len(taken) + ring'.fill + Len(pump'.held) = drawn'
      BY <1>1, <1>2, <2>2, <2>4, <2>7, <2>10 DEF StreamInv, InSequence
    <3>3. pc # "push" => t = <<>>
      BY <1>2, <2>2, <2>4, <2>9
    <3> QED
      BY <1>1, <2>7, <2>10, <3>1, <3>2, <3>3 DEF InSequence
  <2>13. StreamInv'
    BY <1>1, <2>9, <2>10, <2>11, <2>12 DEF StreamInv
  <2>14. Bytes!Enqueue(n)
    <3>1. /\ Content \in Seq(Nat) /\ Len(Content) = ring.fill
          /\ Follow(Len(taken), Content)
      BY ContentIs DEF StreamInv, Follow
    <3>2. /\ Content' \in Seq(Nat) /\ Len(Content') = ring.fill + n
          /\ Follow(Len(taken), Content')
      <4>1. (/\ Content \in Seq(Nat) /\ Len(Content) = ring.fill
             /\ \A i \in 1 .. ring.fill : Content[i] = Len(taken) + i)'
        BY <2>11, <2>12, ContentIs, PTL
      <4> QED
        BY <1>1, <2>7, <4>1 DEF Follow
    <3>3. PICK new : new = [i \in 1 .. n |-> Len(taken) + Len(Content) + i]
      OBVIOUS
    <3>4. new \in Seq(Nat) /\ Len(new) = n /\ Follow(Len(taken) + Len(Content), new)
      <4>1. new \in [1 .. n -> Nat]
        BY <1>2, <2>2, <3>1, <3>3
      <4>2. new \in Seq(Nat) /\ Len(new) = n
        BY <2>2, <3>3, <4>1
      <4> QED
        BY <3>3, <4>2 DEF Follow
    <3>5. Content' = Content \o new
      BY <1>2, <3>1, <3>2, <3>4, Joined
    <3> QED
      BY <1>1, <2>2, <3>1, <3>3, <3>5 DEF Bytes!Enqueue
  <2> QED
    <3>1. n \in 1 .. RingCapacity
      BY <1>2, <2>2
    <3> QED
      BY <2>13, <2>14, <3>1 DEF QueueMoves, Bytes!QueueNext
<1> QED
  BY <1>3, <1>4, <1>5 DEF Pushes

\* A step of the decoder that leaves the ring alone.
LEMMA ReaderMoves ==
    ASSUME StreamInv, UNCHANGED <<drawn, pump, ring, taken>>,
           reader' \in [pc : ReaderPlaces, want : Nat, fd : BOOLEAN],
           reader'.pc = "read" => reader'.want > 0,
           flags' \in [stop : BOOLEAN, ended : BOOLEAN], flags'.ended = flags.ended
    PROVE  StreamInv' /\ QueueMoves
<1>1. StreamTypes' /\ NeverIdle'
  BY DEF StreamInv, StreamTypes, NeverIdle
<1>2. InSequence'
  BY DEF StreamInv, InSequence
<1>3. QueueMoves
  BY DEF QueueMoves, Content
<1> QED
  BY <1>1, <1>2, <1>3 DEF StreamInv

\* A read: some or all of what is asked for leaves the ring.
LEMMA ReaderReads ==
    ASSUME StreamInv, Reads
    PROVE  StreamInv' /\ QueueMoves
<1>1. /\ UNCHANGED <<drawn, pump, flags>> /\ reader.pc = "read" /\ reader.want \in Nat /\ reader.want > 0
      /\ reader \in [pc : ReaderPlaces, want : Nat, fd : BOOLEAN]
      /\ flags \in [stop : BOOLEAN, ended : BOOLEAN]
  BY DEF Reads, ReaderLeaves, ReaderAwake, StreamInv, StreamTypes, NeverIdle
<1>2. /\ RingCapacity \in Nat \ {0} /\ ring.fill \in Nat /\ ring.fill <= RingCapacity
      /\ taken \in Seq(Nat) /\ Len(taken) \in Nat
  BY StreamBounds, LenProperties DEF StreamInv, StreamTypes, RingSet
<1>3. CASE UNCHANGED <<ring, taken>> /\ UNCHANGED reader
  BY <1>1, <1>3, ReaderMoves
<1>4. CASE UNCHANGED <<ring, taken>> /\ reader' = [reader EXCEPT !.pc = "free"]
  <2>1. reader' \in [pc : ReaderPlaces, want : Nat, fd : BOOLEAN] /\ reader'.pc = "free"
    BY <1>1, <1>4 DEF ReaderPlaces
  <2> QED
    BY <1>1, <1>4, <2>1, ReaderMoves
<1>5. ASSUME NEW n, n = Lesser(reader.want, ring.fill), ring.fill > 0,
             taken' = taken \o SubSeq(Content, 1, n),
             ring' = [ring EXCEPT !.tail = (@ + n) % RingCapacity, !.fill = @ - n],
             reader' = [reader EXCEPT !.want = @ - n, !.pc = IF n = reader.want THEN "free" ELSE "read"]
      PROVE  StreamInv' /\ QueueMoves
  <2>1. n \in Nat /\ n > 0 /\ n <= ring.fill /\ n <= reader.want /\ n \in 1 .. ring.fill
    BY <1>1, <1>2, <1>5, LesserNat
  <2>2. /\ Content \in Seq(Nat) /\ Len(Content) = ring.fill
        /\ \A i \in 1 .. ring.fill : Content[i] = Len(taken) + i
    BY ContentIs DEF StreamInv
  <2>3. PICK s \in Seq(Nat) : s = SubSeq(Content, 1, n) /\ Len(s) = n
    BY <2>1, <2>2, Cut
  <2>4. taken' \in Seq(Nat) /\ Len(taken') = Len(taken) + n
    BY <1>2, <1>5, <2>3, ConcatProperties
  <2>5. /\ ring' \in RingSet /\ ring'.fill = ring.fill - n /\ ring'.head = Turn(ring'.tail + ring'.fill)
        /\ \A i \in 1 .. ring'.fill : ring'.cell[Turn(ring'.tail + (i - 1))] = Len(taken) + n + i
    <3>1. PICK r : r = Without(n)
      OBVIOUS
    <3>2. StreamTypes /\ InSequence /\ ring' = r
      BY <1>5, <3>1 DEF StreamInv, Without
    <3>3. /\ r \in RingSet /\ r.fill = ring.fill - n
          /\ r.head = Turn(r.tail + r.fill)
          /\ \A i \in 1 .. r.fill : r.cell[Turn(r.tail + (i - 1))] = Len(taken) + n + i
      BY <2>1, <3>1, <3>2, TakeEffect
    <3> QED
      BY <3>2, <3>3
  <2>6. /\ reader' \in [pc : ReaderPlaces, want : Nat, fd : BOOLEAN]
        /\ reader'.pc = "read" => reader'.want > 0
    <3>1. reader.want - n \in Nat /\ (n # reader.want => reader.want - n > 0)
      BY <1>1, <2>1
    <3> QED
      BY <1>1, <1>5, <3>1 DEF ReaderPlaces
  <2>7. StreamTypes' /\ NeverIdle'
    BY <1>1, <2>4, <2>5, <2>6 DEF StreamInv, StreamTypes, NeverIdle
  <2>8. InSequence'
    <3>1. Len(taken') + ring'.fill = Len(taken) + ring.fill
      BY <1>2, <2>1, <2>4, <2>5
    <3>2. \A i \in 1 .. ring'.fill : ring'.cell[Turn(ring'.tail + (i - 1))] = Len(taken') + i
      BY <2>4, <2>5
    <3> QED
      BY <1>1, <2>5, <3>1, <3>2 DEF StreamInv, InSequence
  <2>9. StreamInv'
    BY <1>1, <2>7, <2>8 DEF StreamInv
  <2>10. Content' = SubSeq(Content, n + 1, Len(Content))
    <3>1. (/\ Content \in Seq(Nat) /\ Len(Content) = ring.fill
           /\ \A i \in 1 .. ring.fill : Content[i] = Len(taken) + i)'
      BY <2>7, <2>8, ContentIs, PTL
    <3>2. PICK t \in Seq(Nat) : /\ t = SubSeq(Content, n + 1, Len(Content)) /\ Len(t) = ring.fill - n
                                /\ \A i \in 1 .. ring.fill - n : t[i] = Content[n + i]
      <4>1. n <= Len(Content)
        BY <2>1, <2>2
      <4>2. /\ SubSeq(Content, n + 1, Len(Content)) \in Seq(Nat)
            /\ Len(SubSeq(Content, n + 1, Len(Content))) = Len(Content) - n
            /\ \A i \in 1 .. Len(Content) - n : SubSeq(Content, n + 1, Len(Content))[i] = Content[n + i]
        BY <2>1, <2>2, <4>1, Cut, Zenon
      <4> QED
        BY <2>2, <4>2
    <3>3. Len(Content') = ring.fill - n /\ \A i \in 1 .. ring.fill - n : Content'[i] = Len(taken) + n + i
      BY <2>4, <2>5, <3>1
    <3>4. ASSUME NEW i \in 1 .. ring.fill - n
          PROVE  t[i] = Content'[i]
      <4>1. n + i \in 1 .. ring.fill /\ Len(taken) + (n + i) = Len(taken) + n + i
        BY <1>2, <2>1
      <4>2. Content[n + i] = Len(taken) + (n + i)
        BY <2>2, <4>1
      <4> QED
        BY <3>2, <3>3, <4>1, <4>2
    <3> QED
      BY <3>1, <3>2, <3>3, <3>4, SeqEqual
  <2>11. Bytes!Take(n)
    BY <1>1, <1>5, <2>10 DEF Bytes!Take
  <2> QED
    BY <2>1, <2>2, <2>9, <2>11 DEF QueueMoves, Bytes!QueueNext
<1> QED
  BY <1>3, <1>4, <1>5 DEF Reads, ReaderGoes

\* The end of the stream, declared once by the pump as it leaves.
LEMMA PumpEnds ==
    ASSUME StreamInv, Ends
    PROVE  StreamInv' /\ QueueMoves
<1>1. /\ UNCHANGED <<drawn, ring, reader, taken>> /\ pump.pc = "end" /\ pump \in PumpSet
      /\ pump' = [pump EXCEPT !.pc = "gone"] /\ flags' = [flags EXCEPT !.ended = TRUE]
      /\ flags \in [stop : BOOLEAN, ended : BOOLEAN]
  BY DEF Ends, PumpLeaves, PumpAwake, PumpGoes, StreamInv, StreamTypes
<1>2. pump' \in PumpSet /\ pump'.pc = "gone" /\ pump'.held = pump.held
  BY <1>1 DEF PumpSet, PumpPlaces
<1>3. flags' \in [stop : BOOLEAN, ended : BOOLEAN] /\ flags'.ended
  BY <1>1, Zenon
<1>4. StreamTypes' /\ NeverIdle'
  BY <1>1, <1>2, <1>3 DEF StreamInv, StreamTypes, NeverIdle
<1>5. InSequence'
  BY <1>1, <1>2 DEF StreamInv, InSequence
<1>6. Bytes!Finish
  BY <1>1, <1>3 DEF Bytes!Finish, Content
<1> QED
  BY <1>2, <1>3, <1>4, <1>5, <1>6 DEF StreamInv, QueueMoves, Bytes!QueueNext

\* Every step keeps the invariant, and is a step of the queue or none.
LEMMA StepStream ==
    ASSUME StreamInv, [StreamNext]_streamVars
    PROVE  StreamInv' /\ QueueMoves
<1>1. /\ reader \in [pc : ReaderPlaces, want : Nat, fd : BOOLEAN]
      /\ flags \in [stop : BOOLEAN, ended : BOOLEAN]
      /\ reader.pc = "read" => reader.want > 0
  BY DEF StreamInv, StreamTypes, NeverIdle
<1>2. CASE PumpStep
  BY <1>2, PumpReads, PumpPushes, PumpEnds, QueueRests DEF PumpStep, QueueMoves
<1>3. CASE Reads
  BY <1>3, ReaderReads
<1>4. CASE RequestsStop
  <2>1. reader' \in [pc : ReaderPlaces, want : Nat, fd : BOOLEAN] /\ reader'.pc = "look"
    BY <1>1, <1>4 DEF RequestsStop, ReaderGoes, ReaderPlaces
  <2>2. flags' \in [stop : BOOLEAN, ended : BOOLEAN] /\ flags'.ended = flags.ended
    BY <1>1, <1>4, Zenon DEF RequestsStop
  <2> QED
    BY <1>4, <2>1, <2>2, ReaderMoves DEF RequestsStop, ReaderLeaves
<1>5. CASE LooksAtSocket
  <2>1. reader' \in [pc : ReaderPlaces, want : Nat, fd : BOOLEAN] /\ reader'.pc = "shut"
    BY <1>1, <1>5 DEF LooksAtSocket, ReaderPlaces
  <2> QED
    BY <1>1, <1>5, <2>1, ReaderMoves DEF LooksAtSocket, ReaderLeaves
<1>6. CASE ShutsDown
  <2>1. reader' \in [pc : ReaderPlaces, want : Nat, fd : BOOLEAN] /\ reader'.pc = "join"
    BY <1>1, <1>6 DEF ShutsDown, ReaderGoes, ReaderPlaces
  <2> QED
    BY <1>1, <1>6, <2>1, ReaderMoves DEF ShutsDown, ReaderLeaves
<1>7. CASE Joins
  <2>1. reader' \in [pc : ReaderPlaces, want : Nat, fd : BOOLEAN] /\ reader'.pc = "gone"
    BY <1>1, <1>7 DEF Joins, ReaderGoes, ReaderPlaces
  <2> QED
    BY <1>1, <1>7, <2>1, ReaderMoves DEF Joins, ReaderLeaves
<1>8. ASSUME NEW n \in 1 .. MaxRequest, AsksFor(n)
      PROVE  StreamInv' /\ QueueMoves
  <2>1. n \in Nat /\ n > 0
    OBVIOUS
  <2>2. reader' \in [pc : ReaderPlaces, want : Nat, fd : BOOLEAN] /\ reader'.want = n
    BY <1>1, <1>8, <2>1 DEF AsksFor, ReaderPlaces
  <2> QED
    BY <1>1, <1>8, <2>1, <2>2, ReaderMoves DEF AsksFor, ReaderLeaves
<1>9. CASE Closes
  <2>1. reader' \in [pc : ReaderPlaces, want : Nat, fd : BOOLEAN] /\ reader'.pc = "stop"
    BY <1>1, <1>9 DEF Closes, ReaderGoes, ReaderPlaces
  <2> QED
    BY <1>1, <1>9, <2>1, ReaderMoves DEF Closes, ReaderLeaves
<1>10. CASE ServerSends \/ ServerEnds \/ DescriptorReused \/ UNCHANGED streamVars
  BY <1>1, <1>10, ReaderMoves DEF ServerSends, ServerEnds, DescriptorReused, streamVars
<1> QED
  BY <1>2, <1>3, <1>4, <1>5, <1>6, <1>7, <1>8, <1>9, <1>10 DEF StreamNext, ReaderStep

\* http_stream.c: to the decoder the stream is a bounded queue of the server's
\* bytes, in order, none lost or repeated before the end is declared, whatever the
\* size of the ring, of the pieces the pump reads and of the decoder's requests.
THEOREM StreamIsQueue == StreamSpec => ImplementsByteQueue
<1>1. StreamInit => StreamInv /\ Bytes!QueueInit
  BY InitStream
<1>2. StreamInv /\ [StreamNext]_streamVars
        => StreamInv' /\ [Bytes!QueueNext]_<<Content, taken, flags.ended>>
  BY StepStream DEF QueueMoves
<1> QED
  BY <1>1, <1>2, PTL DEF StreamSpec, ImplementsByteQueue, Bytes!QueueSpec
=============================================================================
