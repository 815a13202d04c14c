----------------------------- MODULE HttpRequest ----------------------------
(***************************************************************************)
(* A request that can be cancelled (network/http_conn.c, http_client.c):   *)
(* the name is resolved on a thread of its own that may be given up, the   *)
(* addresses are tried in turn, and the socket of the moment is registered *)
(* in a token through which another thread shuts it down.                  *)
(*                                                                         *)
(* Descriptors are numbers the whole program shares: a closed one may be   *)
(* the next socket of somebody else.  Who owns the resolver's context and  *)
(* the address list is part of the state, so that a use after the release, *)
(* a second release and a leak can be told.                                *)
(***************************************************************************)
EXTENDS Naturals, FiniteSets

CONSTANTS Fds,        \* descriptor numbers
          NoFd,
          Addresses,  \* addresses a name resolves to
          MaxHops     \* redirects followed

ASSUME RequestBounds ==
    /\ NoFd \notin Fds /\ IsFiniteSet(Fds)
    /\ Addresses \in Nat \ {0} /\ MaxHops \in Nat

VARIABLES
    timed,     \* connect_timeout_ms and read_timeout_ms are set
    request,   \* where the requesting thread is, the address and hop it is at, its socket
    token,     \* the cancel token: fd and cancel_requested
    holder,    \* holder[f]: whose socket the descriptor f is
    cut,       \* the request's own socket has been shut down
    cutOther,  \* a cancel shut down somebody else's socket
    resolver   \* resolver[h]: the resolver thread of hop h, its context and its list

requestVars == <<timed, request, token, holder, cut, cutOther, resolver>>

Hops == 0 .. MaxHops
RequestPlaces == {"start", "ask", "direct", "wait", "abandon", "reclaim", "list", "addr", "register",
                  "connect", "drop", "talk", "close", "end"}
ThreadPlaces == {"none", "asking", "answered", "exited"}
ListOwners == {"none", "thread", "ctx", "caller", "freed"}
Resolver == [pc : ThreadPlaces, abandoned : BOOLEAN, done : BOOLEAN,
             ctx : {"none", "live", "freed"}, list : ListOwners]

RequestTypeOK ==
    /\ timed \in BOOLEAN
    /\ request \in [pc : RequestPlaces, addr : 1 .. Addresses + 1, hop : Hops,
                    fd : Fds \cup {NoFd}, again : BOOLEAN]
    /\ token \in [fd : Fds \cup {NoFd}, cancelled : BOOLEAN]
    /\ holder \in [Fds -> {"nobody", "request", "other"}]
    /\ cut \in BOOLEAN /\ cutOther \in BOOLEAN
    /\ resolver \in [Hops -> Resolver]

RequestInit ==
    /\ timed \in BOOLEAN
    /\ request = [pc |-> "start", addr |-> 1, hop |-> 0, fd |-> NoFd, again |-> FALSE]
    /\ token = [fd |-> NoFd, cancelled |-> FALSE]
    /\ holder = [f \in Fds |-> "nobody"]
    /\ cut = FALSE /\ cutOther = FALSE
    /\ resolver = [h \in Hops |-> [pc |-> "none", abandoned |-> FALSE, done |-> FALSE,
                                   ctx |-> "none", list |-> "none"]]

Goes(pc) == request' = [request EXCEPT !.pc = pc]
Here == resolver[request.hop]
OnlyMoves == UNCHANGED <<timed, token, holder, cut, cutOther, resolver>>
ListGoes(to) == resolver' = [resolver EXCEPT ![request.hop].list = to]

----------------------------------------------------------------------------
\* Resolving the name: dns_resolve_bounded() and its thread

\* The hop begins, unless it is cancelled, its deadline has passed or its URL
\* cannot be parsed.
Starts ==
    /\ request.pc = "start"
    /\ \/ ~token.cancelled /\ Goes("ask")
       \/ Goes("end")
    /\ OnlyMoves

\* The context is made and the thread started; without a thread the name is
\* resolved in place, without a timeout.
Asks ==
    /\ request.pc = "ask"
    /\ \/ token.cancelled /\ Goes("close") /\ UNCHANGED resolver
       \/ /\ ~token.cancelled
          /\ \/ Goes("wait") /\ resolver' = [resolver EXCEPT ![request.hop].pc = "asking",
                                                             ![request.hop].ctx = "live"]
             \/ Goes("direct") /\ UNCHANGED resolver
             \/ Goes("close") /\ UNCHANGED resolver
    /\ UNCHANGED <<timed, token, holder, cut, cutOther>>

\* getaddrinfo() returns to the caller itself, whenever it does.
AnswersInPlace ==
    /\ request.pc = "direct"
    /\ \/ Goes("list") /\ ListGoes("caller")
       \/ Goes("close") /\ UNCHANGED resolver
    /\ UNCHANGED <<timed, token, holder, cut, cutOther>>

\* getaddrinfo() returns, whenever it does, with a list or without.
Answers(h) ==
    /\ resolver[h].pc = "asking"
    /\ \E l \in {"none", "thread"} :
         resolver' = [resolver EXCEPT ![h].pc = "answered", ![h].list = l]
    /\ UNCHANGED <<timed, request, token, holder, cut, cutOther>>

\* Under the context's mutex: abandoned, the thread releases everything
\* itself; otherwise it leaves the answer in the context.
HandedOver(r) ==
    IF r.abandoned
    THEN [r EXCEPT !.pc = "exited", !.ctx = "freed",
                   !.list = IF @ = "thread" THEN "freed" ELSE @]
    ELSE [r EXCEPT !.pc = "exited", !.done = TRUE,
                   !.list = IF @ = "thread" THEN "ctx" ELSE @]

HandsOver(h) ==
    /\ resolver[h].pc = "answered"
    /\ resolver' = [resolver EXCEPT ![h] = HandedOver(@)]
    /\ UNCHANGED <<timed, request, token, holder, cut, cutOther>>

\* With the answer: the context is released, a list becomes the caller's.
TakesAnswer ==
    /\ resolver' = [resolver EXCEPT ![request.hop].ctx = "freed",
                        ![request.hop].list = IF @ = "ctx" THEN "caller" ELSE @]
    /\ Goes(IF Here.list = "ctx" THEN "list" ELSE "close")

\* The join succeeds, or the deadline passes first.
Waits ==
    /\ request.pc = "wait"
    /\ \/ Here.pc = "exited" /\ TakesAnswer
       \/ timed /\ Goes("abandon") /\ UNCHANGED resolver
    /\ UNCHANGED <<timed, token, holder, cut, cutOther>>

\* Under the context's mutex: the thread is told, and whether it had already
\* finished decides who releases the context.
Abandons ==
    /\ request.pc = "abandon"
    /\ resolver' = [resolver EXCEPT ![request.hop].abandoned = TRUE]
    /\ Goes(IF Here.done THEN "reclaim" ELSE "close")
    /\ UNCHANGED <<timed, token, holder, cut, cutOther>>

Reclaims ==
    /\ request.pc = "reclaim" /\ Here.pc = "exited"
    /\ TakesAnswer
    /\ UNCHANGED <<timed, token, holder, cut, cutOther>>

----------------------------------------------------------------------------
\* Connecting: net_connect_timeout()

ChecksList ==
    /\ request.pc = "list"
    /\ \/ token.cancelled /\ ListGoes("freed") /\ Goes("close")
       \/ /\ ~token.cancelled /\ UNCHANGED resolver
          /\ request' = [request EXCEPT !.pc = "addr", !.addr = 1]
    /\ UNCHANGED <<timed, token, holder, cut, cutOther>>

\* A socket for the next address; after the last one the list is released.
TriesAddress ==
    /\ request.pc = "addr"
    /\ \/ /\ request.addr > Addresses
          /\ ListGoes("freed") /\ Goes("close")
          /\ UNCHANGED <<holder, cut>>
       \/ /\ request.addr <= Addresses /\ UNCHANGED resolver
          /\ \/ \E f \in Fds :
                  /\ holder[f] = "nobody"
                  /\ holder' = [holder EXCEPT ![f] = "request"] /\ cut' = FALSE
                  /\ request' = [request EXCEPT !.pc = "register", !.fd = f]
             \/ /\ request' = [request EXCEPT !.addr = @ + 1]
                /\ UNCHANGED <<holder, cut>>
    /\ UNCHANGED <<timed, token, cutOther>>

\* Mutant: a socket is registered although the token is already cancelled.
RegistersAnyway ==
    /\ request.pc = "register"
    /\ token' = [token EXCEPT !.fd = request.fd]
    /\ Goes("connect")
    /\ UNCHANGED <<timed, holder, cut, cutOther, resolver>>

\* cancel_register(): refused once the token is cancelled.
Registers ==
    /\ request.pc = "register"
    /\ \/ /\ token.cancelled
          /\ holder' = [holder EXCEPT ![request.fd] = "nobody"]
          /\ request' = [request EXCEPT !.pc = "close", !.fd = NoFd]
          /\ ListGoes("freed")
          /\ UNCHANGED token
       \/ /\ ~token.cancelled
          /\ token' = [token EXCEPT !.fd = request.fd]
          /\ Goes("connect")
          /\ UNCHANGED <<holder, resolver>>
    /\ UNCHANGED <<timed, cut, cutOther>>

\* The server accepts or refuses, when it likes.
ServerConnects ==
    /\ request.pc = "connect"
    /\ \/ Goes("talk") /\ ListGoes("freed")
       \/ Goes("drop") /\ UNCHANGED resolver
    /\ UNCHANGED <<timed, token, holder, cut, cutOther>>

\* A shutdown ends the poll, and so does its timeout.
ConnectGivesUp ==
    /\ request.pc = "connect"
    /\ cut \/ timed
    /\ Goes("drop")
    /\ OnlyMoves

\* Mutant: the descriptor stays in the token.
StillRegistered(f) == token

Unregistered(f) == [token EXCEPT !.fd = IF @ = f THEN NoFd ELSE @]

\* cancel_unregister_and_close(): both under the token's mutex.
cancel_unregister_and_close ==
    /\ token' = Unregistered(request.fd)
    /\ holder' = [holder EXCEPT ![request.fd] = "nobody"]

DropsSocket ==
    /\ request.pc = "drop"
    /\ cancel_unregister_and_close
    /\ request' = [request EXCEPT !.pc = "addr", !.addr = @ + 1, !.fd = NoFd]
    /\ UNCHANGED <<timed, cut, cutOther, resolver>>

----------------------------------------------------------------------------
\* Talking: the handshake, the request and the response

\* The answer is complete, perhaps a redirect, or the connection fails.
ServerAnswers ==
    /\ request.pc = "talk"
    /\ \E r \in BOOLEAN : request' = [request EXCEPT !.pc = "close", !.again = r]
    /\ OnlyMoves

TalkGivesUp ==
    /\ request.pc = "talk"
    /\ cut \/ timed
    /\ request' = [request EXCEPT !.pc = "close", !.again = FALSE]
    /\ OnlyMoves

\* http_conn_close(), then the next hop of a redirect or the end.
ClosesConn ==
    /\ request.pc = "close"
    /\ token' = Unregistered(request.fd)
    /\ holder' = [f \in Fds |-> IF f = request.fd THEN "nobody" ELSE holder[f]]
    /\ request' = IF request.again /\ request.hop < MaxHops
                  THEN [request EXCEPT !.pc = "start", !.hop = @ + 1, !.fd = NoFd, !.again = FALSE]
                  ELSE [request EXCEPT !.pc = "end", !.fd = NoFd, !.again = FALSE]
    /\ UNCHANGED <<timed, cut, cutOther, resolver>>

RequestStep ==
    \/ Starts \/ Asks \/ Waits \/ Abandons \/ Reclaims \/ ChecksList \/ TriesAddress
    \/ Registers \/ ConnectGivesUp \/ DropsSocket \/ TalkGivesUp \/ ClosesConn

----------------------------------------------------------------------------
\* The other threads

\* http_cancel_token_cancel(), at any time and as often as the user likes.
http_cancel_token_cancel ==
    /\ token' = [token EXCEPT !.cancelled = TRUE]
    /\ IF token.fd = NoFd THEN UNCHANGED <<cut, cutOther>>
       ELSE /\ cut' = (cut \/ holder[token.fd] = "request")
            /\ cutOther' = (cutOther \/ holder[token.fd] # "request")
    /\ UNCHANGED <<timed, request, holder, resolver>>

OthersOpenOrClose ==
    /\ \E f \in Fds :
         \/ holder[f] = "nobody" /\ holder' = [holder EXCEPT ![f] = "other"]
         \/ holder[f] = "other" /\ holder' = [holder EXCEPT ![f] = "nobody"]
    /\ UNCHANGED <<timed, request, token, cut, cutOther, resolver>>

RequestNext ==
    \/ RequestStep \/ AnswersInPlace \/ ServerConnects \/ ServerAnswers
    \/ \E h \in Hops : Answers(h) \/ HandsOver(h)
    \/ http_cancel_token_cancel \/ OthersOpenOrClose

RequestSpec == RequestInit /\ [][RequestNext]_requestVars

\* The threads run; neither the server nor the name server owes an answer.
RequestFairSpec ==
    /\ RequestSpec
    /\ WF_requestVars(RequestStep)
    /\ \A h \in Hops : WF_requestVars(HandsOver(h))

----------------------------------------------------------------------------
\* Properties

\* A cancel never reaches a socket of another part of the program: from the
\* moment a descriptor is closed it is out of the token, across every retry,
\* redirect and reuse of its number.
CancelHitsOwnSocket == ~cutOther

\* Whoever is about to touch the context finds it alive: the thread until it
\* has handed over, the caller until it has the answer or has let go.
ContextAlive ==
    \A h \in Hops :
        \/ resolver[h].pc \in {"asking", "answered"}
        \/ h = request.hop /\ request.pc \in {"wait", "abandon", "reclaim"}
        => resolver[h].ctx = "live"

\* The context and the list are released exactly once, whoever came last.
NothingLeaked ==
    \A h \in Hops :
        resolver[h].pc \in {"none", "exited"} /\ (h < request.hop \/ request.pc = "end") =>
            resolver[h].ctx # "live" /\ resolver[h].list \in {"none", "freed"}

\* Cancelling ends the request, except in a resolution without a timeout, which
\* is any that had to be made in place.
CancelEnds ==
    <>[](token.cancelled =>
           \/ request.pc \in {"end", "direct"}
           \/ ~timed /\ request.pc = "wait")

\* What two threads share is never used after it was given back, nor kept.
RequestSound == CancelHitsOwnSocket /\ ContextAlive /\ NothingLeaked
=============================================================================
