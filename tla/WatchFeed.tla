----------------------------- MODULE WatchFeed -----------------------------
(***************************************************************************)
(* GET /watch (src/api/server.ts) over fetchWatchEvents (src/store/        *)
(* watch.ts): each connection runs a poll loop of its own over write_log,  *)
(* with a cursor, a bounded batch, a bounded unflushed buffer and one of a *)
(* bounded number of slots.  Clients vanish, polls fail, and a client that *)
(* lost its stream reconnects with the last token it received.  The store  *)
(* is the abstract one; TupleStoreProofs proves that the write path        *)
(* implements it.                                                          *)
(***************************************************************************)
EXTENDS AtomicStore, FiniteSets, SequencesExt

CONSTANTS Watchers,        \* clients of /watch
          Streams,         \* activations of the route handler
          Scope,           \* the tuples the ?namespace filter lets through
          BatchLimit,      \* WATCH_DEFAULT_BATCH_LIMIT
          MaxBuffered,     \* WATCH_MAX_BUFFERED_BYTES, in frames
          MaxConnections   \* WATCH_MAX_CONNECTIONS

ASSUME WatchAssumption == /\ Scope \subseteq Facts
                          /\ BatchLimit \in Nat \ {0}
                          /\ MaxBuffered \in Nat \ {0}
                          /\ MaxConnections \in Nat \ {0}
                          /\ IsFiniteSet(Streams)
                          /\ Tokens \subseteq Nat \ {0}
                          /\ None \notin Nat \cup Streams \cup Watchers

VARIABLES hpc,             \* where each handler is
          who,             \* the client it serves
          cursor,          \* sinceToken, later cursor: None until it is resolved
          batch,           \* tokens of the events a poll returned
          closed,          \* the handler's own flag
          emitted,         \* 'close' was emitted on request.raw
          openWatchConnections,
          link,            \* the handler a client is connected to, or None
          wire,            \* frames written to a client and not yet received
          mark,            \* last token a client got in an event or connected frame
          origin,          \* token of the first connected frame it got
          received         \* tokens of all events it got, over all its streams

handlerVars == <<hpc, who, cursor, batch, closed, emitted, openWatchConnections>>
clientVars == <<link, wire, mark, origin, received>>
watchVars == <<rows, history, handlerVars, clientVars>>

Streaming == {"polling", "fetched", "sleeping"}   \* past reply.hijack()
HandlerStates == {"free", "starting", "resolving"} \cup Streaming
Frames == [event : BOOLEAN, token : Nat]          \* event = FALSE: the connected frame

WatchInit == /\ Init
             /\ hpc = [h \in Streams |-> "free"]
             /\ who = [h \in Streams |-> None]
             /\ cursor = [h \in Streams |-> None]
             /\ batch = [h \in Streams |-> << >>]
             /\ closed = [h \in Streams |-> FALSE]
             /\ emitted = [h \in Streams |-> FALSE]
             /\ openWatchConnections = 0
             /\ link = [w \in Watchers |-> None]
             /\ wire = [w \in Watchers |-> << >>]
             /\ mark = [w \in Watchers |-> None]
             /\ origin = [w \in Watchers |-> None]
             /\ received = [w \in Watchers |-> << >>]

-----------------------------------------------------------------------------
Served(h) == who[h] # None /\ link[who[h]] = h

\* currentToken(pool) ?? 0
CurrentToken == IF history = << >> THEN 0 ELSE Last(history).token

\* A request reaches the handler; since = None when ?since is omitted, and only
\* then does the handler await anything before it streams.
Request(w, h, since) ==
    /\ link[w] = None
    /\ wire[w] = << >>
    /\ hpc[h] = "free"
    /\ hpc' = [hpc EXCEPT ![h] = IF since = None THEN "resolving" ELSE "starting"]
    /\ who' = [who EXCEPT ![h] = w]
    /\ cursor' = [cursor EXCEPT ![h] = since]
    /\ link' = [link EXCEPT ![w] = h]
    /\ UNCHANGED <<rows, history, batch, closed, emitted, openWatchConnections,
                   wire, mark, origin, received>>

\* A client's first request asks for any token or for none; once it knows
\* where it is, it asks for that.
Connect(w, h) ==
    \E since \in IF mark[w] = None THEN {None, 0} \cup Tokens ELSE {mark[w]} :
        Request(w, h, since)

\* A browser's EventSource opened without ?since reconnects by itself once an
\* event gave it an id: the same URL, and that id in a Last-Event-ID header,
\* which no code reads.
ResendLastEventId(w, h) == received[w] # << >> /\ Request(w, h, None)

ResolveSince(h) ==
    /\ hpc[h] = "resolving"
    /\ cursor[h] = None
    /\ cursor' = [cursor EXCEPT ![h] = CurrentToken]
    /\ UNCHANGED <<rows, history, hpc, who, batch, closed, emitted, openWatchConnections,
                   clientVars>>

\* The handler's locals go; the response ends, what was written still arrives.
Forget(h) == /\ hpc' = [hpc EXCEPT ![h] = "free"]
             /\ who' = [who EXCEPT ![h] = None]
             /\ cursor' = [cursor EXCEPT ![h] = None]
             /\ batch' = [batch EXCEPT ![h] = << >>]
             /\ closed' = [closed EXCEPT ![h] = FALSE]
             /\ emitted' = [emitted EXCEPT ![h] = FALSE]
             /\ link' = IF Served(h) THEN [link EXCEPT ![who[h]] = None] ELSE link

\* Frames written to a client that is gone are dropped.
Written(h, frames) ==
    IF Served(h) THEN [wire EXCEPT ![who[h]] = @ \o frames] ELSE wire

\* 503 at the cap, else hijack, the connected frame, a slot and the 'close'
\* listener; a 'close' emitted before this point is never heard.
Open(h) ==
    /\ hpc[h] \in {"starting", "resolving"}
    /\ cursor[h] # None
    /\ IF openWatchConnections >= MaxConnections
       THEN Forget(h) /\ UNCHANGED <<openWatchConnections, wire>>
       ELSE /\ openWatchConnections' = openWatchConnections + 1
            /\ hpc' = [hpc EXCEPT ![h] = "polling"]
            /\ wire' = Written(h, <<[event |-> FALSE, token |-> cursor[h]]>>)
            /\ UNCHANGED <<who, cursor, batch, closed, emitted, link>>
    /\ UNCHANGED <<rows, history, mark, origin, received>>

\* The finally block.
CloseStream(h) == Forget(h) /\ openWatchConnections' = openWatchConnections - 1

\* order by token.
Ascending(S) ==
    CHOOSE s \in [1..Cardinality(S) -> S] : \A i, j \in DOMAIN s : i < j => s[i] < s[j]
FirstOf(s) == SubSeq(s, 1, IF Len(s) < BatchLimit THEN Len(s) ELSE BatchLimit)

TokensFor(facts, c) ==
    { history[i].token : i \in { i \in DOMAIN history : /\ history[i].token > c
                                                      /\ history[i].fact \in facts } }

\* What is due to a stream whose cursor is c.
Due(c) == TokensFor(Scope, c)

FetchTokens(h, tokens) ==
    /\ hpc[h] = "polling"
    /\ batch' = [batch EXCEPT ![h] = tokens]
    /\ hpc' = [hpc EXCEPT ![h] = "fetched"]
    /\ UNCHANGED <<rows, history, who, cursor, closed, emitted, openWatchConnections, clientVars>>

\* Mutant: the namespace filter is applied to the batch, after LIMIT.
FetchThenFilter(h) ==
    LET got == FirstOf(Ascending(TokensFor(Facts, cursor[h])))
    IN  FetchTokens(h, Ascending(Range(got) \cap Due(cursor[h])))

\* Mutant: token >= $1.
FetchInclusive(h) == FetchTokens(h, FirstOf(Ascending(Due(cursor[h] - 1))))

\* fetchWatchEvents: token > cursor in token order, filtered, then limited.
Fetch(h) == FetchTokens(h, FirstOf(Ascending(Due(cursor[h]))))

\* Mutant: the slot is given back only on the regular way out of the loop.
PollFailsLeaking(h) ==
    /\ hpc[h] = "polling"
    /\ Forget(h)
    /\ UNCHANGED <<rows, history, openWatchConnections, wire, mark, origin, received>>

PollFails(h) ==
    /\ hpc[h] = "polling"
    /\ CloseStream(h)
    /\ UNCHANGED <<rows, history, wire, mark, origin, received>>

\* The poll has answered: without another await, leave if closed, write the
\* batch, move the cursor, leave if the client reads too slowly, and sleep
\* only when there was nothing to write.
Deliver(h) ==
    /\ hpc[h] = "fetched"
    /\ LET out == Written(h, [i \in DOMAIN batch[h] |-> [event |-> TRUE, token |-> batch[h][i]]])
       IN  \/ /\ closed[h]
              /\ CloseStream(h)
              /\ wire' = wire
           \/ /\ ~closed[h]
              /\ wire' = out
              /\ IF Served(h) /\ Len(out[who[h]]) > MaxBuffered
                 THEN CloseStream(h)
                 ELSE /\ cursor' = [cursor EXCEPT ![h] = IF batch[h] = << >> THEN @
                                                         ELSE Last(batch[h])]
                      /\ batch' = [batch EXCEPT ![h] = << >>]
                      /\ hpc' = [hpc EXCEPT ![h] = IF batch[h] = << >> THEN "sleeping"
                                                   ELSE "polling"]
                      /\ UNCHANGED <<who, closed, emitted, openWatchConnections, link>>
    /\ UNCHANGED <<rows, history, mark, origin, received>>

\* sleep(WATCH_POLL_INTERVAL_MS) is over: while (!closed).
Wake(h) ==
    /\ hpc[h] = "sleeping"
    /\ IF closed[h] THEN CloseStream(h)
       ELSE /\ hpc' = [hpc EXCEPT ![h] = "polling"]
            /\ UNCHANGED <<who, cursor, batch, closed, emitted, openWatchConnections, link>>
    /\ UNCHANGED <<rows, history, wire, mark, origin, received>>

\* Node emits 'close' once; the flag is set if the listener is there by then.
EmitClose(h) ==
    /\ hpc[h] \in {"resolving"} \cup Streaming
    /\ ~Served(h)
    /\ ~emitted[h]
    /\ emitted' = [emitted EXCEPT ![h] = TRUE]
    /\ closed' = [closed EXCEPT ![h] = hpc[h] \in Streaming]
    /\ UNCHANGED <<rows, history, hpc, who, cursor, batch, openWatchConnections, clientVars>>

-----------------------------------------------------------------------------
\* The client reads its next frame.
Receive(w) ==
    /\ wire[w] # << >>
    /\ LET f == Head(wire[w])
       IN  /\ mark' = [mark EXCEPT ![w] = f.token]
           /\ origin' = [origin EXCEPT ![w] = IF @ = None THEN f.token ELSE @]
           /\ received' = [received EXCEPT ![w] = IF f.event THEN Append(@, f.token) ELSE @]
    /\ wire' = [wire EXCEPT ![w] = Tail(@)]
    /\ UNCHANGED <<rows, history, handlerVars, link>>

\* The client goes away, or its connection breaks: what is on its way is lost.
Vanish(w) ==
    /\ link[w] # None \/ wire[w] # << >>
    /\ link' = [link EXCEPT ![w] = None]
    /\ wire' = [wire EXCEPT ![w] = << >>]
    /\ UNCHANGED <<rows, history, handlerVars, mark, origin, received>>

Proceed(h) == ResolveSince(h) \/ Open(h) \/ Fetch(h) \/ Deliver(h) \/ Wake(h)

HandlerStep(h) == Proceed(h) \/ PollFails(h) \/ EmitClose(h)

Write == Next /\ UNCHANGED <<handlerVars, clientVars>>

WatchNext == \/ Write
             \/ \E w \in Watchers : \/ \E h \in Streams : Connect(w, h)
                                    \/ Receive(w)
                                    \/ Vanish(w)
             \/ \E h \in Streams : HandlerStep(h)

WatchSpec == WatchInit /\ [][WatchNext]_watchVars

\* Clients that leave reconnecting to the browser.
BrowserNext == \/ Write
               \/ \E w \in Watchers : \/ \E h \in Streams : IF received[w] = << >>
                                                            THEN Connect(w, h)
                                                            ELSE ResendLastEventId(w, h)
                                      \/ Receive(w)
                                      \/ Vanish(w)
               \/ \E h \in Streams : HandlerStep(h)

BrowserSpec == WatchInit /\ [][BrowserNext]_watchVars

\* The event loop runs every handler whose await is over, the poll timer
\* fires, TCP reports a client that is gone (a heartbeat is written to a silent
\* one), and a client that stays reads what it is sent.
WatchFairness == /\ \A h \in Streams : /\ WF_watchVars(Proceed(h))
                                       /\ WF_watchVars(EmitClose(h))
                 /\ \A w \in Watchers : WF_watchVars(Receive(w))

FairWatchSpec == WatchSpec /\ WatchFairness

-----------------------------------------------------------------------------
\* The type of the variables this module adds.
WatchTypeOK ==
    /\ hpc \in [Streams -> HandlerStates]
    /\ who \in [Streams -> Watchers \cup {None}]
    /\ cursor \in [Streams -> Nat \cup {None}]
    /\ batch \in [Streams -> Seq(Tokens)]
    /\ closed \in [Streams -> BOOLEAN]
    /\ emitted \in [Streams -> BOOLEAN]
    /\ openWatchConnections \in Nat
    /\ link \in [Watchers -> Streams \cup {None}]
    /\ wire \in [Watchers -> Seq(Frames)]
    /\ mark \in [Watchers -> Nat \cup {None}]
    /\ origin \in [Watchers -> Nat \cup {None}]
    /\ received \in [Watchers -> Seq(Tokens)]

\* Over any number of broken and resumed streams a client gets every write of
\* its namespace after the token it started from, up to the last one it got,
\* each once and in commit order (server.ts:1856-1860, openapi-document.ts:1109:
\* reconnecting replays "anything missed losslessly").
WatchNoGap ==
    \A w \in Watchers : received[w] # << >> =>
        /\ \A i, j \in DOMAIN received[w] : i < j => received[w][i] < received[w][j]
        /\ Range(received[w]) = { t \in Due(origin[w]) : t <= Last(received[w]) }

\* On every way out of the loop a stream gives its slot back, once: the counter
\* is the number of open streams and never above the cap (server.ts:1448-1456).  A
\* client that does not read holds at most the buffer limit and one batch.
StreamsStayBounded ==
    /\ openWatchConnections = Cardinality({h \in Streams : hpc[h] \in Streaming})
    /\ openWatchConnections <= MaxConnections
    /\ \A w \in Watchers : Len(wire[w]) <= MaxBuffered + BatchLimit

\* Every committed write a connected client waits for reaches it, unless its
\* stream ends first.
EventArrives ==
    \A w \in Watchers, t \in Tokens :
        (/\ link[w] # None
         /\ origin[w] # None /\ origin[w] < t
         /\ \E i \in DOMAIN history : history[i].token = t /\ history[i].fact \in Scope)
        ~> (link[w] = None \/ \E i \in DOMAIN received[w] : received[w][i] = t)

\* "a genuinely gone client is noticed via request.raw's own 'close' event, at
\* the latest one WATCH_POLL_INTERVAL_MS tick later" (server.ts:1854-1856).
GoneClientIsNoticed == \A h \in Streams : (hpc[h] # "free" /\ ~Served(h)) ~> hpc[h] = "free"
=============================================================================
