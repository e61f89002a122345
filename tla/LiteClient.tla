----------------------------- MODULE LiteClient -----------------------------
(***************************************************************************)
(* lite::Client on one connection: the subscriptions of the core session,  *)
(* the data plane it fills while polling, the partitioner that splits a    *)
(* message of trades by symbol, and the dispatchers that hold the user's   *)
(* callbacks.  One thread alternates between the user's calls and poll();  *)
(* the exchange answers requests and sends data meanwhile.                 *)
(***************************************************************************)
EXTENDS Naturals, Sequences, SequencesExt, FiniteSets, Functions

CONSTANTS Symbol,
          MaxPerPoll,      \* MAX_MESSAGES_PER_POLL
          RingCapacity,    \* what a ring of the data plane holds
          MaxReq,          \* bound: calls of the user
          MaxInbox,        \* bound: messages on their way
          Hasty,           \* the user may subscribe a symbol being unsubscribed
          Requests,        \* the sets of symbols the user names in a call
          Batches          \* the trades of a message: sequences of symbols

VARIABLES managers,        \* the session's subscription managers, by channel
          dispatcher,      \* channel -> symbol -> the callbacks, in order
          buckets,         \* the partitioner's, for the symbols it ever saw
          rejections, trades, books,   \* the rings of the data plane
          pc,              \* "user", or the phase of poll()
          processed,       \* messages this poll has handled
          next_req,
          outbox,          \* requests on their way to the exchange
          inbox,           \* messages on their way to the client
          subscribed,      \* what the exchange serves
          heard            \* the callbacks of the last step: <<callback, trade>>

M == INSTANCE SubscriptionManager

rings == <<rejections, trades, books>>
core  == <<managers, next_req, outbox, subscribed>>
vars  == <<core, dispatcher, buckets, rings, pc, processed, inbox, heard>>

Channel == {"trade", "book"}
NoCallbacks == [s \in {} |-> <<>>]

Init ==
    /\ managers = [c \in Channel |-> M!NoSubscriptions]
    /\ dispatcher = [c \in Channel |-> NoCallbacks]
    /\ buckets = [s \in {} |-> <<>>]
    /\ rejections = <<>> /\ trades = <<>> /\ books = <<>>
    /\ pc = "user" /\ processed = 0
    /\ next_req = 1
    /\ outbox = <<>> /\ inbox = <<>>
    /\ subscribed = [c \in Channel |-> {}]
    /\ heard = <<>>

-----------------------------------------------------------------------------
(* The dispatcher.                                                         *)

add(map, S, cb) ==
    [s \in DOMAIN map \cup S |->
        (IF s \in DOMAIN map THEN map[s] ELSE <<>>) \o (IF s \in S THEN <<cb>> ELSE <<>>)]

remove(map, S) == Restrict(map, DOMAIN map \ S)

(* emit_trades calls the callback once per trade of the view.              *)
dispatch(map, s, view) ==
    IF s \notin DOMAIN map THEN <<>>
    ELSE FlattenSeq([i \in DOMAIN map[s] |-> [j \in DOMAIN view |-> <<map[s][i], view[j]>>]])

-----------------------------------------------------------------------------
(* The user's calls.  The callback is named after the request.             *)

Request(verb, c, S) == [verb |-> verb, channel |-> c, req |-> next_req, symbols |-> S]

Calling ==
    /\ pc = "user" /\ next_req <= MaxReq
    /\ next_req' = next_req + 1
    /\ heard' = <<>>
    /\ UNCHANGED <<buckets, rings, pc, processed, inbox, subscribed>>

subscribe(c, S) ==
    /\ Hasty \/ S \cap managers[c].unsubs.symbols = {}
    /\ Calling
    /\ LET asked == M!accepted(managers[c], S)
       IN  /\ managers' = [managers EXCEPT ![c] = M!register_subscription(@, S, next_req)]
           /\ outbox' = IF asked = {} THEN outbox
                        ELSE Append(outbox, Request("subscribe", c, asked))
    /\ dispatcher' = [dispatcher EXCEPT ![c] = add(@, S, next_req)]

unsubscribe(c, S) ==
    /\ Hasty \/ S \cap managers[c].unsubs.symbols = {}
    /\ Calling
    /\ outbox' = Append(outbox, Request("unsubscribe", c, S))
    /\ managers' = [managers EXCEPT ![c] = M!register_unsubscription(@, S, next_req)]
    /\ dispatcher' = [dispatcher EXCEPT ![c] = remove(@, S)]

-----------------------------------------------------------------------------
(* poll(): the session handles messages, then the client drains the rings. *)

(* A poll that finds no message changes nothing and is left out.           *)
poll ==
    /\ pc = "user" /\ inbox # <<>>
    /\ pc' = "session" /\ heard' = <<>>
    /\ UNCHANGED <<core, dispatcher, buckets, rings, processed, inbox>>

Push(ring, m) == IF Len(ring) < RingCapacity THEN Append(ring, m) ELSE ring

(* A mutant: a rejection is reported to the user and leaves the books.     *)
RejectionOnlyReported(c, m) ==
    CASE m.kind = "subscribed" /\ m.channel = c ->
            M!process_subscribe_ack(managers[c], m.req, m.symbol, TRUE)
      [] m.kind = "unsubscribed" /\ m.channel = c ->
            M!process_unsubscribe_ack(managers[c], m.req, m.symbol, TRUE)
      [] OTHER -> managers[c]

(* What the handler does to the session for an answer of the exchange.     *)
Handled(c, m) ==
    CASE m.kind = "subscribed" /\ m.channel = c ->
            M!process_subscribe_ack(managers[c], m.req, m.symbol, TRUE)
      [] m.kind = "unsubscribed" /\ m.channel = c ->
            M!process_unsubscribe_ack(managers[c], m.req, m.symbol, TRUE)
      [] m.kind = "rejected" /\ M!rejects(managers[c], m.req, m.symbol) ->
            M!try_process_rejection(managers[c], m.req, m.symbol)
      [] OTHER -> managers[c]

(* One round of the session's loop.  A message that finds its ring full is *)
(* released, and the loop ends.                                            *)
session_poll ==
    /\ pc = "session" /\ processed < MaxPerPoll /\ inbox # <<>>
    /\ LET m == Head(inbox)
           ring == CASE m.kind = "rejected" -> rejections
                     [] m.kind = "trades"   -> trades
                     [] m.kind = "book"     -> books
                     [] OTHER               -> <<>>
       IN  /\ managers' = [c \in Channel |-> Handled(c, m)]
           /\ rejections' = IF m.kind = "rejected" THEN Push(rejections, m) ELSE rejections
           /\ trades' = IF m.kind = "trades" THEN Push(trades, m) ELSE trades
           /\ books' = IF m.kind = "book" THEN Push(books, m) ELSE books
           /\ IF Len(ring) < RingCapacity
              THEN pc' = "session" /\ processed' = processed + 1
              ELSE pc' = "drain" /\ processed' = 0
    /\ inbox' = Tail(inbox)
    /\ UNCHANGED <<dispatcher, buckets, next_req, outbox, subscribed, heard>>

session_polled ==
    /\ pc = "session" /\ (processed = MaxPerPoll \/ inbox = <<>>)
    /\ pc' = "drain" /\ processed' = 0
    /\ UNCHANGED <<core, dispatcher, buckets, rings, inbox, heard>>

(* A mutant: a rejection is reported and the callbacks stay.               *)
RejectionKeepsCallbacks ==
    /\ pc = "drain" /\ rejections # <<>>
    /\ rejections' = Tail(rejections)
    /\ heard' = <<>>
    /\ UNCHANGED <<core, dispatcher, buckets, trades, books, pc, processed, inbox>>

(* A rejected symbol loses its callbacks on both channels.                 *)
drain_rejection ==
    /\ pc = "drain" /\ rejections # <<>>
    /\ dispatcher' = [c \in Channel |-> remove(dispatcher[c], {Head(rejections).symbol})]
    /\ rejections' = Tail(rejections)
    /\ heard' = <<>>
    /\ UNCHANGED <<core, buckets, trades, books, pc, processed, inbox>>

(* The positions of symbol s in the message.                               *)
Of(s, batch) == SelectSeq([i \in 1 .. Len(batch) |-> i], LAMBDA i : batch[i] = s)

(* A mutant: what the last message left in the buckets stays there.        *)
ClassifyWithoutClear(batch) ==
    [s \in DOMAIN buckets \cup Range(batch) |->
        (IF s \in DOMAIN buckets THEN buckets[s] ELSE <<>>) \o Of(s, batch)]

(* Every bucket is emptied, then filled in the order of the message; one   *)
(* that stays empty still makes a view.                                    *)
classify(batch) ==
    [s \in DOMAIN buckets \cup Range(batch) |-> Of(s, batch)]

(* The views are in the order of an unordered map.                         *)
drain_trades ==
    /\ pc = "drain" /\ rejections = <<>> /\ trades # <<>>
    /\ buckets' = classify(Head(trades).batch)
    /\ \E views \in SetToSeqs(DOMAIN buckets') :
          heard' = FlattenSeq([v \in DOMAIN views |->
                      dispatch(dispatcher["trade"], views[v], buckets'[views[v]])])
    /\ trades' = Tail(trades)
    /\ UNCHANGED <<core, dispatcher, rejections, books, pc, processed, inbox>>

drain_book ==
    /\ pc = "drain" /\ rejections = <<>> /\ trades = <<>> /\ books # <<>>
    /\ heard' = dispatch(dispatcher["book"], Head(books).symbol, <<1>>)
    /\ books' = Tail(books)
    /\ UNCHANGED <<core, dispatcher, buckets, rejections, trades, pc, processed, inbox>>

poll_returns ==
    /\ pc = "drain" /\ rejections = <<>> /\ trades = <<>> /\ books = <<>>
    /\ pc' = "user" /\ heard' = <<>>
    /\ UNCHANGED <<core, dispatcher, buckets, rings, processed, inbox>>

-----------------------------------------------------------------------------
(* The exchange grants or rejects each symbol of a request, and sends the  *)
(* data of the symbols it serves.  What arrives during a poll is as if it  *)
(* had arrived before it (the session still sees it) or after it.          *)

Answer(q, s, granted) ==
    IF s \notin granted THEN [kind |-> "rejected", req |-> q.req, symbol |-> s]
    ELSE [kind |-> IF q.verb = "subscribe" THEN "subscribed" ELSE "unsubscribed",
          channel |-> q.channel, req |-> q.req, symbol |-> s]

exchange_answers ==
    /\ pc = "user" /\ outbox # <<>>
    /\ LET q == Head(outbox)
           order == SetToSeq(q.symbols)
       IN  \E granted \in SUBSET q.symbols :
              /\ inbox' = inbox \o [i \in DOMAIN order |-> Answer(q, order[i], granted)]
              /\ subscribed' = [subscribed EXCEPT ![q.channel] =
                                  IF q.verb = "subscribe" THEN @ \cup granted ELSE @ \ granted]
    /\ outbox' = Tail(outbox)
    /\ UNCHANGED <<managers, next_req, dispatcher, buckets, rings, pc, processed, heard>>

exchange_sends ==
    /\ pc = "user" /\ Len(inbox) < MaxInbox
    /\ \/ \E batch \in Batches :
             /\ Range(batch) \subseteq subscribed["trade"]
             /\ inbox' = Append(inbox, [kind |-> "trades", batch |-> batch])
       \/ \E s \in subscribed["book"] :
             inbox' = Append(inbox, [kind |-> "book", symbol |-> s])
    /\ UNCHANGED <<core, dispatcher, buckets, rings, pc, processed, heard>>

Next ==
    \/ \E c \in Channel, S \in Requests : subscribe(c, S) \/ unsubscribe(c, S)
    \/ poll \/ session_poll \/ session_polled
    \/ drain_rejection \/ drain_trades \/ drain_book \/ poll_returns
    \/ exchange_answers \/ exchange_sends

(* The user keeps polling, and the exchange, which the model stops during  *)
(* a poll, answers what it is asked.                                       *)
Polling == session_poll \/ session_polled \/ drain_rejection \/ drain_trades
           \/ drain_book \/ poll_returns

Fairness == WF_vars(poll) /\ WF_vars(Polling) /\ SF_vars(exchange_answers)

Spec == Init /\ [][Next]_vars /\ Fairness

-----------------------------------------------------------------------------

Idle ==
    /\ \A c \in Channel : ~M!has_pending_requests(managers[c])
    /\ rings = <<<<>>, <<>>, <<>>>>
    /\ \A c \in Channel : DOMAIN dispatcher[c] = {}

(* A message of trades reaches its listeners exactly: when it is drained,  *)
(* every callback registered for a symbol is called once for each trade of *)
(* that symbol, in the order of the message, and no other callback is      *)
(* called, whatever symbols earlier messages left in the partitioner.      *)
TradesReachListeners ==
    [][drain_trades =>
         LET batch == Head(trades).batch
             map == dispatcher["trade"]
         IN  /\ \A s \in DOMAIN map : \A cb \in Range(map[s]) :
                   SelectSeq(heard', LAMBDA h : h[1] = cb /\ batch[h[2]] = s)
                     = [i \in DOMAIN Of(s, batch) |-> <<cb, Of(s, batch)[i]>>]
             /\ \A h \in Range(heard') : \E s \in DOMAIN map :
                   h[1] \in Range(map[s]) /\ batch[h[2]] = s
      ]_vars

(* Between two polls every callback the client holds belongs to a symbol   *)
(* the core session still owns, asked for or granted: an unsubscribe, an   *)
(* acknowledgement or a rejection, in any order, leaves no callback behind *)
(* that would keep is_idle() false for good.                               *)
CallbacksOwned ==
    pc = "user" =>
       \A c \in Channel : DOMAIN dispatcher[c] \subseteq M!Owned(managers[c])

(* A subscribe cancels the unsubscribe that is pending for its symbols, so *)
(* that the acknowledgement of the latter does not end the subscription.   *)
ResubscribeCancels ==
    [][\A c \in Channel, S \in Requests :
         subscribe(c, S) => S \cap managers'[c].unsubs.symbols = {}]_vars

(* run_until_idle() returns: once the user has given up every callback,    *)
(* the client becomes idle unless the user registers again.                *)
UnsubscribedIsIdle ==
    (\A c \in Channel : DOMAIN dispatcher[c] = {}) ~>
       (Idle \/ \E c \in Channel : DOMAIN dispatcher[c] # {})
=============================================================================
