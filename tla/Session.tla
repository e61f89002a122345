------------------------------- MODULE Session -------------------------------
(***************************************************************************)
(* protocol::Session: the subscription controller, the replay database,    *)
(* the request scheduler and the connection, driven by one thread that     *)
(* alternates between calls of the client and poll().  The connection is   *)
(* the one Link promises; the exchange is modelled from the answers the    *)
(* parser distinguishes.  poll() is a loop over the phases of `pc`.        *)
(***************************************************************************)
EXTENDS Naturals, Sequences, FiniteSets, SequencesExt, FiniteSetsExt

CONSTANTS Symbol,          \* the symbols of a channel
          Types,           \* number of subscription types
          Batching,        \* BatchingPolicy::mode
          BatchSize,       \* BatchingPolicy::batch_size
          EmitInterval,    \* BatchingPolicy::emit_interval
          QueueCapacity,   \* TX_BATCH_QUEUE_CAPACITY
          MaxPerPoll,      \* MAX_MESSAGES_PER_POLL
          MaxPerChannel,   \* SymbolLimitPolicy::max_per_channel, 0 for none
          MaxGlobal,       \* SymbolLimitPolicy::max_global, 0 for none
          MaxReq,          \* bound: requests the client makes
          MaxEpoch,        \* bound: connections
          Liberties        \* what the client does beyond the careful use

(* "any_unsubscribe": it unsubscribes symbols that are not plainly active. *)
(* "call_while_down": it makes requests while the session is not connected *)
(* or has signals to handle.                                               *)
(* "reopen": it calls connect() again instead of leaving it to the retries. *)

ASSUME SessionAssumption ==
    /\ {Types, BatchSize, EmitInterval, QueueCapacity, MaxPerPoll} \subseteq Nat \ {0}
    /\ {MaxPerChannel, MaxGlobal, MaxReq, MaxEpoch} \subseteq Nat
    /\ Batching \in {"Immediate", "Batch", "Paced"}
    /\ Liberties \subseteq {"any_unsubscribe", "call_while_down", "reopen"}

VARIABLES managers,        \* subscription_controller_
          tables,          \* replay_db_
          req_id_seq,      \* the next request identifier
          queue,           \* request_scheduler_: batches not emitted yet
          poll_counter,    \* request_scheduler_: polls since the last batch
          state,           \* connection_: its state,
          epoch,           \* its epoch,
          signals,         \* and its undrained signals
          pc,              \* the phase of poll(), "user" between two polls
          processed,       \* messages handled by this poll()
          wire,            \* the transport under the connection is alive
          outbox,          \* requests on their way to the exchange
          inbox,           \* the message ring: answers not yet handled
          subscribed       \* the exchange's subscriptions of this connection

M == INSTANCE SubscriptionManager
T == INSTANCE ReplayTable
L == INSTANCE Link

books == <<managers, tables>>
paced == <<queue, poll_counter>>
link  == <<state, epoch, signals>>
loop  == <<pc, processed>>
net   == <<wire, outbox, inbox, subscribed>>
vars  == <<books, req_id_seq, paced, link, loop, net>>

Domain == 1 .. Types

Init ==
    /\ managers = [d \in Domain |-> M!NoSubscriptions]
    /\ tables = [d \in Domain |-> T!NoIntent]
    /\ req_id_seq = 1
    /\ queue = <<>>
    /\ poll_counter = 0
    /\ L!Init
    /\ pc = "user"
    /\ processed = 0
    /\ wire = FALSE
    /\ outbox = <<>>
    /\ inbox = <<>>
    /\ subscribed = [d \in Domain |-> {}]

-----------------------------------------------------------------------------
(* Emitting requests.                                                      *)

Request(kind, d, r, S) == [kind |-> kind, type |-> d, req |-> r, symbols |-> S]

(* A mutant: a batch also takes the first symbol of the next one.          *)
OverlappingBatches(kind, d, r, S) ==
    LET s == SetToSeq(S)
        n == (Len(s) + BatchSize - 1) \div BatchSize
    IN  [i \in 1 .. n |->
           Request(kind, d, r,
                   {s[j] : j \in ((i - 1) * BatchSize + 1) ..
                                 Min({i * BatchSize + 1, Len(s)})})]

(* The messages of one request under the batching policy.                  *)
Batches(kind, d, r, S) ==
    IF Batching = "Immediate" THEN <<Request(kind, d, r, S)>>
    ELSE LET s == SetToSeq(S)
             n == (Len(s) + BatchSize - 1) \div BatchSize
         IN  [i \in 1 .. n |->
                Request(kind, d, r,
                        {s[j] : j \in ((i - 1) * BatchSize + 1) ..
                                      Min({i * BatchSize, Len(s)})})]

(* connection_.send() of msgs in turn: refused unless connected; a send on *)
(* a transport that has just died may still be accepted, and is lost.      *)
Send(msgs, ok) ==
    /\ outbox' = IF state = "Connected" /\ wire THEN outbox \o msgs ELSE outbox
    /\ ok \in IF state # "Connected" THEN {FALSE}
              ELSE IF wire THEN {TRUE} ELSE BOOLEAN

(* enqueue() of msgs in turn, until the queue is full.                     *)
enqueue(msgs) ==
    SubSeq(queue \o msgs, 1, Min({Len(queue) + Len(msgs), QueueCapacity}))

(* emit_request_: send now, or enqueue.                                    *)
emit_request(msgs, ok) ==
    IF Batching = "Paced"
    THEN /\ queue' = enqueue(msgs)
         /\ ok = (Len(queue) + Len(msgs) <= QueueCapacity)
         /\ UNCHANGED outbox
    ELSE Send(msgs, ok) /\ UNCHANGED queue

-----------------------------------------------------------------------------
(* Calls of the client.                                                    *)

total_symbols(d) ==
    Cardinality(managers[d].active) + Cardinality(managers[d].subs.symbols)

(* A mutant: the limit is compared before the request is counted.          *)
LimitIgnoresRequest(d, S) ==
    /\ MaxPerChannel = 0 \/ total_symbols(d) <= MaxPerChannel
    /\ MaxGlobal = 0 \/ MapThenSumSet(total_symbols, Domain) <= MaxGlobal

hard_symbol_limit(d, S) ==
    /\ MaxPerChannel = 0 \/ total_symbols(d) + Cardinality(S) <= MaxPerChannel
    /\ MaxGlobal = 0
       \/ MapThenSumSet(total_symbols, Domain) + Cardinality(S) <= MaxGlobal

(* The client this instance assumes.                                       *)
MayCall ==
    "call_while_down" \in Liberties
    \/ (state = "Connected" /\ signals = <<>>)

(* A refused request (hard limit) changes nothing.  A failed emission      *)
(* leaves the symbols pending and stored.                                  *)
subscribe(d, S) ==
    LET r == req_id_seq
        A == M!accepted(managers[d], S)
    IN  /\ pc = "user" /\ MayCall /\ r <= MaxReq
        /\ hard_symbol_limit(d, S)
        /\ req_id_seq' = r + 1
        /\ managers' = [managers EXCEPT ![d] = M!register_subscription(@, S, r)]
        /\ IF A = {}
           THEN UNCHANGED <<tables, queue, outbox>>
           ELSE /\ tables' = [tables EXCEPT
                                ![d] = T!add(@, r, [s \in A |-> 1])]
                /\ \E ok \in BOOLEAN :
                      emit_request(Batches("subscribe", d, r, A), ok)
        /\ UNCHANGED <<poll_counter, link, loop, wire, inbox, subscribed>>

(* erase_symbol() of every symbol of S.                                    *)
EraseAll(t, S) == FoldSet(LAMBDA s, u : T!erase_symbol(u, s), t, S)

(* The original request is emitted first; only if that succeeds do the     *)
(* manager and the replay database hear of it.                             *)
unsubscribe(d, S) ==
    LET r == req_id_seq
    IN  /\ pc = "user" /\ MayCall /\ r <= MaxReq
        /\ "any_unsubscribe" \in Liberties
           \/ S \subseteq managers[d].active \ managers[d].unsubs.symbols
        /\ req_id_seq' = r + 1
        /\ \E ok \in BOOLEAN :
              /\ emit_request(Batches("unsubscribe", d, r, S), ok)
              /\ IF ok
                 THEN /\ managers' = [managers EXCEPT
                                        ![d] = M!register_unsubscription(@, S, r)]
                      /\ tables' = [tables EXCEPT
                                      ![d] = EraseAll(@, M!cancelled(managers[d], S))]
                 ELSE UNCHANGED books
        /\ UNCHANGED <<poll_counter, link, loop, wire, inbox, subscribed>>

(* A new transport clears the message ring and starts without              *)
(* subscriptions.                                                          *)
NewTransport(alive) ==
    /\ wire' = alive
    /\ outbox' = <<>>
    /\ inbox' = <<>>
    /\ subscribed' = [d \in Domain |-> {}]

connect ==
    /\ pc = "user" /\ epoch < MaxEpoch
    /\ epoch = 0 \/ "reopen" \in Liberties
    /\ \/ L!Connect /\ NewTransport(TRUE)
       \/ L!StayDown /\ NewTransport(FALSE)
    /\ UNCHANGED <<books, req_id_seq, paced, loop>>

(* Tearing the transport down loses what was under way.                    *)
TearDown ==
    /\ wire' = FALSE
    /\ outbox' = <<>>
    /\ subscribed' = [d \in Domain |-> {}]
    /\ UNCHANGED inbox

(* connection_.close(): drops a pending retry, or starts closing.          *)
close ==
    /\ pc = "user"
    /\ L!Close \/ (L!StayDown /\ state' = "Disconnected")
    /\ TearDown
    /\ UNCHANGED <<books, req_id_seq, paced, loop>>

-----------------------------------------------------------------------------
(* poll(), phase by phase.                                                 *)

(* connection_.poll() finds nothing to do.                                 *)
PollQuiet ==
    /\ state \notin {"Expired", "Closing"}
    /\ UNCHANGED <<link, net>>

(* It finds that the transport closed; it may reconnect at once.           *)
PollClosed ==
    /\ ~wire
    /\ \/ L!Lose /\ UNCHANGED net
       \/ L!LoseAndReconnect /\ epoch < MaxEpoch /\ NewTransport(TRUE)

(* It attempts a retry that is due.                                        *)
PollRetry ==
    /\ state = "WaitingReconnect" /\ epoch < MaxEpoch
    /\ \/ L!Connect /\ NewTransport(TRUE)
       \/ L!StayDown /\ NewTransport(FALSE)

(* It closes a transport that has been silent for too long.                *)
PollExpired == L!Expire /\ epoch < MaxEpoch /\ TearDown

PollConnection ==
    /\ pc = "user"
    /\ pc' = "signals"
    /\ PollQuiet \/ PollClosed \/ PollRetry \/ PollExpired
    /\ UNCHANGED <<books, req_id_seq, paced, processed>>

(* re_subscribe_ of request r of type d, on the books b.                   *)
re_subscribe(d, b, r, stored) ==
    LET A == M!accepted(b.manager, DOMAIN stored[r])
    IN  [manager |-> M!register_subscription(b.manager, DOMAIN stored[r], r),
         table   |-> IF A = {} THEN b.table
                     ELSE T!add(b.table, r, [s \in A |-> 1]),
         msgs    |-> IF A = {} THEN b.msgs
                     ELSE b.msgs \o Batches("subscribe", d, r, A)]

(* do_replay_ of one type: take every stored request, subscribe it again.  *)
Replayed(d) ==
    LET stored == tables[d].subs
    IN  FoldSet(LAMBDA r, b : re_subscribe(d, b, r, stored),
                [manager |-> managers[d], table |-> T!NoIntent, msgs |-> <<>>],
                DOMAIN stored)

(* A mutant: the stored requests are sent again without being stored again. *)
ReplayForgets ==
    /\ managers' = [d \in Domain |-> Replayed(d).manager]
    /\ tables' = [d \in Domain |-> T!NoIntent]
    /\ \E ok \in BOOLEAN :
          emit_request(FlattenSeq([d \in Domain |-> Replayed(d).msgs]), ok)

do_replay ==
    /\ managers' = [d \in Domain |-> Replayed(d).manager]
    /\ tables' = [d \in Domain |-> Replayed(d).table]
    /\ \E ok \in BOOLEAN :
          emit_request(FlattenSeq([d \in Domain |-> Replayed(d).msgs]), ok)

(* handle_connect_                                                         *)
handle_connect ==
    IF epoch > 1 THEN do_replay ELSE UNCHANGED <<books, queue, outbox>>

(* A mutant: a lost connection leaves the subscription state in place.     *)
DisconnectKeepsState == UNCHANGED <<books, queue, outbox>>

(* handle_disconnect_                                                      *)
handle_disconnect ==
    /\ managers' = [d \in Domain |-> M!NoSubscriptions]
    /\ UNCHANGED <<tables, queue, outbox>>

HandleSignal ==
    /\ pc = "signals" /\ L!TakeSignal
    /\ IF Head(signals) = "Connected" THEN handle_connect ELSE handle_disconnect
    /\ UNCHANGED <<req_id_seq, poll_counter, loop, wire, inbox, subscribed>>

SignalsDrained ==
    /\ pc = "signals" /\ signals = <<>>
    /\ pc' = "messages"
    /\ processed' = 0
    /\ UNCHANGED <<books, req_id_seq, paced, link, net>>

(* The first manager, and the first table, that hold (r, s).               *)
FirstManager(r, s) ==
    {d \in Domain : /\ M!rejects(managers[d], r, s)
                    /\ \A e \in Domain : M!rejects(managers[e], r, s) => d <= e}

FirstTable(r, s) ==
    {d \in Domain : /\ T!rejects(tables[d], r, s)
                    /\ \A e \in Domain : T!rejects(tables[e], r, s) => d <= e}

(* Context::on_subscribe_ack                                               *)
on_subscribe_ack(d, r, s) ==
    /\ managers' = [managers EXCEPT ![d] = M!process_subscribe_ack(@, r, s, TRUE)]
    /\ UNCHANGED tables

(* A mutant: the confirmed symbol stays in the replay database.            *)
UnsubscribeAckKeepsIntent(d, r, s) ==
    /\ managers' = [managers EXCEPT ![d] = M!process_unsubscribe_ack(@, r, s, TRUE)]
    /\ UNCHANGED tables

(* Context::on_unsubscribe_ack: the symbol leaves the replay database,     *)
(* whichever request stored it.                                            *)
on_unsubscribe_ack(d, r, s) ==
    /\ managers' = [managers EXCEPT ![d] = M!process_unsubscribe_ack(@, r, s, TRUE)]
    /\ tables' = [tables EXCEPT ![d] = T!erase_symbol(@, s)]

(* handle_rejection_                                                       *)
on_rejection(r, s) ==
    /\ managers' = [d \in Domain |->
                      IF d \in FirstManager(r, s)
                      THEN M!try_process_rejection(managers[d], r, s)
                      ELSE managers[d]]
    /\ tables' = [d \in Domain |->
                    IF d \in FirstTable(r, s)
                    THEN T!try_process_rejection(tables[d], r, s)
                    ELSE tables[d]]

(* One message.  A rejection notice that finds the data plane full ends    *)
(* the loop; the books have been updated and the slot is released.         *)
HandleMessage ==
    /\ pc = "messages" /\ processed < MaxPerPoll /\ inbox # <<>>
    /\ LET m == Head(inbox)
       IN  CASE m.kind = "subscribe"   -> on_subscribe_ack(m.type, m.req, m.symbol)
             [] m.kind = "unsubscribe" -> on_unsubscribe_ack(m.type, m.req, m.symbol)
             [] m.kind = "rejection"   -> on_rejection(m.req, m.symbol)
    /\ inbox' = Tail(inbox)
    /\ processed' = processed + 1
    /\ pc' \in IF Head(inbox).kind = "rejection"
               THEN {"messages", "send"} ELSE {"messages"}
    /\ UNCHANGED <<req_id_seq, paced, link, wire, outbox, subscribed>>

MessagesDrained ==
    /\ pc = "messages" /\ (processed = MaxPerPoll \/ inbox = <<>>)
    /\ pc' = "send"
    /\ UNCHANGED <<books, req_id_seq, paced, link, processed, net>>

(* poll() of the scheduler, then idle() and should_send().                 *)
should_send == queue # <<>> /\ poll_counter + 1 >= EmitInterval

(* The paced scheduler emits at most one batch per emit_interval polls; a  *)
(* batch whose send fails is dropped.                                      *)
PollScheduler ==
    /\ pc = "send"
    /\ pc' = "backpressure"
    /\ IF Batching # "Paced" THEN UNCHANGED <<paced, outbox>>
       ELSE IF should_send
            THEN /\ poll_counter' = 0
                 /\ queue' = Tail(queue)
                 /\ \E ok \in BOOLEAN : Send(<<Head(queue)>>, ok)
            ELSE /\ poll_counter' = Min({poll_counter + 1, EmitInterval})
                 /\ UNCHANGED <<queue, outbox>>
    /\ UNCHANGED <<books, req_id_seq, link, processed, wire, inbox, subscribed>>

(* enforce_backpressure_policy_: a transport overloaded for too many polls *)
(* is closed.  Overload itself is not part of this model.                  *)
enforce_backpressure_policy ==
    /\ pc = "backpressure"
    /\ pc' = "user" /\ processed' = 0
    /\ \/ UNCHANGED <<link, net>>
       \/ L!Close /\ TearDown
    /\ UNCHANGED <<books, req_id_seq, paced>>

Poll ==
    \/ PollConnection \/ HandleSignal \/ SignalsDrained
    \/ HandleMessage \/ MessagesDrained \/ PollScheduler
    \/ enforce_backpressure_policy

(* A mutant: a session that waits for the end of a subscription is quiet.  *)
QuiescentIgnoresUnsubscribes ==
    signals = <<>> /\ \A d \in Domain : managers[d].subs.symbols = {}

(* is_quiescent(), with the notices of rejections drained: the connection  *)
(* has no signal to handle (nor, while it waits, a retry that is due) and  *)
(* no manager has a request without its answer.                            *)
is_quiescent ==
    signals = <<>> /\ \A d \in Domain : ~M!has_pending_requests(managers[d])

-----------------------------------------------------------------------------
(* The exchange and the network.                                           *)

(* The exchange answers one symbol of its oldest request.  It may refuse   *)
(* any; it never grants a subscription twice, nor ends one it does not     *)
(* have.                                                                   *)
Answer(s, grant) ==
    LET q == Head(outbox)
        d == q.type
    IN  /\ wire /\ outbox # <<>> /\ s \in q.symbols
        /\ grant => (s \in subscribed[d] <=> q.kind = "unsubscribe")
        /\ subscribed' = IF ~grant THEN subscribed
                         ELSE IF q.kind = "subscribe"
                              THEN [subscribed EXCEPT ![d] = @ \cup {s}]
                              ELSE [subscribed EXCEPT ![d] = @ \ {s}]
        /\ inbox' = Append(inbox, [kind   |-> IF grant THEN q.kind ELSE "rejection",
                                   type   |-> d, req |-> q.req, symbol |-> s])
        /\ outbox' = IF q.symbols = {s} THEN Tail(outbox)
                     ELSE [outbox EXCEPT ![1].symbols = @ \ {s}]
        /\ UNCHANGED <<books, req_id_seq, paced, link, loop, wire>>

Exchange == \E s \in Symbol, grant \in BOOLEAN : Answer(s, grant)

(* The transport dies; what was under way is lost.                         *)
Break ==
    /\ wire /\ epoch < MaxEpoch
    /\ TearDown
    /\ UNCHANGED <<books, req_id_seq, paced, link, loop>>

Client ==
    \/ \E d \in Domain, S \in (SUBSET Symbol) \ {{}} :
          subscribe(d, S) \/ unsubscribe(d, S)
    \/ connect
    \/ close

Next == Client \/ Poll \/ Exchange \/ Break

Spec == Init /\ [][Next]_vars

(* The client polls forever, the exchange answers what it receives, and    *)
(* the receive thread reports a dead transport.                            *)
FairSpec ==
    /\ Spec
    /\ WF_vars(Poll) /\ WF_vars(Exchange)
    /\ SF_vars(PollConnection /\ PollClosed)

-----------------------------------------------------------------------------

(* Between two polls, connected, every signal handled.                     *)
Settled == pc = "user" /\ state = "Connected" /\ signals = <<>>

(* Nothing is under way between the session and the exchange.              *)
Silent == Settled /\ wire /\ outbox = <<>> /\ inbox = <<>> /\ queue = <<>>

(* Type correctness of the session's own variables.                        *)
TypeOK ==
    /\ req_id_seq \in 1 .. MaxReq + 1
    /\ Len(queue) <= QueueCapacity
    /\ poll_counter \in 0 .. EmitInterval
    /\ state \in L!Down \cup L!Live
    /\ epoch \in 0 .. MaxEpoch
    /\ pc \in {"user", "signals", "messages", "send", "backpressure"}
    /\ processed \in 0 .. MaxPerPoll
    /\ wire \in BOOLEAN

(* Manager and replay database agree on the symbols of every channel       *)
(* whenever the session is settled, across requests, answers, rejections,  *)
(* losses and replays.                                                     *)
ReplayAgrees ==
    Settled => \A d \in Domain :
                  DOMAIN tables[d].owner = M!Owned(managers[d])

(* The replay database never holds a symbol that the manager does not own: *)
(* a reconnect subscribes nothing the session would not account for.       *)
ReplayWithinOwned ==
    Settled => \A d \in Domain :
                  DOMAIN tables[d].owner \subseteq M!Owned(managers[d])

(* While connected, is_quiescent() holds exactly when nothing is under way *)
(* between the session and the exchange, and then the session's books are  *)
(* the exchange's: the active symbols are those it has subscribed on this  *)
(* very connection.  A client that stops polling there leaves nothing      *)
(* inconsistent behind, as the comment on is_quiescent() promises.         *)
AgreesWithExchange ==
    Settled /\ wire =>
       /\ is_quiescent <=> Silent
       /\ is_quiescent => \A d \in Domain : managers[d].active = subscribed[d]

(* Handling a signal forgets no intent: what was stored before a reconnect *)
(* is stored after its replay.                                             *)
IntentSurvives ==
    [][pc = "signals" =>
         \A d \in Domain : DOMAIN tables[d].owner \subseteq DOMAIN tables'[d].owner
      ]_vars

(* The hard symbol limit holds at all times, replays included.             *)
LimitRespected ==
    /\ MaxPerChannel = 0 \/ \A d \in Domain : total_symbols(d) <= MaxPerChannel
    /\ MaxGlobal = 0 \/ MapThenSumSet(total_symbols, Domain) <= MaxGlobal

(* Every request is resolved by an ACK, a rejection or the loss of the     *)
(* connection: no symbol stays pending forever, whatever breaks under way. *)
PendingResolved ==
    \A d \in Domain : \A s \in Symbol :
       LET pending == s \in managers[d].subs.symbols \cup managers[d].unsubs.symbols
       IN  pending ~> ~pending

(* Nothing is sent twice on one connection: two messages under way never   *)
(* subscribe the same symbol for the same request, be they batches of one  *)
(* call, replays, or a call and its replay.                                *)
NotSentTwice ==
    \A i, j \in 1 .. Len(outbox) :
       /\ outbox[i].kind = "subscribe" /\ outbox[j].kind = "subscribe"
       /\ outbox[i].type = outbox[j].type
       /\ outbox[i].req = outbox[j].req
       /\ outbox[i].symbols \cap outbox[j].symbols # {}
       => i = j

(* What is sent keeps the limit and says nothing twice.                    *)
RequestsJustified == LimitRespected /\ NotSentTwice

=============================================================================
