---------------------------- MODULE MessageParser ----------------------------
(***************************************************************************)
(* kraken::MessageHandler: the router and the parsers that decide, field   *)
(* by field and with an early return at the first failure, whether a raw   *)
(* message of the exchange is delivered, and to whom.  Text is abstracted  *)
(* to what a parser tells apart in a field: it is absent, of the wrong     *)
(* JSON type ("bad"), an empty string, a string that is no known value     *)
(* ("unknown"), one that is not either but begins like one ("similar"), or *)
(* fine.  A field here may stand for several that are read in a row and    *)
(* checked alike: time (time_in, time_out), roptions (snapshot, warnings), *)
(* numbers (qty, price, trade_id; the checksum of a book), options         *)
(* (connection_id, version).                                               *)
(***************************************************************************)
EXTENDS Naturals, Sequences, SequencesExt, FiniteSetsExt

CONSTANT MaxDeviations    \* bound: fields that differ from a usual message

VARIABLES json,       \* "object", "other" JSON, or "invalid"
          root,       \* the fields of the message, those of "result" prefixed by r
          data,       \* the elements of its "data" array
          deviations,
          room,       \* the data-plane ring has room
          result,     \* what on_message() returned, "none" before
          effects     \* the calls it made on the session's context

vars == <<json, root, data, deviations, room, result, effects>>

RootField == {"method", "channel", "result", "rchannel", "rsymbol", "rdepth", "roptions",
              "success", "error", "req_id", "symbol", "time", "type", "data"}
ElemField == {"object", "symbol", "side", "numbers", "timestamp", "ord_type", "asks",
              "bids", "system", "api_version", "options"}

Value == {"absent", "bad", "empty", "unknown", "ok"}

Domain(f) ==
    CASE f = "method"  -> {"absent", "bad", "unknown", "pong", "subscribe", "unsubscribe", "ping"}
      [] f \in {"channel", "rchannel"} ->
            {"absent", "bad", "unknown", "trade", "book", "ticker", "heartbeat", "status"}
      [] f = "success" -> {"absent", "bad", "true", "false"}
      [] f \in {"req_id", "rdepth", "roptions", "result", "data", "asks", "bids", "numbers",
                "options", "object"} -> {"absent", "bad", "ok"}
      [] f \in {"type", "side", "ord_type", "system"} -> Value \cup {"similar"}
      [] OTHER -> Value

(***************************************************************************)
(* The helpers and the adapters.                                           *)
(***************************************************************************)
value_required(v) == IF v \in {"absent", "bad"} THEN "InvalidSchema" ELSE "Parsed"

value_optional(v) == IF v = "bad" THEN "InvalidSchema" ELSE "Parsed"

symbol_required(v) == IF v = "empty" THEN "InvalidValue" ELSE value_required(v)

symbol_optional(v) == IF v = "empty" THEN "InvalidValue" ELSE value_optional(v)

(* The enums compare the first four (eight) characters only.               *)
to_enum_fast(v) == IF v = "similar" THEN "ok" ELSE v

Convert(v, check) == IF v \in {"empty", "unknown"} THEN "InvalidValue" ELSE check

enum_required(v) == Convert(to_enum_fast(v), value_required(v))

enum_optional(v) == Convert(to_enum_fast(v), value_optional(v))

timestamp_required(v) == Convert(v, value_required(v))

timestamp_optional(v) == Convert(v, value_optional(v))

forbidden(v) == IF v = "absent" THEN "Parsed" ELSE "InvalidSchema"

(* The early returns: the first result that is not Parsed.                 *)
First(rs) ==
    LET failed == {i \in DOMAIN rs : rs[i] # "Parsed"}
    IN  IF failed = {} THEN "Parsed" ELSE rs[Min(failed)]

(***************************************************************************)
(* The message parsers.                                                    *)
(***************************************************************************)
parse_ack_tail ==
    <<value_optional(root["req_id"]), timestamp_optional(root["time"])>>

(* Only the acknowledgements of a subscribe have snapshot and warnings.    *)
parse_ack_options ==
    IF root["method"] = "subscribe" THEN value_optional(root["roptions"]) ELSE "Parsed"

(* A mutant: an error beside a success is not looked for.                  *)
TradeAckIgnoresError ==
    First(<<value_required(root["success"])>>
          \o (IF root["success"] = "true"
              THEN <<value_required(root["result"]), symbol_required(root["rsymbol"]),
                     parse_ack_options>>
              ELSE <<value_required(root["error"]), forbidden(root["result"])>>)
          \o parse_ack_tail)

parse_trade_ack ==
    First(<<value_required(root["success"])>>
          \o (IF root["success"] = "true"
              THEN <<value_required(root["result"]), symbol_required(root["rsymbol"]),
                     parse_ack_options, forbidden(root["error"])>>
              ELSE <<value_required(root["error"]), forbidden(root["result"])>>)
          \o parse_ack_tail)

parse_book_ack ==
    First(<<value_required(root["success"])>>
          \o (IF root["success"] = "true"
              THEN <<value_required(root["result"]), symbol_required(root["rsymbol"]),
                     value_required(root["rdepth"]), parse_ack_options,
                     forbidden(root["error"])>>
              ELSE <<value_required(root["error"])>>)
          \o parse_ack_tail)

parse_rejection_notice ==
    First(<<value_required(root["error"]), value_optional(root["req_id"]),
            symbol_optional(root["symbol"]), timestamp_optional(root["time"])>>)

parse_pong ==
    First(<<value_optional(root["req_id"]), timestamp_optional(root["time"]),
            value_optional(root["success"])>>
          \o (CASE root["success"] = "true" ->
                     <<value_required(root["result"]), value_optional(root["roptions"])>>
                [] root["success"] = "false" -> <<value_required(root["error"])>>
                [] OTHER -> <<>>))

parse_status_update ==
    First(<<value_required(root["data"])>>
          \o (IF data = <<>> THEN <<"InvalidSchema">>
              ELSE LET e == data[1]
                   IN  <<value_required(e["object"]), enum_required(e["system"]),
                         value_required(e["api_version"]), value_optional(e["options"])>>))

parse_trade(e) ==
    <<value_required(e["object"]), symbol_required(e["symbol"]), enum_required(e["side"]),
      value_required(e["numbers"]), timestamp_required(e["timestamp"]),
      enum_optional(e["ord_type"])>>

parse_trade_response ==
    First(<<enum_required(root["type"]), value_required(root["data"])>>
          \o (IF data = <<>> THEN <<"Ignored">>
              ELSE FlattenSeq([i \in DOMAIN data |-> parse_trade(data[i])])))

parse_side_levels(v) == value_optional(v)

parse_book(e) ==
    <<value_required(e["object"]), symbol_required(e["symbol"]),
      parse_side_levels(e["asks"]), parse_side_levels(e["bids"]),
      IF e["asks"] = "absent" /\ e["bids"] = "absent" THEN "InvalidSchema" ELSE "Parsed",
      value_required(e["numbers"]), timestamp_optional(e["timestamp"])>>

parse_book_response ==
    First(<<enum_required(root["type"]), value_required(root["data"])>>
          \o (IF Len(data) # 1 THEN <<"InvalidSchema">> ELSE parse_book(data[1])))

(***************************************************************************)
(* The router: each branch parses and, on success, calls the context.      *)
(***************************************************************************)
Deliver(r, calls) ==
    IF r = "Parsed" THEN [result |-> "Delivered", effects |-> calls]
    ELSE [result |-> r, effects |-> {}]

Push(r, message, calls) ==
    IF r = "Parsed" /\ ~room THEN [result |-> "Backpressure", effects |-> calls]
    ELSE Deliver(r, calls \cup {message})

reject ==
    Push(parse_rejection_notice, "push_rejection",
         IF root["req_id"] = "ok" /\ root["symbol"] # "absent" THEN {"on_rejection"} ELSE {})

(* req_id.value() of an optional that may be empty.                        *)
acknowledge(r) ==
    Deliver(r, {IF root["req_id"] = "ok" THEN "on_ack" ELSE "on_ack_without_id"})

parse_method_message ==
    LET channel == IF root["result"] = "ok" THEN root["rchannel"] ELSE "unknown"
    IN  CASE root["method"] = "pong" -> Deliver(parse_pong, {"set_pong"})
          [] root["method"] \in {"subscribe", "unsubscribe"} ->
               (CASE channel = "trade" -> acknowledge(parse_trade_ack)
                  [] channel = "book"  -> acknowledge(parse_book_ack)
                  [] OTHER             -> reject)
          [] OTHER -> Deliver("Ignored", {})

parse_channel_message ==
    CASE root["channel"] = "trade"     -> Push(parse_trade_response, "push_trade", {})
      [] root["channel"] = "book"      -> Push(parse_book_response, "push_book", {})
      [] root["channel"] = "heartbeat" -> Deliver("Parsed", {})
      [] root["channel"] = "status"    -> Deliver(parse_status_update, {"set_status"})
      [] OTHER                         -> Deliver("Ignored", {})

parse_and_route ==
    IF json = "invalid" THEN Deliver("InvalidSchema", {})
    ELSE IF json = "other" THEN Deliver("Ignored", {})
    ELSE IF enum_required(root["method"]) = "Parsed" THEN parse_method_message
    ELSE IF enum_required(root["channel"]) = "Parsed" THEN parse_channel_message
    ELSE Deliver("Ignored", {})

(***************************************************************************)
(* The messages: the usual ones, with up to MaxDeviations fields changed.  *)
(***************************************************************************)
Fields(F, given) == [f \in F |-> IF f \in DOMAIN given THEN given[f] ELSE "absent"]

Ack(m, c) ==
    Fields(RootField, [method |-> m, success |-> "true", result |-> "ok", rchannel |-> c,
                       rsymbol |-> "ok", rdepth |-> "ok", req_id |-> "ok", time |-> "ok"])
Rejection ==
    Fields(RootField, [method |-> "subscribe", success |-> "false", error |-> "ok",
                       req_id |-> "ok", symbol |-> "ok", time |-> "ok"])
Pong == Fields(RootField, [method |-> "pong", req_id |-> "ok", time |-> "ok"])
Update(c) == Fields(RootField, [channel |-> c, type |-> "ok", data |-> "ok"])

Trade == Fields(ElemField, [object |-> "ok", symbol |-> "ok", side |-> "ok",
                            numbers |-> "ok", timestamp |-> "ok"])
Book == Fields(ElemField, [object |-> "ok", symbol |-> "ok", asks |-> "ok", bids |-> "ok",
                           numbers |-> "ok", timestamp |-> "ok"])
Status == Fields(ElemField, [object |-> "ok", system |-> "ok", api_version |-> "ok"])

Usual ==
    {<<Ack(m, c), <<>>>> : m \in {"subscribe", "unsubscribe"}, c \in {"trade", "book"}}
    \cup {<<Rejection, <<>>>>, <<Pong, <<>>>>, <<Update("heartbeat"), <<>>>>,
          <<Update("ticker"), <<>>>>, <<Update("trade"), <<>>>>,
          <<Update("trade"), <<Trade, Trade>>>>, <<Update("book"), <<Book>>>>,
          <<Update("book"), <<Book, Book>>>>, <<Update("status"), <<Status>>>>}

Init ==
    /\ \E m \in Usual : root = m[1] /\ data = m[2]
    /\ json = "object"
    /\ deviations = 0
    /\ room \in BOOLEAN
    /\ result = "none" /\ effects = {}

Deviate ==
    /\ result = "none" /\ deviations < MaxDeviations
    /\ deviations' = deviations + 1
    /\ \/ json = "object" /\ json' \in {"other", "invalid"} /\ UNCHANGED <<root, data>>
       \/ \E f \in RootField : \E v \in Domain(f) \ {root[f]} :
             root' = [root EXCEPT ![f] = v] /\ UNCHANGED <<json, data>>
       \/ \E i \in DOMAIN data, f \in ElemField : \E v \in Domain(f) \ {data[i][f]} :
             data' = [data EXCEPT ![i][f] = v] /\ UNCHANGED <<json, root>>
    /\ UNCHANGED <<room, result, effects>>

on_message ==
    /\ result = "none"
    /\ result' = parse_and_route.result
    /\ effects' = parse_and_route.effects
    /\ UNCHANGED <<json, root, data, deviations, room>>

Next == Deviate \/ on_message

Spec == Init /\ [][Next]_vars

(***************************************************************************)
(* The schemas: for each kind of message the values each of its fields may *)
(* have, in no order.                                                      *)
(***************************************************************************)
Opt == {"absent", "ok"}
Name == {"unknown", "ok"}
Enum == {"similar", "ok"}
Text == {"empty", "unknown", "ok"}

Matches(fields, schema) == \A f \in DOMAIN schema : fields[f] \in schema[f]

MethodSchemas ==
    [trade_ack |-> [method |-> {"subscribe", "unsubscribe"}, success |-> {"true"},
                    result |-> {"ok"}, rchannel |-> {"trade"}, rsymbol |-> Name,
                    error |-> {"absent"}, req_id |-> Opt, time |-> Opt],
     book_ack |-> [method |-> {"subscribe", "unsubscribe"}, success |-> {"true"},
                   result |-> {"ok"}, rchannel |-> {"book"}, rsymbol |-> Name,
                   rdepth |-> {"ok"}, error |-> {"absent"}, req_id |-> Opt,
                   time |-> Opt],
     failed_book_ack |-> [method |-> {"subscribe", "unsubscribe"}, success |-> {"false"},
                          result |-> {"ok"}, rchannel |-> {"book"}, error |-> Text,
                          req_id |-> Opt, time |-> Opt],
     plain_pong |-> [method |-> {"pong"}, success |-> {"absent"}, req_id |-> Opt,
                     time |-> Opt],
     good_pong |-> [method |-> {"pong"}, success |-> {"true"}, result |-> {"ok"},
                    roptions |-> Opt, req_id |-> Opt, time |-> Opt],
     failed_pong |-> [method |-> {"pong"}, success |-> {"false"}, error |-> Text,
                      req_id |-> Opt, time |-> Opt]]

RejectionSchema ==
    [method |-> {"subscribe", "unsubscribe"}, error |-> Text, req_id |-> Opt,
     symbol |-> {"absent"} \cup Name, time |-> Opt]

TradeSchema == [object |-> {"ok"}, symbol |-> Name, side |-> Enum, numbers |-> {"ok"},
                timestamp |-> {"ok"}, ord_type |-> Opt \cup Enum]
BookSchema == [object |-> {"ok"}, symbol |-> Name, asks |-> Opt, bids |-> Opt,
               numbers |-> {"ok"}, timestamp |-> Opt]
StatusSchema == [object |-> {"ok"}, system |-> Enum, api_version |-> Text,
                 options |-> Opt]

IsAck ==
    \/ /\ \E k \in {"trade_ack", "book_ack"} : Matches(root, MethodSchemas[k])
       /\ root["method"] = "subscribe" => root["roptions"] \in Opt
    \/ Matches(root, MethodSchemas["failed_book_ack"])

IsRejection ==
    /\ Matches(root, RejectionSchema)
    /\ root["result"] # "ok" \/ root["rchannel"] \notin {"trade", "book"}

IsUpdate(c) ==
    /\ root["method"] \in {"absent", "bad", "unknown"}
    /\ root["channel"] = c

IsData(c, schema) ==
    /\ IsUpdate(c) /\ root["type"] \in Enum /\ root["data"] = "ok" /\ data # <<>>
    /\ \A i \in DOMAIN data : Matches(data[i], schema)

(* What a well-formed message must bring about, and nothing else may.      *)
Wanted ==
    IF json # "object" THEN {}
    ELSE {call \in {"on_ack", "on_ack_without_id", "set_pong", "on_rejection",
                    "push_rejection", "push_trade", "push_book", "set_status"} :
            CASE call = "on_ack" -> IsAck /\ root["req_id"] = "ok"
              [] call = "on_ack_without_id" -> IsAck /\ root["req_id"] = "absent"
              [] call = "set_pong" ->
                   \E k \in {"plain_pong", "good_pong", "failed_pong"} :
                      Matches(root, MethodSchemas[k])
              [] call = "on_rejection" ->
                   IsRejection /\ root["req_id"] = "ok" /\ root["symbol"] # "absent"
              [] call = "push_rejection" -> IsRejection
              [] call = "push_trade" -> IsData("trade", TradeSchema)
              [] call = "push_book" ->
                   /\ IsData("book", BookSchema) /\ Len(data) = 1
                   /\ data[1]["asks"] = "ok" \/ data[1]["bids"] = "ok"
              [] call = "set_status" ->
                   /\ IsUpdate("status") /\ root["data"] = "ok" /\ data # <<>>
                   /\ Matches(data[1], StatusSchema)}

Pushes == {"push_rejection", "push_trade", "push_book"}

(* The chains of early returns accept exactly the well-formed messages:    *)
(* one is delivered, with the calls its kind calls for, and any other      *)
(* message leaves the session and the data plane alone.  Only a full ring  *)
(* keeps a push from a well-formed message, and is reported.               *)
DeliveredExactly ==
    result # "none" =>
       /\ effects = IF room THEN Wanted ELSE Wanted \ Pushes
       /\ result = "Backpressure" <=> ~room /\ Wanted \cap Pushes # {}
       /\ result = "Delivered" <=>
             \/ Wanted # {} /\ (room \/ Wanted \cap Pushes = {})
             \/ json = "object" /\ IsUpdate("heartbeat")
==============================================================================
