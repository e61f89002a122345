------------------------------ MODULE JsonWriter ------------------------------
(***************************************************************************)
(* The requests' allocation-free JSON writers.  write_json() stores into a *)
(* buffer it never checks; what bounds it is max_json_size(), which the    *)
(* caller computes first from the same request.  The text itself is left   *)
(* out: pos counts the bytes write_json() has stored, size what            *)
(* max_json_size() reserved for the same part of the request, and the      *)
(* request is chosen while it is written, one character at a time.         *)
(***************************************************************************)
EXTENDS Integers

CONSTANTS Char,          \* the classes of characters in a symbol
          MaxChars,      \* MAX_SYMBOL_LENGTH
          MaxSymbols,    \* the symbols of a request
          DepthDigits,   \* lengths of a depth in decimal
          ReqIdDigits    \* lengths of a req_id in decimal

ASSUME WriterAssumption ==
    /\ Char \subseteq {"plain", "escaped", "control"}
    /\ MaxChars \in Nat /\ MaxSymbols \in Nat
    /\ DepthDigits \subseteq 1 .. 10
    /\ ReqIdDigits \subseteq 1 .. 20

VARIABLES request,   \* the type of the request
          pc,        \* what write_json() writes next
          symbols,   \* symbols written, the current one included
          chars,     \* characters of the current symbol
          pos,       \* bytes written
          size       \* bytes reserved by max_json_size()

vars == <<request, pc, symbols, chars, pos, size>>

(***************************************************************************)
(* What each type writes before its first symbol, and what its             *)
(* max_json_size() reserves for the fixed part and for each option.  Only  *)
(* trade::Subscribe takes back the comma of the last symbol.               *)
(***************************************************************************)
TradeSubscribe ==
    [prefix |-> 60, base |-> 63, comma |-> 1, depth |-> 0, snapshot |-> 16, req_id |-> 30]

TradeUnsubscribe ==
    [prefix |-> 62, base |-> 92, comma |-> 0, depth |-> 0, snapshot |-> 0, req_id |-> 24]

BookSubscribe ==
    [prefix |-> 59, base |-> 100, comma |-> 0, depth |-> 16, snapshot |-> 20, req_id |-> 24]

(* A mutant: the fixed part is reserved without the slack that pays for    *)
(* the long numbers.                                                       *)
BookUnsubscribeTight ==
    [prefix |-> 61, base |-> 64, comma |-> 0, depth |-> 16, snapshot |-> 0, req_id |-> 24]

BookUnsubscribe ==
    [prefix |-> 61, base |-> 92, comma |-> 0, depth |-> 16, snapshot |-> 0, req_id |-> 24]

(* Ping reserves a constant for everything, and has no symbols.            *)
Ping ==
    [prefix |-> 16, base |-> 64, comma |-> 0, depth |-> 0, snapshot |-> 0, req_id |-> 0]

Requests == {TradeSubscribe, TradeUnsubscribe, BookSubscribe, BookUnsubscribe, Ping}

Init ==
    /\ request \in Requests
    /\ pc = IF request = Ping THEN "req_id" ELSE "symbol"
    /\ symbols = 0 /\ chars = 0
    /\ pos = request.prefix
    /\ size = request.base

(* The bytes lcr::json::escape stores for one character.                   *)
escape(c) == CASE c = "plain" -> 1 [] c = "escaped" -> 2 [] c = "control" -> 6

(* A quote, after the comma that follows the previous symbol.              *)
begin_symbol ==
    /\ pc = "symbol" /\ symbols < MaxSymbols
    /\ symbols' = symbols + 1 /\ chars' = 0
    /\ pos' = pos + (IF symbols = 0 THEN 1 ELSE 2)
    /\ size' = size + (IF symbols = 0 THEN 3 - request.comma ELSE 3)
    /\ pc' = "char"
    /\ UNCHANGED request

write_char ==
    /\ pc = "char" /\ chars < MaxChars
    /\ \E c \in Char : pos' = pos + escape(c)
    /\ chars' = chars + 1
    /\ size' = size + 6
    /\ UNCHANGED <<request, pc, symbols>>

end_symbol ==
    /\ pc = "char" /\ chars > 0
    /\ pos' = pos + 1
    /\ pc' = "symbol"
    /\ UNCHANGED <<request, symbols, chars, size>>

end_symbols ==
    /\ pc = "symbol" /\ symbols > 0
    /\ pos' = pos + 1
    /\ pc' = "depth"
    /\ UNCHANGED <<request, symbols, chars, size>>

write_depth ==
    /\ pc = "depth"
    /\ \/ UNCHANGED <<pos, size>>
       \/ /\ request.depth > 0
          /\ \E d \in DepthDigits : pos' = pos + 9 + d
          /\ size' = size + request.depth
    /\ pc' = "snapshot"
    /\ UNCHANGED <<request, symbols, chars>>

write_snapshot ==
    /\ pc = "snapshot"
    /\ \/ pos' = pos + 1 /\ UNCHANGED size
       \/ /\ request.snapshot > 0
          /\ \E value \in {4, 5} : pos' = pos + 12 + value + 1
          /\ size' = size + request.snapshot
    /\ pc' = "req_id"
    /\ UNCHANGED <<request, symbols, chars>>

write_req_id ==
    /\ pc = "req_id"
    /\ \/ pos' = pos + 1 /\ UNCHANGED size
       \/ /\ \E d \in ReqIdDigits : pos' = pos + 10 + d + 1
          /\ size' = size + request.req_id
    /\ pc' = "done"
    /\ UNCHANGED <<request, symbols, chars>>

Next == \/ begin_symbol \/ write_char \/ end_symbol \/ end_symbols
        \/ write_depth \/ write_snapshot \/ write_req_id

Spec == Init /\ [][Next]_vars

-----------------------------------------------------------------------------

(* The assertion at the end of the writers: no request is longer than the  *)
(* size its own max_json_size() reserved.  Several options are longer than *)
(* their own reserve (a 20-digit req_id takes 30 bytes of 24); the bound   *)
(* rests on the slack of the fixed part and of unescaped characters.       *)
WithinBudget == pc = "done" => pos <= size

(* The inductive form: before each part, what is left of the reserve pays  *)
(* for the worst case of every part to come.                               *)
Reserve ==
    LET spare == size - pos
        req   == 30 - request.req_id      \* the worst req_id beyond its own reserve
        snap  == IF request = TradeSubscribe THEN 1 ELSE 0
        dep   == IF request.depth > 0 THEN 3 ELSE 0
        chr   == IF request = TradeSubscribe /\ chars > 0 THEN 1 ELSE 0
    IN  /\ pc = "symbol" => IF symbols = 0 THEN spare = request.base - request.prefix
                            ELSE spare >= 3 + dep + req + chr
        /\ pc = "char"   => spare >= 4 + dep + req + chr
        /\ pc = "depth"  => spare >= 2 + dep + req + snap
        /\ pc = "snapshot" => spare >= 2 + req + snap
        /\ pc = "req_id" => spare >= 1 + req
        /\ pc = "done"   => spare >= 0

BudgetInv ==
    /\ request \in Requests
    /\ pc \in {"symbol", "char", "depth", "snapshot", "req_id", "done"}
    /\ symbols \in Nat /\ chars \in Nat /\ pos \in Int /\ size \in Int
    /\ pc = "char" => symbols > 0
    /\ pc = "symbol" /\ symbols > 0 => chars > 0
    /\ pc \in {"symbol", "char"} => request # Ping
    /\ Reserve
==============================================================================
