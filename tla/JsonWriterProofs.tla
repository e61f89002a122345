--------------------------- MODULE JsonWriterProofs ---------------------------
(***************************************************************************)
(* max_json_size() bounds write_json() for every number of symbols, every  *)
(* symbol and every option.  The invariant BudgetInv says, before each     *)
(* part of a request, what must be left of the reserve to pay for the      *)
(* worst case of all the parts to come; each writing step then hands on at *)
(* least what the next one needs.                                          *)
(***************************************************************************)
EXTENDS JsonWriter, TLAPS

LEMMA EscapeWidth ==
    ASSUME "control" \notin Char, NEW c \in Char
    PROVE  escape(c) \in 1 .. 2
BY WriterAssumption DEF escape

LEMMA InitBudget == Init => BudgetInv
BY DEF Init, BudgetInv, Reserve, Requests, TradeSubscribe, TradeUnsubscribe,
       BookSubscribe, BookUnsubscribe, Ping

(* Each part of the writer keeps enough of the reserve for the rest.       *)
LEMMA StepBudget ==
    ASSUME "control" \notin Char, BudgetInv, [Next]_vars
    PROVE  BudgetInv'
<1> USE DEF BudgetInv, Reserve, Requests, TradeSubscribe, TradeUnsubscribe,
            BookSubscribe, BookUnsubscribe, Ping
<1>1. CASE begin_symbol
  BY <1>1, WriterAssumption DEF begin_symbol
<1>2. CASE write_char
  <2>1. PICK c \in Char : pos' = pos + escape(c)
    BY <1>2 DEF write_char
  <2>2. escape(c) \in 1 .. 2
    BY EscapeWidth
  <2> QED
    BY <1>2, <2>1, <2>2, WriterAssumption DEF write_char
<1>3. CASE end_symbol
  BY <1>3 DEF end_symbol
<1>4. CASE end_symbols
  BY <1>4 DEF end_symbols
<1>5. CASE write_depth
  BY <1>5, WriterAssumption DEF write_depth
<1>6. CASE write_snapshot
  BY <1>6 DEF write_snapshot
<1>7. CASE write_req_id
  BY <1>7, WriterAssumption DEF write_req_id
<1>8. CASE UNCHANGED vars
  BY <1>8 DEF vars
<1> QED
  BY <1>1, <1>2, <1>3, <1>4, <1>5, <1>6, <1>7, <1>8 DEF Next

(* Without control characters, no request is longer than its own           *)
(* max_json_size(): the assertion at the end of trade::Subscribe and Ping, *)
(* and the one of send_dynamic_request_.                                   *)
THEOREM NeverBeyondBudget ==
    ASSUME "control" \notin Char
    PROVE  Spec => []WithinBudget
<1>1. BudgetInv => WithinBudget
  BY DEF BudgetInv, Reserve, WithinBudget
<1> QED
  BY InitBudget, StepBudget, <1>1, PTL DEF Spec
==============================================================================
