------------------------------ MODULE Backend ------------------------------
(***************************************************************************)
(* The two socket backends below the WebSocket engine, asio::Backend and    *)
(* winhttp::Backend, as the engine uses them: the receive loop blocks in    *)
(* read_some while the user's thread sends and closes; close() may come     *)
(* from either.  Both classes hold the same two flags, closing_ (we asked   *)
(* for the end) and closed_ (the end was carried out, tested and set by one *)
(* exchange), check them before they touch the socket, and translate what   *)
(* the library reports into the ReadResult of BackendConcept.  They differ  *)
(* in the translation and in whether close() can wake a blocked read.       *)
(*                                                                         *)
(* Beast, OpenSSL and WinHTTP are external: a read that has reached the     *)
(* library ends with a frame, with an error, or, once the socket was        *)
(* interrupted or torn down, with one of the errors such a socket gives.    *)
(***************************************************************************)
EXTENDS Integers

CONSTANT MaxConnects   \* bound: calls of connect()

VARIABLES
    kind,       \* "asio" or "winhttp": which class is compiled in
    closing,    \* closing_
    closed,     \* closed_
    socket,     \* ws_ / hWebSocket_: "none", "open", "interrupted", "gone"
    reader,     \* the receive loop's place in read_some
    closers,    \* per thread: its place in close()
    sender,     \* the user's place in send()
    result,     \* the last ReadResult, and how its read began
    sent,       \* what the last send() returned
    connects    \* how often connect() was called

backendVars == <<kind, closing, closed, socket, reader, closers, sender, result, sent, connects>>

Thread == {"user", "loop"}

Kind == {"asio", "winhttp"}

Read(status, bytes, frame, error) ==
    [status |-> status, bytes |-> bytes, frame |-> frame, error |-> error]

NoResult == [read |-> Read("Ok", 0, "Message", "None"), begun |-> "none"]

Init ==
    /\ kind \in Kind
    /\ closing = FALSE /\ closed = FALSE
    /\ socket = "none"
    /\ reader = "out"
    /\ closers = [t \in Thread |-> "out"]
    /\ sender = "out"
    /\ result = NoResult
    /\ sent = FALSE
    /\ connects = 0

---------------------------------------------------------------------------
(* connect(): whatever is left of the last connection is torn down, the     *)
(* flags are cleared, and either every stage succeeds or cleanup_ runs      *)
(* again.  The engine calls it before it starts the receive loop.           *)
connect(ok) ==
    /\ connects < MaxConnects
    /\ reader = "out" /\ sender = "out" /\ \A t \in Thread : closers[t] = "out"
    /\ closing' = FALSE /\ closed' = FALSE
    /\ socket' = IF ok THEN "open" ELSE "none"
    /\ connects' = connects + 1
    /\ result' = NoResult
    /\ UNCHANGED <<kind, reader, closers, sender, sent>>

(* send(): the flag, then the socket, then the blocking write, which fails   *)
(* on a socket that was interrupted or torn down in between.                *)
SendCheckFlag ==
    /\ sender = "out" /\ connects > 0 /\ closers["user"] = "out"
    /\ IF closed THEN sent' = FALSE /\ UNCHANGED sender
                 ELSE sender' = "flag" /\ UNCHANGED sent
    /\ UNCHANGED <<kind, closing, closed, socket, reader, closers, result, connects>>

SendCheckSocket ==
    /\ sender = "flag"
    /\ IF socket \in {"none", "gone"} THEN sent' = FALSE /\ sender' = "out"
                                      ELSE sender' = "write" /\ UNCHANGED sent
    /\ UNCHANGED <<kind, closing, closed, socket, reader, closers, result, connects>>

SendWrite(ok) ==
    /\ sender = "write"
    /\ ok => socket = "open"
    /\ sent' = ok
    /\ sender' = "out"
    /\ UNCHANGED <<kind, closing, closed, socket, reader, closers, result, connects>>

send == SendCheckFlag \/ SendCheckSocket \/ \E ok \in BOOLEAN : SendWrite(ok)

---------------------------------------------------------------------------
(* read_some(): every return is a ReadResult; "begun" remembers whether the  *)
(* call came after close() had set closed_.                                 *)
Return(read) ==
    /\ result' = [read |-> read, begun |-> result.begun]
    /\ reader' = "out"

ReadCheckFlag ==
    /\ reader = "out" /\ connects > 0 /\ closers["loop"] = "out"
    /\ IF closed
       THEN /\ result' = [read |-> Read("Ok", 0, "Close", "LocalShutdown"), begun |-> "closed"]
            /\ UNCHANGED reader
       ELSE /\ result' = [NoResult EXCEPT !.begun = "live"]
            /\ reader' = "flag"
    /\ UNCHANGED <<kind, closing, closed, socket, closers, sender, sent, connects>>

(* The socket is gone although closed_ was not set a moment ago: the end is  *)
(* ours only if closing_ says so.                                           *)
NotOpen ==
    Read("Ok", 0, "Close",
         IF closing \/ (kind = "winhttp" /\ closed) THEN "LocalShutdown"
         ELSE IF kind = "asio" THEN "RemoteClosed" ELSE "TransportFailure")

ReadCheckSocket ==
    /\ reader = "flag"
    /\ IF socket \in {"none", "gone"}
       THEN Return(NotOpen)
       ELSE reader' = "blocked" /\ UNCHANGED result
    /\ UNCHANGED <<kind, closing, closed, socket, closers, sender, sent, connects>>

\* Mutant: a cancelled operation is always our own doing.
map_aborted_is_local(code) ==
    CASE code \in {"aborted", "interrupted"} -> Read("Ok", 0, "Close", "LocalShutdown")
      [] code \in {"ws_closed", "eof", "connection_error"} -> Read("Ok", 0, "Close", "RemoteClosed")
      [] code = "timeout" -> Read("Timeout", 0, "Fragment", "Timeout")
      [] OTHER -> Read("TransportError", 0, "Fragment", "TransportFailure")

(* map_result_on_error_ of the two classes, by the native error.            *)
map_result_on_error(code) ==
    CASE code \in {"aborted", "interrupted"} ->
            Read("Ok", 0, "Close", IF closing THEN "LocalShutdown" ELSE "RemoteClosed")
      [] code \in {"ws_closed", "eof", "connection_error"} ->
            Read("Ok", 0, "Close", "RemoteClosed")
      [] code = "timeout" -> Read("Timeout", 0, "Fragment", "Timeout")
      [] code = "bad_response" -> Read("ProtocolError", 0, "Fragment", "ProtocolError")
      [] code = "cannot_connect" -> Read("TransportError", 0, "Fragment", "ConnectionFailed")
      [] OTHER -> Read("TransportError", 0, "Fragment", "TransportFailure")

NativeErrors ==
    IF kind = "asio" THEN {"aborted", "interrupted", "ws_closed", "eof", "timeout", "other"}
    ELSE {"aborted", "connection_error", "timeout", "bad_response", "cannot_connect", "other"}

(* The library reports a frame.  WinHTTP may attach a payload to a close     *)
(* frame, which read_some drops; an unknown buffer type is a protocol error. *)
MapFrame(frame, bytes) ==
    IF frame = "Unknown" THEN Read("ProtocolError", 0, "Fragment", "ProtocolError")
    ELSE Read("Ok", IF frame = "Close" THEN 0 ELSE bytes, frame, "None")

Frames == IF kind = "asio" THEN {"Fragment", "Message"} ELSE {"Fragment", "Message", "Close", "Unknown"}

ReceiveFrame ==
    /\ reader = "blocked"
    /\ socket = "open"
    /\ \E frame \in Frames, bytes \in 0..1 : Return(MapFrame(frame, bytes))
    /\ UNCHANGED <<kind, closing, closed, socket, closers, sender, sent, connects>>

(* A live socket may fail at any time, an interrupted one fails with a       *)
(* cancellation or the peer's answer to the close, a dead one with anything  *)
(* but a frame.  WinHTTP promises no such end for a read in progress.        *)
ReceiveError ==
    /\ reader = "blocked"
    /\ \E code \in NativeErrors : Return(map_result_on_error(code))
    /\ UNCHANGED <<kind, closing, closed, socket, closers, sender, sent, connects>>

read_some == ReadCheckFlag \/ ReadCheckSocket \/ ReceiveFrame \/ ReceiveError

---------------------------------------------------------------------------
(* close(): closing_ is set, then closed_ is tested and set in one step, so  *)
(* that one thread interrupts the socket and tears it down.                 *)
CloseAnnounce(t) ==
    /\ closers[t] = "out" /\ connects > 0
    /\ t = "loop" => reader = "out"
    /\ t = "user" => sender = "out"
    /\ closing' = TRUE
    /\ closers' = [closers EXCEPT ![t] = "exchange"]
    /\ UNCHANGED <<kind, closed, socket, reader, sender, result, sent, connects>>

\* Mutant: the test of closed_ is the wrong way round.
CloseInverted(t) ==
    /\ closers[t] = "exchange"
    /\ closed' = TRUE
    /\ closers' = [closers EXCEPT ![t] = IF closed THEN "interrupt" ELSE "out"]
    /\ UNCHANGED <<kind, closing, socket, reader, sender, result, sent, connects>>

CloseExchange(t) ==
    /\ closers[t] = "exchange"
    /\ closed' = TRUE
    /\ closers' = [closers EXCEPT ![t] = IF closed THEN "out" ELSE "interrupt"]
    /\ UNCHANGED <<kind, closing, socket, reader, sender, result, sent, connects>>

(* sock.cancel / WinHttpWebSocketClose: a read in progress is interrupted.   *)
CloseInterrupt(t) ==
    /\ closers[t] = "interrupt"
    /\ socket' = IF socket = "open" THEN "interrupted" ELSE socket
    /\ closers' = [closers EXCEPT ![t] = "teardown"]
    /\ UNCHANGED <<kind, closing, closed, reader, sender, result, sent, connects>>

(* The rest of close(), or cleanup_: shut down and closed, handles released. *)
CloseTeardown(t) ==
    /\ closers[t] = "teardown"
    /\ socket' = IF socket = "none" THEN "none" ELSE "gone"
    /\ closers' = [closers EXCEPT ![t] = "out"]
    /\ UNCHANGED <<kind, closing, closed, reader, sender, result, sent, connects>>

close(t) == CloseAnnounce(t) \/ CloseExchange(t) \/ CloseInterrupt(t) \/ CloseTeardown(t)

is_open == ~closed /\ socket \in {"open", "interrupted"}

Next ==
    \/ \E ok \in BOOLEAN : connect(ok)
    \/ send
    \/ read_some
    \/ \E t \in Thread : close(t)

(* A thread inside close() goes on.  On asio the cancellation and the        *)
(* shutdown make a blocked read return; the checks before it always return.  *)
ReadGoesOn ==
    \/ ReadCheckSocket
    \/ kind = "asio" /\ socket \in {"interrupted", "gone"} /\ ReceiveError

CloseGoesOn(t) == CloseExchange(t) \/ CloseInterrupt(t) \/ CloseTeardown(t)

Fairness ==
    /\ WF_backendVars(ReadGoesOn)
    /\ \A t \in Thread : WF_backendVars(CloseGoesOn(t))

Spec == Init /\ [][Next]_backendVars /\ Fairness

---------------------------------------------------------------------------
TypeOK ==
    /\ kind \in Kind
    /\ closing \in BOOLEAN /\ closed \in BOOLEAN /\ sent \in BOOLEAN
    /\ socket \in {"none", "open", "interrupted", "gone"}
    /\ reader \in {"out", "flag", "blocked"}
    /\ sender \in {"out", "flag", "write"}
    /\ \A t \in Thread : closers[t] \in {"out", "exchange", "interrupt", "teardown"}

(* What the receive loop may rely on whatever races with its read: bytes    *)
(* only with a data frame, a read begun after close() is the plain local    *)
(* close, an end is called ours only if we asked for it, and one thread at  *)
(* most is taking the socket down.                                          *)
ReadContract ==
    LET r == result.read
    IN  /\ r.status # "Ok" \/ r.frame = "Close" => r.bytes = 0
        /\ result.begun = "closed" => r = Read("Ok", 0, "Close", "LocalShutdown")
        /\ r.error = "LocalShutdown" => closing
        /\ closed => closing
        /\ \A t, u \in Thread :
              closers[t] \in {"interrupt", "teardown"} /\ closers[u] \in {"interrupt", "teardown"} => t = u

(* After close() has set closed_, the socket goes away and, on asio, a read  *)
(* in progress returns: no thread stays behind.                             *)
CloseReleasesReader ==
    closed ~> (\/ ~closed
               \/ /\ socket \in {"none", "gone"}
                  /\ kind = "asio" => reader = "out")
=============================================================================
