------------------------------ MODULE Transport -----------------------------
(***************************************************************************)
(* The receiving end of transport.ts: InMemoryTransport, whose peer hands  *)
(* frames straight over, and WebSocketTransport, which is fed by the       *)
(* events of a socket.  One recv() at a time, as the client's loop does    *)
(* it; a socket's event fires only when no turn is left to run.            *)
(***************************************************************************)
EXTENDS Naturals, Sequences

CONSTANTS None,     \* no frame
          Last      \* the null that close() leaves in an inbox

VARIABLES
  kind,           \* "memory" or "socket"
  wire,           \* frames a socket has still to bring
  inbox, error,   \* #inbox; #error is set
  closed,         \* #closed
  call, handed,   \* recv(): "idle", "parked", or its answer "frame" (handed), "end", "error"
  sent, taken     \* history: the frames sent; how many were handed over

transportVars == <<kind, wire, inbox, error, closed, call, handed, sent, taken>>

TransportInit ==
  /\ kind \in {"memory", "socket"} /\ wire = << >> /\ inbox = << >>
  /\ error = FALSE /\ closed = FALSE
  /\ call = "idle" /\ handed = None
  /\ sent = << >> /\ taken = 0

\* The promise of recv() resolves with a frame, or with null.
Resolve(frame) ==
  IF frame = Last THEN call' = "end" /\ UNCHANGED <<handed, taken>>
                  ELSE call' = "frame" /\ handed' = frame /\ taken' = taken + 1

\* #deliver: to the one who waits, or into the inbox.
Deliver(frame) ==
  \/ call = "parked" /\ Resolve(frame) /\ UNCHANGED inbox
  \/ call # "parked" /\ inbox' = Append(inbox, frame) /\ UNCHANGED <<call, handed, taken>>

\* Mutant: the end is noticed before what arrived ahead of it.
RecvEndFirst ==
  /\ \/ closed /\ call' = "end" /\ UNCHANGED <<inbox, handed, taken>>
     \/ ~closed /\ inbox # << >> /\ Resolve(Head(inbox)) /\ inbox' = Tail(inbox)
     \/ /\ ~closed /\ inbox = << >>
        /\ call' = IF error THEN "error" ELSE "parked"
        /\ UNCHANGED <<inbox, handed, taken>>
  /\ UNCHANGED <<kind, wire, error, closed, sent>>

\* recv: what has arrived comes first, then the error, then the end.
Recv ==
  /\ \/ inbox # << >> /\ Resolve(Head(inbox)) /\ inbox' = Tail(inbox)
     \/ /\ inbox = << >>
        /\ call' = IF error THEN "error" ELSE IF closed THEN "end" ELSE "parked"
        /\ UNCHANGED <<inbox, handed, taken>>
  /\ UNCHANGED <<kind, wire, error, closed, sent>>

\* The peer sends a frame: in memory it is there at once.
Send(frame) ==
  /\ sent' = Append(sent, frame)
  /\ \/ kind = "memory" /\ Deliver(frame) /\ UNCHANGED wire
     \/ kind = "socket" /\ wire' = Append(wire, frame) /\ UNCHANGED <<inbox, call, handed, taken>>
  /\ UNCHANGED <<kind, error, closed>>

\* InMemoryTransport.close, of either half.
CloseMemory ==
  /\ kind = "memory" /\ ~closed
  /\ closed' = TRUE /\ Deliver(Last)
  /\ UNCHANGED <<kind, wire, error, sent>>

\* Whoever reads has nothing left to do.  (Nothing that comes after an error is read.)
Quiet == kind = "socket" /\ ~closed /\ ~error /\ call \in {"idle", "parked"}

\* Mutant: an undecodable frame is dropped.
FailUnheard == UNCHANGED <<error, call>>

\* #fail: the first error stays, and whoever waits is told.
Fail == error' = TRUE /\ call' = IF call = "parked" THEN "error" ELSE call

\* A message event: its frame, or something that cannot be decoded.
MessageEvent ==
  /\ Quiet /\ wire # << >> /\ wire' = Tail(wire)
  /\ \/ Deliver(Head(wire)) /\ UNCHANGED error
     \/ Fail /\ UNCHANGED <<inbox, handed, taken>>
  /\ UNCHANGED <<kind, closed, sent>>

\* Mutant: a clean close leaves whoever waits for a frame waiting.
CloseEventCleanSilently(clean) ==
  /\ Quiet /\ (clean => wire = << >>)
  /\ closed' = TRUE
  /\ IF clean THEN UNCHANGED <<error, call>> ELSE Fail
  /\ wire' = << >>
  /\ UNCHANGED <<kind, inbox, handed, sent, taken>>

\* A close event: clean once the socket has brought everything, unclean at any time.
CloseEvent(clean) ==
  /\ Quiet /\ (clean => wire = << >>)
  /\ closed' = TRUE
  /\ \/ ~clean /\ Fail
     \/ clean /\ call' = (IF call = "parked" THEN "end" ELSE call) /\ UNCHANGED error
  /\ wire' = << >>
  /\ UNCHANGED <<kind, inbox, handed, sent, taken>>

\* An error event; the close event comes later.
ErrorEvent ==
  /\ Quiet /\ Fail
  /\ UNCHANGED <<kind, wire, inbox, closed, handed, sent, taken>>

\* Another transport takes the place of this one, and the loop waits for its first frame.
Attach(k) ==
  /\ kind' = k /\ wire' = << >> /\ inbox' = << >> /\ error' = FALSE /\ closed' = FALSE
  /\ call' = "parked" /\ handed' = None
  /\ sent' = << >> /\ taken' = 0
=============================================================================
