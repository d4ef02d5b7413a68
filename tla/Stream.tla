------------------------------- MODULE Stream -------------------------------
(***************************************************************************)
(* What a transport promises whoever reads it: recv() hands over the       *)
(* frames in the order they were sent, each once, then the end - but only  *)
(* after the last frame - or, at any moment, an error, and nothing after.  *)
(***************************************************************************)
EXTENDS Naturals, Sequences

CONSTANT None       \* no frame

VARIABLES sent,     \* the frames of the current connection
          taken,    \* how many of them recv() has handed over
          last,     \* the latest of those
          result    \* "open"; or "end" or "error", once recv() has said so

vars == <<sent, taken, last, result>>

Init == sent = << >> /\ taken = 0 /\ last = None /\ result = "open"

Advance(stream) ==
  /\ taken < Len(stream)
  /\ taken' = taken + 1 /\ last' = stream[taken + 1]

\* A frame is sent; when somebody waits for it, it is handed over at once.
Put ==
  /\ Len(sent') = Len(sent) + 1 /\ SubSeq(sent', 1, Len(sent)) = sent
  /\ Advance(sent') \/ UNCHANGED <<taken, last>>
  /\ UNCHANGED result

Get == result = "open" /\ Advance(sent) /\ UNCHANGED <<sent, result>>

Finish == /\ result = "open" /\ taken = Len(sent)
          /\ result' = "end" /\ UNCHANGED <<sent, taken, last>>

Break == /\ result = "open"
         /\ result' = "error" /\ UNCHANGED <<sent, taken, last>>

\* The reader moves on to another connection.
Renew == sent' = << >> /\ taken' = 0 /\ last' = None /\ result' = "open"

Next == Put \/ Get \/ Finish \/ Break \/ Renew

Spec == Init /\ [][Next]_vars
=============================================================================
