---------------------------- MODULE StreamRelay ----------------------------
(***************************************************************************)
(* What a streamed answer promises, whatever the provider: the client is   *)
(* written the provider's pieces in their order, none twice and none left  *)
(* out, then one terminator; "[DONE]" only once the provider's answer is   *)
(* over and wholly relayed; and nothing is kept for later requests but the *)
(* text of an answer that ended with "[DONE]".                             *)
(***************************************************************************)
EXTENDS Integers, Sequences

CONSTANT Nothing

VARIABLES said,     \* pieces the provider has said
          over,     \* its body has ended
          written,  \* pieces written to the client
          closing,  \* "open", "done", "error" or "left"
          kept      \* the text kept for later requests, or Nothing

relayVars == <<said, over, written, closing, kept>>

Init == said = 0 /\ ~over /\ written = <<>> /\ closing = "open" /\ kept = Nothing

(* The provider says one more piece, perhaps its last, or ends its body. *)
Say ==
  /\ ~over
  /\ said' = said + 1 /\ over' \in BOOLEAN
  /\ UNCHANGED <<written, closing, kept>>
Finish == ~over /\ over' /\ UNCHANGED <<said, written, closing, kept>>

Relay ==
  /\ closing = "open" /\ Len(written) < said
  /\ written' = Append(written, Len(written) + 1)
  /\ UNCHANGED <<said, over, closing, kept>>

Done ==
  /\ closing = "open" /\ over /\ Len(written) = said
  /\ closing' = "done"
  /\ UNCHANGED <<said, over, written, kept>>

GiveUp ==
  /\ closing = "open" /\ closing' \in {"error", "left"}
  /\ over' \in {over, TRUE}
  /\ UNCHANGED <<said, written, kept>>

Keep ==
  /\ closing = "done" /\ kept = Nothing /\ kept' = written
  /\ UNCHANGED <<said, over, written, closing>>

Next == Say \/ Finish \/ Relay \/ Done \/ GiveUp \/ Keep

Spec == Init /\ [][Next]_relayVars
=============================================================================
