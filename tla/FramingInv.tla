----------------------------- MODULE FramingInv -----------------------------
(***************************************************************************)
(* The inductive strengthening of LinePerFrame: the stream is the frames   *)
(* of the lines that were sent, one after the other, and buf is what lies  *)
(* between the last frame whose line was written and the bytes received.   *)
(***************************************************************************)
EXTENDS Framing

EndOf(n) == Ends(framing, sent)[n]

(* The n-th frame lies between EndOf(n - 1) and EndOf(n). *)
StreamInv ==
    /\ Len(stream) = EndOf(Len(sent))
    /\ \A n \in DOMAIN sent : \A i \in DOMAIN Frame(framing, sent[n]) :
          stream[EndOf(n - 1) + i] = Frame(framing, sent[n])[i]

(* A line was written for each frame up to some frame, the buffer begins with
   the next one, and a reader that waits does not have all of that. *)
ReaderInv ==
    (\A n \in DOMAIN sent : Fits(sent[n])) =>
        /\ Len(out) <= Len(sent)
        /\ \A n \in DOMAIN out : out[n] = Shown(sent[n])
        /\ EndOf(Len(out)) <= got
        /\ status # "closed" => buf = SubSeq(stream, EndOf(Len(out)) + 1, got)
        /\ status # "parsing" /\ Len(out) < Len(sent) => got < EndOf(Len(out) + 1)

(* Implies LinePerFrame, and is preserved by every step. *)
IInv ==
    /\ TypeOK
    /\ StreamInv
    /\ ReaderInv
=============================================================================
