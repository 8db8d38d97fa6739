----------------------------- MODULE MCFraming -----------------------------
(* Instances of Framing for TLC: the lines the configurations send. *)
EXTENDS FramingInv

(* Lines with digits that look like a length, with a line feed at the end or,
   as a CEF header may have it, in the middle, and one too long, whose payload
   has a length of two digits. *)
TextLines ==
    {<<Letter, Space, 1>>,
     <<Letter, 2, Space, LineFeed>>,
     <<Letter, Space, LineFeed, 1>>,
     <<Letter, Space, 3, Space, Letter, Space, 1, Space, Letter, Letter, Letter, Letter>>}
=============================================================================
