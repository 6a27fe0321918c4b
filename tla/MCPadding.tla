----------------------------- MODULE MCPadding -----------------------------
(* The padding and framing of the share message for TLC.                  *)
EXTENDS Padding

MCLayouts == {"alloc", "inplace", "disjoint", "same", "short"}

\* Lengths given to RemovePadding directly: every length that fits, some
\* that do not, and the lengths at the top of the word: int overflow of
\* 8 + l, the sign bit, and all ones (-1).
MCEdgeFields == 0 .. 12 \cup {Word \div 2 - 1, Word \div 2, Word - 1}

====
