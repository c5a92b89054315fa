------------------------------- MODULE Lines --------------------------------
(***************************************************************************)
(* What a session promises its client about commands: the bytes that come  *)
(* are cut behind each line feed, and where a line grows to MaxLine bytes  *)
(* without one; the pieces are obeyed in order, each once, and none before *)
(* it is complete.  How the network cuts the stream makes no difference.   *)
(***************************************************************************)
EXTENDS Naturals, Sequences

CONSTANTS Bytes, LF, MaxLine

VARIABLES input,  \* what has come and is not obeyed yet
          got,    \* the lines obeyed
          over    \* nothing more will come

vars == <<input, got, over>>

Init == input = << >> /\ got = << >> /\ over \in BOOLEAN

\* The first k bytes are a line.
IsLine(k) == /\ input[k] = LF \/ k = MaxLine
             /\ \A j \in 1..k - 1 : input[j] # LF

Arrive == /\ ~over
          /\ \E x \in Bytes : input' = Append(input, x)
          /\ UNCHANGED <<got, over>>

\* A line is obeyed; the session may end with it.
Obey == \E k \in 1..Len(input), ends \in BOOLEAN :
            /\ k <= MaxLine /\ IsLine(k)
            /\ got' = Append(got, SubSeq(input, 1, k))
            /\ input' = IF ends THEN << >> ELSE SubSeq(input, k + 1, Len(input))
            /\ over' = (over \/ ends)

\* Nothing more will come, and the last bytes that came may be lost.
End == /\ over' = TRUE
       /\ \E k \in 0..Len(input) : input' = SubSeq(input, 1, k)
       /\ UNCHANGED got

Next == Arrive \/ Obey \/ End

Spec == Init /\ [][Next]_vars
=============================================================================
