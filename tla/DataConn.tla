------------------------------ MODULE DataConn ------------------------------
(***************************************************************************)
(* What a session promises about data connections, without its threads:    *)
(* PORT and PASV each arm a mode, a data connection is made from exactly   *)
(* one armed mode and disarms it in the same instant, and it is the only   *)
(* thing a transfer can use.                                               *)
(***************************************************************************)

VARIABLES port, pasv,   \* the armed modes
          data          \* there is a data connection

dvars == <<port, pasv, data>>

Init == port = FALSE /\ pasv = FALSE /\ data = FALSE

ArmPort == port' = TRUE /\ UNCHANGED <<pasv, data>>

ArmPasv == pasv' = TRUE /\ UNCHANGED <<port, data>>

\* There is no memory for the address of a new PORT.
LosePort == port' = FALSE /\ UNCHANGED <<pasv, data>>

\* The listener cannot be made, or nobody connects to it in time.
LosePasv == pasv' = FALSE /\ UNCHANGED <<port, data>>

Open == /\ port # pasv
        /\ port' = FALSE /\ pasv' = FALSE
        /\ data' = TRUE

\* Only a connection that exists can be used and closed, and while it is in
\* use no mode is armed.
Close == /\ data /\ ~port /\ ~pasv
         /\ data' = FALSE
         /\ UNCHANGED <<port, pasv>>

Free == port' = FALSE /\ pasv' = FALSE /\ data' = FALSE

Next == ArmPort \/ ArmPasv \/ LosePort \/ LosePasv \/ Open \/ Close \/ Free

Spec == Init /\ [][Next]_dvars
=============================================================================
