-------------------------------- MODULE MCAuth --------------------------------
(***************************************************************************)
(* A small instance of Auth for TLC.                                       *)
(***************************************************************************)
EXTENDS Auth, TLC

CONSTANTS r1, r2, r3, c1, c2

(* An email that clients do not write in its canonical form, and a text that is no email. *)
MCTexts == {"ana", "Ana", "nobody"}
MCEmails == {"ana", "Ana"}
MCWritten == {"Ana", "nobody"}
MCNormal == "ana" :> "ana" @@ "Ana" :> "ana" @@ "nobody" :> "nobody"

(* Each client has an address of its own, which is named like the client. *)
MCAddressOf == [c \in Clients |-> c]

Symmetry == Permutations(Requests) \cup Permutations(Clients)

=============================================================================
