---------------------------- MODULE RequestStream ----------------------------
(* What a client of a ferro session may rely on, whatever happens inside:    *)
(* the frames it reads for one request are DATA frames and then at most one  *)
(* END, nothing is said of a request it never sent, and once the connection  *)
(* is closed nothing more arrives.  Session implements this.                 *)
EXTENDS Naturals, Sequences

CONSTANT Requests      \* the request frames the client sends

VARIABLES
  asked,               \* the requests the engine has read
  seen,                \* what the client has read for each request
  open                 \* the connection can still carry frames

vars == <<asked, seen, open>>

Ended(r) == \E i \in 1 .. Len(seen[r]) : seen[r][i] = "end"

Init ==
  /\ asked = {}
  /\ seen = [r \in Requests |-> <<>>]
  /\ open = TRUE

(* Reading and writing fail separately: the engine may read a request after   *)
(* its last frame could be written.                                          *)
Ask(r) ==
  /\ r \notin asked
  /\ asked' = asked \cup {r}
  /\ UNCHANGED <<seen, open>>

(* The client reads a frame of a request it sent and that has not ended.     *)
Read(r, frame) ==
  /\ open
  /\ r \in asked
  /\ ~ Ended(r)
  /\ seen' = [seen EXCEPT ![r] = Append(@, frame)]
  /\ UNCHANGED <<asked, open>>

Close ==
  /\ open
  /\ open' = FALSE
  /\ UNCHANGED <<asked, seen>>

Next ==
  \/ \E r \in Requests : Ask(r) \/ Read(r, "data") \/ Read(r, "end")
  \/ Close

Spec == Init /\ [][Next]_vars

=============================================================================
