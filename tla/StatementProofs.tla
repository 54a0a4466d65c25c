--------------------------- MODULE StatementProofs ---------------------------
(* Proofs about Statement: the terminal of an autocommit statement tells the   *)
(* truth, for any number of requests, of connections and of cancels under way. *)
EXTENDS Statement, TLAPS

-----------------------------------------------------------------------------
(* The inductive invariant.                                                    *)

(* A connection is held from the checkout to the terminal.                     *)
HoldInv ==
  \A r \in Requests : co[r] = None <=> at[r] \in {"queue", "ended"}

(* Nothing reaches the server before the driver call is polled.                *)
UnsentInv ==
  \A r \in Requests :
     at[r] \in {"queue", "check"} => effect[r] = "waiting" /\ reply[r] = "none"

(* What a session still runs is undecided and unanswered, and runs only there. *)
ServeInv ==
  /\ \A c \in Conns : \A r \in Requests :
        serving[c] = r => effect[r] \in {"parsing", "running"} /\ reply[r] = "none"
  /\ \A c, d \in Conns : \A r \in Requests : serving[c] = r /\ serving[d] = r => c = d

(* An answer the handler has not read agrees with what the server did.         *)
ReplyInv ==
  \A r \in Requests :
     /\ reply[r] \in {"ok", "backend"} => effect[r] = "applied"
     /\ reply[r] \in {"sql", "cancel"} => effect[r] \in {"refused", "failed"}

(* The code of an abandoned statement, chosen before its drain, is one that    *)
(* holds whatever the server makes of it.                                      *)
DrainInv ==
  \A r \in Requests :
     at[r] = "finish" \/ (at[r] = "drain" /\ kind[r] = "copyOut")
       => /\ told[r] \notin {"Ok", "none"}
          /\ ~ readonly[r] => told[r] \notin Retryable

(* Only the buffered EXEC awaits its whole answer.                             *)
ExecInv ==
  \A r \in Requests : at[r] = "wait" => kind[r] = "exec"

IInv ==
  /\ TypeOK /\ ExecInv /\ HoldInv /\ UnsentInv /\ ServeInv /\ ReplyInv /\ DrainInv /\ AnswerIsTrue

-----------------------------------------------------------------------------
(* What the fate classification says.                                          *)

(* fate.rs: an error is never reported as success.                             *)
LEMMA FateIsACode ==
  ASSUME NEW err \in Errors, NEW c
  PROVE  ClassifyFate(err, c) \in Codes /\ ClassifyFate(err, c) # "Ok"
<1>1. ClassifyCancel(c) \in Codes \ {"Ok"}
  BY Zenon DEF ClassifyCancel, Codes
<1>2. ClassifyLost(c) \in Codes \ {"Ok"}
  BY DEF ClassifyLost, Codes
<1>3. CASE err = "cancel"
  BY <1>1, <1>3, Zenon DEF ClassifyFate
<1>4. CASE err = "lost"
  BY <1>2, <1>4, Zenon DEF ClassifyFate
<1>5. CASE err \notin {"cancel", "lost"}
  BY <1>5, Zenon DEF ClassifyFate, Errors, Codes
<1> QED  BY <1>3, <1>4, <1>5

(* fate.rs: no error of an autocommit write that was sent lets it be repeated. *)
LEMMA SentWriteIsFinal ==
  ASSUME NEW err \in Errors \ {"timeout"}, NEW r \in Requests, ~ readonly[r]
  PROVE  ClassifyFate(err, Context(r, TRUE)) \notin Retryable
<1> DEFINE c == Context(r, TRUE)
<1>1. c.sent = TRUE /\ c.inTx = FALSE /\ ~ c.readonly
  BY DEF Context
<1> HIDE DEF c
<1>2. ClassifyCancel(c) = "WriteUnconfirmed"
  BY <1>1, Zenon DEF ClassifyCancel
<1>3. ClassifyLost(c) = "WriteUnconfirmed"
  BY <1>1 DEF ClassifyLost
<1>4. CASE err = "cancel"
  <2>1. ClassifyFate(err, c) = "WriteUnconfirmed"
    BY <1>2, <1>4, Zenon DEF ClassifyFate
  <2> QED  BY <2>1 DEF c, Retryable
<1>5. CASE err = "lost"
  <2>1. ClassifyFate(err, c) = "WriteUnconfirmed"
    BY <1>3, <1>5, Zenon DEF ClassifyFate
  <2> QED  BY <2>1 DEF c, Retryable
<1>6. CASE err \notin {"cancel", "lost"}
  BY <1>6, Zenon DEF ClassifyFate, Errors, Retryable
<1> QED  BY <1>4, <1>5, <1>6 DEF c

-----------------------------------------------------------------------------
(* The three ways a step changes the state: a request ends, a handler moves    *)
(* on, the server answers.                                                     *)

(* A truthful terminal keeps the invariant, whatever the server still runs.    *)
LEMMA Ends ==
  ASSUME IInv, NEW r \in Requests, NEW code \in Codes, NEW taint \in BOOLEAN,
         End(r, code, taint),
         at[r] # "ended",
         code = "Ok" => effect[r] = "applied",
         ~ readonly[r] /\ code \in Retryable => effect[r] \in NotApplied,
         reply' \in {reply, [reply EXCEPT ![r] = "none"]},
         cancels' \in [Conns -> 0 .. MaxCancels],
         UNCHANGED <<request, serving, effect>>
  PROVE  IInv'
<1> USE DEF IInv, End, Goto, request
<1>1. TypeOK'
  BY StatementAssumption DEF TypeOK, Answers
<1>2. HoldInv' /\ ExecInv'
  BY DEF HoldInv, ExecInv, TypeOK
<1>3. UnsentInv' /\ ServeInv' /\ ReplyInv'
  BY StatementAssumption DEF UnsentInv, ServeInv, ReplyInv, TypeOK
<1>4. DrainInv'
  BY DEF DrainInv, TypeOK
<1>5. AnswerIsTrue'
  BY DEF AnswerIsTrue, Over, TypeOK
<1> QED  BY <1>1, <1>2, <1>3, <1>4, <1>5

(* A handler whose statement was sent moves on; the code of one it abandons    *)
(* must hold whatever the server does.                                         *)
LEMMA Moves ==
  ASSUME IInv, NEW r \in Requests, NEW where \in {"drain", "open", "pull", "finish"},
         NEW code \in Codes \cup {"none"},
         at[r] \notin {"queue", "check", "ended"},
         Goto(r, where), told' = [told EXCEPT ![r] = code],
         where = "finish" \/ (where = "drain" /\ kind[r] = "copyOut")
           => code \notin {"Ok", "none"} /\ (~ readonly[r] => code \notin Retryable),
         cancels' \in [Conns -> 0 .. MaxCancels],
         UNCHANGED <<request, co, tainted, serving, reply, effect>>
  PROVE  IInv'
<1> USE DEF IInv, Goto, request
<1>1. TypeOK'
  BY DEF TypeOK
<1>2. HoldInv' /\ ExecInv'
  BY DEF HoldInv, ExecInv, TypeOK
<1>3. UnsentInv' /\ ServeInv' /\ ReplyInv'
  BY DEF UnsentInv, ServeInv, ReplyInv, TypeOK
<1>4. DrainInv'
  BY DEF DrainInv, TypeOK
<1>5. AnswerIsTrue'
  BY DEF AnswerIsTrue, Over, TypeOK
<1> QED  BY <1>1, <1>2, <1>3, <1>4, <1>5

(* The server decides a statement it runs, whether or not its handler still    *)
(* waits: a code already given was chosen for any outcome.                     *)
LEMMA Answering ==
  ASSUME IInv, NEW c \in Conns, NEW r \in Requests, NEW a \in Answers,
         NEW e \in {"refused", "applied", "failed"},
         Answer(r, c, a, e),
         a \in {"ok", "backend"} => e = "applied",
         a \in {"sql", "cancel"} => e \in {"refused", "failed"},
         cancels' \in [Conns -> 0 .. MaxCancels],
         UNCHANGED <<request, at, co, tainted, told>>
  PROVE  IInv'
<1> USE DEF IInv, Answer, request
<1>1. TypeOK'
  BY DEF TypeOK, Answers
<1>2. HoldInv' /\ ExecInv' /\ DrainInv'
  BY DEF HoldInv, ExecInv, DrainInv
<1>3. UnsentInv'
  BY DEF UnsentInv, ServeInv, TypeOK
<1>4. ServeInv'
  BY StatementAssumption DEF ServeInv, TypeOK
<1>5. ReplyInv'
  BY DEF ReplyInv, ServeInv, TypeOK
<1>6. AnswerIsTrue'
  BY DEF AnswerIsTrue, Over, ServeInv, TypeOK, NotApplied
<1> QED  BY <1>1, <1>2, <1>3, <1>4, <1>5, <1>6

(* cancel_handle.cancel: within its bound, on the connection that is held.     *)
LEMMA CancelTyped ==
  ASSUME IInv, NEW r \in Requests, at[r] \notin {"queue", "ended"}, FireCancel(r)
  PROVE  cancels' \in [Conns -> 0 .. MaxCancels]
<1>1. co[r] \in Conns
  BY DEF IInv, TypeOK, HoldInv
<1>2. cancels \in [Conns -> 0 .. MaxCancels] /\ MaxCancels \in Nat
  BY StatementAssumption DEF IInv, TypeOK
<1> QED  BY <1>1, <1>2 DEF FireCancel

-----------------------------------------------------------------------------
(* The steps.                                                                  *)

LEMMA InitIInv == Init => IInv
BY StatementAssumption DEF Init, IInv, TypeOK, HoldInv, ExecInv, UnsentInv, ServeInv, ReplyInv,
   DrainInv, AnswerIsTrue, Over, Answers, Kinds

LEMMA CheckoutIInv ==
  ASSUME IInv, NEW r \in Requests, Checkout(r)
  PROVE  IInv'
<1> USE DEF IInv, Checkout, Goto, request, db
<1>1. PICK c \in Conns \ Held :
         serving[c] = None /\ co' = [co EXCEPT ![r] = c] /\ tainted' = tainted \ {c}
  OBVIOUS
<1>2. \A s \in Requests : co[s] # c
  BY <1>1, StatementAssumption DEF Held
<1>3. TypeOK'
  BY <1>1, <1>2, StatementAssumption DEF TypeOK
<1>4. HoldInv' /\ ExecInv'
  BY <1>1, StatementAssumption DEF HoldInv, ExecInv, TypeOK
<1>5. UnsentInv' /\ ServeInv' /\ ReplyInv' /\ DrainInv' /\ AnswerIsTrue'
  BY DEF UnsentInv, ServeInv, ReplyInv, DrainInv, AnswerIsTrue, Over, TypeOK
<1> QED  BY <1>3, <1>4, <1>5

LEMMA BeginIInv ==
  ASSUME IInv, NEW r \in Requests, Begin(r)
  PROVE  IInv'
<1> USE DEF IInv, Begin, Goto, request
<1>1. co[r] \in Conns /\ effect[r] = "waiting" /\ reply[r] = "none"
  BY DEF TypeOK, HoldInv, UnsentInv
<1>2. TypeOK'
  BY <1>1 DEF TypeOK
<1>3. HoldInv' /\ ExecInv' /\ UnsentInv' /\ DrainInv' /\ AnswerIsTrue'
  BY DEF HoldInv, ExecInv, UnsentInv, DrainInv, AnswerIsTrue, Over, TypeOK, Kinds
<1>4. ServeInv' /\ ReplyInv'
  BY <1>1 DEF ServeInv, ReplyInv, TypeOK
<1> QED  BY <1>2, <1>3, <1>4

(* The ways out before anything was sent.                                      *)
LEMMA UnsentIInv ==
  ASSUME IInv, NEW r \in Requests, CheckoutFails(r) \/ NoTimeLeft(r)
  PROVE  IInv'
<1>1. PICK err \in Errors : End(r, ClassifyFate(err, Context(r, FALSE)), FALSE)
  BY DEF CheckoutFails, NoTimeLeft, Errors
<1>2. at[r] \in {"queue", "check"} /\ UNCHANGED <<request, db>>
  BY DEF CheckoutFails, NoTimeLeft
<1>3. effect[r] = "waiting"
  BY <1>2 DEF IInv, UnsentInv
<1> DEFINE code == ClassifyFate(err, Context(r, FALSE))
<1>4. code \in Codes /\ code # "Ok"
  BY FateIsACode
<1>5. End(r, code, FALSE)
  BY <1>1
<1> HIDE DEF code
<1>6. cancels' \in [Conns -> 0 .. MaxCancels] /\ reply' = reply
  BY <1>2 DEF db, IInv, TypeOK
<1> QED  BY <1>2, <1>3, <1>4, <1>5, <1>6, Ends DEF db, NotApplied

(* The handler reads the server's answer.                                      *)
LEMMA ReadIInv ==
  ASSUME IInv, NEW r \in Requests, ExecAnswered(r) \/ OpenFails(r) \/ PullAnswered(r)
  PROVE  IInv'
<1> DEFINE fate == ClassifyFate(reply[r], Context(r, TRUE))
<1>1. /\ at[r] \in {"wait", "drain", "open", "pull"}
      /\ reply[r] # "none"
      /\ reply' = [reply EXCEPT ![r] = "none"]
      /\ UNCHANGED <<request, serving, cancels, effect>>
  BY DEF ExecAnswered, OpenFails, PullAnswered
<1>2. \E code : \E taint \in BOOLEAN :
         /\ End(r, code, taint)
         /\ code \in IF reply[r] = "ok" THEN {"Ok", "Unsupported"} ELSE {fate}
  <2>1. CASE ExecAnswered(r)
    BY <2>1 DEF ExecAnswered, Declare
  <2>2. CASE OpenFails(r)
    BY <2>2 DEF OpenFails
  <2>3. CASE PullAnswered(r)
    BY <2>3 DEF PullAnswered
  <2> QED  BY <2>1, <2>2, <2>3
<1>3. PICK code : \E taint \in BOOLEAN :
         /\ End(r, code, taint)
         /\ code \in IF reply[r] = "ok" THEN {"Ok", "Unsupported"} ELSE {fate}
  BY <1>2
<1>4. PICK taint \in BOOLEAN :
         /\ End(r, code, taint)
         /\ code \in IF reply[r] = "ok" THEN {"Ok", "Unsupported"} ELSE {fate}
  BY <1>3
<1>5. /\ code \in Codes
      /\ code = "Ok" => effect[r] = "applied"
      /\ ~ readonly[r] => code \notin Retryable
  <2>1. CASE reply[r] = "ok"
    BY <1>4, <2>1 DEF Codes, Retryable, IInv, ReplyInv
  <2>2. CASE reply[r] # "ok"
    <3>1. reply[r] \in Errors \ {"timeout"}
      BY <1>1, <2>2 DEF IInv, TypeOK, Answers, Errors
    <3> QED  BY <1>4, <2>2, <3>1, FateIsACode, SentWriteIsFinal
  <2> QED  BY <2>1, <2>2
<1>6. cancels' \in [Conns -> 0 .. MaxCancels]
  BY <1>1 DEF IInv, TypeOK
<1> QED  BY <1>1, <1>4, <1>5, <1>6, Ends

(* The handler gives up on a statement the server may still run.               *)
LEMMA AbandonIInv ==
  ASSUME IInv, NEW r \in Requests,
         OpenStopped(r) \/ OpenStoppedDrains(r) \/ PullAborts(r) \/ ExecStopped(r)
  PROVE  IInv'
<1>1. at[r] \in {"open", "pull", "wait"}
  BY DEF OpenStopped, OpenStoppedDrains, PullAborts, ExecStopped
<1>2. cancels' \in [Conns -> 0 .. MaxCancels]
  BY <1>1, CancelTyped DEF OpenStopped, OpenStoppedDrains, PullAborts, ExecStopped, IInv, TypeOK
<1>3. UNCHANGED <<request, serving, reply, effect>>
  BY DEF OpenStopped, OpenStoppedDrains, PullAborts, ExecStopped
<1>4. \A err \in {"cancel", "unsupported", "lost"} :
         LET code == ClassifyFate(err, Context(r, TRUE)) IN
         code \in Codes /\ code # "Ok" /\ (~ readonly[r] => code \notin Retryable)
  BY FateIsACode, SentWriteIsFinal DEF Errors
<1>5. CASE OpenStopped(r)
  BY <1>1, <1>2, <1>3, <1>4, <1>5, Ends DEF OpenStopped
<1>6. CASE OpenStoppedDrains(r) \/ PullAborts(r)
  <2>1. PICK err \in {"cancel", "unsupported", "lost"} :
           told' = [told EXCEPT ![r] = ClassifyFate(err, Context(r, TRUE))]
    BY <1>6 DEF OpenStoppedDrains, PullAborts
  <2>2. PICK where \in {"drain", "finish"} : Goto(r, where) /\ UNCHANGED <<co, tainted>>
    BY <1>6 DEF OpenStoppedDrains, PullAborts
  <2>3. PICK code : code = ClassifyFate(err, Context(r, TRUE))
    OBVIOUS
  <2>4. /\ code \in Codes \cup {"none"} /\ code \notin {"Ok", "none"}
        /\ ~ readonly[r] => code \notin Retryable
    BY <2>3, <1>4 DEF Codes
  <2>5. told' = [told EXCEPT ![r] = code]
    BY <2>1, <2>3
  <2> QED  BY <1>1, <1>2, <1>3, <2>2, <2>4, <2>5, Moves
<1>7. CASE ExecStopped(r)
  <2>1. told' = [told EXCEPT ![r] = told[r]] /\ told[r] \in Codes \cup {"none"}
    BY <1>7 DEF ExecStopped, IInv, TypeOK
  <2>2. kind[r] = "exec"
    BY <1>7 DEF ExecStopped, IInv, ExecInv
  <2> QED  BY <1>1, <1>2, <1>3, <1>7, <2>1, <2>2, Moves DEF ExecStopped
<1> QED  BY <1>5, <1>6, <1>7

(* The stream opens, or an abandoned COPY turns out to have opened.            *)
LEMMA OpenIInv ==
  ASSUME IInv, NEW r \in Requests, Opened(r)
  PROVE  IInv'
<1>1. told' = [told EXCEPT ![r] = told[r]] /\ told[r] \in Codes \cup {"none"}
  BY DEF Opened, IInv, TypeOK
<1>2. cancels' \in [Conns -> 0 .. MaxCancels]
  BY DEF Opened, db, IInv, TypeOK
<1> QED  BY <1>1, <1>2, Moves DEF Opened, db

(* The drain of an abandoned statement ends, answered or not.                  *)
LEMMA DrainIInv ==
  ASSUME IInv, NEW r \in Requests, OpenDrained(r) \/ Drained(r) \/ DrainTimesOut(r)
  PROVE  IInv'
<1>1. at[r] = "finish" \/ (at[r] = "drain" /\ kind[r] = "copyOut")
  BY DEF OpenDrained, Drained, DrainTimesOut
<1>2. /\ told[r] \in Codes /\ told[r] # "Ok"
      /\ ~ readonly[r] => told[r] \notin Retryable
  BY <1>1 DEF IInv, TypeOK, DrainInv
<1>3. cancels' \in [Conns -> 0 .. MaxCancels]
  BY DEF OpenDrained, Drained, DrainTimesOut, db, IInv, TypeOK
<1>4. UNCHANGED <<request, serving, effect>>
  BY DEF OpenDrained, Drained, DrainTimesOut, db
<1>5. CASE End(r, told[r], TRUE) /\ reply' \in {reply, [reply EXCEPT ![r] = "none"]}
  BY <1>1, <1>2, <1>3, <1>4, <1>5, Ends
<1>6. CASE OpenDrained(r) /\ Goto(r, "finish") /\ reply[r] \in {"none", "ok"}
           /\ UNCHANGED <<co, tainted, told>>
  <2>1. told' = [told EXCEPT ![r] = told[r]]
    BY <1>6 DEF IInv, TypeOK
  <2>2. reply' = reply
    BY <1>6 DEF OpenDrained, IInv, TypeOK
  <2> QED  BY <1>1, <1>2, <1>3, <1>4, <1>6, <2>1, <2>2, Moves DEF Codes
<1>7. \/ OpenDrained(r)
      \/ End(r, told[r], TRUE) /\ reply' \in {reply, [reply EXCEPT ![r] = "none"]}
  BY DEF Drained, DrainTimesOut, db
<1>8. OpenDrained(r) =>
        \/ End(r, told[r], TRUE) /\ reply' \in {reply, [reply EXCEPT ![r] = "none"]}
        \/ /\ Goto(r, "finish") /\ reply[r] \in {"none", "ok"}
           /\ UNCHANGED <<co, tainted, told>>
  BY DEF OpenDrained
<1> QED  BY <1>5, <1>6, <1>7, <1>8

LEMMA StopIInv ==
  ASSUME IInv, NEW r \in Requests, Stop(r)
  PROVE  IInv'
BY DEF Stop, db, IInv, TypeOK, HoldInv, ExecInv, UnsentInv, ServeInv, ReplyInv, DrainInv,
   AnswerIsTrue, Over

LEMMA ServerIInv ==
  ASSUME IInv, NEW c \in Conns, PrepareFails(c) \/ Execute(c) \/ ServerAnswers(c) \/ CancelLands(c)
  PROVE  IInv'
<1>1. UNCHANGED <<request, at, co, tainted, told>>
  BY DEF PrepareFails, Execute, ServerAnswers, CancelLands
<1>2. cancels' \in [Conns -> 0 .. MaxCancels]
  <2>1. CASE CancelLands(c)
    BY <2>1, StatementAssumption DEF CancelLands, IInv, TypeOK
  <2>2. CASE ~ CancelLands(c)
    BY <2>2 DEF PrepareFails, Execute, ServerAnswers, IInv, TypeOK
  <2> QED  BY <2>1, <2>2
<1>3. PICK r : r = serving[c] /\ r \in Requests \cup {None}
  BY DEF IInv, TypeOK
<1>4. CASE r = None
  <2>1. UNCHANGED <<serving, reply, effect>>
    BY <1>3, <1>4 DEF PrepareFails, Execute, ServerAnswers, CancelLands
  <2> QED  BY <1>1, <1>2, <2>1 DEF request, IInv, TypeOK, HoldInv, ExecInv, UnsentInv, ServeInv,
             ReplyInv, DrainInv, AnswerIsTrue, Over
<1>5. CASE r \in Requests
  <2>1. effect[r] \in {"parsing", "running"}
    BY <1>3, <1>5 DEF IInv, ServeInv
  <2>2. CASE PrepareFails(c)
    <3>1. PICK a \in {"sql", "lost"} : Answer(r, c, a, "refused")
      BY <1>3, <2>2 DEF PrepareFails
    <3> QED  BY <1>1, <1>2, <1>5, <3>1, Answering DEF Answers
  <2>3. CASE Execute(c) /\ Answer(r, c, "none", "refused")
    BY <1>1, <1>2, <1>5, <2>3, Answering DEF Answers
  <2>4. CASE Execute(c) /\ at[r] # "ended"
    <3>1. effect' = [effect EXCEPT ![r] = "running"] /\ UNCHANGED <<serving, reply>>
      BY <1>3, <2>4 DEF Execute
    <3>2. at[r] \notin {"queue", "check"} /\ effect[r] = "parsing" /\ reply[r] = "none"
      BY <1>3, <1>5, <2>1, <2>4 DEF Execute, IInv, UnsentInv, ServeInv
    <3>3. TypeOK' /\ HoldInv' /\ ExecInv' /\ DrainInv'
      BY <1>1, <1>2, <3>1, <1>5 DEF request, IInv, TypeOK, HoldInv, ExecInv, DrainInv
    <3>4. UnsentInv' /\ ServeInv' /\ ReplyInv'
      BY <1>1, <3>1, <3>2, <1>5 DEF IInv, TypeOK, UnsentInv, ServeInv, ReplyInv
    <3>5. AnswerIsTrue'
      BY <1>1, <3>1, <3>2, <1>5, <2>4 DEF request, IInv, TypeOK, AnswerIsTrue, Over
    <3> QED  BY <3>3, <3>4, <3>5 DEF IInv
  <2>5. CASE ServerAnswers(c)
    <3>1. PICK a \in {"ok", "sql", "backend", "lost"}, e \in {"applied", "failed"} :
             /\ Answer(r, c, a, e)
             /\ a \in {"ok", "backend"} => e = "applied"
             /\ a = "sql" => e = "failed"
      BY <1>3, <2>5 DEF ServerAnswers
    <3> QED  BY <1>1, <1>2, <1>5, <3>1, Answering DEF Answers
  <2>6. CASE CancelLands(c) /\ UNCHANGED <<serving, reply, effect>>
    BY <1>1, <1>2, <2>6 DEF request, IInv, TypeOK, HoldInv, ExecInv, UnsentInv, ServeInv,
       ReplyInv, DrainInv, AnswerIsTrue, Over
  <2>7. CASE CancelLands(c) /\ ~ UNCHANGED <<serving, reply, effect>>
    <3>1. PICK e \in {"refused", "failed"} : Answer(r, c, "cancel", e)
      BY <1>3, <2>7 DEF CancelLands
    <3> QED  BY <1>1, <1>2, <1>5, <3>1, Answering DEF Answers
  <2>8. Execute(c) => Answer(r, c, "none", "refused") \/ at[r] # "ended"
    BY <1>3 DEF Execute
  <2> QED  BY <2>2, <2>3, <2>4, <2>5, <2>6, <2>7, <2>8
<1> QED  BY <1>3, <1>4, <1>5

LEMMA NextIInv == IInv /\ [Next]_vars => IInv'
<1> SUFFICES ASSUME IInv, [Next]_vars PROVE IInv'
  OBVIOUS
<1>1. ASSUME NEW r \in Requests, HandlerSteps(r) \/ Opened(r) \/ OpenDrained(r) \/ Stop(r)
      PROVE  IInv'
  BY <1>1, CheckoutIInv, BeginIInv, UnsentIInv, ReadIInv, AbandonIInv, OpenIInv, DrainIInv,
     StopIInv DEF HandlerSteps
<1>2. ASSUME NEW c \in Conns,
             PrepareFails(c) \/ Execute(c) \/ ServerAnswers(c) \/ CancelLands(c)
      PROVE  IInv'
  BY <1>2, ServerIInv
<1>3. CASE Done \/ UNCHANGED vars
  BY <1>3 DEF Done, vars, IInv, TypeOK, HoldInv, ExecInv, UnsentInv, ServeInv, ReplyInv,
     DrainInv, AnswerIsTrue, Over
<1> QED  BY <1>1, <1>2, <1>3 DEF Next

-----------------------------------------------------------------------------

(* The statements' state keeps its shape: no two requests hold one connection, *)
(* and no more cancels are under way than the bound.                           *)
THEOREM StatementTypeCorrect == Spec => []TypeOK
<1>1. IInv => TypeOK
  BY DEF IInv
<1> QED  BY <1>1, InitIInv, NextIInv, PTL DEF Spec

(* sql.rs, copy.rs and fate.rs: the terminal of an autocommit statement tells   *)
(* the truth.  A write whose code lets the client repeat it has not been        *)
(* applied and never will be, and a success has, however many statements share  *)
(* the connections and wherever a late cancel lands.                            *)
THEOREM AnswersAreTrue == Spec => []AnswerIsTrue
<1>1. IInv => AnswerIsTrue
  BY DEF IInv
<1> QED  BY <1>1, InitIInv, NextIInv, PTL DEF Spec

=============================================================================
