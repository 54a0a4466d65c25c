---------------------------- MODULE ClientProofs ----------------------------
(* What Client's caller is told is what happened, for any number of calls,     *)
(* sessions and attempts.  The invariant follows a request through the places  *)
(* it can be (with the engine, on the wire back, filed in the inbox) and says  *)
(* of each what the answer on its way may claim.                               *)
EXTENDS Client, CopyIn, TLAPS

Waiting == {"wait", "future"}

(* The request the call has out would change the database.                     *)
Writing(c) == call[c].req = "commit" \/ (call[c].req = "exec" /\ call[c].kind \notin Reads)

(* Nothing the call did took effect, and nothing it left with the engine can.   *)
Clean(c) == applied[c] = 0 /\ \A q \in engine : q.call = c => ~ Writes(q)

AnswerTrue(c, ans) ==
  /\ ans = "ok" /\ Writing(c) => applied[c] >= 1
  /\ ans \in {"retryable", "nonretryable"} /\ call[c].kind # "idem" => Clean(c)

Shape(c) ==
  /\ call[c].kind \in Reads => call[c].req = "exec"
  /\ call[c].at = "user" => call[c].req # "exec"
  /\ call[c].at = "redial" => Budget(c)
  /\ call[c].why # "ok"
  /\ call[c].told # "none" => call[c].at = "over"

(* A request the engine has belongs to a call that waits for it, or is over, or *)
(* lost it on a dead session under the idempotent licence.                      *)
Outstanding(c) ==
  \A q \in engine : q.call = c =>
     \/ call[c].at = "over"
     \/ call[c].kind = "idem" /\ sess[q.on].st = "dead"
     \/ /\ call[c].at \in Waiting
        /\ q.on = call[c].on /\ q.req = call[c].req /\ q.try = call[c].try
        /\ inbox[c] = "none"
        /\ \A s \in Sessions : \A m \in sess[s].wire : m.call # c

Returning(c) ==
  \A s \in Sessions : \A m \in sess[s].wire : m.call = c =>
     \/ call[c].at = "over"
     \/ /\ call[c].at \in Waiting /\ call[c].on = s /\ inbox[c] = "none"
        /\ AnswerTrue(c, m.ans)
        /\ \A o \in sess[s].wire : o.call = c => o = m

Filed(c) == inbox[c] # "none" => call[c].at \in Waiting /\ AnswerTrue(c, inbox[c])

Once(c) ==
  call[c].kind # "idem" =>
    /\ applied[c] <= 1
    /\ \A q, o \in engine : q.call = c /\ o.call = c => q = o
    /\ \A q \in engine : q.call = c /\ Writes(q) => applied[c] = 0

MustBeClean(c) ==
  \/ call[c].at \in {"new", "pick", "send", "user", "redial"}
  \/ call[c].at \in Waiting /\ ~ Writing(c)
  \/ call[c].at = "over" /\ call[c].told \notin {"ok", "indeterminate", "dropped"}
  \/ call[c].kind \in Reads

StaysClean(c) == call[c].kind # "idem" /\ MustBeClean(c) => Clean(c)

WasApplied(c) == call[c].told = "ok" /\ call[c].kind \notin Reads => applied[c] >= 1

Good(c) ==
  /\ Shape(c) /\ Outstanding(c) /\ Returning(c) /\ Filed(c)
  /\ Once(c) /\ StaysClean(c) /\ WasApplied(c)

(* A closed socket brings nothing back, and only writes outlive it.             *)
Closed ==
  \A s \in Sessions : sess[s].st = "dead" =>
     /\ sess[s].wire = {}
     /\ \A q \in engine : q.on = s => Writes(q)

Inv == ClientTypeOK /\ (\A c \in Calls : Good(c)) /\ Closed

-----------------------------------------------------------------------------
(* How a request ends.                                                         *)

Ordinary(c, x) ==
  /\ x \in CallState /\ x.kind = call[c].kind
  /\ x.at \in {"pick", "send", "user", "redial", "over"}
  /\ x.kind \in Reads => x.req = "exec"
  /\ x.at = "user" => x.req # "exec"
  /\ x.at = "redial" => x.try + 1 < MaxAttempts
  /\ x.why # "ok"
  /\ x.told # "none" => x.at = "over"

(* What Ends(c, why) may leave: a success is told only on the engine's word for *)
(* a write or a read, and a write that may be applied is told as such unless    *)
(* it is declared idempotent.                                                   *)
Outcome(c, cause, x) ==
  /\ Ordinary(c, x)
  /\ x.told = "ok" => cause = "ok" /\ (Writing(c) \/ x.kind \in Reads)
  /\ Writing(c) /\ x.kind # "idem" /\ cause \in {"ok", "lost", "indeterminate"}
       => x.at = "over" /\ x.told \in {"ok", "indeterminate"}
  /\ x.at = "over" /\ x.told \notin {"ok", "indeterminate"} => cause # "ok" \/ ~ Writing(c)

Becomes(c, x) == call' = [call EXCEPT ![c] = x] /\ turn' \in Calls \cup {None}

LEMMA AgainOutcome ==
  ASSUME ClientTypeOK, NEW c \in Calls, NEW cause, Shape(c), Again(c), Budget(c), call[c].told = "none",
         Writing(c) /\ call[c].kind # "idem" => cause \notin {"ok", "lost", "indeterminate"}
  PROVE  \E x : Becomes(c, x) /\ Outcome(c, cause, x)
<1> DEFINE x == [call[c] EXCEPT !.at = "pick", !.try = @ + 1, !.why = "none", !.did = FALSE,
                          !.async = FALSE,
                          !.req = IF call[c].kind = "tx" THEN "begin" ELSE "exec"]
<1>1. call[c] \in CallState
  BY DEF ClientTypeOK
<1>2. call[c].try + 1 \in Attempts
  BY <1>1, ClientAssumption DEF CallState, Attempts, Budget
<1>3. x \in CallState
  BY <1>1, <1>2 DEF CallState
<1>4. x.kind = call[c].kind /\ x.at = "pick" /\ x.why = "none" /\ x.told = "none"
      /\ (call[c].kind # "tx" => x.req = "exec")
  BY <1>1 DEF CallState
<1>5. Becomes(c, x)
  BY DEF Again, Runs, Set, Becomes
<1>6. Outcome(c, cause, x)
  BY <1>3, <1>4 DEF Outcome, Ordinary, Reads
<1> QED
  BY <1>5, <1>6

LEMMA RedialsOutcome ==
  ASSUME ClientTypeOK, NEW c \in Calls, NEW cause, Shape(c), Redials(c), Budget(c), call[c].told = "none",
         Writing(c) /\ call[c].kind # "idem" => cause \notin {"ok", "lost", "indeterminate"}
  PROVE  \E x : Becomes(c, x) /\ Outcome(c, cause, x)
<1> DEFINE x == [call[c] EXCEPT !.at = "redial"]
<1>1. call[c] \in CallState
  BY DEF ClientTypeOK
<1>2. x \in CallState
  BY <1>1 DEF CallState
<1>3. x.kind = call[c].kind /\ x.at = "redial" /\ x.why = call[c].why /\ x.told = "none"
      /\ x.req = call[c].req /\ x.try = call[c].try
  BY <1>1 DEF CallState
<1>4. Becomes(c, x)
  BY DEF Redials, Runs, Set, Becomes
<1>5. Outcome(c, cause, x)
  BY <1>2, <1>3 DEF Outcome, Ordinary, Shape, Budget
<1> QED
  BY <1>4, <1>5

LEMMA OverOutcome ==
  ASSUME ClientTypeOK, NEW c \in Calls, NEW cause, NEW word, Shape(c), Over(c, word),
         word \in Answers \cup {"none", "raw", "app", "refused", "dropped", "rolledback"},
         word = "ok" => cause = "ok" /\ (Writing(c) \/ call[c].kind \in Reads),
         Writing(c) /\ call[c].kind # "idem" /\ cause \in {"ok", "lost", "indeterminate"}
           => word \in {"ok", "indeterminate"},
         cause = "ok" /\ Writing(c) => word = "ok"
  PROVE  \E x : Becomes(c, x) /\ Outcome(c, cause, x)
<1> DEFINE x == [call[c] EXCEPT !.at = "over", !.told = word, !.why = "none", !.did = FALSE]
<1>1. call[c] \in CallState
  BY DEF ClientTypeOK
<1>2. x \in CallState
  BY <1>1 DEF CallState
<1>3. x.kind = call[c].kind /\ x.at = "over" /\ x.why = "none" /\ x.told = word
      /\ x.req = call[c].req
  BY <1>1 DEF CallState
<1>4. Becomes(c, x)
  BY DEF Over, Set, Becomes
<1>5. Outcome(c, cause, x)
  BY <1>2, <1>3 DEF Outcome, Ordinary, Shape
<1> QED
  BY <1>4, <1>5

LEMMA ToUserOutcome ==
  ASSUME ClientTypeOK, NEW c \in Calls, NEW cause, NEW did \in BOOLEAN,
         NEW err \in Answers \cup Losses \cup {"none", "app"},
         Shape(c), ToUser(c, did, err), err # "ok",
         call[c].told = "none", call[c].req \in {"begin", "stmt"}
  PROVE  \E x : Becomes(c, x) /\ Outcome(c, cause, x)
<1> DEFINE x == [call[c] EXCEPT !.at = "user", !.did = did, !.why = err]
<1>1. call[c] \in CallState
  BY DEF ClientTypeOK
<1>2. x \in CallState
  BY <1>1 DEF CallState
<1>3. x.kind = call[c].kind /\ x.at = "user" /\ x.why = err /\ x.told = "none"
      /\ x.req = call[c].req
  BY <1>1 DEF CallState
<1>4. Becomes(c, x)
  BY DEF ToUser, Set, Becomes
<1>5. Outcome(c, cause, x)
  BY <1>2, <1>3 DEF Outcome, Ordinary, Shape, Writing
<1> QED
  BY <1>4, <1>5

LEMMA FateType ==
  ASSUME NEW c \in Calls, NEW cause \in Answers \cup Losses
  PROVE  /\ Fate(c, cause) \in Answers
         /\ cause \in Answers => Fate(c, cause) = cause
         /\ cause \in Losses => Fate(c, cause) \in {"retryable", "indeterminate"}
         /\ cause = "lost" /\ Writing(c) => Fate(c, cause) = "indeterminate"
BY DEF Fate, ClassifyLoss, Answers, Losses, Writing

LEMMA ExecOutcome ==
  ASSUME ClientTypeOK, NEW c \in Calls, NEW cause \in Answers \cup Losses, Shape(c),
         call[c].told = "none", call[c].req = "exec", ExecEnds(c, cause)
  PROVE  \E x : Becomes(c, x) /\ Outcome(c, cause, x)
<1>1. CASE call[c].async /\ cause = "unsent"
  <2> DEFINE x == [call[c] EXCEPT !.at = "pick", !.async = FALSE]
  <2>1. call[c] \in CallState
    BY DEF ClientTypeOK
  <2>2. x \in CallState
    BY <2>1 DEF CallState
  <2>3. x.kind = call[c].kind /\ x.at = "pick" /\ x.why = call[c].why /\ x.told = "none"
        /\ x.req = call[c].req
    BY <2>1 DEF CallState
  <2>4. Becomes(c, x)
    BY <1>1 DEF ExecEnds, Runs, Set, Becomes
  <2>5. Outcome(c, cause, x)
    BY <1>1, <2>2, <2>3 DEF Outcome, Ordinary, Shape
  <2> QED
    BY <2>4, <2>5
<1>2. CASE ~ (call[c].async /\ cause = "unsent") /\ ~ (Budget(c) /\ MayRetry(c, Fate(c, cause)))
  <2>1. Over(c, Fate(c, cause))
    BY <1>2 DEF ExecEnds
  <2>2. cause = "ok" => Fate(c, cause) = "ok"
    BY FateType DEF Answers
  <2>3. Fate(c, cause) = "ok" => cause = "ok"
    BY FateType DEF Answers, Losses
  <2>4. cause = "indeterminate" => Fate(c, cause) = "indeterminate"
    BY FateType DEF Answers
  <2>5. Writing(c) \/ call[c].kind \in Reads
    BY DEF Writing
  <2> HIDE DEF Over
  <2> QED
    BY <2>1, <2>2, <2>3, <2>4, <2>5, FateType, OverOutcome
<1>3. CASE Budget(c) /\ MayRetry(c, Fate(c, cause)) /\ ~ (call[c].async /\ cause = "unsent")
  <2>1. Writing(c) /\ call[c].kind # "idem" => FALSE
    BY <1>3 DEF Writing, MayRetry
  <2>2. Redials(c) \/ Again(c)
    BY <1>3 DEF ExecEnds
  <2> QED
    BY <1>3, <2>1, <2>2, RedialsOutcome, AgainOutcome
<1> QED
  BY <1>1, <1>2, <1>3

LEMMA BeginOutcome ==
  ASSUME ClientTypeOK, NEW c \in Calls, NEW cause \in Answers \cup Losses, Shape(c),
         call[c].told = "none", call[c].req = "begin", BeginEnds(c, cause)
  PROVE  \E x : Becomes(c, x) /\ Outcome(c, cause, x)
<1>0. ~ Writing(c)
  BY DEF Writing
<1>1. CASE cause = "ok"
  <2>1. ToUser(c, FALSE, "none")
    BY <1>1 DEF BeginEnds
  <2> QED
    BY <2>1, ToUserOutcome
<1>2. CASE cause # "ok" /\ (call[c].kind = "imp" \/ ~ Budget(c) \/ Fate(c, cause) # "retryable")
  <2>1. Over(c, Fate(c, cause))
    BY <1>2 DEF BeginEnds
  <2>2. Fate(c, cause) # "ok" /\ Fate(c, cause) \in Answers
    BY <1>2, FateType DEF Answers, Losses
  <2> QED
    BY <1>0, <1>2, <2>1, <2>2, OverOutcome
<1>3. CASE cause # "ok" /\ ~ (call[c].kind = "imp" \/ ~ Budget(c) \/ Fate(c, cause) # "retryable")
  <2>1. Redials(c) \/ Again(c)
    BY <1>3 DEF BeginEnds
  <2> QED
    BY <1>0, <1>3, <2>1, RedialsOutcome, AgainOutcome
<1> QED
  BY <1>1, <1>2, <1>3

LEMMA StmtOutcome ==
  ASSUME ClientTypeOK, NEW c \in Calls, NEW cause \in Answers \cup Losses, Shape(c),
         call[c].told = "none", call[c].req = "stmt", StmtEnds(c, cause)
  PROVE  \E x : Becomes(c, x) /\ Outcome(c, cause, x)
<1>1. CASE cause = "ok"
  <2>1. ToUser(c, TRUE, "none")
    BY <1>1 DEF StmtEnds
  <2> QED
    BY <2>1, ToUserOutcome
<1>2. CASE cause # "ok" /\ call[c].kind = "imp"
  <2>1. ToUser(c, FALSE, cause)
    BY <1>2 DEF StmtEnds
  <2> QED
    BY <1>2, <2>1, ToUserOutcome
<1>3. CASE cause # "ok" /\ call[c].kind # "imp"
  <2> DEFINE x == [call[c] EXCEPT !.at = "send", !.req = "rollback", !.why = cause]
  <2>1. call[c] \in CallState
    BY DEF ClientTypeOK
  <2>2. x \in CallState
    BY <2>1 DEF CallState
  <2>3. x.kind = call[c].kind /\ x.at = "send" /\ x.why = cause /\ x.told = "none"
    BY <2>1 DEF CallState
  <2>4. Becomes(c, x)
    BY <1>3 DEF StmtEnds, Runs, Set, Becomes
  <2>5. x.kind \notin Reads /\ ~ Writing(c)
    BY <2>3 DEF Shape, Writing
  <2>6. Outcome(c, cause, x)
    BY <1>3, <2>2, <2>3, <2>5 DEF Outcome, Ordinary
  <2> QED
    BY <2>4, <2>6
<1> QED
  BY <1>1, <1>2, <1>3

LEMMA RollbackOutcome ==
  ASSUME ClientTypeOK, NEW c \in Calls, NEW cause \in Answers \cup Losses, Shape(c),
         call[c].told = "none", call[c].req = "rollback", RollbackEnds(c)
  PROVE  \E x : Becomes(c, x) /\ Outcome(c, cause, x)
<1>0. ~ Writing(c)
  BY DEF Writing
<1>1. call[c].why \in Answers \cup Losses \cup {"none", "app"} /\ call[c].why # "ok"
  BY DEF ClientTypeOK, CallState, Shape
<1>2. CASE (Redials(c) \/ Again(c)) /\ Budget(c)
  BY <1>0, <1>2, RedialsOutcome, AgainOutcome
<1>3. CASE Over(c, "rolledback") \/ Over(c, "raw")
  BY <1>0, <1>3, OverOutcome
<1>4. CASE Over(c, call[c].why) /\ call[c].why \notin Losses
  <2>1. call[c].why \in Answers \cup {"none", "raw", "app", "refused", "dropped", "rolledback"}
    BY <1>1, <1>4
  <2> QED
    BY <1>0, <1>1, <1>4, <2>1, OverOutcome
<1> QED
  BY <1>2, <1>3, <1>4 DEF RollbackEnds

LEMMA CommitOutcome ==
  ASSUME ClientTypeOK, NEW c \in Calls, NEW cause \in Answers \cup Losses, Shape(c),
         call[c].told = "none", call[c].req = "commit", CommitEnds(c, cause)
  PROVE  \E x : Becomes(c, x) /\ Outcome(c, cause, x)
<1>1. CASE Again(c) /\ Budget(c) /\ cause = "retryable"
  BY <1>1, AgainOutcome
<1>2. CASE Over(c, Fate(c, cause))
  <2>1. Writing(c)
    BY DEF Writing
  <2>2. cause = "ok" => Fate(c, cause) = "ok"
    BY FateType DEF Answers
  <2>3. Fate(c, cause) = "ok" => cause = "ok"
    BY FateType DEF Answers, Losses
  <2>4. cause = "indeterminate" => Fate(c, cause) = "indeterminate"
    BY FateType DEF Answers
  <2> QED
    BY <1>2, <2>1, <2>2, <2>3, <2>4, FateType, OverOutcome
<1> QED
  BY <1>1, <1>2 DEF CommitEnds

LEMMA EndsOutcome ==
  ASSUME ClientTypeOK, NEW c \in Calls, NEW cause \in Answers \cup Losses, Shape(c),
         call[c].at # "over", Ends(c, cause)
  PROVE  /\ \E x : Becomes(c, x) /\ Outcome(c, cause, x)
         /\ owner' \in Calls \cup {None}
<1>1. call[c].told = "none"
  BY DEF Shape
<1>2. call[c].req \in {"exec", "begin", "stmt", "commit", "rollback"}
  BY DEF ClientTypeOK, CallState
<1>3. owner \in Calls \cup {None}
  BY DEF ClientTypeOK
<1>4. CASE call[c].req = "exec"
  <2>1. ExecEnds(c, cause)
    BY <1>4 DEF Ends
  <2>2. owner' = owner
    BY <2>1 DEF ExecEnds
  <2> QED
    BY <1>1, <1>3, <1>4, <2>1, <2>2, ExecOutcome
<1>5. CASE call[c].req = "begin"
  <2>1. BeginEnds(c, cause)
    BY <1>5 DEF Ends
  <2>2. owner' \in {c, owner}
    BY <2>1 DEF BeginEnds
  <2> QED
    BY <1>1, <1>3, <1>5, <2>1, <2>2, BeginOutcome
<1>6. CASE call[c].req = "stmt"
  <2>1. StmtEnds(c, cause)
    BY <1>6 DEF Ends
  <2>2. owner' = owner
    BY <2>1 DEF StmtEnds
  <2> QED
    BY <1>1, <1>3, <1>6, <2>1, <2>2, StmtOutcome
<1>7. CASE call[c].req = "rollback"
  <2>1. RollbackEnds(c)
    BY <1>7 DEF Ends
  <2>2. owner' = owner
    BY <2>1 DEF RollbackEnds
  <2> QED
    BY <1>1, <1>3, <1>7, <2>1, <2>2, RollbackOutcome
<1>8. CASE call[c].req = "commit"
  <2>1. CommitEnds(c, cause)
    BY <1>8 DEF Ends
  <2>2. owner' = owner
    BY <2>1 DEF CommitEnds
  <2> QED
    BY <1>1, <1>3, <1>8, <2>1, <2>2, CommitOutcome
<1> QED
  BY <1>2, <1>4, <1>5, <1>6, <1>7, <1>8

-----------------------------------------------------------------------------
(* What a step leaves alone.  The invariant of a call survives any step that    *)
(* takes requests from the engine, frames off the wire, or closes a session.    *)

Fewer(c) ==
  /\ applied'[c] = applied[c]
  /\ \A q \in engine' : q.call = c => q \in engine
  /\ \A s \in Sessions : \A m \in sess'[s].wire : m.call = c => m \in sess[s].wire
  /\ \A s \in Sessions : sess[s].st = "dead" => sess'[s].st = "dead"

LEMMA EngineType ==
  ASSUME ClientTypeOK, NEW q \in engine
  PROVE  /\ q.call \in Calls /\ q.on \in Sessions /\ q.try \in Attempts
         /\ q.req \in {"exec", "begin", "stmt", "commit", "rollback"}
         /\ q = [call |-> q.call, try |-> q.try, req |-> q.req, on |-> q.on]
BY DEF ClientTypeOK, Requests

LEMMA Untouched ==
  ASSUME ClientTypeOK, NEW d \in Calls, Good(d), Fewer(d),
         call'[d] = call[d], inbox'[d] = inbox[d]
  PROVE  Good(d)'
<1>1. Shape(d)'
  BY DEF Good, Shape, Budget
<1>2. \A q \in engine' : q.call = d => q \in engine /\ q.on \in Sessions /\ (Writes(q)' <=> Writes(q))
  BY EngineType DEF Fewer, Writes
<1>3. Clean(d) => Clean(d)'
  BY <1>2 DEF Fewer, Clean
<1>4. Writing(d)' <=> Writing(d)
  BY DEF Writing
<1>5. ASSUME NEW ans, AnswerTrue(d, ans) PROVE AnswerTrue(d, ans)'
  BY <1>3, <1>4, <1>5 DEF Fewer, AnswerTrue
<1>6. Outstanding(d)'
  BY <1>2 DEF Good, Outstanding, Fewer
<1>7. Returning(d)'
  BY <1>5 DEF Good, Returning, Fewer
<1>8. Filed(d)'
  BY <1>5 DEF Good, Filed
<1>9. Once(d)'
  BY <1>2 DEF Good, Once, Fewer
<1>10. StaysClean(d)'
  BY <1>3, <1>4 DEF Good, StaysClean, MustBeClean
<1>11. WasApplied(d)'
  BY DEF Good, WasApplied, Fewer
<1> QED
  BY <1>1, <1>6, <1>7, <1>8, <1>9, <1>10, <1>11 DEF Good

(* Before a call has sent anything, and after it has taken its terminal.        *)
Gone(c) ==
  /\ \A s \in Sessions : \A m \in sess[s].wire : m.call # c
  /\ \A q \in engine : q.call = c => call[c].kind = "idem" /\ sess[q.on].st = "dead"

LEMMA QuietWhenIdle ==
  ASSUME ClientTypeOK, NEW c \in Calls, Good(c),
         call[c].at \in {"new", "pick", "send", "user", "redial"}
  PROVE  /\ Gone(c) /\ inbox[c] = "none"
         /\ call[c].told = "none"
         /\ call[c].kind # "idem" => Clean(c)
<1>1. inbox[c] = "none"
  BY DEF Good, Filed, Waiting
<1>2. \A s \in Sessions : \A m \in sess[s].wire : m.call # c
  BY DEF Good, Returning, Waiting
<1>3. \A q \in engine : q.call = c => call[c].kind = "idem" /\ sess[q.on].st = "dead"
  BY DEF Good, Outstanding, Waiting
<1>4. call[c].told = "none"
  BY DEF Good, Shape
<1>5. call[c].kind # "idem" => Clean(c)
  BY DEF Good, StaysClean, MustBeClean
<1> QED
  BY <1>1, <1>2, <1>3, <1>4, <1>5 DEF Gone

LEMMA Settles ==
  ASSUME ClientTypeOK, NEW c \in Calls, NEW x, call'[c] = x, Ordinary(c, x), Fewer(c), Once(c),
         inbox'[c] = "none",
         x.at # "over" => Gone(c),
         x.kind # "idem" => Clean(c) \/ (/\ x.at = "over"
                                         /\ x.told \in {"ok", "indeterminate", "dropped"}
                                         /\ x.kind \notin Reads),
         x.told = "ok" /\ x.kind \notin Reads => applied[c] >= 1
  PROVE  Good(c)'
<1>0. call'[c].kind = call[c].kind
  BY DEF Ordinary
<1>1. Shape(c)'
  BY DEF Ordinary, Shape, Budget
<1>2. \A q \in engine' : q.call = c => q \in engine /\ q.on \in Sessions /\ (Writes(q)' <=> Writes(q))
  BY <1>0, EngineType DEF Fewer, Writes
<1>3. Clean(c) => Clean(c)'
  BY <1>2 DEF Fewer, Clean
<1>4. Outstanding(c)'
  BY <1>2 DEF Outstanding, Gone, Fewer, Ordinary
<1>5. Returning(c)'
  BY DEF Returning, Gone, Fewer
<1>6. Filed(c)'
  BY DEF Filed
<1>7. Once(c)'
  BY <1>0, <1>2 DEF Once, Fewer
<1>8. StaysClean(c)'
  BY <1>3 DEF StaysClean, MustBeClean, Ordinary, Waiting
<1>9. WasApplied(c)'
  BY DEF WasApplied, Fewer
<1> QED
  BY <1>1, <1>4, <1>5, <1>6, <1>7, <1>8, <1>9 DEF Good

(* A step of the code of c, outside the wait for an answer.                     *)
LEMMA IdleStep ==
  ASSUME ClientTypeOK, \A d \in Calls : Good(d), NEW c \in Calls, NEW x,
         call[c].at \in {"new", "pick", "send", "user", "redial"},
         Becomes(c, x), Ordinary(c, x), x.told # "ok",
         \A d \in Calls : Fewer(d), inbox' = inbox
  PROVE  (\A d \in Calls : Good(d))'
<1>1. Good(c) /\ Fewer(c) /\ Once(c)
  BY DEF Good
<1>2. Gone(c) /\ inbox[c] = "none" /\ (call[c].kind # "idem" => Clean(c))
  BY <1>1, QuietWhenIdle
<1>3. call'[c] = x /\ \A d \in Calls : d # c => call'[d] = call[d]
  BY DEF Becomes, ClientTypeOK
<1>4. x.kind = call[c].kind
  BY DEF Ordinary
<1>5. Good(c)'
  BY <1>1, <1>2, <1>3, <1>4, Settles
<1>6. ASSUME NEW d \in Calls, d # c PROVE Good(d)'
  BY <1>3, <1>6, Untouched
<1> QED
  BY <1>5, <1>6

-----------------------------------------------------------------------------
(* Sessions.                                                                   *)

LEMMA ClosedStep ==
  ASSUME ClientTypeOK, Closed, \A c \in Calls : call'[c].kind = call[c].kind,
         engine' \subseteq engine, sess' = sess
  PROVE  Closed'
<1>1. \A q \in engine' : Writes(q)' <=> Writes(q)
  BY EngineType DEF Writes
<1> QED
  BY <1>1 DEF Closed

LEMMA PoisonsStep ==
  ASSUME ClientTypeOK, Closed, NEW s \in Sessions, Poisons(s),
         \A c \in Calls : call'[c].kind = call[c].kind
  PROVE  /\ Closed'
         /\ \A d \in Calls : Fewer(d)
         /\ sess' \in [Sessions -> SessionState] /\ engine' \subseteq Requests
         /\ applied' = applied
<1>0. sess \in [Sessions -> SessionState] /\ engine \subseteq Requests
  BY DEF ClientTypeOK
<1>1. Dead(s) \in SessionState /\ Dead(s).st = "dead" /\ Dead(s).wire = {}
  <2>1. PICK r \in SessionState : r = sess[s]
    BY <1>0
  <2> QED
    BY <2>1 DEF Dead, SessionState
<1>2. sess'[s] = Dead(s) /\ \A t \in Sessions : t # s => sess'[t] = sess[t]
  BY <1>0 DEF Poisons
<1>3. sess' \in [Sessions -> SessionState]
  BY <1>0, <1>1 DEF Poisons
<1>4. engine' \subseteq engine /\ \A q \in engine' : q.on # s \/ Writes(q)
  BY DEF Poisons
<1>5. \A q \in engine' : Writes(q)' <=> Writes(q)
  BY <1>4, EngineType DEF Writes
<1>6. Closed'
  BY <1>1, <1>2, <1>4, <1>5 DEF Closed
<1>7. applied' = applied
  BY DEF Poisons
<1>8. \A d \in Calls : Fewer(d)
  BY <1>1, <1>2, <1>4, <1>7 DEF Fewer
<1> QED
  BY <1>0, <1>3, <1>4, <1>6, <1>7, <1>8

LEMMA SameFewer ==
  ASSUME UNCHANGED <<sess, db>>
  PROVE  \A d \in Calls : Fewer(d)
BY DEF Fewer, db

LEMMA BecomesType ==
  ASSUME ClientTypeOK, NEW c \in Calls, NEW x, Becomes(c, x), Ordinary(c, x)
  PROVE  /\ call' \in [Calls -> CallState] /\ turn' \in Calls \cup {None}
         /\ \A d \in Calls : call'[d].kind = call[d].kind
<1>1. call \in [Calls -> CallState] /\ x \in CallState /\ x.kind = call[c].kind
  BY DEF ClientTypeOK, Ordinary
<1> QED
  BY <1>1 DEF Becomes

-----------------------------------------------------------------------------
(* The client's steps.                                                         *)

LEMMA IdlePreserves ==
  ASSUME Inv, NEW c \in Calls, NEW x,
         call[c].at \in {"new", "pick", "send", "user", "redial"},
         Becomes(c, x), Ordinary(c, x), x.told # "ok",
         owner' \in Calls \cup {None}, cur' \in Sessions,
         UNCHANGED <<fly, inbox>>,
         (UNCHANGED <<sess, db>>) \/ \E s \in Sessions : Poisons(s)
  PROVE  Inv'
<1>1. ClientTypeOK /\ Closed /\ \A d \in Calls : Good(d)
  BY DEF Inv
<1>2. /\ call' \in [Calls -> CallState] /\ turn' \in Calls \cup {None}
      /\ \A d \in Calls : call'[d].kind = call[d].kind
  BY <1>1, BecomesType
<1>3. /\ sess' \in [Sessions -> SessionState] /\ engine' \subseteq Requests
      /\ applied' = applied /\ Closed' /\ \A d \in Calls : Fewer(d)
  <2>1. CASE UNCHANGED <<sess, db>>
    <3>1. Closed'
      BY <1>1, <1>2, <2>1, ClosedStep DEF db
    <3>2. sess' = sess /\ engine' = engine /\ applied' = applied
      BY <2>1 DEF db
    <3> QED
      BY <1>1, <2>1, <3>1, <3>2, SameFewer DEF ClientTypeOK
  <2>2. CASE \E s \in Sessions : Poisons(s)
    BY <1>1, <1>2, <2>2, PoisonsStep
  <2> QED
    BY <2>1, <2>2
<1>4. ClientTypeOK'
  BY <1>1, <1>2, <1>3 DEF ClientTypeOK
<1>5. inbox' = inbox
  OBVIOUS
<1>6. (\A d \in Calls : Good(d))'
  BY <1>1, <1>3, <1>5, IdleStep
<1> QED
  BY <1>3, <1>4, <1>6 DEF Inv

LEMMA StartPreserves ==
  ASSUME Inv, NEW c \in Calls, Start(c)
  PROVE  Inv'
<1>1. ClientTypeOK /\ Shape(c) /\ call[c] \in CallState
  BY DEF Inv, Good, ClientTypeOK
<1>2. owner' \in Calls \cup {None} /\ cur' \in Sessions /\ UNCHANGED <<sess, fly, inbox, db>>
      /\ call[c].at = "new"
  BY <1>1 DEF Start, ClientTypeOK
<1>3. CASE owner = None
  <2> DEFINE x == [call[c] EXCEPT !.at = "pick"]
  <2>1. Becomes(c, x)
    BY <1>3 DEF Start, Runs, Set, Becomes
  <2>2. x \in CallState
    BY <1>1 DEF CallState
  <2>3. x.kind = call[c].kind /\ x.at = "pick" /\ x.req = call[c].req
        /\ x.why = call[c].why /\ x.told = call[c].told
    BY <1>1 DEF CallState
  <2>4. Ordinary(c, x) /\ x.told # "ok"
    BY <1>1, <1>2, <2>2, <2>3 DEF Ordinary, Shape
  <2> HIDE DEF x
  <2> QED
    BY <1>2, <2>1, <2>4, IdlePreserves
<1>4. CASE owner # None
  <2> DEFINE x == [call[c] EXCEPT !.at = "over", !.told = "refused", !.why = "none", !.did = FALSE]
  <2>1. Becomes(c, x)
    BY <1>4 DEF Start, Over, Set, Becomes
  <2>2. x \in CallState
    BY <1>1 DEF CallState
  <2>3. x.kind = call[c].kind /\ x.at = "over" /\ x.req = call[c].req
        /\ x.why = "none" /\ x.told = "refused"
    BY <1>1 DEF CallState
  <2>4. Ordinary(c, x) /\ x.told # "ok"
    BY <1>1, <1>2, <2>2, <2>3 DEF Ordinary, Shape
  <2> HIDE DEF x
  <2> QED
    BY <1>2, <2>1, <2>4, IdlePreserves
<1> QED
  BY <1>3, <1>4

LEMMA PickPreserves ==
  ASSUME Inv, NEW c \in Calls, Pick(c) \/ PickDials(c)
  PROVE  Inv'
<1>1. ClientTypeOK /\ Shape(c) /\ call[c] \in CallState /\ cur \in Sessions
  BY DEF Inv, Good, ClientTypeOK
<1>2. owner' \in Calls \cup {None} /\ cur' \in Sessions /\ UNCHANGED <<sess, fly, inbox, db>>
      /\ call[c].at = "pick"
  BY <1>1, ClientAssumption DEF Pick, PickDials, Dials, ClientTypeOK, Sessions
<1>3. PICK s \in Sessions : call' = [call EXCEPT ![c] = [call[c] EXCEPT !.at = "send", !.on = s]]
  BY <1>1, <1>2 DEF Pick, PickDials, Dials, Set
<1> DEFINE x == [call[c] EXCEPT !.at = "send", !.on = s]
<1>4. Becomes(c, x)
  BY <1>1, <1>3 DEF Pick, PickDials, Becomes, ClientTypeOK
<1>5. x \in CallState
  BY <1>1 DEF CallState
<1>6. x.kind = call[c].kind /\ x.at = "send" /\ x.req = call[c].req
      /\ x.why = call[c].why /\ x.told = call[c].told
  BY <1>1 DEF CallState
<1>7. Ordinary(c, x) /\ x.told # "ok"
  BY <1>1, <1>2, <1>5, <1>6 DEF Ordinary, Shape
<1> HIDE DEF x
<1> QED
  BY <1>2, <1>4, <1>7, IdlePreserves

LEMMA IdleOver ==
  ASSUME ClientTypeOK, NEW c \in Calls, NEW word, Shape(c), Over(c, word),
         word \in (Answers \ {"ok"}) \cup {"none", "raw", "app", "refused", "dropped", "rolledback"}
  PROVE  \E x : Becomes(c, x) /\ Ordinary(c, x) /\ x.told # "ok"
<1>1. PICK x : Becomes(c, x) /\ Outcome(c, "unsent", x)
  BY OverOutcome
<1> QED
  BY <1>1 DEF Outcome

LEMMA PickFailsPreserves ==
  ASSUME Inv, NEW c \in Calls, PickFails(c)
  PROVE  Inv'
<1>1. ClientTypeOK /\ Shape(c)
  BY DEF Inv, Good
<1>2. owner' \in Calls \cup {None} /\ cur' \in Sessions /\ UNCHANGED <<sess, fly, inbox, db>>
      /\ call[c].at = "pick" /\ Over(c, "retryable")
  BY <1>1 DEF PickFails, ClientTypeOK
<1>3. PICK x : Becomes(c, x) /\ Ordinary(c, x) /\ x.told # "ok"
  BY <1>1, <1>2, IdleOver DEF Answers
<1> QED
  BY <1>2, <1>3, IdlePreserves

LEMMA RedialPreserves ==
  ASSUME Inv, NEW c \in Calls, Redial(c)
  PROVE  Inv'
<1>1. ClientTypeOK /\ Good(c) /\ Shape(c) /\ cur \in Sessions
  BY DEF Inv, Good, ClientTypeOK
<1>2. owner' \in Calls \cup {None} /\ cur' \in Sessions /\ UNCHANGED <<fly, inbox>>
      /\ call[c].at = "redial" /\ Again(c) /\ Poisons(cur)
  BY <1>1, ClientAssumption DEF Redial, Dials, ClientTypeOK, Sessions
<1>3. Budget(c) /\ call[c].told = "none"
  BY <1>1, <1>2 DEF Shape
<1>4. PICK x : Becomes(c, x) /\ Outcome(c, "retryable", x)
  BY <1>1, <1>2, <1>3, AgainOutcome
<1>5. Ordinary(c, x) /\ x.told # "ok"
  BY <1>4 DEF Outcome
<1> QED
  BY <1>1, <1>2, <1>4, <1>5, IdlePreserves

LEMMA RedialFailsPreserves ==
  ASSUME Inv, NEW c \in Calls, RedialFails(c)
  PROVE  Inv'
<1>1. ClientTypeOK /\ Shape(c) /\ cur \in Sessions
  BY DEF Inv, Good, ClientTypeOK
<1>2. owner' \in Calls \cup {None} /\ cur' \in Sessions /\ UNCHANGED <<fly, inbox>>
      /\ call[c].at = "redial" /\ Poisons(cur)
  BY <1>1 DEF RedialFails, ClientTypeOK
<1>3. Over(c, "indeterminate") \/ Over(c, "raw")
  BY DEF RedialFails
<1>4. PICK x : Becomes(c, x) /\ Ordinary(c, x) /\ x.told # "ok"
  BY <1>1, <1>3, IdleOver DEF Answers
<1> QED
  BY <1>1, <1>2, <1>4, IdlePreserves

LEMMA UnsentPreserves ==
  ASSUME Inv, NEW c \in Calls, SendRefused(c) \/ WriteFails(c)
  PROVE  Inv'
<1>1. ClientTypeOK /\ Good(c) /\ Shape(c) /\ call[c].on \in Sessions
  BY DEF Inv, Good, ClientTypeOK, CallState
<1>2. cur' \in Sessions /\ UNCHANGED <<fly, inbox>> /\ call[c].at = "send" /\ Ends(c, "unsent")
      /\ ((UNCHANGED <<sess, db>>) \/ Poisons(call[c].on))
  BY <1>1 DEF SendRefused, WriteFails, ClientTypeOK
<1>3. "unsent" \in Answers \cup Losses
  BY DEF Losses
<1>4. owner' \in Calls \cup {None} /\ \E x : Becomes(c, x) /\ Outcome(c, "unsent", x)
  BY <1>1, <1>2, <1>3, EndsOutcome
<1>5. PICK x : Becomes(c, x) /\ Outcome(c, "unsent", x)
  BY <1>4
<1>6. Ordinary(c, x) /\ x.told # "ok"
  BY <1>5 DEF Outcome
<1> QED
  BY <1>1, <1>2, <1>4, <1>5, <1>6, IdlePreserves

LEMMA UserPreserves ==
  ASSUME Inv, NEW c \in Calls, UserRuns(c) \/ UserGivesUp(c)
  PROVE  Inv'
<1>1. ClientTypeOK /\ Good(c) /\ Shape(c) /\ call[c] \in CallState
  BY DEF Inv, Good, ClientTypeOK
<1>2. cur' \in Sessions /\ owner' \in Calls \cup {None} /\ UNCHANGED <<sess, fly, inbox, db>>
      /\ call[c].at = "user"
  BY <1>1 DEF UserRuns, UserGivesUp, ClientTypeOK
<1>3. PICK r \in {"stmt", "commit", "rollback"}, w \in Answers \cup Losses \cup {"none", "app"} :
        /\ w # "ok"
        /\ call' = [call EXCEPT ![c] = [call[c] EXCEPT !.at = "send", !.req = r, !.why = w]]
        /\ turn' = c
  <2>1. CASE UserRuns(c)
    <3> DEFINE r == IF call[c].did THEN "commit" ELSE "stmt"
    <3>1. [call[c] EXCEPT !.at = "send", !.req = r]
          = [call[c] EXCEPT !.at = "send", !.req = r, !.why = "none"]
      <4>1. call[c].why = "none"
        BY <2>1 DEF UserRuns
      <4> HIDE DEF r
      <4> QED
        BY <1>1, <4>1 DEF CallState
    <3>2. call' = [call EXCEPT ![c] = [call[c] EXCEPT !.at = "send", !.req = r]] /\ turn' = c
      BY <2>1 DEF UserRuns, Runs, Set
    <3> QED
      BY <3>1, <3>2
  <2>2. CASE UserGivesUp(c)
    <3> DEFINE w == IF call[c].why = "none" THEN "app" ELSE call[c].why
    <3>1. w \in Answers \cup Losses \cup {"none", "app"} /\ w # "ok"
      BY <1>1 DEF CallState, Shape
    <3>2. call' = [call EXCEPT ![c] = [call[c] EXCEPT !.at = "send", !.req = "rollback", !.why = w]]
          /\ turn' = c
      BY <1>1, <2>2 DEF UserGivesUp, Runs, Set, CallState
    <3> QED
      BY <3>1, <3>2
  <2> QED
    BY <2>1, <2>2
<1> DEFINE x == [call[c] EXCEPT !.at = "send", !.req = r, !.why = w]
<1>4. Becomes(c, x)
  BY <1>3 DEF Becomes
<1>5. x \in CallState
  BY <1>1, <1>3 DEF CallState
<1>6. x.kind = call[c].kind /\ x.at = "send" /\ x.why = w /\ x.told = call[c].told
  BY <1>1 DEF CallState
<1>7. call[c].kind \notin Reads
  BY <1>1, <1>2 DEF Shape
<1>8. Ordinary(c, x) /\ x.told # "ok"
  BY <1>1, <1>2, <1>3, <1>5, <1>6, <1>7 DEF Ordinary, Shape
<1> HIDE DEF x
<1> QED
  BY <1>2, <1>4, <1>8, IdlePreserves

LEMMA SendPreserves ==
  ASSUME Inv, NEW c \in Calls, Send(c)
  PROVE  Inv'
<1> DEFINE s == call[c].on
           at == IF call[c].async THEN "future" ELSE "wait"
           x == [call[c] EXCEPT !.at = at]
<1>1. ClientTypeOK /\ Closed /\ Good(c) /\ call[c] \in CallState /\ (\A d \in Calls : Good(d))
  BY DEF Inv, ClientTypeOK
<1>2. /\ call[c].at = "send" /\ sess[s].st = "up" /\ s \in Sessions
      /\ fly' = [fly EXCEPT ![c] = s]
      /\ inbox' = [inbox EXCEPT ![c] = "none"]
      /\ engine' = engine \cup {[call |-> c, try |-> call[c].try, req |-> call[c].req, on |-> s]}
      /\ UNCHANGED <<owner, cur, sess, applied>>
  BY <1>1 DEF Send, CallState
<1>3. call' = [call EXCEPT ![c] = x] /\ turn' \in Calls \cup {None} /\ at \in Waiting
  BY <1>1 DEF Send, Set, ClientTypeOK, Waiting
<1> HIDE DEF at
<1>4. x \in CallState
  BY <1>1, <1>3 DEF CallState, Waiting
<1>5. x.kind = call[c].kind /\ x.at = at /\ x.req = call[c].req /\ x.on = s /\ x.try = call[c].try
      /\ x.why = call[c].why /\ x.told = call[c].told
  BY <1>1 DEF CallState
<1> HIDE DEF x
<1>6. PICK n \in Requests : n = [call |-> c, try |-> call[c].try, req |-> call[c].req, on |-> s]
  BY <1>1 DEF Requests, CallState
<1>7. n.call = c /\ n.on = s /\ n.req = call[c].req /\ n.try = call[c].try
      /\ engine' = engine \cup {n}
  BY <1>2, <1>6
<1>8. call'[c] = x /\ \A d \in Calls : d # c => call'[d] = call[d]
  BY <1>1, <1>3 DEF ClientTypeOK
<1>9. inbox'[c] = "none" /\ \A d \in Calls : d # c => inbox'[d] = inbox[d]
  BY <1>1, <1>2 DEF ClientTypeOK
<1>10. ClientTypeOK'
  <2>1. call' \in [Calls -> CallState] /\ fly' \in [Calls -> 0 .. MaxSessions]
        /\ inbox' \in [Calls -> Answers \cup {"none"}]
    BY <1>1, <1>2, <1>3, <1>4, ClientAssumption DEF ClientTypeOK, Sessions
  <2>2. engine' \subseteq Requests
    BY <1>1, <1>2, <1>6 DEF ClientTypeOK
  <2> QED
    BY <1>1, <1>2, <1>3, <2>1, <2>2 DEF ClientTypeOK
<1>11. Closed'
  <2>1. \A q \in engine : Writes(q)' <=> Writes(q)
    BY <1>1, <1>5, <1>8, EngineType DEF Writes
  <2> QED
    BY <1>1, <1>2, <1>7, <2>1 DEF Closed
<1>12. ASSUME NEW d \in Calls, d # c PROVE Good(d)'
  <2>1. Fewer(d)
    BY <1>2, <1>7, <1>12 DEF Fewer
  <2> QED
    BY <1>1, <1>8, <1>9, <1>12, <2>1, Untouched
<1>13. Good(c)'
  <2>1. Gone(c) /\ (call[c].kind # "idem" => Clean(c)) /\ call[c].told = "none"
    BY <1>1, <1>2, QuietWhenIdle
  <2>2. \A q \in engine : q.call = c => q.on \in Sessions /\ (Writes(q)' <=> Writes(q))
    BY <1>1, <1>5, <1>8, EngineType DEF Writes
  <2>3. Writes(n)' <=> Writing(c)
    BY <1>5, <1>7, <1>8 DEF Writes, Writing
  <2>4. Writing(c)' <=> Writing(c)
    BY <1>5, <1>8 DEF Writing
  <2>5. Shape(c)'
    BY <1>1, <1>3, <1>5, <1>8, <2>1 DEF Good, Shape, Waiting
  <2>6. Outstanding(c)'
    BY <1>2, <1>3, <1>5, <1>7, <1>8, <1>9, <2>1 DEF Outstanding, Gone
  <2>7. Returning(c)'
    BY <1>2, <2>1 DEF Returning, Gone
  <2>8. Filed(c)'
    BY <1>9 DEF Filed
  <2>9. Once(c)'
    BY <1>1, <1>2, <1>5, <1>8, <2>1, <2>2 DEF Good, Once, Gone, Clean
  <2>10. call[c].kind \in Reads => ~ Writing(c)
    BY <1>1 DEF Good, Shape, Writing
  <2>11. StaysClean(c)'
    BY <1>2, <1>3, <1>5, <1>7, <1>8, <2>1, <2>2, <2>3, <2>4, <2>10
       DEF StaysClean, MustBeClean, Clean, Waiting
  <2>12. WasApplied(c)'
    BY <1>5, <1>8, <2>1 DEF WasApplied
  <2> QED
    BY <2>5, <2>6, <2>7, <2>8, <2>9, <2>11, <2>12 DEF Good
<1> QED
  BY <1>10, <1>11, <1>12, <1>13 DEF Inv

(* The terminal a call waits for: the engine's, and then its request is         *)
(* nowhere, or none, the session being closed, and then only a write is left.   *)
LEMMA TakePreserves ==
  ASSUME Inv, NEW c \in Calls, Take(c)
  PROVE  Inv'
<1>1. ClientTypeOK /\ Closed /\ Good(c) /\ Shape(c) /\ call[c] \in CallState /\ (\A d \in Calls : Good(d))
  BY DEF Inv, ClientTypeOK, Good
<1>2. /\ call[c].at = "wait"
      /\ inbox' = [inbox EXCEPT ![c] = "none"]
      /\ fly' = [fly EXCEPT ![c] = 0]
      /\ UNCHANGED <<cur, sess, db>>
  BY DEF Take
<1>3. PICK cause \in Answers \cup Losses :
        /\ Ends(c, cause)
        /\ \/ inbox[c] # "none" /\ cause = inbox[c]
           \/ inbox[c] = "none" /\ sess[call[c].on].st = "dead" /\ cause = "lost"
  <2>1. inbox[c] \in Answers \cup {"none"} /\ "lost" \in Losses
    BY <1>1 DEF ClientTypeOK, Losses
  <2> QED
    BY <2>1 DEF Take
<1>4. owner' \in Calls \cup {None} /\ \E x : Becomes(c, x) /\ Outcome(c, cause, x)
  BY <1>1, <1>2, <1>3, EndsOutcome
<1>5. PICK x : Becomes(c, x) /\ Outcome(c, cause, x)
  BY <1>4
<1>6. Ordinary(c, x) /\ x.kind = call[c].kind
  BY <1>5 DEF Outcome, Ordinary
<1>7. /\ call' \in [Calls -> CallState] /\ turn' \in Calls \cup {None}
      /\ \A d \in Calls : call'[d].kind = call[d].kind
  BY <1>1, <1>5, <1>6, BecomesType
<1>8. call'[c] = x /\ \A d \in Calls : d # c => call'[d] = call[d]
  BY <1>1, <1>5 DEF Becomes, ClientTypeOK
<1>9. inbox'[c] = "none" /\ \A d \in Calls : d # c => inbox'[d] = inbox[d]
  BY <1>1, <1>2 DEF ClientTypeOK
<1>10. ClientTypeOK'
  <2>1. fly' \in [Calls -> 0 .. MaxSessions] /\ inbox' \in [Calls -> Answers \cup {"none"}]
    BY <1>1, <1>2, ClientAssumption DEF ClientTypeOK
  <2> QED
    BY <1>1, <1>2, <1>4, <1>7, <2>1 DEF ClientTypeOK, db
<1>11. Closed'
  BY <1>1, <1>2, <1>7, ClosedStep DEF db
<1>12. \A d \in Calls : Fewer(d)
  BY <1>2, SameFewer
<1>13. ASSUME NEW d \in Calls, d # c PROVE Good(d)'
  BY <1>1, <1>8, <1>9, <1>12, <1>13, Untouched
<1>14. Good(c)'
  <2>1. \A s \in Sessions : \A m \in sess[s].wire : m.call # c
    <3> SUFFICES ASSUME NEW s \in Sessions, NEW m \in sess[s].wire, m.call = c PROVE FALSE
      OBVIOUS
    <3>1. inbox[c] = "none" /\ s = call[c].on
      BY <1>1, <1>2 DEF Good, Returning
    <3>2. sess[s].st = "dead"
      BY <1>3, <3>1
    <3> QED
      BY <1>1, <3>2 DEF Closed
  <2>2. \A q \in engine : q.call = c =>
           \/ call[c].kind = "idem" /\ sess[q.on].st = "dead"
           \/ sess[q.on].st = "dead" /\ Writing(c) /\ cause = "lost"
    <3> SUFFICES ASSUME NEW q \in engine, q.call = c
                 PROVE  \/ call[c].kind = "idem" /\ sess[q.on].st = "dead"
                        \/ sess[q.on].st = "dead" /\ Writing(c) /\ cause = "lost"
      OBVIOUS
    <3>1. CASE call[c].kind = "idem" /\ sess[q.on].st = "dead"
      BY <3>1
    <3>2. CASE q.on = call[c].on /\ q.req = call[c].req /\ inbox[c] = "none"
      <4>1. sess[q.on].st = "dead" /\ cause = "lost" /\ q.on \in Sessions
        BY <1>1, <1>3, <3>2, EngineType
      <4>2. Writes(q)
        BY <1>1, <4>1 DEF Closed
      <4> QED
        BY <3>2, <4>1, <4>2 DEF Writes, Writing
    <3> QED
      BY <1>1, <1>2, <3>1, <3>2 DEF Good, Outstanding
  <2>3. x.at # "over" => Gone(c)
    <3> SUFFICES ASSUME x.at # "over" PROVE Gone(c)
      OBVIOUS
    <3>1. \A q \in engine : q.call = c => call[c].kind = "idem" /\ sess[q.on].st = "dead"
      BY <1>5, <1>6, <2>2 DEF Outcome
    <3> QED
      BY <2>1, <3>1 DEF Gone
  <2>4. x.kind # "idem" => Clean(c) \/ (/\ x.at = "over"
                                        /\ x.told \in {"ok", "indeterminate", "dropped"}
                                        /\ x.kind \notin Reads)
    <3> SUFFICES ASSUME x.kind # "idem", ~ Clean(c)
                 PROVE  x.at = "over" /\ x.told \in {"ok", "indeterminate"} /\ x.kind \notin Reads
      OBVIOUS
    <3>1. ~ MustBeClean(c)
      BY <1>1, <1>6 DEF Good, StaysClean
    <3>2. Writing(c) /\ x.kind \notin Reads
      BY <1>2, <1>6, <3>1 DEF MustBeClean, Waiting
    <3>3. cause \in {"ok", "lost", "indeterminate"}
      <4>1. CASE inbox[c] # "none" /\ cause = inbox[c]
        <5>1. cause \notin {"retryable", "nonretryable"} /\ cause \in Answers
          BY <1>1, <1>6, <4>1 DEF Good, Filed, AnswerTrue, ClientTypeOK
        <5> QED
          BY <5>1 DEF Answers
      <4> QED
        BY <1>3, <4>1
    <3> QED
      BY <1>5, <3>2, <3>3 DEF Outcome
  <2>5. x.told = "ok" /\ x.kind \notin Reads => applied[c] >= 1
    <3> SUFFICES ASSUME x.told = "ok", x.kind \notin Reads PROVE applied[c] >= 1
      OBVIOUS
    <3>1. cause = "ok" /\ Writing(c)
      BY <1>5 DEF Outcome
    <3> QED
      BY <1>1, <1>3, <3>1 DEF Good, Filed, AnswerTrue
  <2>6. Once(c) /\ Fewer(c)
    BY <1>1, <1>12 DEF Good
  <2> QED
    BY <1>1, <1>6, <1>8, <1>9, <1>12, <2>3, <2>4, <2>5, <2>6, Settles
<1> QED
  BY <1>10, <1>11, <1>13, <1>14 DEF Inv

LEMMA AwaitPreserves ==
  ASSUME Inv, NEW c \in Calls, Await(c)
  PROVE  Inv'
<1> DEFINE x == [call[c] EXCEPT !.at = "wait"]
<1>1. ClientTypeOK /\ Closed /\ Good(c) /\ call[c] \in CallState /\ (\A d \in Calls : Good(d))
  BY DEF Inv, ClientTypeOK
<1>2. /\ call[c].at = "future" /\ call' = [call EXCEPT ![c] = x]
      /\ UNCHANGED <<turn, owner, cur, sess, fly, inbox, db>>
  BY DEF Await, Set
<1>3. x \in CallState
  BY <1>1 DEF CallState
<1>4. x.kind = call[c].kind /\ x.at = "wait" /\ x.req = call[c].req /\ x.on = call[c].on
      /\ x.try = call[c].try /\ x.why = call[c].why /\ x.told = call[c].told
  BY <1>1 DEF CallState
<1> HIDE DEF x
<1>5. call'[c] = x /\ \A d \in Calls : d # c => call'[d] = call[d]
  BY <1>1, <1>2 DEF ClientTypeOK
<1>6. ClientTypeOK'
  <2>1. call' \in [Calls -> CallState]
    BY <1>1, <1>2, <1>3 DEF ClientTypeOK
  <2> QED
    BY <1>1, <1>2, <2>1 DEF ClientTypeOK, db
<1>7. Closed'
  <2>1. \A d \in Calls : call'[d].kind = call[d].kind
    BY <1>4, <1>5
  <2> QED
    BY <1>1, <1>2, <2>1, ClosedStep DEF db
<1>8. \A d \in Calls : Fewer(d)
  BY <1>2, SameFewer
<1>9. ASSUME NEW d \in Calls, d # c PROVE Good(d)'
  BY <1>1, <1>2, <1>5, <1>8, <1>9, Untouched
<1>10. Good(c)'
  <2>0. sess' = sess /\ inbox' = inbox /\ engine' = engine /\ applied' = applied
    BY <1>2 DEF db
  <2>1. \A q \in engine : q.call = c => (Writes(q)' <=> Writes(q))
    BY <1>4, <1>5 DEF Writes
  <2>2. Writing(c)' <=> Writing(c)
    BY <1>4, <1>5 DEF Writing
  <2>3. Clean(c)' <=> Clean(c)
    BY <2>0, <2>1 DEF Clean
  <2>4. ASSUME NEW ans, AnswerTrue(c, ans) PROVE AnswerTrue(c, ans)'
    BY <1>4, <1>5, <2>0, <2>2, <2>3, <2>4 DEF AnswerTrue
  <2>5. Shape(c)'
    BY <1>1, <1>2, <1>4, <1>5 DEF Good, Shape
  <2>6. Outstanding(c)'
    BY <1>1, <1>2, <1>4, <1>5, <2>0 DEF Good, Outstanding, Waiting
  <2>7. Returning(c)'
    BY <1>1, <1>2, <1>4, <1>5, <2>0, <2>4 DEF Good, Returning, Waiting
  <2>8. Filed(c)'
    BY <1>1, <1>4, <1>5, <2>0, <2>4 DEF Good, Filed, Waiting
  <2>9. Once(c)'
    BY <1>1, <1>4, <1>5, <2>0, <2>1 DEF Good, Once
  <2>10. StaysClean(c)'
    BY <1>1, <1>2, <1>4, <1>5, <2>2, <2>3 DEF Good, StaysClean, MustBeClean, Waiting
  <2>11. WasApplied(c)'
    BY <1>1, <1>4, <1>5, <2>0 DEF Good, WasApplied
  <2> QED
    BY <2>5, <2>6, <2>7, <2>8, <2>9, <2>10, <2>11 DEF Good
<1> QED
  BY <1>6, <1>7, <1>9, <1>10 DEF Inv

LEMMA DropPreserves ==
  ASSUME Inv, NEW c \in Calls, Drop(c)
  PROVE  Inv'
<1> DEFINE x == [call[c] EXCEPT !.at = "over", !.told = "dropped", !.why = "none", !.did = FALSE]
<1>1. ClientTypeOK /\ Closed /\ Good(c) /\ call[c] \in CallState /\ (\A d \in Calls : Good(d))
  BY DEF Inv, ClientTypeOK
<1>2. /\ call[c].at = "future" /\ Becomes(c, x)
      /\ inbox' = [inbox EXCEPT ![c] = "none"]
      /\ UNCHANGED <<owner, cur, sess, fly, db>>
  BY DEF Drop, Over, Set, Becomes
<1>3. x \in CallState
  BY <1>1 DEF CallState
<1>4. x.kind = call[c].kind /\ x.at = "over" /\ x.req = call[c].req
      /\ x.why = "none" /\ x.told = "dropped"
  BY <1>1 DEF CallState
<1> HIDE DEF x
<1>5. Ordinary(c, x)
  BY <1>1, <1>3, <1>4 DEF Ordinary, Good, Shape
<1>6. /\ call' \in [Calls -> CallState] /\ turn' \in Calls \cup {None}
      /\ \A d \in Calls : call'[d].kind = call[d].kind
  BY <1>1, <1>2, <1>5, BecomesType
<1>7. call'[c] = x /\ \A d \in Calls : d # c => call'[d] = call[d]
  BY <1>1, <1>2 DEF Becomes, ClientTypeOK
<1>8. inbox'[c] = "none" /\ \A d \in Calls : d # c => inbox'[d] = inbox[d]
  BY <1>1, <1>2 DEF ClientTypeOK
<1>9. ClientTypeOK'
  <2>1. inbox' \in [Calls -> Answers \cup {"none"}]
    BY <1>1, <1>2 DEF ClientTypeOK
  <2> QED
    BY <1>1, <1>2, <1>6, <2>1 DEF ClientTypeOK, db
<1>10. Closed'
  BY <1>1, <1>2, <1>6, ClosedStep DEF db
<1>11. \A d \in Calls : Fewer(d)
  BY <1>2, SameFewer
<1>12. ASSUME NEW d \in Calls, d # c PROVE Good(d)'
  BY <1>1, <1>7, <1>8, <1>11, <1>12, Untouched
<1>13. Once(c) /\ (x.kind # "idem" /\ x.kind \in Reads => Clean(c))
  BY <1>1, <1>4 DEF Good, StaysClean, MustBeClean
<1>14. Good(c)'
  BY <1>1, <1>4, <1>5, <1>7, <1>8, <1>11, <1>13, Settles
<1> QED
  BY <1>9, <1>10, <1>12, <1>14 DEF Inv

-----------------------------------------------------------------------------
(* The reader's steps, and the link's.                                         *)

LEMMA LinkPreserves ==
  ASSUME Inv, UNCHANGED <<call, turn, owner, cur, fly, inbox>>,
         \A d \in Calls : Fewer(d), applied' = applied,
         sess' \in [Sessions -> SessionState], engine' \subseteq Requests, Closed'
  PROVE  Inv'
<1>1. ClientTypeOK /\ \A d \in Calls : Good(d)
  BY DEF Inv
<1>2. ClientTypeOK'
  BY <1>1 DEF ClientTypeOK
<1>3. \A d \in Calls : Good(d)'
  BY <1>1, Untouched
<1> QED
  BY <1>2, <1>3 DEF Inv

LEMMA PoisonedPreserves ==
  ASSUME Inv, NEW s \in Sessions, PumpEof(s) \/ Silence(s)
  PROVE  Inv'
<1>1. ClientTypeOK /\ Closed
  BY DEF Inv
<1>2. UNCHANGED <<call, turn, owner, cur, fly, inbox>> /\ Poisons(s)
  BY DEF PumpEof, Silence
<1>3. \A c \in Calls : call'[c].kind = call[c].kind
  BY <1>2
<1> QED
  BY <1>1, <1>2, <1>3, PoisonsStep, LinkPreserves

(* A session whose flags change, and whose wire keeps no more than it had.      *)
LEMMA SignalPreserves ==
  ASSUME Inv, NEW s \in Sessions, NEW r \in SessionState, sess' = [sess EXCEPT ![s] = r],
         r.wire \subseteq sess[s].wire, r.st # "dead", sess[s].st # "dead",
         UNCHANGED <<call, turn, owner, cur, fly, inbox, db>>
  PROVE  Inv'
<1>1. ClientTypeOK /\ Closed
  BY DEF Inv
<1>2. sess'[s] = r /\ \A t \in Sessions : t # s => sess'[t] = sess[t]
  BY <1>1 DEF ClientTypeOK
<1>3. sess' \in [Sessions -> SessionState] /\ engine' \subseteq Requests
  BY <1>1 DEF ClientTypeOK, db
<1>4. engine' = engine /\ applied' = applied /\ call' = call
  BY DEF db
<1>5. \A d \in Calls : Fewer(d)
  BY <1>2, <1>4 DEF Fewer
<1>6. Closed'
  BY <1>1, <1>2, <1>4 DEF Closed, Writes
<1> QED
  BY <1>3, <1>4, <1>5, <1>6, LinkPreserves

LEMMA FlagsPreserve ==
  ASSUME Inv, NEW s \in Sessions,
         PumpFatal(s) \/ EngineFatal(s) \/ EngineCloses(s) \/ EngineHangs(s)
  PROVE  Inv'
<1>1. sess \in [Sessions -> SessionState] /\ sess[s] \in SessionState
  BY DEF Inv, ClientTypeOK
<1>2. sess[s].st # "dead" /\ UNCHANGED <<call, turn, owner, cur, fly, inbox, db>>
  BY DEF PumpFatal, Reading, EngineFatal, EngineCloses, EngineHangs, Live, client
<1>3. PICK b \in SessionState : b = sess[s]
  BY <1>1
<1>4. \E r \in SessionState :
        sess' = [sess EXCEPT ![s] = r] /\ r.wire \subseteq b.wire /\ r.st # "dead"
  <2>1. CASE PumpFatal(s)
    <3> DEFINE r == [b EXCEPT !.st = "fatal", !.fatal = FALSE]
    <3>1. r \in SessionState /\ r.wire = b.wire /\ r.st = "fatal"
      BY <1>3 DEF SessionState
    <3>2. sess' = [sess EXCEPT ![s] = r]
      BY <1>1, <1>3, <2>1 DEF PumpFatal
    <3> QED
      BY <3>1, <3>2
  <2>2. CASE EngineFatal(s)
    <3> DEFINE r == [b EXCEPT !.fatal = TRUE]
    <3>1. r \in SessionState /\ r.wire = b.wire /\ r.st = b.st
      BY <1>3 DEF SessionState
    <3>2. sess' = [sess EXCEPT ![s] = r]
      BY <1>1, <1>3, <2>2 DEF EngineFatal
    <3> QED
      BY <1>2, <1>3, <3>1, <3>2
  <2>3. CASE EngineCloses(s)
    <3>0. PICK w \in {b.wire, {}} : sess' = [sess EXCEPT ![s].eof = TRUE, ![s].wire = w]
      BY <1>3, <2>3 DEF EngineCloses
    <3> DEFINE r == [b EXCEPT !.eof = TRUE, !.wire = w]
    <3>1. r \in SessionState /\ r.wire = w /\ r.st = b.st
      BY <1>3, <3>0 DEF SessionState
    <3>2. sess' = [sess EXCEPT ![s] = r]
      BY <1>1, <1>3, <3>0
    <3> QED
      BY <1>2, <1>3, <3>0, <3>1, <3>2
  <2>4. CASE EngineHangs(s)
    <3> DEFINE r == [b EXCEPT !.mute = TRUE]
    <3>1. r \in SessionState /\ r.wire = b.wire /\ r.st = b.st
      BY <1>3 DEF SessionState
    <3>2. sess' = [sess EXCEPT ![s] = r]
      BY <1>1, <1>3, <2>4 DEF EngineHangs
    <3> QED
      BY <1>2, <1>3, <3>1, <3>2
  <2> QED
    BY <2>1, <2>2, <2>3, <2>4
<1> QED
  BY <1>2, <1>3, <1>4, SignalPreserves

(* The frame read is the only one its call can have, so what stays is silent.   *)
LEMMA PumpPreserves ==
  ASSUME Inv, NEW s \in Sessions, Pump(s)
  PROVE  Inv'
<1>1. ClientTypeOK /\ Closed /\ (\A d \in Calls : Good(d)) /\ sess[s] \in SessionState
  BY DEF Inv, ClientTypeOK
<1>2. UNCHANGED <<call, turn, owner, cur, db>>
  BY DEF Pump
<1>3. PICK m \in sess[s].wire :
        /\ sess' = [sess EXCEPT ![s].wire = @ \ {m}]
        /\ fly' = [fly EXCEPT ![m.call] = 0]
        /\ inbox' = IF call[m.call].at = "over" THEN inbox ELSE [inbox EXCEPT ![m.call] = m.ans]
  BY DEF Pump
<1>4. m.call \in Calls /\ m.ans \in Answers
  BY <1>1 DEF SessionState
<1>5. PICK b \in SessionState : b = sess[s]
  BY <1>1
<1> DEFINE r == [b EXCEPT !.wire = @ \ {m}]
<1>6. r \in SessionState /\ r.wire = b.wire \ {m} /\ r.st = b.st
  BY <1>5 DEF SessionState
<1>7. sess' = [sess EXCEPT ![s] = r]
  BY <1>1, <1>3, <1>5 DEF ClientTypeOK
<1> HIDE DEF r
<1>8. sess'[s] = r /\ \A t \in Sessions : t # s => sess'[t] = sess[t]
  BY <1>1, <1>7 DEF ClientTypeOK
<1>9. engine' = engine /\ applied' = applied /\ call' = call
  BY <1>2 DEF db
<1>10. \A d \in Calls : Fewer(d)
  BY <1>5, <1>6, <1>8, <1>9 DEF Fewer
<1>11. ClientTypeOK'
  <2>1. sess' \in [Sessions -> SessionState]
    BY <1>1, <1>6, <1>7 DEF ClientTypeOK
  <2>2. fly' \in [Calls -> 0 .. MaxSessions]
    BY <1>1, <1>3, <1>4, ClientAssumption DEF ClientTypeOK
  <2>3. inbox' \in [Calls -> Answers \cup {"none"}]
    BY <1>1, <1>3, <1>4 DEF ClientTypeOK
  <2> QED
    BY <1>1, <1>2, <2>1, <2>2, <2>3 DEF ClientTypeOK, db
<1>12. Closed'
  BY <1>1, <1>5, <1>6, <1>8, <1>9 DEF Closed, Writes
<1>13. ASSUME NEW d \in Calls, d # m.call PROVE Good(d)'
  <2>1. inbox'[d] = inbox[d]
    BY <1>1, <1>3, <1>4, <1>13 DEF ClientTypeOK
  <2> QED
    BY <1>1, <1>9, <1>10, <2>1, Untouched
<1>14. CASE call[m.call].at = "over"
  <2>1. Good(m.call)'
    BY <1>1, <1>3, <1>4, <1>9, <1>10, <1>14, Untouched
  <2> QED
    BY <1>11, <1>12, <1>13, <2>1 DEF Inv
<1>15. CASE call[m.call].at # "over"
  <2>1. PICK c \in Calls : c = m.call
    BY <1>4
  <2>2. Good(c)
    BY <1>1
  <2>3. /\ call[c].at \in Waiting /\ call[c].on = s /\ inbox[c] = "none" /\ AnswerTrue(c, m.ans)
        /\ \A o \in sess[s].wire : o.call = c => o = m
    BY <1>3, <1>15, <2>1, <2>2 DEF Good, Returning
  <2>4. inbox'[c] = m.ans
    BY <1>1, <1>3, <1>15, <2>1 DEF ClientTypeOK
  <2>5. \A t \in Sessions : \A o \in sess'[t].wire : o.call # c
    <3> SUFFICES ASSUME NEW t \in Sessions, NEW o \in sess'[t].wire, o.call = c PROVE FALSE
      OBVIOUS
    <3>1. t = s
      BY <1>8, <1>15, <2>1, <2>2, <2>3 DEF Good, Returning
    <3> QED
      BY <1>5, <1>6, <1>8, <2>3, <3>1
  <2>6. \A q \in engine : q.call = c => q.on \in Sessions /\ call[c].kind = "idem" /\ sess[q.on].st = "dead"
    BY <1>1, <1>3, <1>15, <2>1, <2>2, EngineType DEF Good, Outstanding
  <2>7. Writing(c)' <=> Writing(c)
    BY <1>9 DEF Writing
  <2>8. Clean(c)' <=> Clean(c)
    BY <1>9 DEF Clean, Writes
  <2>9. Shape(c)'
    BY <1>9, <2>2 DEF Good, Shape, Budget
  <2>10. Outstanding(c)'
    BY <1>5, <1>6, <1>8, <1>9, <2>6 DEF Outstanding
  <2>11. Returning(c)'
    BY <2>5 DEF Returning
  <2>12. Filed(c)'
    BY <1>9, <2>3, <2>4, <2>7, <2>8 DEF Filed, AnswerTrue
  <2>13. Once(c)'
    BY <1>9, <2>2 DEF Good, Once, Writes
  <2>14. StaysClean(c)'
    BY <1>9, <2>2, <2>7, <2>8 DEF Good, StaysClean, MustBeClean
  <2>15. WasApplied(c)'
    BY <1>9, <2>2 DEF Good, WasApplied
  <2>16. Good(c)'
    BY <2>9, <2>10, <2>11, <2>12, <2>13, <2>14, <2>15 DEF Good
  <2> QED
    BY <1>11, <1>12, <1>13, <2>1, <2>16 DEF Inv
<1> QED
  BY <1>14, <1>15

-----------------------------------------------------------------------------
(* The engine's answer: the request it runs is the only one of its call that    *)
(* may write, so what the answer says of the write stays true.                  *)
LEMMA EngineRunsPreserves ==
  ASSUME Inv, NEW q \in engine, EngineRuns(q)
  PROVE  Inv'
<1>1. ClientTypeOK /\ Closed /\ (\A d \in Calls : Good(d))
  BY DEF Inv
<1>2. PICK c \in Calls, t \in Sessions : c = q.call /\ t = q.on
  BY <1>1, EngineType
<1>3. UNCHANGED <<call, turn, owner, cur, fly, inbox>>
  BY DEF EngineRuns, client
<1>4. PICK ans \in Answers, w \in {0, 1} :
        /\ w = 1 => Writes(q) /\ ans \in {"ok", "indeterminate"}
        /\ ans = "ok" /\ Writes(q) => w = 1
        /\ applied' = [applied EXCEPT ![c] = @ + w]
        /\ engine' = engine \ {q}
        /\ sess' = IF sess[t].st = "dead" \/ sess[t].eof \/ sess[t].mute THEN sess
                   ELSE [sess EXCEPT ![t].wire = @ \cup {[call |-> c, ans |-> ans]}]
  BY <1>2 DEF EngineRuns
<1>5. PICK m \in [call : Calls, ans : Answers] : m = [call |-> c, ans |-> ans]
  BY <1>4
<1>6. m.call = c /\ m.ans = ans
  BY <1>5
<1>7. PICK b \in SessionState : b = sess[t]
  BY <1>1 DEF ClientTypeOK
<1> DEFINE r == [b EXCEPT !.wire = @ \cup {m}]
<1>8. r \in SessionState /\ r.wire = b.wire \cup {m} /\ r.st = b.st
  BY <1>7 DEF SessionState
<1>9. sess' = sess \/ (sess' = [sess EXCEPT ![t] = r] /\ b.st # "dead")
  BY <1>1, <1>4, <1>5, <1>7 DEF ClientTypeOK
<1> HIDE DEF r
<1>10. \A s \in Sessions :
         /\ sess'[s].st = sess[s].st
         /\ \A o \in sess'[s].wire : o \in sess[s].wire \/ (o = m /\ s = t)
         /\ sess[s].st = "dead" => sess'[s] = sess[s]
  BY <1>1, <1>7, <1>8, <1>9 DEF ClientTypeOK
<1>11. applied'[c] = applied[c] + w /\ \A d \in Calls : d # c => applied'[d] = applied[d]
  BY <1>1, <1>4 DEF ClientTypeOK
<1>12. \A d \in Calls : applied[d] \in Nat
  BY <1>1 DEF ClientTypeOK
<1>13. ClientTypeOK'
  <2>1. sess' \in [Sessions -> SessionState]
    BY <1>1, <1>8, <1>9 DEF ClientTypeOK
  <2>2. applied' \in [Calls -> Nat] /\ engine' \subseteq Requests
    BY <1>1, <1>4 DEF ClientTypeOK
  <2> QED
    BY <1>1, <1>3, <2>1, <2>2 DEF ClientTypeOK
<1>14. Closed'
  BY <1>1, <1>3, <1>4, <1>10 DEF Closed, Writes
<1>15. ASSUME NEW d \in Calls, d # c PROVE Good(d)'
  <2>1. Fewer(d)
    BY <1>4, <1>6, <1>10, <1>11, <1>15 DEF Fewer
  <2> QED
    BY <1>1, <1>3, <2>1, Untouched
<1>16. Good(c)'
  <2>1. Good(c)
    BY <1>1
  <2>2. \A o \in engine' : o \in engine /\ o # q /\ (Writes(o)' <=> Writes(o))
    BY <1>3, <1>4 DEF Writes
  <2>3. Writing(c)' <=> Writing(c)
    BY <1>3 DEF Writing
  <2>4. w = 0 => (Clean(c) => Clean(c)')
    BY <1>11, <1>12, <2>2 DEF Clean
  <2>5. Clean(c) => w = 0
    BY <1>2, <1>4 DEF Clean
  <2>6. ASSUME NEW a, AnswerTrue(c, a) PROVE AnswerTrue(c, a)'
    BY <1>3, <1>4, <1>11, <1>12, <2>3, <2>4, <2>5, <2>6 DEF AnswerTrue
  <2>7. Shape(c)'
    BY <1>3, <2>1 DEF Good, Shape, Budget
  <2>8. Once(c)'
    <3> SUFFICES ASSUME call[c].kind # "idem" PROVE Once(c)'
      BY <1>3 DEF Once
    <3>1. /\ applied[c] <= 1 /\ \A o \in engine : o.call = c => o = q
          /\ Writes(q) => applied[c] = 0
      BY <1>2, <2>1 DEF Good, Once
    <3>2. applied'[c] <= 1
      BY <1>4, <1>11, <1>12, <3>1
    <3>3. \A o \in engine' : o.call # c
      BY <2>2, <3>1
    <3> QED
      BY <3>2, <3>3 DEF Once
  <2>9. StaysClean(c)'
    BY <1>3, <2>1, <2>3, <2>4, <2>5 DEF Good, StaysClean, MustBeClean
  <2>10. WasApplied(c)'
    BY <1>3, <1>4, <1>11, <1>12, <2>1 DEF Good, WasApplied
  <2>11. Filed(c)'
    BY <1>3, <2>1, <2>6 DEF Good, Filed
  <2>12. CASE call[c].at = "over"
    BY <1>3, <2>7, <2>8, <2>9, <2>10, <2>11, <2>12 DEF Good, Outstanding, Returning
  <2>13. CASE call[c].at # "over" /\ call[c].kind = "idem" /\ sess[t].st = "dead"
    <3>1. sess' = sess
      BY <1>4, <2>13
    <3>2. Outstanding(c)'
      BY <1>3, <2>1, <2>2, <3>1 DEF Good, Outstanding
    <3>3. Returning(c)'
      BY <1>3, <2>1, <2>6, <3>1 DEF Good, Returning
    <3> QED
      BY <2>7, <2>8, <2>9, <2>10, <2>11, <3>2, <3>3 DEF Good
  <2>14. CASE /\ call[c].at \in Waiting
              /\ q.on = call[c].on /\ q.req = call[c].req /\ q.try = call[c].try
              /\ inbox[c] = "none"
              /\ \A s \in Sessions : \A o \in sess[s].wire : o.call # c
    <3>1. Writes(q) <=> Writing(c)
      BY <1>2, <2>14 DEF Writes, Writing
    <3>2. call[c].kind # "idem" /\ ans \in {"retryable", "nonretryable"} => Clean(c)'
      <4> SUFFICES ASSUME call[c].kind # "idem", ans \in {"retryable", "nonretryable"}
                   PROVE  Clean(c)'
        OBVIOUS
      <4>1. w = 0
        BY <1>4
      <4>2. CASE Writes(q)
        <5>1. applied[c] = 0 /\ \A o \in engine : o.call = c => o = q
          BY <1>2, <2>1, <4>2 DEF Good, Once
        <5> QED
          BY <1>11, <2>2, <4>1, <5>1 DEF Clean
      <4>3. CASE ~ Writes(q)
        <5>1. Clean(c)
          BY <2>1, <2>14, <3>1, <4>3 DEF Good, StaysClean, MustBeClean
        <5> QED
          BY <2>4, <4>1, <5>1
      <4> QED
        BY <4>2, <4>3
    <3>3. ans = "ok" /\ Writing(c) => applied'[c] >= 1
      BY <1>4, <1>11, <1>12, <3>1
    <3>4. AnswerTrue(c, ans)'
      BY <1>3, <2>3, <3>2, <3>3 DEF AnswerTrue
    <3>5. Returning(c)'
      BY <1>2, <1>3, <1>6, <1>10, <2>14, <3>4 DEF Returning
    <3>6. Outstanding(c)'
      <4> SUFFICES ASSUME NEW o \in engine', o.call = c
                   PROVE  call[c].kind = "idem" /\ sess'[o.on].st = "dead"
        BY <1>3 DEF Outstanding
      <4>1. o \in engine /\ o # q /\ o.on \in Sessions
        BY <1>1, <2>2, EngineType
      <4>2. ~ (o.on = call[c].on /\ o.req = call[c].req /\ o.try = call[c].try)
        <5>1. q = [call |-> q.call, try |-> q.try, req |-> q.req, on |-> q.on]
          BY <1>1, EngineType
        <5>2. o = [call |-> o.call, try |-> o.try, req |-> o.req, on |-> o.on]
          BY <1>1, <4>1, EngineType
        <5> QED
          BY <1>2, <2>14, <4>1, <5>1, <5>2
      <4>3. call[c].kind = "idem" /\ sess[o.on].st = "dead"
        BY <2>1, <2>14, <4>1, <4>2 DEF Good, Outstanding, Waiting
      <4> QED
        BY <1>10, <4>1, <4>3
    <3> QED
      BY <2>7, <2>8, <2>9, <2>10, <2>11, <3>5, <3>6 DEF Good
  <2> QED
    BY <1>2, <2>1, <2>12, <2>13, <2>14 DEF Good, Outstanding
<1> QED
  BY <1>13, <1>14, <1>15, <1>16 DEF Inv

-----------------------------------------------------------------------------
(* The invariant.                                                              *)

LEMMA InitInv ==
  ASSUME ClientInit
  PROVE  Inv
<1>1. PICK kind \in [Calls -> AllKinds] :
       call = [c \in Calls |->
            [kind |-> kind[c], async |-> kind[c] \in Async, at |-> "new",
             req |-> IF kind[c] \in {"tx", "imp"} THEN "begin" ELSE "exec",
             on |-> 1, try |-> 0, did |-> FALSE, why |-> "none", told |-> "none"]]
  BY DEF ClientInit
<1>2. 1 \in Sessions /\ 0 \in Attempts
  BY ClientAssumption DEF Sessions, Attempts
<1>3. call \in [Calls -> CallState]
  BY <1>1, <1>2 DEF CallState
<1>4. FreshSession \in SessionState /\ FreshSession.wire = {} /\ FreshSession.st = "up"
  BY DEF FreshSession, SessionState
<1>5. ClientTypeOK
  BY <1>2, <1>3, <1>4, ClientAssumption DEF ClientInit, ClientTypeOK
<1>6. \A c \in Calls : /\ call[c].at = "new" /\ call[c].why = "none" /\ call[c].told = "none"
                       /\ call[c].kind \in Reads => call[c].req = "exec"
                       /\ inbox[c] = "none" /\ applied[c] = 0
  BY <1>1 DEF ClientInit, Reads
<1>7. engine = {} /\ \A s \in Sessions : sess[s].wire = {} /\ sess[s].st = "up"
  BY <1>4 DEF ClientInit
<1>8. ASSUME NEW c \in Calls PROVE Good(c)
  BY <1>6, <1>7 DEF Good, Shape, Outstanding, Returning, Filed, Once, StaysClean, Clean, WasApplied
<1>9. Closed
  BY <1>7 DEF Closed
<1> QED
  BY <1>5, <1>8, <1>9 DEF Inv

LEMMA NextInv ==
  ASSUME Inv, [ClientNext]_clientVars
  PROVE  Inv'
<1>1. CASE UNCHANGED clientVars
  <2>1. /\ call' = call /\ turn' = turn /\ owner' = owner /\ cur' = cur /\ sess' = sess /\ fly' = fly
        /\ inbox' = inbox /\ engine' = engine /\ applied' = applied
    BY <1>1 DEF clientVars
  <2>2. ClientTypeOK' /\ Closed'
    BY <2>1 DEF Inv, ClientTypeOK, Closed, Writes
  <2>3. \A d \in Calls : Fewer(d)
    BY <2>1 DEF Fewer
  <2>4. \A d \in Calls : Good(d)'
    BY <2>1, <2>3, Untouched DEF Inv
  <2> QED
    BY <2>2, <2>4 DEF Inv
<1>2. CASE \E c \in Calls : ClientStep(c)
  BY <1>2, StartPreserves, PickPreserves, PickFailsPreserves, RedialPreserves,
     RedialFailsPreserves, UnsentPreserves, SendPreserves, TakePreserves, AwaitPreserves,
     DropPreserves, UserPreserves DEF ClientStep
<1>3. CASE \E s \in Sessions : ReadStep(s) \/ EngineFatal(s) \/ EngineCloses(s) \/ EngineHangs(s)
  BY <1>3, PumpPreserves, PoisonedPreserves, FlagsPreserve DEF ReadStep
<1>4. CASE \E q \in engine : EngineRuns(q)
  BY <1>4, EngineRunsPreserves
<1>5. CASE Finished
  BY <1>1, <1>5 DEF Finished
<1> QED
  BY <1>1, <1>2, <1>3, <1>4, <1>5 DEF ClientNext

(* The inductive invariant holds of every behaviour of the client.              *)
LEMMA ClientInvAlways == ClientSpec => []Inv
<1>1. ClientInit => Inv
  BY InitInv
<1>2. Inv /\ [ClientNext]_clientVars => Inv'
  BY NextInv
<1> QED
  BY <1>1, <1>2, PTL DEF ClientSpec

(* The client's state keeps its types: the session a call or the reconnect loop *)
(* names is one that was dialled, and a call's attempts stay within             *)
(* RetryPolicy.maxAttempts.                                                     *)
THEOREM ClientTypeCorrect == ClientSpec => []ClientTypeOK
<1>1. Inv => ClientTypeOK
  BY DEF Inv
<1> QED
  BY <1>1, ClientInvAlways, PTL

(* What Connection tells its caller of a write is what became of it and stays   *)
(* so, for every number of concurrent calls, sessions, slots and attempts:      *)
(* success was applied, once unless declared idempotent, and an error that is   *)
(* not "indeterminate" was not and never will be, whatever FateClassifier had   *)
(* to guess about a lost request and however often a closure ran again.         *)
THEOREM ToldTrue == ClientSpec => []ToldIsTrue
<1>1. Inv => ToldIsTrue
  <2> SUFFICES ASSUME Inv, NEW c \in Calls
               PROVE  /\ call[c].kind # "idem" => applied[c] <= 1
                      /\ call[c].told = "ok" /\ call[c].kind \notin Reads => applied[c] >= 1
                      /\ /\ call[c].told \in {"retryable", "nonretryable", "raw", "app", "refused",
                                              "rolledback"}
                         /\ call[c].kind # "idem"
                         => applied[c] = 0
    BY DEF ToldIsTrue
  <2>1. Good(c)
    BY DEF Inv
  <2> QED
    BY <2>1 DEF Good, Once, WasApplied, Shape, StaysClean, MustBeClean, Clean
<1> QED
  BY <1>1, ClientInvAlways, PTL

-----------------------------------------------------------------------------
(* Sums over a channel.  Adds(W, s, t) says that t is the sum of W over s: the *)
(* witness f gives the sum of what is left after each of the items.            *)

Adds(W, s, t) ==
  \E f \in [0 .. Len(s) -> Nat] :
     /\ f[0] = t
     /\ f[Len(s)] = 0
     /\ \A i \in 1 .. Len(s) : f[i - 1] = f[i] + W[s[i]]

Item == Sizes \cup {COPY_DONE}
BytesOf == [n \in Item |-> IF n = COPY_DONE THEN 0 ELSE n]
GrantFrames == [a \in Amount |-> a.frames]
GrantBytes == [a \in Amount |-> a.bytes]

NoDone(s) == \A i \in 1 .. Len(s) : s[i] # COPY_DONE
DoneIsLast(s) == \A i \in 1 .. Len(s) : s[i] = COPY_DONE => i = Len(s)

(* The data frames in a channel: all its items but COPY_DONE.                  *)
Frames(s) == IF NoDone(s) THEN Len(s) ELSE Len(s) - 1

HandFrames == IF hand = Nothing THEN 0 ELSE 1
HandBytes == IF hand = Nothing THEN 0 ELSE hand

-----------------------------------------------------------------------------
(* The inductive invariant.                                                    *)

Quantity == [frames : Nat, bytes : Nat]

Types ==
  /\ h \in {"capacity", "checkout", "open", "opening", "granting", "recv", "forward",
            "finishing", "ended"}
  /\ inTx \in BOOLEAN /\ stopped \in BOOLEAN /\ why \in BOOLEAN
  /\ credit \in Quantity /\ pending \in Quantity /\ grant \in Quantity /\ mine \in Quantity
  /\ inbound \in Seq(Item) /\ up \in Seq(Item) /\ down \in Seq(Amount)
  /\ hand \in Sizes \cup {Nothing}
  /\ session \in {"up", "gone", "killed"}
  /\ todo \in -1 .. MaxChunks /\ begun \in BOOLEAN
  /\ server \in {"none", "copying", "aborted", "deciding", "applied", "failed"}
  /\ told \in Codes \cup {"none"} /\ ended \in {"none", "Intact", "Broken"}

(* Until the COPY is open nothing is granted and nothing is sent.              *)
EarlyInv ==
  h \in {"capacity", "checkout", "open", "opening"} =>
     /\ credit = Zero /\ pending = Zero /\ grant = Zero /\ mine = Zero
     /\ inbound = <<>> /\ up = <<>> /\ down = <<>> /\ hand = Nothing /\ ~ begun
     /\ server = "none"

(* COPY_DONE is the last frame of the upload, wherever it has got to.          *)
DoneInv ==
  /\ DoneIsLast(up) /\ DoneIsLast(inbound)
  /\ todo # -1 => NoDone(up) /\ NoDone(inbound)
  /\ up # <<>> => NoDone(inbound)

(* The client's ledger: what it may still send, what it will be granted and    *)
(* what it has sent never exceeds the credit the reader checks it against.     *)
FramesLent ==
  \E d \in Nat : /\ Adds(GrantFrames, down, d)
                 /\ Frames(up) + mine.frames + d + grant.frames <= credit.frames
BytesLent ==
  \E u, d \in Nat : /\ Adds(BytesOf, up, u) /\ Adds(GrantBytes, down, d)
                    /\ u + mine.bytes + d + grant.bytes <= credit.bytes

(* The engine's ledger: the credit, what waits in the channel, what is being   *)
(* forwarded and what is not yet granted again fit the window.                 *)
FramesKept ==
  credit.frames + Frames(inbound) + HandFrames + pending.frames <= WindowFrames
BytesKept ==
  \E b \in Nat : /\ Adds(BytesOf, inbound, b)
                 /\ credit.bytes + b + HandBytes + pending.bytes <= WindowBytes

(* A code is given at the end, and a checkout is an autocommit COPY's.         *)
CodeInv ==
  /\ h # "ended" => told = "none"
  /\ h = "checkout" => ~ inTx

(* What is being forwarded is a chunk.                                         *)
HandInv == h = "forward" => hand \in Sizes

IInv ==
  /\ Types /\ HandInv /\ EarlyInv /\ DoneInv
  /\ FramesLent /\ BytesLent /\ FramesKept /\ BytesKept
  /\ CodeInv /\ RetryIsSafe /\ LawfulClientSurvives

-----------------------------------------------------------------------------
(* Sums and counts over a channel.                                             *)

(* An empty channel holds nothing.                                             *)
LEMMA AddsEmpty ==
  ASSUME NEW W
  PROVE  Adds(W, <<>>, 0)
<1> DEFINE f == [i \in 0 .. 0 |-> 0]
<1>1. f \in [0 .. Len(<<>>) -> Nat] /\ f[0] = 0 /\ f[Len(<<>>)] = 0
  OBVIOUS
<1>2. 1 .. Len(<<>>) = {}
  OBVIOUS
<1> QED  BY <1>1, <1>2 DEF Adds

(* What is sent adds to the sum.                                               *)
LEMMA AddsAppend ==
  ASSUME NEW S, NEW W \in [S -> Nat], NEW s \in Seq(S), NEW x \in S, NEW t \in Nat,
         Adds(W, s, t)
  PROVE  Adds(W, Append(s, x), t + W[x])
<1>1. PICK f \in [0 .. Len(s) -> Nat] :
         f[0] = t /\ f[Len(s)] = 0 /\ \A i \in 1 .. Len(s) : f[i - 1] = f[i] + W[s[i]]
  BY DEF Adds
<1>2. PICK n \in Nat : n = Len(s)
  OBVIOUS
<1>3. PICK w \in Nat : w = W[x]
  OBVIOUS
<1> DEFINE g == [i \in 0 .. n + 1 |-> IF i = n + 1 THEN 0 ELSE f[i] + w]
<1>4. Len(Append(s, x)) = n + 1 /\ Append(s, x)[n + 1] = x
  BY <1>2
<1>5. \A i \in 1 .. n : Append(s, x)[i] = s[i]
  BY <1>2
<1>6. g \in [0 .. n + 1 -> Nat] /\ g[0] = t + w /\ g[n + 1] = 0
  BY <1>1, <1>2
<1>7. \A i \in 1 .. n + 1 : g[i - 1] = g[i] + W[Append(s, x)[i]]
  <2> TAKE i \in 1 .. n + 1
  <2>1. CASE i = n + 1
    BY <1>1, <1>2, <1>3, <1>4, <2>1
  <2>2. CASE i \in 1 .. n
    <3>1. g[i - 1] = f[i - 1] + w /\ g[i] = f[i] + w
      BY <2>2
    <3>2. f[i - 1] = f[i] + W[s[i]] /\ f[i] \in Nat /\ W[s[i]] \in Nat
      BY <1>1, <1>2, <2>2
    <3>3. W[Append(s, x)[i]] = W[s[i]]
      BY <1>5, <2>2
    <3> HIDE DEF g
    <3>4. (f[i] + W[s[i]]) + w = (f[i] + w) + W[s[i]]
      BY <3>2
    <3> QED  BY <3>1, <3>2, <3>3, <3>4
  <2>3. i = n + 1 \/ i \in 1 .. n
    OBVIOUS
  <2> HIDE DEF g
  <2> QED  BY <2>1, <2>2, <2>3
<1> HIDE DEF g
<1> QED  BY <1>3, <1>4, <1>6, <1>7 DEF Adds

(* What is taken from the front is taken from the sum.                         *)
LEMMA AddsTail ==
  ASSUME NEW S, NEW W \in [S -> Nat], NEW s \in Seq(S), s # <<>>, NEW t \in Nat,
         Adds(W, s, t)
  PROVE  \E u \in Nat : Adds(W, Tail(s), u) /\ t = u + W[Head(s)]
<1>1. PICK f \in [0 .. Len(s) -> Nat] :
         f[0] = t /\ f[Len(s)] = 0 /\ \A i \in 1 .. Len(s) : f[i - 1] = f[i] + W[s[i]]
  BY DEF Adds
<1>2. PICK n \in Nat : n + 1 = Len(s)
  <2>1. Len(s) \in Nat /\ Len(s) # 0
    OBVIOUS
  <2>2. Len(s) - 1 \in Nat /\ (Len(s) - 1) + 1 = Len(s)
    BY <2>1
  <2> QED  BY <2>2
<1> DEFINE g == [i \in 0 .. n |-> f[i + 1]]
<1>3. Tail(s) \in Seq(S) /\ Len(Tail(s)) = n /\ \A i \in 1 .. n : Tail(s)[i] = s[i + 1]
  BY <1>2
<1>4. g \in [0 .. n -> Nat] /\ g[n] = 0 /\ g[0] = f[1]
  BY <1>1, <1>2
<1>5. \A i \in 1 .. n : g[i - 1] = g[i] + W[Tail(s)[i]]
  <2> TAKE i \in 1 .. n
  <2>1. g[i - 1] = f[i] /\ g[i] = f[i + 1]
    OBVIOUS
  <2>2. i + 1 \in 1 .. Len(s) /\ (i + 1) - 1 = i
    BY <1>2
  <2>3. f[i] = f[i + 1] + W[s[i + 1]]
    BY <1>1, <2>2
  <2> QED  BY <1>3, <2>1, <2>3
<1>6. t = f[1] + W[s[1]] /\ f[1] \in Nat
  <2>1. 1 \in 1 .. Len(s) /\ 1 - 1 = 0
    BY <1>2
  <2> QED  BY <1>1, <2>1
<1> HIDE DEF g
<1>7. Adds(W, Tail(s), f[1])
  BY <1>3, <1>4, <1>5 DEF Adds
<1> QED  BY <1>6, <1>7

LEMMA EmptyWhenNoLength ==
  ASSUME NEW S, NEW s \in Seq(S), Len(s) = 0
  PROVE  s = <<>>
OBVIOUS

LEMMA FramesEmpty == NoDone(<<>>) /\ DoneIsLast(<<>>) /\ Frames(<<>>) = 0
BY DEF NoDone, DoneIsLast, Frames

(* Appending a data frame, or the COPY_DONE that follows them.                 *)
LEMMA FramesAppend ==
  ASSUME NEW s \in Seq(Item), NoDone(s), NEW n \in Item
  PROVE  /\ DoneIsLast(Append(s, n))
         /\ n # COPY_DONE => NoDone(Append(s, n)) /\ Frames(Append(s, n)) = Frames(s) + 1
         /\ n = COPY_DONE => Frames(Append(s, n)) = Frames(s)
<1>1. PICK l \in Nat : l = Len(s)
  OBVIOUS
<1>2. Len(Append(s, n)) = l + 1 /\ Append(s, n)[l + 1] = n
  BY <1>1
<1>3. \A i \in 1 .. l : Append(s, n)[i] = s[i] /\ s[i] # COPY_DONE
  BY <1>1 DEF NoDone
<1>4. Frames(s) = l
  BY <1>1 DEF Frames
<1>5. \A i \in 1 .. l + 1 : i = l + 1 \/ i \in 1 .. l
  OBVIOUS
<1>6. DoneIsLast(Append(s, n))
  BY <1>2, <1>3, <1>5 DEF DoneIsLast
<1>7. ASSUME n # COPY_DONE PROVE NoDone(Append(s, n))
  BY <1>2, <1>3, <1>5, <1>7 DEF NoDone
<1>8. ASSUME n = COPY_DONE PROVE ~ NoDone(Append(s, n))
  BY <1>2, <1>8 DEF NoDone
<1> QED  BY <1>2, <1>4, <1>6, <1>7, <1>8 DEF Frames

(* Taking the front one away.                                                  *)
LEMMA FramesTail ==
  ASSUME NEW s \in Seq(Item), s # <<>>, DoneIsLast(s)
  PROVE  /\ Head(s) \in Item
         /\ Tail(s) \in Seq(Item)
         /\ DoneIsLast(Tail(s))
         /\ NoDone(s) => NoDone(Tail(s)) /\ Head(s) # COPY_DONE
         /\ Head(s) # COPY_DONE => Frames(s) = Frames(Tail(s)) + 1
         /\ Head(s) = COPY_DONE => Tail(s) = <<>> /\ Frames(s) = Frames(Tail(s))
<1>1. PICK n \in Nat : n + 1 = Len(s)
  <2>1. Len(s) \in Nat /\ Len(s) # 0
    OBVIOUS
  <2>2. Len(s) - 1 \in Nat /\ (Len(s) - 1) + 1 = Len(s)
    BY <2>1
  <2> QED  BY <2>2
<1>2. Tail(s) \in Seq(Item) /\ Len(Tail(s)) = n /\ Head(s) = s[1] /\ Head(s) \in Item
  BY <1>1
<1>3. \A i \in 1 .. n : Tail(s)[i] = s[i + 1] /\ i + 1 \in 1 .. Len(s)
  BY <1>1
<1>4. DoneIsLast(Tail(s))
  BY <1>1, <1>2, <1>3 DEF DoneIsLast
<1>5. 1 \in 1 .. Len(s) /\ \A j \in 1 .. Len(s) : j = 1 \/ (j - 1 \in 1 .. n /\ (j - 1) + 1 = j)
  BY <1>1
<1>6. NoDone(s) <=> Head(s) # COPY_DONE /\ NoDone(Tail(s))
  <2>1. ASSUME NoDone(s) PROVE Head(s) # COPY_DONE /\ NoDone(Tail(s))
    BY <1>2, <1>3, <1>5, <2>1 DEF NoDone
  <2>2. ASSUME Head(s) # COPY_DONE, NoDone(Tail(s)) PROVE NoDone(s)
    BY <1>2, <1>3, <1>5, <2>2 DEF NoDone
  <2> QED  BY <2>1, <2>2
<1>7. ASSUME Head(s) # COPY_DONE PROVE Frames(s) = Frames(Tail(s)) + 1
  BY <1>1, <1>2, <1>6, <1>7 DEF Frames
<1>8. ASSUME Head(s) = COPY_DONE PROVE Tail(s) = <<>> /\ Frames(s) = Frames(Tail(s))
  <2>1. n = 0
    BY <1>1, <1>2, <1>5, <1>8 DEF DoneIsLast
  <2>2. Tail(s) = <<>>
    BY <1>2, <2>1, EmptyWhenNoLength
  <2>3. NoDone(Tail(s))
    BY <2>2, FramesEmpty
  <2> QED  BY <1>1, <1>2, <1>6, <1>8, <2>1, <2>2, <2>3 DEF Frames
<1> QED  BY <1>2, <1>4, <1>6, <1>7, <1>8

LEMMA FramesNat ==
  ASSUME NEW s \in Seq(Item)
  PROVE  Frames(s) \in Nat /\ Len(s) <= Frames(s) + 1 /\ (NoDone(s) => Frames(s) = Len(s))
<1>1. PICK l \in Nat : l = Len(s)
  OBVIOUS
<1>2. CASE l = 0
  BY <1>1, <1>2 DEF Frames, NoDone
<1>3. CASE l # 0
  BY <1>1, <1>3 DEF Frames
<1> QED  BY <1>2, <1>3

LEMMA WeightTypes ==
  /\ BytesOf \in [Item -> Nat] /\ GrantFrames \in [Amount -> Nat] /\ GrantBytes \in [Amount -> Nat]
  /\ \A n \in Sizes : n \in Nat /\ n \in Item /\ n # COPY_DONE /\ n # Nothing /\ BytesOf[n] = n
  /\ COPY_DONE \in Item /\ BytesOf[COPY_DONE] = 0
  /\ \A a \in Amount : GrantFrames[a] = a.frames /\ GrantBytes[a] = a.bytes
BY CopyAssumption DEF BytesOf, GrantFrames, GrantBytes, Item, Amount, COPY_DONE, Nothing

(* The ledgers bound every quantity by the window: TypeOK follows.             *)
LEMMA LedgersBound ==
  ASSUME IInv
  PROVE  /\ credit \in Amount /\ pending \in Amount /\ grant \in Amount /\ mine \in Amount
         /\ Len(inbound) <= WindowFrames + 1
<1>1. /\ credit \in Quantity /\ pending \in Quantity /\ grant \in Quantity /\ mine \in Quantity
      /\ hand \in Sizes \cup {Nothing}
  BY DEF IInv, Types
<1>2. WindowFrames \in Nat /\ WindowBytes \in Nat
  BY CopyAssumption
<1>3. Frames(inbound) \in Nat /\ Len(inbound) <= Frames(inbound) + 1 /\ Frames(up) \in Nat /\ Len(inbound) \in Nat
  BY FramesNat DEF IInv, Types
<1>4. HandFrames \in Nat /\ HandBytes \in Nat
  BY <1>1, WeightTypes DEF HandFrames, HandBytes
<1>5. /\ credit.frames \in Nat /\ pending.frames \in Nat /\ grant.frames \in Nat
      /\ mine.frames \in Nat
      /\ credit.bytes \in Nat /\ pending.bytes \in Nat /\ grant.bytes \in Nat
      /\ mine.bytes \in Nat
  BY <1>1 DEF Quantity
<1>6. credit.frames <= WindowFrames /\ pending.frames <= WindowFrames /\ Frames(inbound) <= WindowFrames
  <2>1. credit.frames + Frames(inbound) + HandFrames + pending.frames <= WindowFrames
    BY DEF IInv, FramesKept
  <2>2. PICK i \in Nat, k \in Nat : i = Frames(inbound) /\ k = HandFrames
    BY <1>3, <1>4
  <2>3. credit.frames + i + k + pending.frames <= WindowFrames
    BY <2>1, <2>2
  <2>4. credit.frames <= WindowFrames /\ pending.frames <= WindowFrames /\ i <= WindowFrames
    BY <2>3, <1>2, <1>5
  <2> QED  BY <2>2, <2>4
<1>7. credit.bytes <= WindowBytes /\ pending.bytes <= WindowBytes
  BY <1>2, <1>4, <1>5 DEF IInv, BytesKept
<1>8. grant.frames <= credit.frames /\ mine.frames <= credit.frames
  BY <1>3, <1>5 DEF IInv, FramesLent
<1>9. grant.bytes <= credit.bytes /\ mine.bytes <= credit.bytes
  BY <1>5 DEF IInv, BytesLent
<1>10. ASSUME NEW q \in Quantity, q.frames <= WindowFrames, q.bytes <= WindowBytes
       PROVE  q \in Amount
  BY <1>2, <1>10 DEF Quantity, Amount
<1>11. Len(inbound) <= WindowFrames + 1
  BY <1>2, <1>3, <1>6
<1>12. /\ grant.frames <= WindowFrames /\ mine.frames <= WindowFrames
       /\ grant.bytes <= WindowBytes /\ mine.bytes <= WindowBytes
  BY <1>2, <1>5, <1>6, <1>7, <1>8, <1>9
<1> QED  BY <1>1, <1>6, <1>7, <1>10, <1>11, <1>12

LEMMA IInvTypeOK == IInv => TypeOK
BY LedgersBound DEF IInv, Types, TypeOK, Item

-----------------------------------------------------------------------------
(* How the parts are kept.                                                     *)

LEMMA InitIInv == Init => IInv
<1> SUFFICES ASSUME Init PROVE IInv
  OBVIOUS
<1>1. Types
  <2>1. todo \in -1 .. MaxChunks /\ MaxChunks \in Nat
    BY CopyAssumption DEF Init
  <2>2. Zero \in Quantity
    BY DEF Zero, Quantity
  <2>3. <<>> \in Seq(Item) /\ <<>> \in Seq(Amount)
    OBVIOUS
  <2> QED  BY <2>1, <2>2, <2>3 DEF Init, Types
<1>2. EarlyInv /\ HandInv /\ CodeInv /\ RetryIsSafe /\ LawfulClientSurvives
  BY DEF Init, EarlyInv, HandInv, CodeInv, RetryIsSafe, LawfulClientSurvives, Retryable
<1>3. DoneInv
  BY FramesEmpty DEF Init, DoneInv
<1>4. FramesLent /\ BytesLent
  BY AddsEmpty, FramesEmpty DEF Init, FramesLent, BytesLent, Zero
<1>5. FramesKept /\ BytesKept
  BY AddsEmpty, FramesEmpty, CopyAssumption
     DEF Init, FramesKept, BytesKept, Zero, HandFrames, HandBytes
<1> QED  BY <1>1, <1>2, <1>3, <1>4, <1>5 DEF IInv

(* A step of the handler alone leaves the channels and the ledgers as they are. *)
LEMMA KeepLedgers ==
  ASSUME IInv, UNCHANGED <<flow, inbound, hand, up, down, mine, todo>>
  PROVE  DoneInv' /\ FramesLent' /\ BytesLent' /\ FramesKept' /\ BytesKept'
<1> USE DEF IInv, flow
<1>1. DoneInv'
  BY DEF DoneInv
<1>2. FramesLent' /\ BytesLent'
  BY DEF FramesLent, BytesLent
<1>3. FramesKept' /\ BytesKept'
  BY DEF FramesKept, BytesKept, HandFrames, HandBytes
<1> QED  BY <1>1, <1>2, <1>3

(* The end of the request drops its channel and the chunk in hand.             *)
LEMMA EndIInv ==
  ASSUME IInv, NEW code \in Codes, NEW answer \in {"Intact", "Broken"},
         End(code, answer),
         server' \in {"none", "copying", "aborted", "deciding", "applied", "failed"},
         code \in Retryable =>
           IF inTx THEN answer = "Broken" ELSE server' \notin {"applied", "deciding"}
  PROVE  IInv'
<1> USE DEF IInv, End, flow, wire
<1>1. Types'
  BY DEF Types
<1>2. EarlyInv' /\ HandInv' /\ CodeInv' /\ RetryIsSafe' /\ LawfulClientSurvives'
  BY DEF EarlyInv, HandInv, CodeInv, RetryIsSafe, LawfulClientSurvives
<1>3. DoneInv'
  BY FramesEmpty DEF DoneInv
<1>4. FramesLent' /\ BytesLent'
  BY DEF FramesLent, BytesLent
<1>5. /\ credit.frames \in Nat /\ pending.frames \in Nat /\ Frames(inbound) \in Nat
      /\ credit.bytes \in Nat /\ pending.bytes \in Nat
      /\ HandFrames \in Nat /\ HandBytes \in Nat
  BY FramesNat, WeightTypes DEF Types, Quantity, HandFrames, HandBytes
<1>6. HandFrames' = 0 /\ HandBytes' = 0
  BY DEF HandFrames, HandBytes
<1>7. FramesKept'
  BY <1>5, <1>6, FramesEmpty, CopyAssumption DEF FramesKept
<1>8. BytesKept'
  <2>1. PICK b \in Nat : credit.bytes + b + HandBytes + pending.bytes <= WindowBytes
    BY DEF BytesKept
  <2>2. credit.bytes + 0 + 0 + pending.bytes <= WindowBytes
    BY <1>5, <2>1, CopyAssumption
  <2>3. Adds(BytesOf, inbound', 0)
    BY AddsEmpty
  <2> QED  BY <1>6, <2>2, <2>3 DEF BytesKept
<1> QED  BY <1>1, <1>2, <1>3, <1>4, <1>7, <1>8

(* What each error of the COPY becomes: never a success, and the codes that let *)
(* the client repeat it are those of an unsent one or of a transaction's.       *)
LEMMA FateIsACode ==
  ASSUME NEW err \in Errors, NEW c
  PROVE  ClassifyFate(err, c) \in Codes
<1>1. ClassifyCancel(c) \in Codes
  BY Zenon DEF ClassifyCancel, Codes
<1>2. ClassifyLost(c) \in Codes
  BY DEF ClassifyLost, Codes
<1>3. CASE err = "cancel"
  BY <1>1, <1>3, Zenon DEF ClassifyFate
<1>4. CASE err = "lost"
  BY <1>2, <1>4, Zenon DEF ClassifyFate
<1>5. CASE err \notin {"cancel", "lost"}
  BY <1>5, Zenon DEF ClassifyFate, Errors, Codes
<1> QED  BY <1>3, <1>4, <1>5

LEMMA FinalCodes ==
  /\ \A c : ClassifyFate("sql", c) = "Sql" /\ ClassifyFate("unsupported", c) = "Unsupported"
           /\ ClassifyFate("backend", c) = "Protocol"
  /\ "Sql" \notin Retryable /\ "Unsupported" \notin Retryable /\ "Protocol" \notin Retryable
  /\ "Ok" \notin Retryable /\ "Ok" \in Codes
<1>1. ASSUME NEW c
      PROVE  /\ ClassifyFate("sql", c) = "Sql" /\ ClassifyFate("unsupported", c) = "Unsupported"
             /\ ClassifyFate("backend", c) = "Protocol"
  BY Zenon DEF ClassifyFate
<1>2. /\ "Sql" \notin Retryable /\ "Unsupported" \notin Retryable /\ "Protocol" \notin Retryable
      /\ "Ok" \notin Retryable /\ "Ok" \in Codes
  BY DEF Retryable, Codes
<1> QED  BY <1>1, <1>2

(* A COPY sent outside a transaction has no code that lets it be repeated.      *)
LEMMA SentCopyIsFinal ==
  ASSUME ~ inTx, NEW err \in {"cancel", "lost"}
  PROVE  ClassifyFate(err, Context(TRUE)) \notin Retryable
<1> DEFINE c == Context(TRUE)
<1>1. c.sent = TRUE /\ ~ c.inTx /\ c.readonly = FALSE
  BY DEF Context
<1> HIDE DEF c
<1>2. ClassifyCancel(c) = "WriteUnconfirmed" /\ ClassifyLost(c) = "WriteUnconfirmed"
  <2>1. ClassifyCancel(c) = "WriteUnconfirmed"
    BY <1>1, Zenon DEF ClassifyCancel
  <2> QED  BY <1>1, <2>1 DEF ClassifyLost
<1>3. ClassifyFate(err, c) = "WriteUnconfirmed"
  BY <1>2, Zenon DEF ClassifyFate
<1> QED  BY <1>3 DEF c, Retryable

-----------------------------------------------------------------------------
(* The handler's steps.                                                        *)

LEMMA QuietIInv ==
  ASSUME IInv, Capacity \/ Checkout \/ OpenStarts \/ OpenStopped \/ Stop
  PROVE  IInv'
<1>1. /\ UNCHANGED <<inTx, flow, inbound, hand, wire, server, told, ended>>
      /\ h # "ended" /\ h' # "ended"
      /\ h' = "checkout" => ~ inTx
      /\ h' # h => h \in {"capacity", "checkout", "open"} /\ h' # "forward"
  BY DEF Capacity, Checkout, OpenStarts, OpenStopped, Stop, IInv, CodeInv
<1>2. Types'
  <2>1. h' \in {h, "checkout", "open", "opening"}
    BY DEF Capacity, Checkout, OpenStarts, OpenStopped, Stop
  <2>2. stopped' \in BOOLEAN
    BY DEF Capacity, Checkout, OpenStarts, OpenStopped, Stop, IInv, Types
  <2>3. why' \in BOOLEAN
    BY DEF Capacity, Checkout, OpenStarts, OpenStopped, Stop, IInv, Types
  <2> QED  BY <1>1, <2>1, <2>2, <2>3 DEF IInv, Types, flow, wire
<1>3. EarlyInv' /\ HandInv' /\ CodeInv' /\ RetryIsSafe' /\ LawfulClientSurvives'
  BY <1>1 DEF IInv, EarlyInv, HandInv, CodeInv, RetryIsSafe, LawfulClientSurvives, flow, wire
<1>4. DoneInv' /\ FramesLent' /\ BytesLent' /\ FramesKept' /\ BytesKept'
  BY <1>1, KeepLedgers DEF wire
<1> QED  BY <1>2, <1>3, <1>4 DEF IInv

(* The ends before the end-of-data: the server has nothing it can apply.       *)
LEMMA UndecidedEndIInv ==
  ASSUME IInv, \/ CapacityStopped \/ CheckoutFails \/ GrantFails \/ RecvStopped \/ ForwardFails
               \/ OpenOk /\ why
  PROVE  IInv'
<1>1. PICK err \in Errors, answer \in {"Intact", "Broken"} :
         /\ End(ClassifyFate(err, Context(FALSE)), answer)
         /\ server' \in {"none", "aborted"}
         /\ ~ inTx \/ answer = "Broken" \/ err = "sql"
  <2>1. CASE CapacityStopped
    BY <2>1 DEF CapacityStopped, NotApplied, Errors, IInv, EarlyInv
  <2>2. CASE CheckoutFails
    BY <2>2 DEF CheckoutFails, NotApplied, Errors, IInv, EarlyInv, CodeInv
  <2>3. CASE GrantFails
    BY <2>3 DEF GrantFails, NotApplied, Errors
  <2>4. CASE RecvStopped
    BY <2>4 DEF RecvStopped, NotApplied, Errors
  <2>5. CASE ForwardFails
    BY <2>5 DEF ForwardFails, NotApplied, Errors, Answer, EndsTx
  <2>6. CASE OpenOk /\ why
    BY <2>6 DEF OpenOk, NotApplied, Errors
  <2> QED  BY <2>1, <2>2, <2>3, <2>4, <2>5, <2>6
<1>2. PICK code : code = ClassifyFate(err, Context(FALSE))
  OBVIOUS
<1>3. code \in Codes /\ (err = "sql" => code \notin Retryable)
  BY <1>2, FateIsACode, FinalCodes
<1>4. End(code, answer)
  BY <1>1, <1>2
<1> QED  BY <1>1, <1>3, <1>4, EndIInv

(* copy_in_open_failed: what the server did not refuse by name may have run.   *)
LEMMA OpenErrIInv ==
  ASSUME IInv, OpenErr
  PROVE  IInv'
<1>1. PICK err \in {"sql", "cancel", "unsupported", "lost", "backend"} :
         /\ server' \in IF err \in {"lost", "backend"} THEN {"applied", "failed"} ELSE {"aborted"}
         /\ End(OpenFailedCode(err), IF why THEN "Broken" ELSE Answer(err))
  BY DEF OpenErr
<1>2. PICK code : code = OpenFailedCode(err)
  OBVIOUS
<1>3. PICK answer : answer = IF why THEN "Broken" ELSE Answer(err)
  OBVIOUS
<1>4. answer \in {"Intact", "Broken"} /\ (answer = "Intact" => ~ why /\ err \in {"sql", "unsupported"})
  BY <1>3 DEF Answer, EndsTx
<1>5. code \in Codes
  BY <1>2, FateIsACode DEF OpenFailedCode, Errors
<1>6. ASSUME ~ why, err \in {"sql", "unsupported"} PROVE code \notin Retryable
  BY <1>2, <1>6, FinalCodes DEF OpenFailedCode
<1>7. ASSUME ~ inTx, err \in {"lost", "backend"} PROVE code \notin Retryable
  <2>1. code = ClassifyFate(err, Context(TRUE))
    BY <1>2, <1>7 DEF OpenFailedCode
  <2> QED  BY <1>7, <2>1, FinalCodes, SentCopyIsFinal
<1>8. End(code, answer)
  BY <1>1, <1>2, <1>3
<1>9. code \in Retryable => IF inTx THEN answer = "Broken" ELSE server' \notin {"applied", "deciding"}
  BY <1>1, <1>4, <1>6, <1>7
<1> QED  BY <1>1, <1>4, <1>5, <1>8, <1>9, EndIInv

(* handle.finish: from the end-of-data on, only a final code is given, unless  *)
(* the transaction ends with the request.                                      *)
LEMMA FinishIInv ==
  ASSUME IInv, FinishOk \/ FinishErr
  PROVE  IInv'
<1>1. CASE FinishOk
  BY <1>1, FinalCodes, EndIInv DEF FinishOk, Decided
<1>2. CASE FinishErr
  <2>1. PICK err \in {"sql", "cancel", "lost"}, answer \in {"Intact", "Broken"} :
           /\ End(ClassifyFate(err, Context(TRUE)), answer)
           /\ server' \in {"applied", "failed"}
           /\ answer = "Broken" \/ err = "sql"
    BY <1>2 DEF FinishErr, Decided, Answer, EndsTx
  <2>2. PICK code : code = ClassifyFate(err, Context(TRUE))
    OBVIOUS
  <2>3. code \in Codes /\ (err = "sql" => code \notin Retryable)
    BY <2>2, FateIsACode, FinalCodes DEF Errors
  <2>4. ~ inTx => code \notin Retryable
    BY <2>2, <2>3, SentCopyIsFinal
  <2>5. End(code, answer)
    BY <2>1, <2>2
  <2> QED  BY <2>1, <2>3, <2>4, <2>5, EndIInv
<1> QED  BY <1>1, <1>2

(* The first grant lends the whole window.                                     *)
LEMMA OpenOkIInv ==
  ASSUME IInv, OpenOk, ~ why
  PROVE  IInv'
<1>1. /\ h = "opening" /\ h' = "granting" /\ credit' = Plus(credit, Window) /\ grant' = Window
      /\ server' = "copying"
      /\ UNCHANGED <<inTx, stopped, why, pending, inbound, hand, wire, told, ended>>
  BY DEF OpenOk, Granting
<1>2. /\ credit = Zero /\ pending = Zero /\ mine = Zero
      /\ inbound = <<>> /\ up = <<>> /\ down = <<>> /\ hand = Nothing
  BY <1>1 DEF IInv, EarlyInv
<1>3. credit' = Window /\ Window \in Quantity
  BY <1>1, <1>2, CopyAssumption DEF Plus, Zero, Window, Quantity
<1>4. Types'
  BY <1>1, <1>3 DEF IInv, Types, wire
<1>5. EarlyInv' /\ HandInv' /\ CodeInv' /\ RetryIsSafe' /\ LawfulClientSurvives'
  BY <1>1 DEF IInv, EarlyInv, HandInv, CodeInv, RetryIsSafe, LawfulClientSurvives, wire, Retryable
<1>6. DoneInv'
  BY <1>1 DEF IInv, DoneInv, wire
<1>7. FramesLent' /\ BytesLent'
  BY <1>1, <1>2, <1>3, AddsEmpty, FramesEmpty, CopyAssumption
     DEF FramesLent, BytesLent, wire, Zero, Window
<1>8. FramesKept' /\ BytesKept'
  BY <1>1, <1>2, <1>3, AddsEmpty, FramesEmpty, CopyAssumption
     DEF FramesKept, BytesKept, HandFrames, HandBytes, Zero, Window
<1> QED  BY <1>4, <1>5, <1>6, <1>7, <1>8 DEF IInv

(* The grant leaves for the client: it moves within the client's ledger.       *)
LEMMA GrantSentIInv ==
  ASSUME IInv, GrantSent
  PROVE  IInv'
<1>1. /\ h = "granting" /\ h' = "recv" /\ down' = Append(down, grant) /\ grant' = Zero
      /\ UNCHANGED <<inTx, stopped, why, credit, pending, inbound, hand, up, session, mine, begun,
                     todo, server, told, ended>>
  BY DEF GrantSent
<1>2. grant \in Amount /\ down \in Seq(Amount)
  BY LedgersBound DEF IInv, Types
<1>3. Types'
  BY <1>1, <1>2 DEF IInv, Types, Zero, Quantity
<1>4. EarlyInv' /\ HandInv' /\ CodeInv' /\ RetryIsSafe' /\ LawfulClientSurvives' /\ DoneInv'
  BY <1>1 DEF IInv, EarlyInv, HandInv, CodeInv, RetryIsSafe, LawfulClientSurvives, DoneInv
<1>5. grant.frames \in Nat /\ grant.bytes \in Nat /\ mine.frames \in Nat /\ mine.bytes \in Nat
      /\ credit.frames \in Nat /\ credit.bytes \in Nat /\ Frames(up) \in Nat
  BY FramesNat DEF IInv, Types, Quantity
<1>6. FramesLent'
  <2>1. PICK d \in Nat : /\ Adds(GrantFrames, down, d)
                         /\ Frames(up) + mine.frames + d + grant.frames <= credit.frames
    BY DEF IInv, FramesLent
  <2>2. Adds(GrantFrames, Append(down, grant), d + grant.frames)
    BY <1>2, <2>1, AddsAppend, WeightTypes
  <2>3. Adds(GrantFrames, down', d + grant.frames)
    BY <1>1, <2>2
  <2>4. Frames(up') + mine'.frames + (d + grant.frames) + grant'.frames <= credit'.frames
    BY <1>1, <1>5, <2>1 DEF Zero
  <2> QED  BY <1>5, <2>3, <2>4 DEF FramesLent
<1>7. BytesLent'
  <2>1. PICK u, d \in Nat : /\ Adds(BytesOf, up, u) /\ Adds(GrantBytes, down, d)
                            /\ u + mine.bytes + d + grant.bytes <= credit.bytes
    BY DEF IInv, BytesLent
  <2>2. Adds(GrantBytes, Append(down, grant), d + grant.bytes)
    BY <1>2, <2>1, AddsAppend, WeightTypes
  <2>3. Adds(GrantBytes, down', d + grant.bytes) /\ Adds(BytesOf, up', u)
    BY <1>1, <2>1, <2>2
  <2>4. u + mine'.bytes + (d + grant.bytes) + grant'.bytes <= credit'.bytes
    BY <1>1, <1>5, <2>1 DEF Zero
  <2> QED  BY <1>5, <2>3, <2>4 DEF BytesLent
<1>8. FramesKept' /\ BytesKept'
  BY <1>1 DEF IInv, FramesKept, BytesKept, HandFrames, HandBytes
<1> QED  BY <1>3, <1>4, <1>6, <1>7, <1>8 DEF IInv

(* A frame leaves the channel: a chunk for the hand, COPY_DONE for the server. *)
LEMMA RecvIInv ==
  ASSUME IInv, Recv
  PROVE  IInv'
<1>1. /\ h = "recv" /\ inbound # <<>> /\ inbound' = Tail(inbound)
      /\ UNCHANGED <<inTx, stopped, why, flow, wire, told, ended>>
  BY DEF Recv
<1>2. PICK item : item = Head(inbound)
  OBVIOUS
<1>3. \/ /\ item = COPY_DONE /\ h' = "finishing" /\ server' = "deciding" /\ hand' = hand
      \/ /\ item # COPY_DONE /\ h' = "forward" /\ hand' = item /\ server' = server
  BY <1>2 DEF Recv
<1>4. inbound \in Seq(Item) /\ DoneIsLast(inbound)
  BY DEF IInv, Types, DoneInv
<1>5. /\ item \in Item /\ inbound' \in Seq(Item) /\ DoneIsLast(inbound')
      /\ NoDone(inbound) => NoDone(inbound') /\ item # COPY_DONE
      /\ item # COPY_DONE => Frames(inbound) = Frames(inbound') + 1
      /\ item = COPY_DONE => Frames(inbound) = Frames(inbound')
  BY <1>1, <1>2, <1>4, FramesTail
<1>6. item # COPY_DONE => item \in Sizes /\ item \in Nat /\ item # Nothing /\ BytesOf[item] = item
  BY <1>5, WeightTypes DEF Item
<1>7. Types'
  BY <1>1, <1>3, <1>5, <1>6 DEF IInv, Types, flow, wire
<1>8. EarlyInv' /\ HandInv' /\ CodeInv' /\ LawfulClientSurvives'
  BY <1>1, <1>3, <1>6 DEF IInv, EarlyInv, HandInv, CodeInv, LawfulClientSurvives, flow, wire
<1>9. RetryIsSafe'
  BY <1>1, <1>3 DEF IInv, CodeInv, RetryIsSafe, Retryable
<1>10. DoneInv'
  BY <1>1, <1>5 DEF IInv, DoneInv, wire
<1>11. FramesLent' /\ BytesLent'
  BY <1>1 DEF IInv, FramesLent, BytesLent, flow, wire
<1>12. /\ credit.frames \in Nat /\ pending.frames \in Nat
       /\ credit.bytes \in Nat /\ pending.bytes \in Nat
       /\ HandFrames \in Nat /\ HandBytes \in Nat
       /\ Frames(inbound') \in Nat
  BY <1>5, FramesNat, WeightTypes DEF IInv, Types, Quantity, HandFrames, HandBytes
<1>13. \/ item = COPY_DONE /\ HandFrames' = HandFrames /\ HandBytes' = HandBytes
       \/ item # COPY_DONE /\ HandFrames' = 1 /\ HandBytes' = item
  BY <1>3, <1>6 DEF HandFrames, HandBytes
<1>14. UNCHANGED <<credit, pending>>
  BY <1>1 DEF flow
<1>15. FramesKept'
  <2>1. credit.frames + Frames(inbound) + HandFrames + pending.frames <= WindowFrames
    BY DEF IInv, FramesKept
  <2>2. credit.frames + Frames(inbound') + HandFrames' + pending.frames <= WindowFrames
    BY <1>5, <1>12, <1>13, <2>1, CopyAssumption
  <2> QED  BY <1>14, <2>2 DEF FramesKept
<1>16. BytesKept'
  <2>1. PICK b \in Nat : /\ Adds(BytesOf, inbound, b)
                         /\ credit.bytes + b + HandBytes + pending.bytes <= WindowBytes
    BY DEF IInv, BytesKept
  <2>2. PICK r \in Nat : Adds(BytesOf, Tail(inbound), r) /\ b = r + BytesOf[Head(inbound)]
    BY <1>1, <1>4, <2>1, AddsTail, WeightTypes
  <2>3. Adds(BytesOf, inbound', r) /\ b = r + BytesOf[item]
    BY <1>1, <1>2, <2>2
  <2>4. credit.bytes + r + HandBytes' + pending.bytes <= WindowBytes
    BY <1>6, <1>12, <1>13, <2>1, <2>3, WeightTypes, CopyAssumption
  <2> QED  BY <1>14, <2>3, <2>4 DEF BytesKept
<1> QED  BY <1>7, <1>8, <1>9, <1>10, <1>11, <1>15, <1>16 DEF IInv

(* Regrant: what was forwarded is either still pending or lent again.          *)
LEMMA ForwardedIInv ==
  ASSUME IInv, Forwarded
  PROVE  IInv'
<1>1. /\ h = "forward" /\ hand' = Nothing
      /\ UNCHANGED <<inTx, stopped, why, inbound, wire, server, told, ended>>
  BY DEF Forwarded
<1>2. PICK c : c = Plus(pending, Chunk(hand))
  OBVIOUS
<1>3. \/ /\ h' = "granting" /\ credit' = Plus(credit, c) /\ grant' = c /\ pending' = Zero
      \/ /\ h' = "recv" /\ pending' = c /\ UNCHANGED <<credit, grant>>
  BY <1>2 DEF Forwarded, Granting
<1>4. hand \in Nat /\ hand # Nothing
  BY <1>1, WeightTypes DEF IInv, HandInv
<1>5. HandFrames = 1 /\ HandBytes = hand /\ HandFrames' = 0 /\ HandBytes' = 0
  BY <1>1, <1>4 DEF HandFrames, HandBytes
<1>6. /\ credit \in Quantity /\ pending \in Quantity
      /\ credit.frames \in Nat /\ pending.frames \in Nat /\ mine.frames \in Nat
      /\ credit.bytes \in Nat /\ pending.bytes \in Nat /\ mine.bytes \in Nat
      /\ grant.frames \in Nat /\ grant.bytes \in Nat
      /\ Frames(inbound) \in Nat /\ Frames(up) \in Nat
  BY FramesNat DEF IInv, Types, Quantity
<1>7. c \in Quantity /\ c.frames = pending.frames + 1 /\ c.bytes = pending.bytes + hand
  BY <1>2, <1>4, <1>6 DEF Plus, Chunk, Quantity
<1>8. \/ /\ credit'.frames = credit.frames + c.frames /\ credit'.bytes = credit.bytes + c.bytes
         /\ grant'.frames = c.frames /\ grant'.bytes = c.bytes
         /\ pending'.frames = 0 /\ pending'.bytes = 0
      \/ /\ UNCHANGED <<credit, grant>>
         /\ pending'.frames = c.frames /\ pending'.bytes = c.bytes
  BY <1>3 DEF Plus, Zero
<1>9. Types'
  <2>1. Plus(credit, c) \in Quantity /\ Zero \in Quantity
    BY <1>6, <1>7 DEF Plus, Zero, Quantity
  <2> QED  BY <1>1, <1>3, <1>7, <2>1 DEF IInv, Types, wire
<1>10. EarlyInv' /\ HandInv' /\ CodeInv' /\ RetryIsSafe' /\ LawfulClientSurvives' /\ DoneInv'
  BY <1>1, <1>3 DEF IInv, EarlyInv, HandInv, CodeInv, RetryIsSafe, LawfulClientSurvives, DoneInv, wire
<1>11. UNCHANGED <<inbound, up, down, mine>>
  BY <1>1 DEF wire
<1>12. FramesLent'
  <2>1. PICK d \in Nat : /\ Adds(GrantFrames, down, d)
                         /\ Frames(up) + mine.frames + d + grant.frames <= credit.frames
    BY DEF IInv, FramesLent
  <2>2. Frames(up) + mine.frames + d + grant'.frames <= credit'.frames
    BY <1>6, <1>7, <1>8, <2>1
  <2> QED  BY <1>11, <2>1, <2>2 DEF FramesLent
<1>13. BytesLent'
  <2>1. PICK u, d \in Nat : /\ Adds(BytesOf, up, u) /\ Adds(GrantBytes, down, d)
                            /\ u + mine.bytes + d + grant.bytes <= credit.bytes
    BY DEF IInv, BytesLent
  <2>2. u + mine.bytes + d + grant'.bytes <= credit'.bytes
    BY <1>4, <1>6, <1>7, <1>8, <2>1
  <2> QED  BY <1>11, <2>1, <2>2 DEF BytesLent
<1>14. FramesKept'
  <2>1. credit.frames + Frames(inbound) + 1 + pending.frames <= WindowFrames
    BY <1>5 DEF IInv, FramesKept
  <2>2. credit'.frames + Frames(inbound) + 0 + pending'.frames <= WindowFrames
    BY <1>6, <1>7, <1>8, <2>1, CopyAssumption
  <2> QED  BY <1>5, <1>11, <2>2 DEF FramesKept
<1>15. BytesKept'
  <2>1. PICK b \in Nat : /\ Adds(BytesOf, inbound, b)
                         /\ credit.bytes + b + HandBytes + pending.bytes <= WindowBytes
    BY DEF IInv, BytesKept
  <2>2. credit'.bytes + b + 0 + pending'.bytes <= WindowBytes
    BY <1>4, <1>5, <1>6, <1>7, <1>8, <2>1, CopyAssumption
  <2> QED  BY <1>5, <1>11, <2>1, <2>2 DEF BytesKept
<1> QED  BY <1>9, <1>10, <1>12, <1>13, <1>14, <1>15 DEF IInv

-----------------------------------------------------------------------------
(* The client's steps, and the reader's.                                       *)

(* A step of the client leaves the handler and the engine's ledger alone.      *)
LEMMA KeepHandler ==
  ASSUME IInv, UNCHANGED <<h, inTx, flow, inbound, hand, server, told, ended>>
  PROVE  HandInv' /\ CodeInv' /\ RetryIsSafe' /\ FramesKept' /\ BytesKept'
BY DEF IInv, HandInv, CodeInv, RetryIsSafe, FramesKept, BytesKept, HandFrames, HandBytes, flow

(* A grant is read: it moves within the client's ledger.                       *)
LEMMA ReadGrantIInv ==
  ASSUME IInv, ReadGrant
  PROVE  IInv'
<1>1. /\ session = "up" /\ down # <<>> /\ mine' = Plus(mine, Head(down)) /\ down' = Tail(down)
      /\ begun' = TRUE
      /\ UNCHANGED <<h, inTx, stopped, why, flow, inbound, hand, up, session, todo, server, told, ended>>
  BY DEF ReadGrant
<1>2. down \in Seq(Amount)
  BY DEF IInv, Types
<1>3. PICK a \in Amount : a = Head(down)
  BY <1>1, <1>2
<1>4. /\ a.frames \in Nat /\ a.bytes \in Nat /\ mine.frames \in Nat /\ mine.bytes \in Nat
      /\ grant.frames \in Nat /\ grant.bytes \in Nat
      /\ credit.frames \in Nat /\ credit.bytes \in Nat /\ Frames(up) \in Nat
  BY FramesNat DEF IInv, Types, Quantity, Amount
<1>5. mine' \in Quantity /\ mine'.frames = mine.frames + a.frames /\ mine'.bytes = mine.bytes + a.bytes
  BY <1>1, <1>3, <1>4 DEF Plus, Quantity
<1>6. Types'
  BY <1>1, <1>2, <1>5 DEF IInv, Types, flow
<1>7. HandInv' /\ CodeInv' /\ RetryIsSafe' /\ FramesKept' /\ BytesKept'
  BY <1>1, KeepHandler
<1>8. EarlyInv' /\ DoneInv' /\ LawfulClientSurvives'
  BY <1>1 DEF IInv, EarlyInv, DoneInv, LawfulClientSurvives
<1>9. UNCHANGED <<up, credit, grant>>
  BY <1>1 DEF flow
<1>10. FramesLent'
  <2>1. PICK d \in Nat : /\ Adds(GrantFrames, down, d)
                         /\ Frames(up) + mine.frames + d + grant.frames <= credit.frames
    BY DEF IInv, FramesLent
  <2>2. PICK e \in Nat : Adds(GrantFrames, Tail(down), e) /\ d = e + GrantFrames[Head(down)]
    BY <1>1, <1>2, <2>1, AddsTail, WeightTypes
  <2>3. d = e + a.frames
    BY <1>3, <2>2, WeightTypes
  <2>4. Frames(up) + mine'.frames + e + grant.frames <= credit.frames
    BY <1>4, <1>5, <2>1, <2>3
  <2> QED  BY <1>1, <1>9, <2>2, <2>4 DEF FramesLent
<1>11. BytesLent'
  <2>1. PICK u, d \in Nat : /\ Adds(BytesOf, up, u) /\ Adds(GrantBytes, down, d)
                            /\ u + mine.bytes + d + grant.bytes <= credit.bytes
    BY DEF IInv, BytesLent
  <2>2. PICK e \in Nat : Adds(GrantBytes, Tail(down), e) /\ d = e + GrantBytes[Head(down)]
    BY <1>1, <1>2, <2>1, AddsTail, WeightTypes
  <2>3. d = e + a.bytes
    BY <1>3, <2>2, WeightTypes
  <2>4. u + mine'.bytes + e + grant.bytes <= credit.bytes
    BY <1>4, <1>5, <2>1, <2>3
  <2> QED  BY <1>1, <1>9, <2>1, <2>2, <2>4 DEF BytesLent
<1> QED  BY <1>6, <1>7, <1>8, <1>10, <1>11 DEF IInv

(* A chunk leaves: its credit goes with it.                                    *)
LEMMA SendChunkIInv ==
  ASSUME IInv, NEW n \in Sizes, SendChunk(n)
  PROVE  IInv'
<1>1. /\ session = "up" /\ todo > 0 /\ Covers(mine, Chunk(n)) /\ mine' = Minus(mine, Chunk(n))
      /\ todo' = todo - 1 /\ up' = Append(up, n)
      /\ UNCHANGED <<h, inTx, stopped, why, flow, inbound, hand, down, session, begun, server, told, ended>>
  BY DEF SendChunk
<1>2. up \in Seq(Item) /\ n \in Item /\ n \in Nat /\ n # COPY_DONE /\ BytesOf[n] = n
  BY WeightTypes DEF IInv, Types
<1>3. /\ mine.frames \in Nat /\ mine.bytes \in Nat
      /\ grant.frames \in Nat /\ grant.bytes \in Nat
      /\ credit.frames \in Nat /\ credit.bytes \in Nat /\ Frames(up) \in Nat
      /\ todo \in -1 .. MaxChunks /\ MaxChunks \in Nat
  BY FramesNat, CopyAssumption DEF IInv, Types, Quantity
<1>4. 1 <= mine.frames /\ n <= mine.bytes
  BY <1>1 DEF Covers, Chunk
<1>5. mine' \in Quantity /\ mine'.frames = mine.frames - 1 /\ mine'.bytes = mine.bytes - n
  BY <1>1, <1>2, <1>3, <1>4 DEF Minus, Chunk, Quantity
<1>6. NoDone(up) /\ NoDone(inbound)
  BY <1>1, <1>3 DEF IInv, DoneInv
<1>7. up' \in Seq(Item) /\ DoneIsLast(up') /\ NoDone(up') /\ Frames(up') = Frames(up) + 1
  BY <1>1, <1>2, <1>6, FramesAppend
<1>8. todo' \in -1 .. MaxChunks
  BY <1>1, <1>3
<1>9. Types'
  BY <1>1, <1>5, <1>7, <1>8 DEF IInv, Types, flow
<1>10. HandInv' /\ CodeInv' /\ RetryIsSafe' /\ FramesKept' /\ BytesKept'
  BY <1>1, KeepHandler
<1>11. EarlyInv' /\ LawfulClientSurvives'
  BY <1>1, <1>3, <1>4 DEF IInv, EarlyInv, LawfulClientSurvives, Zero
<1>12. DoneInv'
  BY <1>1, <1>6, <1>7 DEF IInv, DoneInv
<1>13. UNCHANGED <<down, credit, grant>>
  BY <1>1 DEF flow
<1>14. FramesLent'
  <2>1. PICK d \in Nat : /\ Adds(GrantFrames, down, d)
                         /\ Frames(up) + mine.frames + d + grant.frames <= credit.frames
    BY DEF IInv, FramesLent
  <2>2. Frames(up') + mine'.frames + d + grant.frames <= credit.frames
    BY <1>3, <1>5, <1>7, <2>1
  <2> QED  BY <1>13, <2>1, <2>2 DEF FramesLent
<1>15. BytesLent'
  <2>1. PICK u, d \in Nat : /\ Adds(BytesOf, up, u) /\ Adds(GrantBytes, down, d)
                            /\ u + mine.bytes + d + grant.bytes <= credit.bytes
    BY DEF IInv, BytesLent
  <2>2. Adds(BytesOf, Append(up, n), u + BytesOf[n])
    BY <1>2, <2>1, AddsAppend, WeightTypes
  <2>3. Adds(BytesOf, up', u + n)
    BY <1>1, <1>2, <2>2
  <2>4. u + n \in Nat /\ (u + n) + mine'.bytes + d + grant.bytes <= credit.bytes
    BY <1>2, <1>3, <1>5, <2>1
  <2> QED  BY <1>13, <2>1, <2>3, <2>4 DEF BytesLent
<1> QED  BY <1>9, <1>10, <1>11, <1>12, <1>14, <1>15 DEF IInv

(* COPY_DONE needs no credit.                                                  *)
LEMMA SendDoneIInv ==
  ASSUME IInv, SendDone
  PROVE  IInv'
<1>1. /\ session = "up" /\ todo = 0 /\ begun /\ todo' = -1 /\ up' = Append(up, COPY_DONE)
      /\ UNCHANGED <<h, inTx, stopped, why, flow, inbound, hand, down, session, mine, begun, server,
                     told, ended>>
  BY DEF SendDone
<1>2. up \in Seq(Item) /\ COPY_DONE \in Item /\ BytesOf[COPY_DONE] = 0 /\ MaxChunks \in Nat
  BY WeightTypes, CopyAssumption DEF IInv, Types
<1>3. NoDone(up) /\ NoDone(inbound)
  BY <1>1 DEF IInv, DoneInv
<1>4. up' \in Seq(Item) /\ DoneIsLast(up') /\ Frames(up') = Frames(up)
  BY <1>1, <1>2, <1>3, FramesAppend
<1>5. Types'
  BY <1>1, <1>2, <1>4 DEF IInv, Types, flow
<1>6. HandInv' /\ CodeInv' /\ RetryIsSafe' /\ FramesKept' /\ BytesKept'
  BY <1>1, KeepHandler
<1>7. EarlyInv' /\ LawfulClientSurvives'
  BY <1>1 DEF IInv, EarlyInv, LawfulClientSurvives
<1>8. DoneInv'
  BY <1>1, <1>3, <1>4 DEF IInv, DoneInv
<1>9. UNCHANGED <<down, credit, grant, mine>>
  BY <1>1 DEF flow
<1>10. FramesLent'
  BY <1>4, <1>9 DEF IInv, FramesLent
<1>11. BytesLent'
  <2>1. PICK u, d \in Nat : /\ Adds(BytesOf, up, u) /\ Adds(GrantBytes, down, d)
                            /\ u + mine.bytes + d + grant.bytes <= credit.bytes
    BY DEF IInv, BytesLent
  <2>2. Adds(BytesOf, Append(up, COPY_DONE), u + BytesOf[COPY_DONE])
    BY <1>2, <2>1, AddsAppend, WeightTypes
  <2>3. Adds(BytesOf, up', u)
    BY <1>1, <1>2, <2>2
  <2> QED  BY <1>9, <2>1, <2>3 DEF BytesLent
<1> QED  BY <1>5, <1>6, <1>7, <1>8, <1>10, <1>11 DEF IInv

(* Registry::deliver: the credit covers the frame and the channel has room, so *)
(* the frame moves from the client's ledger to the engine's; a late one, after *)
(* the handler dropped its receiver, only leaves the client's.                 *)
LEMMA DeliverIInv ==
  ASSUME IInv, Deliver
  PROVE  IInv'
<1>1. /\ session = "up" /\ up # <<>> /\ up' = Tail(up)
      /\ UNCHANGED <<h, inTx, stopped, why, pending, grant, hand, down, mine, begun, todo, server,
                     told, ended>>
  BY DEF Deliver
<1>2. PICK item : item = Head(up)
  OBVIOUS
<1>3. up \in Seq(Item) /\ DoneIsLast(up) /\ inbound \in Seq(Item) /\ NoDone(inbound)
  BY <1>1 DEF IInv, Types, DoneInv
<1>4. /\ item \in Item /\ up' \in Seq(Item) /\ DoneIsLast(up')
      /\ NoDone(up) => NoDone(up') /\ item # COPY_DONE
      /\ item # COPY_DONE => Frames(up) = Frames(up') + 1
      /\ item = COPY_DONE => up' = <<>> /\ Frames(up) = Frames(up')
  BY <1>1, <1>2, <1>3, FramesTail
<1>5. item # COPY_DONE => item \in Nat /\ BytesOf[item] = item
  BY <1>4, WeightTypes DEF Item
<1>6. IsChunk(item) <=> item # COPY_DONE
  BY <1>5 DEF IsChunk, COPY_DONE
<1>7. /\ credit \in Quantity
      /\ mine.frames \in Nat /\ mine.bytes \in Nat /\ grant.frames \in Nat /\ grant.bytes \in Nat
      /\ credit.frames \in Nat /\ credit.bytes \in Nat /\ pending.frames \in Nat
      /\ pending.bytes \in Nat /\ HandFrames \in Nat /\ HandBytes \in Nat
      /\ WindowFrames \in Nat /\ WindowBytes \in Nat
  BY WeightTypes, CopyAssumption DEF IInv, Types, Quantity, HandFrames, HandBytes
<1>8. Frames(up') \in Nat /\ Frames(inbound) = Len(inbound) /\ Len(inbound) \in Nat
  BY <1>3, <1>4, FramesNat
<1>9. h \notin {"capacity", "checkout", "open", "opening"}
  BY <1>1 DEF IInv, EarlyInv
<1>10. PICK fd \in Nat : /\ Adds(GrantFrames, down, fd)
                         /\ Frames(up) + mine.frames + fd + grant.frames <= credit.frames
  BY DEF IInv, FramesLent
<1>11. PICK u, d \in Nat : /\ Adds(BytesOf, up, u) /\ Adds(GrantBytes, down, d)
                           /\ u + mine.bytes + d + grant.bytes <= credit.bytes
  BY DEF IInv, BytesLent
<1>12. PICK v \in Nat : Adds(BytesOf, Tail(up), v) /\ u = v + BytesOf[Head(up)]
  BY <1>1, <1>3, <1>11, AddsTail, WeightTypes
<1>13. Adds(BytesOf, up', v) /\ u = v + BytesOf[item]
  BY <1>1, <1>2, <1>12
<1>14. BytesOf[item] \in Nat /\ (item = COPY_DONE => BytesOf[item] = 0)
  BY <1>4, WeightTypes
<1>15. PICK k \in Nat, l \in Nat :
          /\ k = Frames(up') /\ l = Frames(up)
          /\ item = COPY_DONE => l = k
          /\ item # COPY_DONE => l = k + 1
          /\ l + mine.frames + fd + grant.frames <= credit.frames
  BY <1>3, <1>4, <1>8, <1>10, FramesNat
<1>16. item # COPY_DONE => /\ Covers(credit, Chunk(item))
                           /\ 1 <= credit.frames /\ item <= credit.bytes
  <2>1. item # COPY_DONE => 1 <= credit.frames
    BY <1>7, <1>15
  <2>2. item # COPY_DONE => item <= credit.bytes
    BY <1>5, <1>7, <1>11, <1>13
  <2> QED  BY <2>1, <2>2 DEF Covers, Chunk
<1>17. ~ (Len(inbound) > WindowFrames)
  BY <1>7, <1>8 DEF IInv, FramesKept
<1>18. \/ h \in {"finishing", "ended"} /\ UNCHANGED <<session, credit, inbound>>
       \/ /\ credit' = IF item # COPY_DONE THEN Minus(credit, Chunk(item)) ELSE credit
          /\ inbound' = Append(inbound, item)
          /\ UNCHANGED session
  BY <1>2, <1>6, <1>9, <1>16, <1>17 DEF Deliver
<1>19. HandFrames' = HandFrames /\ HandBytes' = HandBytes
  BY <1>1 DEF HandFrames, HandBytes
<1>20. HandInv' /\ CodeInv' /\ RetryIsSafe' /\ EarlyInv' /\ LawfulClientSurvives'
  BY <1>1, <1>9, <1>18 DEF IInv, HandInv, CodeInv, RetryIsSafe, EarlyInv, LawfulClientSurvives
<1>21. CASE UNCHANGED <<session, credit, inbound>>
  <2>1. Types'
    BY <1>1, <1>4, <1>21 DEF IInv, Types
  <2>2. DoneInv'
    BY <1>1, <1>3, <1>4, <1>21, FramesEmpty DEF IInv, DoneInv
  <2>3. FramesKept' /\ BytesKept'
    BY <1>1, <1>19, <1>21 DEF IInv, FramesKept, BytesKept
  <2>4. Frames(up') + mine.frames + fd + grant.frames <= credit.frames
    BY <1>7, <1>15
  <2>5. v + mine.bytes + d + grant.bytes <= credit.bytes
    BY <1>7, <1>11, <1>13, <1>14
  <2>6. FramesLent'
    BY <1>1, <1>10, <1>21, <2>4 DEF FramesLent
  <2>7. BytesLent'
    BY <1>1, <1>11, <1>13, <1>21, <2>5 DEF BytesLent
  <2> QED  BY <1>20, <2>1, <2>2, <2>3, <2>6, <2>7 DEF IInv
<1>22. CASE /\ credit' = IF item # COPY_DONE THEN Minus(credit, Chunk(item)) ELSE credit
            /\ inbound' = Append(inbound, item)
            /\ UNCHANGED session
  <2>1. /\ inbound' \in Seq(Item) /\ DoneIsLast(inbound')
        /\ item # COPY_DONE => NoDone(inbound') /\ Frames(inbound') = Frames(inbound) + 1
        /\ item = COPY_DONE => Frames(inbound') = Frames(inbound)
    BY <1>3, <1>4, <1>22, FramesAppend
  <2>2. /\ credit' \in Quantity
        /\ credit'.bytes = credit.bytes - BytesOf[item]
        /\ item # COPY_DONE => credit'.frames = credit.frames - 1
        /\ item = COPY_DONE => credit'.frames = credit.frames
    <3>1. CASE item = COPY_DONE
      BY <1>7, <1>14, <1>22, <3>1
    <3>2. CASE item # COPY_DONE
      BY <1>5, <1>7, <1>16, <1>22, <3>2 DEF Minus, Chunk, Quantity
    <3> QED  BY <3>1, <3>2
  <2>3. Types'
    BY <1>1, <1>4, <1>22, <2>1, <2>2 DEF IInv, Types
  <2>4. DoneInv'
    BY <1>1, <1>3, <1>4, <1>22, <2>1 DEF IInv, DoneInv
  <2>5. FramesKept'
    <3>1. credit.frames + Frames(inbound) + HandFrames + pending.frames <= WindowFrames
      BY DEF IInv, FramesKept
    <3>2. credit'.frames + Frames(inbound') + HandFrames + pending.frames <= WindowFrames
      BY <1>7, <1>8, <2>1, <2>2, <3>1
    <3> QED  BY <1>1, <1>19, <3>2 DEF FramesKept
  <2>6. BytesKept'
    <3>1. PICK b \in Nat : /\ Adds(BytesOf, inbound, b)
                           /\ credit.bytes + b + HandBytes + pending.bytes <= WindowBytes
      BY DEF IInv, BytesKept
    <3>2. Adds(BytesOf, Append(inbound, item), b + BytesOf[item])
      BY <1>3, <1>4, <3>1, AddsAppend, WeightTypes
    <3>3. credit'.bytes + (b + BytesOf[item]) + HandBytes + pending.bytes <= WindowBytes
      BY <1>7, <1>14, <2>2, <3>1
    <3>4. b + BytesOf[item] \in Nat
      BY <1>14
    <3> QED  BY <1>1, <1>19, <1>22, <3>2, <3>3, <3>4 DEF BytesKept
  <2>7. Frames(up') + mine.frames + fd + grant.frames <= credit'.frames
    BY <1>7, <1>15, <2>2
  <2>8. v + mine.bytes + d + grant.bytes <= credit'.bytes
    BY <1>7, <1>11, <1>13, <1>14, <2>2
  <2>9. FramesLent'
    BY <1>1, <1>10, <2>7 DEF FramesLent
  <2>10. BytesLent'
    BY <1>1, <1>11, <1>13, <2>8 DEF BytesLent
  <2> QED  BY <1>20, <2>3, <2>4, <2>5, <2>6, <2>9, <2>10 DEF IInv
<1> QED  BY <1>18, <1>21, <1>22

(* The client is gone with what it had to send; the engine keeps its ledger.   *)
LEMMA ClientGoneIInv ==
  ASSUME IInv, ClientGone
  PROVE  IInv'
<1>1. /\ session' = "gone" /\ up' = <<>> /\ down' = <<>> /\ mine' = Zero /\ stopped' = TRUE
      /\ UNCHANGED <<h, inTx, why, flow, inbound, hand, begun, todo, server, told, ended>>
  BY DEF ClientGone
<1>2. Types'
  <2>1. Zero \in Quantity /\ up' \in Seq(Item) /\ down' \in Seq(Amount)
    BY <1>1 DEF Zero, Quantity
  <2> QED  BY <1>1, <2>1 DEF IInv, Types, flow
<1>3. HandInv' /\ CodeInv' /\ RetryIsSafe' /\ FramesKept' /\ BytesKept'
  BY <1>1, KeepHandler
<1>4. EarlyInv' /\ LawfulClientSurvives'
  BY <1>1 DEF IInv, EarlyInv, LawfulClientSurvives, flow
<1>5. DoneInv'
  BY <1>1, FramesEmpty DEF IInv, DoneInv
<1>6. /\ credit.frames \in Nat /\ credit.bytes \in Nat
      /\ grant.frames <= credit.frames /\ grant.bytes <= credit.bytes
      /\ grant.frames \in Nat /\ grant.bytes \in Nat
  <2>1. /\ mine.frames \in Nat /\ mine.bytes \in Nat /\ grant.frames \in Nat
        /\ grant.bytes \in Nat /\ credit.frames \in Nat /\ credit.bytes \in Nat
        /\ Frames(up) \in Nat
    BY FramesNat DEF IInv, Types, Quantity
  <2> QED  BY <2>1 DEF IInv, FramesLent, BytesLent
<1>7. mine'.frames = 0 /\ mine'.bytes = 0 /\ Frames(up') = 0
  BY <1>1, FramesEmpty DEF Zero
<1>8. /\ Frames(up') + mine'.frames + 0 + grant.frames <= credit.frames
      /\ 0 + mine'.bytes + 0 + grant.bytes <= credit.bytes
  BY <1>6, <1>7
<1>9. UNCHANGED <<credit, grant>>
  BY <1>1 DEF flow
<1>10. FramesLent'
  BY <1>1, <1>8, <1>9, AddsEmpty DEF FramesLent
<1>11. BytesLent'
  BY <1>1, <1>8, <1>9, AddsEmpty DEF BytesLent
<1> QED  BY <1>2, <1>3, <1>4, <1>5, <1>10, <1>11 DEF IInv

LEMMA NextIInv == IInv /\ [Next]_vars => IInv'
<1> SUFFICES ASSUME IInv, [Next]_vars PROVE IInv'
  OBVIOUS
<1>1. CASE HandlerSteps
  <2>1. CASE OpenOk
    BY <2>1, OpenOkIInv, UndecidedEndIInv
  <2> QED  BY <1>1, <2>1, QuietIInv, UndecidedEndIInv, OpenErrIInv, GrantSentIInv, RecvIInv,
              ForwardedIInv, FinishIInv DEF HandlerSteps
<1>2. CASE ClientSteps
  BY <1>2, ReadGrantIInv, SendDoneIInv, SendChunkIInv DEF ClientSteps
<1>3. CASE Done \/ UNCHANGED vars
  <2>1. UNCHANGED vars
    BY <1>3 DEF Done
  <2>2. Types' /\ EarlyInv' /\ LawfulClientSurvives'
    BY <2>1 DEF vars, IInv, Types, EarlyInv, LawfulClientSurvives
  <2>3. HandInv' /\ CodeInv' /\ RetryIsSafe'
    BY <2>1, KeepHandler DEF vars, flow
  <2>4. DoneInv' /\ FramesLent' /\ BytesLent' /\ FramesKept' /\ BytesKept'
    BY <2>1, KeepLedgers DEF vars, flow
  <2> QED  BY <2>2, <2>3, <2>4 DEF IInv
<1> QED  BY <1>1, <1>2, <1>3, DeliverIInv, QuietIInv, ClientGoneIInv DEF Next

-----------------------------------------------------------------------------

(* responder.rs, registry.rs: the credit, the grants and what waits for the    *)
(* handler stay within the configured window, and the inbound channel holds at *)
(* most its frames and the COPY_DONE.                                          *)
THEOREM CopyTypeCorrect == Spec => []TypeOK
<1> QED  BY InitIInv, NextIInv, IInvTypeOK, PTL DEF Spec

(* registry.rs deliver: whatever the window, the sizes of the chunks and the   *)
(* grants on their way, a client that sends what its grants cover is never     *)
(* taken for one that breaks the contract.                                     *)
THEOREM LawfulClientsSurvive == Spec => []LawfulClientSurvives
<1>1. IInv => LawfulClientSurvives
  BY DEF IInv
<1> QED  BY <1>1, InitIInv, NextIInv, PTL DEF Spec

(* copy.rs, fate.rs: a code that lets the client repeat the COPY is given only *)
(* when nothing of it can apply: it never reached its end-of-data, or the      *)
(* transaction it ran in is ended.                                             *)
THEOREM RepeatingIsSafe == Spec => []RetryIsSafe
<1>1. IInv => RetryIsSafe
  BY DEF IInv
<1> QED  BY <1>1, InitIInv, NextIInv, PTL DEF Spec

=============================================================================
