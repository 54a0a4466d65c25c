------------------------------- MODULE Client -------------------------------
(* The PHP client's recovery surface (php/client/src/Client): Connection's     *)
(* statements and transactions, the FateClassifier's verdicts on a lost         *)
(* request, the ReconnectLoop, and the multiplexed Session they run on.  PHP    *)
(* runs one fiber at a time: a blocking call keeps the process, a Future does   *)
(* not.  The engine and the link are external: they may answer, tell the        *)
(* session it is over, close it, or fall silent at any moment.                  *)
EXTENDS Integers, FiniteSets

CONSTANTS
  Calls, None,
  Kinds,               \* the kinds each call may be of
  MaxAttempts,         \* RetryPolicy.maxAttempts
  MaxInFlight,         \* Session.maxInFlight
  MaxSessions          \* bound: sessions dialled; later dials fail

AllKinds == {"read", "write", "asyncRead", "asyncWrite", "idem", "tx", "imp"}
Async == {"asyncRead", "asyncWrite"}
Reads == {"read", "asyncRead"}

ASSUME ClientAssumption ==
  /\ None \notin Calls /\ Kinds \in [Calls -> SUBSET AllKinds]
  /\ MaxAttempts \in Nat \ {0} /\ MaxInFlight \in Nat \ {0} /\ MaxSessions \in Nat \ {0}

Sessions == 1 .. MaxSessions
Attempts == 0 .. MaxAttempts - 1
Answers == {"ok", "retryable", "nonretryable", "indeterminate"}
Losses == {"unsent", "lost"}   \* requestNotSent, and sent with no terminal
Requests == [call : Calls, try : Attempts, req : {"exec", "begin", "stmt", "commit", "rollback"},
             on : Sessions]

VARIABLES
  call,                \* each call: its kind and where its code stands
  turn,                \* the call that blocks the process
  owner,               \* Connection.tx: the call whose imperative transaction is open
  cur,                 \* ReconnectLoop.session
  sess,                \* each session, its two ends and the wire back
  fly,                 \* Session.inFlight: the session each call's request is in flight on
  inbox,               \* Session.inbox: the terminal filed and not yet taken
  engine,              \* requests the engine has and has not answered
  applied              \* history: how often each call's write took effect

clientVars == <<call, turn, owner, cur, sess, fly, inbox, engine, applied>>
db == <<engine, applied>>

CallState ==
  [kind : AllKinds, async : BOOLEAN,
   at : {"new", "pick", "send", "wait", "future", "user", "redial", "over"},
   req : {"exec", "begin", "stmt", "commit", "rollback"},
   on : Sessions, try : Attempts, did : BOOLEAN,
   why : Answers \cup Losses \cup {"none", "app"},
   told : Answers \cup {"none", "raw", "app", "refused", "dropped", "rolledback"}]

SessionState ==
  [st : {"up", "fatal", "dead"}, wire : SUBSET [call : Calls, ans : Answers],
   fatal : BOOLEAN, eof : BOOLEAN, mute : BOOLEAN]

ClientTypeOK ==
  /\ call \in [Calls -> CallState]
  /\ turn \in Calls \cup {None} /\ owner \in Calls \cup {None}
  /\ cur \in Sessions
  /\ sess \in [Sessions -> SessionState]
  /\ fly \in [Calls -> 0 .. MaxSessions]
  /\ inbox \in [Calls -> Answers \cup {"none"}]
  /\ engine \subseteq Requests
  /\ applied \in [Calls -> Nat]

FreshSession == [st |-> "up", wire |-> {}, fatal |-> FALSE, eof |-> FALSE, mute |-> FALSE]

ClientInit ==
  /\ \E kind \in [Calls -> AllKinds] :
       /\ \A c \in Calls : kind[c] \in Kinds[c]
       /\ call = [c \in Calls |->
            [kind |-> kind[c], async |-> kind[c] \in Async, at |-> "new",
             req |-> IF kind[c] \in {"tx", "imp"} THEN "begin" ELSE "exec",
             on |-> 1, try |-> 0, did |-> FALSE, why |-> "none", told |-> "none"]]
  /\ turn = None /\ owner = None
  /\ cur = 1
  /\ sess = [s \in Sessions |-> FreshSession]
  /\ fly = [c \in Calls |-> 0]
  /\ inbox = [c \in Calls |-> "none"]
  /\ engine = {}
  /\ applied = [c \in Calls |-> 0]

-----------------------------------------------------------------------------
(* The call's control: every operator below is one whole outcome of a step.    *)

Set(c, x) == call' = [call EXCEPT ![c] = x]
Runs(c, x) == Set(c, x) /\ turn' = c
Over(c, told) ==
  Set(c, [call[c] EXCEPT !.at = "over", !.told = told, !.why = "none", !.did = FALSE])
  /\ turn' = None
ToUser(c, did, why) ==
  Set(c, [call[c] EXCEPT !.at = "user", !.did = did, !.why = why]) /\ turn' = None

(* Mutant: the attempt is not counted.                                          *)
AgainUncounted(c) ==
  Runs(c, [call[c] EXCEPT !.at = "pick", !.why = "none", !.did = FALSE, !.async = FALSE,
                          !.req = IF call[c].kind = "tx" THEN "begin" ELSE "exec"])

(* The `continue` of a retry loop: the next attempt starts at requestSession.   *)
Again(c) ==
  Runs(c, [call[c] EXCEPT !.at = "pick", !.try = @ + 1, !.why = "none", !.did = FALSE,
                          !.async = FALSE,
                          !.req = IF call[c].kind = "tx" THEN "begin" ELSE "exec"])
Redials(c) == Runs(c, [call[c] EXCEPT !.at = "redial"])
Budget(c) == call[c].try + 1 < MaxAttempts

-----------------------------------------------------------------------------
(* FateClassifier.                                                             *)

(* Mutant: the COMMIT carve-out is left out.                                    *)
ClassifyLossForgetsCommit(c, why) ==
  IF why # "unsent" /\ call[c].req = "exec" /\ call[c].kind \notin Reads
  THEN "indeterminate" ELSE "retryable"

(* classifyLoss: what a request that got no terminal may have done.  Its arm    *)
(* for a fate the server gave with the loss never applies here: nextFrameFor    *)
(* raises ConnectionLost without the payload of a session-fatal.                *)
ClassifyLoss(c, why) ==
  IF why = "unsent" THEN "retryable"
  ELSE IF call[c].req = "commit" THEN "indeterminate"
  ELSE IF call[c].req = "exec" /\ call[c].kind \notin Reads THEN "indeterminate"
  ELSE "retryable"

(* mayRetry, and Connection::idempotentLicence beside it.                      *)
MayRetry(c, fate) ==
  \/ call[c].kind \in Reads /\ fate = "retryable"
  \/ call[c].kind = "idem" /\ fate = "indeterminate"

-----------------------------------------------------------------------------
(* How each request ends: `why` is the engine's answer or how it was lost.      *)

Fate(c, why) == IF why \in Losses THEN ClassifyLoss(c, why) ELSE why

(* dispatchAutocommit, and the resolver of dispatchAsync: the asynchronous      *)
(* form's second attempt is the synchronous form's, without the reconnect.      *)
ExecEnds(c, why) ==
  /\ UNCHANGED owner
  /\ IF call[c].async /\ why = "unsent"
     THEN Runs(c, [call[c] EXCEPT !.at = "pick", !.async = FALSE])
     ELSE IF ~ (Budget(c) /\ MayRetry(c, Fate(c, why))) THEN Over(c, Fate(c, why))
     ELSE IF why \in Losses /\ ~ call[c].async THEN Redials(c)
     ELSE Again(c)

(* begin() and step 1 of transaction(): only the closure form tries again.      *)
BeginEnds(c, why) ==
  /\ owner' = IF why = "ok" /\ call[c].kind = "imp" THEN c ELSE owner
  /\ IF why = "ok" THEN ToUser(c, FALSE, "none")
     ELSE IF call[c].kind = "imp" \/ ~ Budget(c) \/ Fate(c, why) # "retryable"
          THEN Over(c, Fate(c, why))
     ELSE IF why \in Losses THEN Redials(c)
     ELSE Again(c)

(* TxHandle::run throws what happened, unclassified; the closure form rolls     *)
(* back at once, the imperative form's caller is left to.                       *)
StmtEnds(c, why) ==
  /\ UNCHANGED owner
  /\ IF why = "ok" THEN ToUser(c, TRUE, "none")
     ELSE IF call[c].kind = "imp" THEN ToUser(c, FALSE, why)
     ELSE Runs(c, [call[c] EXCEPT !.at = "send", !.req = "rollback", !.why = why])

(* The best-effort ROLLBACK tells nothing; txReRunDecision on the closure's     *)
(* error then decides whether the whole closure runs again.                     *)
RollbackEnds(c) ==
  /\ UNCHANGED owner
  /\ IF call[c].kind = "imp" THEN Over(c, "rolledback")
     ELSE IF call[c].why \in Losses
          THEN IF Budget(c) THEN Redials(c) ELSE Over(c, "raw")
     ELSE IF call[c].why = "retryable" /\ Budget(c) THEN Again(c)
     ELSE Over(c, call[c].why)

(* commit() and step 3 of transaction(): a lost COMMIT never runs again.        *)
CommitEnds(c, why) ==
  /\ UNCHANGED owner
  /\ IF why = "retryable" /\ call[c].kind = "tx" /\ Budget(c) THEN Again(c)
     ELSE Over(c, Fate(c, why))

Ends(c, why) ==
  CASE call[c].req = "exec" -> ExecEnds(c, why)
    [] call[c].req = "begin" -> BeginEnds(c, why)
    [] call[c].req = "stmt" -> StmtEnds(c, why)
    [] call[c].req = "rollback" -> RollbackEnds(c)
    [] call[c].req = "commit" -> CommitEnds(c, why)

-----------------------------------------------------------------------------
(* Sessions.                                                                   *)

(* poison: the socket is closed, and nothing more is read from it.  The engine  *)
(* then cancels what it has of the session (external); a write may be past it.  *)
Dead(s) == [sess[s] EXCEPT !.st = "dead", !.wire = {}, !.fatal = FALSE]
Writes(q) == q.req = "commit" \/ (q.req = "exec" /\ call[q.call].kind \notin Reads)
Poisons(s) ==
  /\ sess' = [sess EXCEPT ![s] = Dead(s)]
  /\ engine' = {q \in engine : q.on # s \/ Writes(q)}
  /\ UNCHANGED applied

(* ReconnectLoop::reconnect: the current session is closed, whatever its state. *)
Dials == cur < MaxSessions /\ cur' = cur + 1

(* Loop, Session::pollOnce and nextFrameFor: the fiber that waits reads for     *)
(* everyone; so does a request waiting for an in-flight slot.                   *)
Reading(s) ==
  /\ sess[s].st # "dead"
  /\ \E c \in Calls :
       /\ turn \in {None, c} /\ call[c].on = s
       /\ \/ call[c].at = "wait" /\ inbox[c] = "none"
          \/ call[c].at = "send" /\ turn = c

-----------------------------------------------------------------------------
(* The client's steps.                                                         *)

(* The entry of every call: ownTx refuses a fiber that is not the owner.        *)
Start(c) ==
  /\ turn = None /\ call[c].at = "new"
  /\ IF owner = None THEN Runs(c, [call[c] EXCEPT !.at = "pick"]) ELSE Over(c, "refused")
  /\ UNCHANGED <<owner, cur, sess, fly, inbox, db>>

(* requestSession on a live session, or under an open imperative transaction.   *)
Pick(c) ==
  /\ call[c].at = "pick" /\ turn = c
  /\ sess[cur].st # "dead" \/ owner # None
  /\ Set(c, [call[c] EXCEPT !.at = "send", !.on = cur])
  /\ UNCHANGED <<turn, owner, cur, sess, fly, inbox, db>>

(* requestSession replaces a session an earlier failure closed.                 *)
PickDials(c) ==
  /\ call[c].at = "pick" /\ turn = c
  /\ sess[cur].st = "dead" /\ owner = None
  /\ Dials
  /\ Set(c, [call[c] EXCEPT !.at = "send", !.on = cur + 1])
  /\ UNCHANGED <<turn, owner, sess, fly, inbox, db>>

PickFails(c) ==
  /\ call[c].at = "pick" /\ turn = c
  /\ sess[cur].st = "dead" /\ owner = None
  /\ Over(c, "retryable")
  /\ UNCHANGED <<owner, cur, sess, fly, inbox, db>>

(* The reconnect of a retry loop, and its failure: the dial's own error, or for *)
(* the licensed re-send the fate of the write that was lost.                    *)
Redial(c) ==
  /\ call[c].at = "redial" /\ turn = c
  /\ Dials /\ Poisons(cur)
  /\ Again(c)
  /\ UNCHANGED <<owner, fly, inbox>>

RedialFails(c) ==
  /\ call[c].at = "redial" /\ turn = c
  /\ Poisons(cur)
  /\ Over(c, IF call[c].kind = "idem" THEN "indeterminate" ELSE "raw")
  /\ UNCHANGED <<owner, cur, fly, inbox>>

(* submitFrame: refused by a session that is over, else written.  A frame       *)
(* written in part poisons the session and was never sent.                      *)
SendRefused(c) ==
  /\ call[c].at = "send" /\ turn = c
  /\ sess[call[c].on].st # "up"
  /\ Ends(c, "unsent")
  /\ UNCHANGED <<cur, sess, fly, inbox, db>>

Slots(s) == MaxInFlight - Cardinality({c \in Calls : fly[c] = s})

Send(c) ==
  /\ call[c].at = "send" /\ turn = c
  /\ sess[call[c].on].st = "up" /\ Slots(call[c].on) > 0
  /\ fly' = [fly EXCEPT ![c] = call[c].on]
  /\ inbox' = [inbox EXCEPT ![c] = "none"]
  /\ engine' = engine \cup {[call |-> c, try |-> call[c].try, req |-> call[c].req, on |-> call[c].on]}
  /\ IF call[c].async THEN Set(c, [call[c] EXCEPT !.at = "future"]) /\ turn' = None
                      ELSE Set(c, [call[c] EXCEPT !.at = "wait"]) /\ UNCHANGED turn
  /\ UNCHANGED <<owner, cur, sess, applied>>

WriteFails(c) ==
  LET s == call[c].on IN
  /\ call[c].at = "send" /\ turn = c
  /\ sess[s].st = "up" /\ Slots(s) > 0
  /\ Poisons(s)
  /\ Ends(c, "unsent")
  /\ UNCHANGED <<cur, fly, inbox>>

(* awaitTerminal: the filed terminal, or the session that will bring none.      *)
Take(c) ==
  /\ call[c].at = "wait" /\ turn \in {None, c}
  /\ \/ inbox[c] # "none" /\ Ends(c, inbox[c])
     \/ inbox[c] = "none" /\ sess[call[c].on].st = "dead" /\ Ends(c, "lost")
  /\ inbox' = [inbox EXCEPT ![c] = "none"]
  /\ fly' = [fly EXCEPT ![c] = 0]
  /\ UNCHANGED <<cur, sess, db>>

(* Future::await, and a Future dropped: its terminal is thrown away.            *)
Await(c) ==
  /\ call[c].at = "future" /\ turn = None
  /\ Set(c, [call[c] EXCEPT !.at = "wait"])
  /\ UNCHANGED <<turn, owner, cur, sess, fly, inbox, db>>

Drop(c) ==
  /\ call[c].at = "future" /\ turn = None
  /\ Over(c, "dropped")
  /\ inbox' = [inbox EXCEPT ![c] = "none"]
  /\ UNCHANGED <<owner, cur, sess, fly, db>>

(* The code inside a transaction: a statement, then its end.  commit() and      *)
(* rollBack() clear the connection's handle before anything is sent.            *)
UserRuns(c) ==
  /\ call[c].at = "user" /\ turn = None /\ call[c].why = "none"
  /\ Runs(c, [call[c] EXCEPT !.at = "send",
                          !.req = IF call[c].did THEN "commit" ELSE "stmt"])
  /\ owner' = IF owner = c /\ call[c].did THEN None ELSE owner
  /\ UNCHANGED <<cur, sess, fly, inbox, db>>

UserGivesUp(c) ==
  /\ call[c].at = "user" /\ turn = None
  /\ Runs(c, [call[c] EXCEPT !.at = "send", !.req = "rollback",
                          !.why = IF @ = "none" THEN "app" ELSE @])
  /\ owner' = IF owner = c THEN None ELSE owner
  /\ UNCHANGED <<cur, sess, fly, inbox, db>>

(* pump and route: one frame off the wire, filed for its call, or thrown away   *)
(* when its Future was dropped.                                                 *)
Pump(s) ==
  /\ Reading(s)
  /\ \E m \in sess[s].wire :
        /\ sess' = [sess EXCEPT ![s].wire = @ \ {m}]
        /\ fly' = [fly EXCEPT ![m.call] = 0]
        /\ inbox' = IF call[m.call].at = "over" THEN inbox ELSE [inbox EXCEPT ![m.call] = m.ans]
  /\ UNCHANGED <<call, turn, owner, cur, db>>

(* route, id 0: the engine said the session is over; it drains, then closes.    *)
PumpFatal(s) ==
  /\ Reading(s) /\ sess[s].fatal
  /\ sess' = [sess EXCEPT ![s].st = "fatal", ![s].fatal = FALSE]
  /\ UNCHANGED <<call, turn, owner, cur, fly, inbox, db>>

PumpEof(s) ==
  /\ Reading(s) /\ sess[s].wire = {} /\ ~ sess[s].fatal /\ sess[s].eof
  /\ Poisons(s)
  /\ UNCHANGED <<call, turn, owner, cur, fly, inbox>>

(* onSilence: a PING, or the close promised by a fatal, that never came; and    *)
(* enforceDeadlines: an EXEC whose CANCEL was not answered within the grace.    *)
(* sendRequest arms it for every buffered EXEC, those of a transaction too, and *)
(* for none of BEGIN, COMMIT and ROLLBACK.                                      *)
Silence(s) ==
  /\ Reading(s) /\ sess[s].wire = {} /\ ~ sess[s].eof
  /\ \/ sess[s].mute
     \/ sess[s].st = "up" /\ \E c \in Calls : call[c].req \in {"exec", "stmt"} /\ fly[c] = s
  /\ Poisons(s)
  /\ UNCHANGED <<call, turn, owner, cur, fly, inbox>>

-----------------------------------------------------------------------------
(* The engine and the link (external).                                         *)

client == <<call, turn, owner, cur, fly, inbox>>

(* What a request may do (w = 1: its write takes effect) and be answered.  The  *)
(* answers are truthful, as RetryIsSafe of TxService and AnswerIsTrue of        *)
(* Statement say; any statement and any COMMIT may find its transaction dead.   *)
EngineRuns(q) ==
  \E ans \in Answers, w \in {0, 1} :
    /\ w = 1 => Writes(q) /\ ans \in {"ok", "indeterminate"}
    /\ ans = "ok" /\ Writes(q) => w = 1
    /\ ans = "indeterminate" => Writes(q)
    /\ q.req = "rollback" => ans = "ok"
    /\ applied' = [applied EXCEPT ![q.call] = @ + w]
    /\ engine' = engine \ {q}
    /\ sess' = IF sess[q.on].st = "dead" \/ sess[q.on].eof \/ sess[q.on].mute THEN sess
               ELSE [sess EXCEPT ![q.on].wire = @ \cup {[call |-> q.call, ans |-> ans]}]
    /\ UNCHANGED client

Live(s) == s <= cur /\ sess[s].st # "dead" /\ ~ sess[s].eof /\ ~ sess[s].mute

EngineFatal(s) ==
  /\ Live(s) /\ sess[s].st = "up" /\ ~ sess[s].fatal
  /\ sess' = [sess EXCEPT ![s].fatal = TRUE]
  /\ UNCHANGED <<client, db>>

(* The link ends; the answers still on it arrive or are lost.                   *)
EngineCloses(s) ==
  /\ Live(s)
  /\ \E w \in {sess[s].wire, {}} : sess' = [sess EXCEPT ![s].eof = TRUE, ![s].wire = w]
  /\ UNCHANGED <<client, db>>

EngineHangs(s) ==
  /\ Live(s)
  /\ sess' = [sess EXCEPT ![s].mute = TRUE]
  /\ UNCHANGED <<client, db>>

-----------------------------------------------------------------------------
ClientStep(c) ==
  \/ Start(c) \/ Pick(c) \/ PickDials(c) \/ PickFails(c) \/ Redial(c) \/ RedialFails(c)
  \/ SendRefused(c) \/ Send(c) \/ WriteFails(c) \/ Take(c) \/ Await(c) \/ Drop(c)
  \/ UserRuns(c) \/ UserGivesUp(c)

ReadStep(s) == Pump(s) \/ PumpFatal(s) \/ PumpEof(s) \/ Silence(s)

Finished == (\A c \in Calls : call[c].at = "over") /\ UNCHANGED clientVars

ClientNext ==
  \/ \E c \in Calls : ClientStep(c)
  \/ \E s \in Sessions : ReadStep(s) \/ EngineFatal(s) \/ EngineCloses(s) \/ EngineHangs(s)
  \/ \E q \in engine : EngineRuns(q)
  \/ Finished

(* PHP code that has the process runs on, the reader reads what there is, and   *)
(* an engine that still answers PINGs answers its requests in the end.          *)
Fairness ==
  /\ \A c \in Calls :
        WF_clientVars(Pick(c) \/ PickDials(c) \/ PickFails(c) \/ Redial(c) \/ RedialFails(c)
                \/ SendRefused(c) \/ Send(c) \/ WriteFails(c) \/ Take(c) \/ UserRuns(c) \/ UserGivesUp(c))
  /\ \A s \in Sessions : WF_clientVars(ReadStep(s))
  /\ \A s \in Sessions : WF_clientVars(\E q \in engine : q.on = s /\ Live(s) /\ EngineRuns(q))

ClientSpec == ClientInit /\ [][ClientNext]_clientVars /\ Fairness

-----------------------------------------------------------------------------
(* What the caller is told is what happened to its write, for good: success     *)
(* means applied once, "retryable" and every other definite error mean not      *)
(* applied and never going to be, "indeterminate" that the client did not send  *)
(* it twice.  It is about classifyLoss and wasSent, the re-run of a closure,    *)
(* and a reconnect under requests in flight.  A declared-idempotent statement   *)
(* may be applied twice, but its success means it was applied.                  *)
ToldIsTrue ==
  \A c \in Calls :
    /\ call[c].kind # "idem" => applied[c] <= 1
    /\ call[c].told = "ok" /\ call[c].kind \notin Reads => applied[c] >= 1
    /\ /\ call[c].told \in {"retryable", "nonretryable", "raw", "app", "refused", "rolledback"}
       /\ call[c].kind # "idem"
       => applied[c] = 0

(* A call that entered the client comes back: answered, refused, lost and       *)
(* classified, or out of attempts.  The link may die or fall silent at any      *)
(* time; an engine that still answers PINGs is taken to answer its requests (a  *)
(* buffered EXEC has a deadline of its own, a COMMIT has none).                 *)
CallsEnd ==
  \A c \in Calls :
    call[c].at \in {"pick", "send", "wait", "redial", "user"} ~> call[c].at \in {"over", "future"}

=============================================================================
