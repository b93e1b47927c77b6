--------------------------- MODULE Gateway_proofs ---------------------------
(***************************************************************************)
(* The life of a request, for any number of requests, accounts and keys:   *)
(* an answer from the cache is the caller's own (ReplayIsOwn), the books   *)
(* that a request leaves agree (BooksAgree), and the statistics are those  *)
(* a restart would rebuild (StatisticsSurviveRestart), whatever requests,  *)
(* the administrator, the cleanup tasks and restarts do in between.        *)
(***************************************************************************)
EXTENDS Gateway, FiniteSetTheorems, WellFoundedInduction, TLAPS

-----------------------------------------------------------------------------
(* The inductive invariants.  What a request has in hand agrees with what  *)
(* has been done for it (RequestInv), and so does what was put into the    *)
(* cache (CacheInv).                                                       *)

\* The fields of a request.
Fields ==
    {"pc", "key", "group", "bound", "rcache", "kind", "conv", "start", "stamp", "cred", "attempts",
     "status", "trace", "store", "clean", "retried", "reply"}

\* The attempts a call leaves.
Attempts == [cred : Accounts, outcome : {"transient", "success"}]

\* Where a request may be.
Asking    == {"idle", "verified", "bound", "ready", "calling"}
Answering == {"answering", "retrying"}
Booking   == {"log", "ingest", "totals", "trace", "store"}
Over      == {"done", "gone"}

(* The attempts bear out the account that is billed. *)
BorneOut(q) ==
    /\ q.cred # 0 => Success(q.cred) \in Range(q.attempts)
    /\ q.cred = 0 => \A a \in Range(q.attempts) : a.outcome # "success"

(* Nothing has been said of the request yet. *)
Unsaid(q) == q.trace = "none" /\ ~q.clean /\ q.reply = NoReply

(* The answer q was given from the cache is its own. *)
OwnReply(q) ==
    LET p == q.reply.by
    IN  /\ p.status = "success" /\ p.clean
        /\ p.conv = q.conv /\ (p.kind = "json") = (q.kind = "json")
        /\ \/ q.conv.session # "none"
           \/ p.key = q.key /\ q.key # 0
        /\ q.stamp < q.reply.at + Ttl

\* What holds of a request q at the time t.
RequestOK(q, t) ==
    /\ DOMAIN q = Fields
    /\ q.pc \in Asking \union Answering \union Booking \union Over
    /\ q.stamp \in 0 .. t
    /\ q.attempts \in Seq(Attempts)
    /\ q.cred \in Accounts \union {0}
    /\ q.pc \in Asking => Unsaid(q) /\ q.cred = 0 /\ q.attempts = << >>
    /\ q.pc \in Answering => Unsaid(q) /\ q.cred # 0
    /\ BorneOut(q)
    /\ (q.pc \in Booking /\ q.trace # "none") => (q.trace = "success") = (q.status = "success")
    /\ q.clean => q.status = "success"
    /\ q.reply # NoReply => OwnReply(q)

RequestInv == now \in Nat /\ accounts \subseteq Accounts
              /\ DOMAIN req = Requests /\ \A r \in Requests : RequestOK(req[r], now)

(* An answer in the cache is a clean one, under the digest of its request. *)
CacheInv ==
    \A d \in DOMAIN cache :
        LET p == cache[d].body.by
        IN  /\ p.status = "success" /\ p.clean
            /\ d = Digest(p.conv, p.key, p.kind # "json")
            /\ cache[d].body.at \in Nat /\ cache[d].expires = cache[d].body.at + Ttl

-----------------------------------------------------------------------------
(* Facts about the records and the digests of requests.                    *)

\* A request starts with nothing.
LEMMA FreshFields ==
    /\ DOMAIN Fresh0 = Fields /\ Fresh0.pc = "idle" /\ Fresh0.reply = NoReply /\ Fresh0.stamp = 0
    /\ Fresh0.cred = 0 /\ Fresh0.attempts = << >> /\ Fresh0.clean = FALSE
    /\ Fresh0.trace = "none"
  BY DEF Fields, Fresh0

\* What closing a request leaves alone.
LEMMA ClosedFields ==
    ASSUME NEW q, DOMAIN q = Fields, NEW n
    PROVE  LET p == [q EXCEPT !.pc = "log", !.stamp = n, !.group = NoGroup, !.bound = NoGroup,
                              !.rcache = "unset", !.retried = FALSE]
           IN  /\ DOMAIN p = Fields /\ p.pc = "log" /\ p.stamp = n
               /\ p.kind = q.kind /\ p.conv = q.conv /\ p.key = q.key /\ p.cred = q.cred
               /\ p.attempts = q.attempts /\ p.status = q.status /\ p.trace = q.trace
               /\ p.clean = q.clean /\ p.reply = q.reply
  BY DEF Fields

\* No attempt was made in an empty list of attempts.
LEMMA EmptyRange == Range(<< >>) = {}
  <1> DEFINE e == << >>
  <1>1. DOMAIN e = {}
    OBVIOUS
  <1> QED
    BY <1>1 DEF Range

\* An account that answers is the last attempt.
LEMMA AttemptMade ==
    ASSUME NEW s \in Seq(Attempts), NEW c \in Accounts
    PROVE  /\ Append(s, Success(c)) \in Seq(Attempts)
           /\ Success(c) \in Range(Append(s, Success(c)))
  <1> DEFINE a == Success(c)
             t == Append(s, a)
  <1>1. a \in Attempts
    BY DEF Success, Attempts
  <1> HIDE DEF a
  <1>2. t \in Seq(Attempts) /\ Len(t) = Len(s) + 1 /\ t[Len(t)] = a /\ DOMAIN t = 1 .. Len(t)
    BY <1>1
  <1>3. Len(t) \in DOMAIN t
    BY <1>2
  <1> HIDE DEF t
  <1>4. a \in Range(t)
    BY <1>2, <1>3 DEF Range
  <1> QED
    BY <1>2, <1>4 DEF t, a

\* A call that fails leaves no successful attempt.
LEMMA AttemptsFailed ==
    ASSUME NEW g, accounts \subseteq Accounts, NEW as \in Failed(g)
    PROVE  /\ as \in Seq(Attempts)
           /\ \A a \in Range(as) : a.outcome # "success"
  <1>1. CASE as = << >>
    BY <1>1, EmptyRange
  <1>2. CASE as # << >>
    <2>1. PICK c \in Usable(g) : as = <<Fail(c)>>
      BY <1>2 DEF Failed
    <2>2. c \in Accounts
      BY DEF Usable
    <2> DEFINE f == Fail(c)
    <2>3. f \in Attempts /\ f.outcome = "transient"
      BY <2>2 DEF Fail, Attempts
    <2>4. as = <<f>>
      BY <2>1
    <2> HIDE DEF f
    <2>5. as \in Seq(Attempts) /\ DOMAIN as = {1} /\ as[1] = f
      BY <2>3, <2>4
    <2>6. \A a \in Range(as) : a = f
      BY <2>5 DEF Range
    <2> QED
      BY <2>3, <2>5, <2>6
  <1> QED
    BY <1>1, <1>2

\* The attempts of the retry come on top of the earlier ones.
LEMMA MoreAttempts ==
    ASSUME NEW s \in Seq(Attempts), NEW t \in Seq(Attempts)
    PROVE  /\ s \o t \in Seq(Attempts)
           /\ Range(s) \subseteq Range(s \o t)
  <1>1. s \o t \in Seq(Attempts) /\ Len(s) \in Nat /\ Len(t) \in Nat
    OBVIOUS
  <1>2. ASSUME NEW i \in DOMAIN s
        PROVE  i \in DOMAIN (s \o t) /\ (s \o t)[i] = s[i]
    OBVIOUS
  <1> QED
    BY <1>1, <1>2 DEF Range

(* The digests of two requests are equal only if one may have the answer   *)
(* of the other.                                                           *)
LEMMA SameDigest ==
    ASSUME NEW a, NEW b, NEW k, NEW l, NEW x \in BOOLEAN, NEW y \in BOOLEAN,
           Digest(a, k, x) = Digest(b, l, y),
           IsolationSeed(b, l) # Unshared
    PROVE  a = b /\ x = y /\ (b.session # "none" \/ (k = l /\ l # 0))
  <1>1. a = b /\ x = y /\ IsolationSeed(a, k) = IsolationSeed(b, l)
    BY DEF Digest
  <1>2. CASE b.session = "none"
    <2>1. l # 0
      BY <1>2 DEF IsolationSeed
    <2>2. IsolationSeed(b, l) = <<"key", l, b.root>>
      BY <1>2, <2>1 DEF IsolationSeed
    <2>3. k # 0
      BY <1>1, <1>2, <2>2 DEF IsolationSeed, Unshared
    <2>4. IsolationSeed(b, k) = <<"key", k, b.root>>
      BY <1>2, <2>3 DEF IsolationSeed
    <2>5. k = l
      BY <1>1, <2>2, <2>4
    <2> QED
      BY <1>1, <2>1, <2>5
  <1> QED
    BY <1>1, <1>2

-----------------------------------------------------------------------------
(* The steps of a request: where each starts and ends, and that the        *)
(* request is left as it should be.                                        *)

(* What a request does next. *)
Moves(r, to) ==
    \E q : /\ req' = [req EXCEPT ![r] = q]
           /\ RequestOK(q, now)
           /\ q.pc \in to

\* Until it calls, a request has no account and no outcome.
LEMMA AskingStep ==
    ASSUME RequestInv, NEW r \in Requests,
           Authenticate(r) \/ ReadGroup(r) \/ ReadSettings(r) \/ AskUpstream(r)
    PROVE  req[r].pc \in Asking /\ Moves(r, Asking)
  <1> DEFINE o == req[r]
  <1>1. RequestOK(o, now)
    BY DEF RequestInv
  <1>2. CASE Authenticate(r)
    <2>1. PICK id, ask : req' = [req EXCEPT ![r] =
              [@ EXCEPT !.pc = "verified", !.key = id, !.kind = ask.kind,
                        !.conv = ask.conv, !.start = now, !.bound = GroupOf(id)]]
      BY <1>2 DEF Authenticate
    <2> DEFINE q == [o EXCEPT !.pc = "verified", !.key = id, !.kind = ask.kind,
                              !.conv = ask.conv, !.start = now, !.bound = GroupOf(id)]
    <2>2. o.pc = "idle"
      BY <1>2 DEF Authenticate
    <2>3. req' = [req EXCEPT ![r] = q]
      BY <2>1 DEF RequestInv
    <2>4. /\ DOMAIN q = Fields /\ q.pc = "verified"
          /\ q.cred = o.cred /\ q.attempts = o.attempts /\ q.status = o.status
          /\ q.trace = o.trace /\ q.clean = o.clean /\ q.reply = o.reply /\ q.stamp = o.stamp
      BY <1>1 DEF RequestOK, Fields
    <2> HIDE DEF q, o
    <2>5. RequestOK(q, now)
      BY <1>1, <2>2, <2>4 DEF RequestOK, Asking, Answering, Booking, Over, Unsaid, BorneOut
    <2> QED
      BY <2>2, <2>3, <2>4, <2>5 DEF Moves, Asking, o
  <1>3. CASE ReadGroup(r) \/ ReadSettings(r) \/ AskUpstream(r)
    <2>1. PICK g, v, pc, s : /\ o.pc \in Asking /\ pc \in Asking
                      /\ \/ req' = [req EXCEPT ![r].pc = pc, ![r].group = g]
                         \/ req' = [req EXCEPT ![r].pc = pc, ![r].rcache = v]
                         \/ req' = [req EXCEPT ![r].pc = pc, ![r].store = s]
                         \/ req' = [req EXCEPT ![r].pc = pc]
      BY <1>3 DEF ReadGroup, ReadSettings, AskUpstream, Asking, Go
    <2>2. \E q : /\ req' = [req EXCEPT ![r] = q]
                 /\ DOMAIN q = Fields /\ q.pc = pc
                 /\ q.cred = o.cred /\ q.attempts = o.attempts /\ q.status = o.status
                 /\ q.trace = o.trace /\ q.clean = o.clean /\ q.reply = o.reply
                 /\ q.stamp = o.stamp
      <3>1. CASE req' = [req EXCEPT ![r].pc = pc, ![r].group = g]
        <4> WITNESS [o EXCEPT !.pc = pc, !.group = g]
        <4> QED
          BY <1>1, <3>1 DEF RequestOK, Fields, RequestInv
      <3>2. CASE req' = [req EXCEPT ![r].pc = pc, ![r].rcache = v]
        <4> WITNESS [o EXCEPT !.pc = pc, !.rcache = v]
        <4> QED
          BY <1>1, <3>2 DEF RequestOK, Fields, RequestInv
      <3>3. CASE req' = [req EXCEPT ![r].pc = pc, ![r].store = s]
        <4> WITNESS [o EXCEPT !.pc = pc, !.store = s]
        <4> QED
          BY <1>1, <3>3 DEF RequestOK, Fields, RequestInv
      <3>4. CASE req' = [req EXCEPT ![r].pc = pc]
        <4> WITNESS [o EXCEPT !.pc = pc]
        <4> QED
          BY <1>1, <3>4 DEF RequestOK, Fields, RequestInv
      <3> QED
        BY <2>1, <3>1, <3>2, <3>3, <3>4
    <2>3. PICK q : /\ req' = [req EXCEPT ![r] = q]
                 /\ DOMAIN q = Fields /\ q.pc = pc
                 /\ q.cred = o.cred /\ q.attempts = o.attempts /\ q.status = o.status
                 /\ q.trace = o.trace /\ q.clean = o.clean /\ q.reply = o.reply
                 /\ q.stamp = o.stamp
      BY <2>2
    <2> HIDE DEF o
    <2>4. RequestOK(q, now)
      BY <1>1, <2>1, <2>3 DEF RequestOK, Asking, Answering, Booking, Over, Unsaid, BorneOut
    <2> QED
      BY <2>1, <2>3, <2>4 DEF Moves, o
  <1> QED
    BY <1>2, <1>3

(* A branch that ends closes the request with the fields it has set. *)
LEMMA ClosingStep ==
    ASSUME RequestInv, NEW r \in Requests, NEW q, DOMAIN q = Fields, Close(r, q),
           q.attempts \in Seq(Attempts), q.cred \in Accounts \union {0}, BorneOut(q),
           q.trace # "none" => (q.trace = "success") = (q.status = "success"),
           q.clean => q.status = "success",
           q.reply # NoReply => OwnReply([q EXCEPT !.stamp = now])
    PROVE  Moves(r, {"log"})
  <1> DEFINE p == [q EXCEPT !.pc = "log", !.stamp = now, !.group = NoGroup, !.bound = NoGroup,
                            !.rcache = "unset", !.retried = FALSE]
  <1>1. /\ DOMAIN p = Fields /\ p.pc = "log" /\ p.stamp = now
        /\ p.kind = q.kind /\ p.conv = q.conv /\ p.key = q.key /\ p.cred = q.cred
        /\ p.attempts = q.attempts /\ p.status = q.status /\ p.trace = q.trace
        /\ p.clean = q.clean /\ p.reply = q.reply
    BY ClosedFields
  <1>2. req' = [req EXCEPT ![r] = p]
    BY DEF Close
  <1> HIDE DEF p
  <1>3. p.reply # NoReply => OwnReply(p)
    <2> DEFINE s == [q EXCEPT !.stamp = now]
    <2>1. s.stamp = now /\ s.reply = q.reply /\ s.conv = q.conv /\ s.kind = q.kind /\ s.key = q.key
      BY DEF Fields
    <2>2. q.reply # NoReply => OwnReply(s)
      OBVIOUS
    <2> HIDE DEF s
    <2> QED
      BY <1>1, <2>1, <2>2 DEF OwnReply
  <1>4. RequestOK(p, now)
    <2>1. p.stamp \in 0 .. now
      BY <1>1 DEF RequestInv
    <2>2. BorneOut(p)
      BY <1>1 DEF BorneOut
    <2> QED
      BY <1>1, <1>3, <2>1, <2>2 DEF RequestOK, Asking, Answering, Booking, Over
  <1> QED
    BY <1>1, <1>2, <1>4 DEF Moves

\* A request that is rejected names no account.
LEMMA RejectStep ==
    ASSUME RequestInv, NEW r \in Requests, Reject(r) \/ WebSearchOnly(r)
    PROVE  req[r].pc \in Asking /\ Moves(r, {"log"})
  <1> DEFINE o == req[r]
  <1>1. RequestOK(o, now) /\ o.pc = "ready"
    BY DEF RequestInv, Reject, WebSearchOnly
  <1>2. PICK s : Close(r, [o EXCEPT !.status = s])
    BY DEF Reject, WebSearchOnly
  <1> DEFINE q == [o EXCEPT !.status = s]
  <1>3. /\ DOMAIN q = Fields /\ q.cred = o.cred /\ q.attempts = o.attempts /\ q.trace = o.trace
        /\ q.clean = o.clean /\ q.reply = o.reply
    BY <1>1 DEF RequestOK, Fields
  <1>4. Close(r, q)
    BY <1>2
  <1> HIDE DEF q, o
  <1>5. BorneOut(q)
    BY <1>1, <1>3 DEF RequestOK, BorneOut
  <1>6. Moves(r, {"log"})
    BY <1>1, <1>3, <1>4, <1>5, ClosingStep DEF RequestOK, Asking, Unsaid
  <1> QED
    BY <1>1, <1>6 DEF Asking, o

\* A call that fails names no account and is an error everywhere.
LEMMA CallFailsStep ==
    ASSUME RequestInv, NEW r \in Requests, CallFails(r)
    PROVE  req[r].pc \in Asking /\ Moves(r, {"log"})
  <1> DEFINE o == req[r]
  <1>1. RequestOK(o, now) /\ o.pc = "calling"
    BY DEF RequestInv, CallFails
  <1>2. PICK as \in Failed(o.group) :
            Close(r, [o EXCEPT !.status = "error", !.trace = "error", !.attempts = as])
    BY DEF CallFails
  <1> DEFINE q == [o EXCEPT !.status = "error", !.trace = "error", !.attempts = as]
  <1>3. /\ DOMAIN q = Fields /\ q.cred = o.cred /\ q.attempts = as /\ q.trace = "error"
        /\ q.status = "error" /\ q.clean = o.clean /\ q.reply = o.reply
    BY <1>1 DEF RequestOK, Fields
  <1>4. Close(r, q)
    BY <1>2
  <1>5. as \in Seq(Attempts) /\ \A a \in Range(as) : a.outcome # "success"
    BY AttemptsFailed DEF RequestInv
  <1> HIDE DEF q, o
  <1>6. BorneOut(q) /\ q.cred \in Accounts \union {0}
    BY <1>1, <1>3, <1>5 DEF RequestOK, Asking, BorneOut
  <1>7. Moves(r, {"log"})
    BY <1>1, <1>3, <1>4, <1>5, <1>6, ClosingStep DEF RequestOK, Asking, Unsaid
  <1> QED
    BY <1>1, <1>7 DEF Asking, o

\* The account that answers is the one that will be billed.
LEMMA CallAnswersStep ==
    ASSUME RequestInv, NEW r \in Requests, CallAnswers(r)
    PROVE  req[r].pc \in Asking \union Answering /\ Moves(r, Answering)
  <1> DEFINE o == req[r]
  <1>1. RequestOK(o, now) /\ o.pc \in {"calling", "retrying"}
    BY DEF RequestInv, CallAnswers
  <1>2. PICK c \in Usable(o.group) :
          req' = [req EXCEPT ![r].pc = "answering", ![r].cred = c,
                             ![r].attempts = Append(@, Success(c))]
    BY DEF CallAnswers
  <1> DEFINE as == Append(o.attempts, Success(c))
             q == [o EXCEPT !.pc = "answering", !.cred = c,
                            !.attempts = Append(@, Success(c))]
  <1>3. c \in Accounts /\ c # 0
    BY GatewayAssumption DEF Usable, RequestInv
  <1>4. as \in Seq(Attempts) /\ Success(c) \in Range(as)
    BY <1>1, <1>3, AttemptMade DEF RequestOK
  <1>5. req' = [req EXCEPT ![r] = q]
    BY <1>2 DEF RequestInv
  <1>6. /\ DOMAIN q = Fields /\ q.pc = "answering" /\ q.cred = c /\ q.attempts = as
        /\ q.trace = o.trace /\ q.status = o.status /\ q.clean = o.clean /\ q.reply = o.reply
        /\ q.stamp = o.stamp
    BY <1>1 DEF RequestOK, Fields
  <1> HIDE DEF q, o, as
  <1>7. RequestOK(q, now)
    BY <1>1, <1>3, <1>4, <1>6 DEF RequestOK, Asking, Answering, Booking, Over, Unsaid, BorneOut
  <1> QED
    BY <1>1, <1>5, <1>6, <1>7 DEF Moves, Asking, Answering, o

\* The status and the outcome in the trace are a success together.
LEMMA AnswerStep ==
    ASSUME RequestInv, NEW r \in Requests, Answer(r)
    PROVE  req[r].pc \in Answering /\ Moves(r, {"log"})
  <1> DEFINE o == req[r]
  <1>1. RequestOK(o, now) /\ o.pc = "answering"
    BY DEF RequestInv, Answer
  <1>2. PICK result \in Results :
            Close(r, [o EXCEPT !.status = StatusOf(result), !.trace = TraceOf(result),
                               !.clean = (result = "clean")])
    BY DEF Answer
  <1> DEFINE s == StatusOf(result)
             t == TraceOf(result)
             clean == (result = "clean")
             q == [o EXCEPT !.status = s, !.trace = t, !.clean = clean]
  <1>3. (t = "success") = (s = "success") /\ (clean => s = "success")
    BY DEF TraceOf, StatusOf
  <1>4. Close(r, q)
    BY <1>2
  <1> HIDE DEF s, t, clean
  <1>5. /\ DOMAIN q = Fields /\ q.cred = o.cred /\ q.attempts = o.attempts /\ q.trace = t
        /\ q.status = s /\ q.clean = clean /\ q.reply = o.reply
    BY <1>1 DEF RequestOK, Fields
  <1> HIDE DEF q, o
  <1>6. BorneOut(q)
    BY <1>1, <1>5 DEF RequestOK, BorneOut
  <1>7. Moves(r, {"log"})
    BY <1>1, <1>3, <1>4, <1>5, <1>6, ClosingStep DEF RequestOK, Answering, Unsaid
  <1> QED
    BY <1>1, <1>7 DEF Answering, o

\* An empty answer changes no account.
LEMMA EmptyAnswerStep ==
    ASSUME RequestInv, NEW r \in Requests, EmptyAnswer(r)
    PROVE  req[r].pc \in Answering /\ Moves(r, Answering)
  <1> DEFINE o == req[r]
             q == [o EXCEPT !.pc = "retrying", !.retried = TRUE]
  <1>1. RequestOK(o, now) /\ o.pc = "answering"
    BY DEF RequestInv, EmptyAnswer
  <1>2. req' = [req EXCEPT ![r] = q]
    BY DEF RequestInv, EmptyAnswer
  <1>3. /\ DOMAIN q = Fields /\ q.pc = "retrying" /\ q.cred = o.cred /\ q.attempts = o.attempts
        /\ q.trace = o.trace /\ q.status = o.status /\ q.clean = o.clean /\ q.reply = o.reply
        /\ q.stamp = o.stamp
    BY <1>1 DEF RequestOK, Fields
  <1> HIDE DEF q, o
  <1>4. RequestOK(q, now)
    BY <1>1, <1>3 DEF RequestOK, Asking, Answering, Booking, Over, Unsaid, BorneOut
  <1> QED
    BY <1>1, <1>2, <1>3, <1>4 DEF Moves, Answering, o

\* When the retry fails the first account stays the one billed.
LEMMA RetryFailsStep ==
    ASSUME RequestInv, NEW r \in Requests, RetryFails(r)
    PROVE  req[r].pc \in Answering /\ Moves(r, {"log"})
  <1> DEFINE o == req[r]
  <1>1. RequestOK(o, now) /\ o.pc = "retrying"
    BY DEF RequestInv, RetryFails
  <1>2. PICK as \in Failed(o.group) :
            Close(r, [o EXCEPT !.status = "success", !.trace = "success",
                               !.attempts = @ \o as])
    BY DEF RetryFails
  <1> DEFINE more == o.attempts \o as
             q == [o EXCEPT !.status = "success", !.trace = "success", !.attempts = more]
  <1>3. more \in Seq(Attempts) /\ Range(o.attempts) \subseteq Range(more)
    <2>1. as \in Seq(Attempts)
      BY AttemptsFailed DEF RequestInv
    <2> QED
      BY <1>1, <2>1, MoreAttempts DEF RequestOK
  <1>4. Close(r, q)
    BY <1>2
  <1> HIDE DEF more
  <1>5. /\ DOMAIN q = Fields /\ q.cred = o.cred /\ q.attempts = more /\ q.trace = "success"
        /\ q.status = "success" /\ q.clean = o.clean /\ q.reply = o.reply
    BY <1>1 DEF RequestOK, Fields
  <1> HIDE DEF q, o
  <1>6. BorneOut(q)
    BY <1>1, <1>3, <1>5 DEF RequestOK, Answering, BorneOut
  <1>7. Moves(r, {"log"})
    BY <1>1, <1>3, <1>4, <1>5, <1>6, ClosingStep DEF RequestOK, Answering, Unsaid
  <1> QED
    BY <1>1, <1>7 DEF Answering, o

\* A request that is over, or not begun, has nothing in hand.
LEMMA GoneOK ==
    now \in Nat => RequestOK(Gone, now) /\ RequestOK(Done, now) /\ RequestOK(Fresh0, now)
  <1> SUFFICES ASSUME now \in Nat
               PROVE  RequestOK(Gone, now) /\ RequestOK(Done, now) /\ RequestOK(Fresh0, now)
    OBVIOUS
  <1>1. ASSUME NEW pc \in {"idle", "done", "gone"}, NEW q, q = [Fresh0 EXCEPT !.pc = pc]
        PROVE  RequestOK(q, now)
    <2>1. /\ DOMAIN q = Fields /\ q.pc = pc /\ q.reply = NoReply /\ q.stamp = 0
          /\ q.cred = 0 /\ q.attempts = << >> /\ q.clean = FALSE /\ q.trace = "none"
      BY <1>1, FreshFields DEF Fields
    <2> HIDE <1>1
    <2>2. q.attempts \in Seq(Attempts)
      BY <2>1
    <2> QED
      BY <2>1, <2>2, EmptyRange
      DEF RequestOK, Asking, Answering, Booking, Over, Unsaid, BorneOut
  <1>2. Fresh0 = [Fresh0 EXCEPT !.pc = "idle"]
    BY DEF Fresh0
  <1> QED
    BY <1>1, <1>2 DEF Gone, Done

\* A client that hangs up leaves nothing behind.
LEMMA HangUpStep ==
    ASSUME RequestInv, NEW r \in Requests, HangUp(r)
    PROVE  req[r].pc \in Asking \union Answering /\ Moves(r, {"gone"})
  <1>1. RequestOK(Gone, now) /\ Gone.pc = "gone"
    BY GoneOK, FreshFields DEF Gone, RequestInv, Fields
  <1>2. req' = [req EXCEPT ![r] = Gone]
    BY DEF HangUp
  <1> QED
    BY <1>1, <1>2 DEF HangUp, Moves, Asking, Answering

(* An answer that is found in the cache is the requests' own. *)
LEMMA ReplayStep ==
    ASSUME RequestInv, CacheInv, NEW r \in Requests, Replay(r)
    PROVE  req[r].pc \in Asking /\ Moves(r, {"log"})
  <1> DEFINE o == req[r]
             d == DigestOf(r)
             body == cache[d].body
             q == [o EXCEPT !.status = "success", !.reply = body]
             p == body.by
             s == [q EXCEPT !.stamp = now]
  <1>1. RequestOK(o, now) /\ o.pc = "ready"
    BY DEF RequestInv, Replay
  <1>2. Close(r, q)
    BY DEF Replay
  <1>3. d \in DOMAIN cache /\ now < cache[d].expires
    BY DEF Replay, Hit, Fresh
  <1>4. /\ p.status = "success" /\ p.clean
        /\ d = Digest(p.conv, p.key, p.kind # "json")
        /\ body.at \in Nat /\ cache[d].expires = body.at + Ttl
    BY <1>3 DEF CacheInv
  <1>5. d = Digest(o.conv, o.key, o.kind # "json") /\ IsolationSeed(o.conv, o.key) # Unshared
    BY DEF Replay, DigestOf, Streamed, Cacheable
  <1> HIDE DEF d, p
  <1>6. /\ p.conv = o.conv /\ (p.kind # "json") = (o.kind # "json")
        /\ (o.conv.session # "none" \/ (p.key = o.key /\ o.key # 0))
    <2> DEFINE x == (p.kind # "json")
               y == (o.kind # "json")
               a == p.conv
               b == o.conv
               k == p.key
               l == o.key
    <2>1. x \in BOOLEAN /\ y \in BOOLEAN
      OBVIOUS
    <2>2. Digest(a, k, x) = Digest(b, l, y) /\ IsolationSeed(b, l) # Unshared
      BY <1>4, <1>5
    <2> HIDE DEF x, y, a, b, k, l
    <2>3. a = b /\ x = y /\ (b.session # "none" \/ (k = l /\ l # 0))
      BY <2>1, <2>2, SameDigest
    <2> QED
      BY <2>3 DEF x, y, a, b, k, l
  <1> HIDE DEF body
  <1>7. /\ DOMAIN q = Fields /\ q.cred = o.cred /\ q.attempts = o.attempts /\ q.trace = o.trace
        /\ q.status = "success" /\ q.clean = o.clean
    BY <1>1 DEF RequestOK, Fields
  <1>8. s.reply = body /\ s.conv = o.conv /\ s.kind = o.kind /\ s.key = o.key /\ s.stamp = now
    BY <1>1 DEF RequestOK, Fields
  <1> HIDE DEF q, s, o
  <1>9. OwnReply(s)
    BY <1>3, <1>4, <1>6, <1>8 DEF OwnReply, body, p
  <1>10. BorneOut(q)
    BY <1>1, <1>7 DEF RequestOK, BorneOut
  <1>11. Moves(r, {"log"})
    BY <1>1, <1>2, <1>7, <1>9, <1>10, ClosingStep DEF RequestOK, Asking, Unsaid, s
  <1> QED
    BY <1>1, <1>11 DEF Asking, o

(* The steps of the books change nothing but where the request is. *)
LEMMA Onwards ==
    ASSUME RequestInv, NEW r \in Requests, NEW pc \in Booking \union {"done"},
           req[r].pc \in Booking
    PROVE  LET q == [req[r] EXCEPT !.pc = pc]
           IN  /\ RequestOK(q, now) /\ q.pc = pc
               /\ [id |-> r, ts |-> q.stamp, key |-> q.key, cred |-> q.cred,
                   ok |-> q.status = "success"] = RecordOf(r)
  <1> DEFINE o == req[r]
             q == [o EXCEPT !.pc = pc]
  <1>1. RequestOK(o, now) /\ o.pc \in Booking
    BY DEF RequestInv
  <1>2. /\ DOMAIN q = Fields /\ q.pc = pc
        /\ q.kind = o.kind /\ q.conv = o.conv /\ q.key = o.key /\ q.cred = o.cred
        /\ q.attempts = o.attempts /\ q.status = o.status /\ q.trace = o.trace
        /\ q.clean = o.clean /\ q.reply = o.reply /\ q.stamp = o.stamp
    BY <1>1 DEF RequestOK, Fields
  <1>3. [id |-> r, ts |-> q.stamp, key |-> q.key, cred |-> q.cred,
         ok |-> q.status = "success"] = RecordOf(r)
    BY <1>2 DEF RecordOf
  <1> HIDE DEF q, o
  <1>4. RequestOK(q, now)
    BY <1>1, <1>2 DEF RequestOK, OwnReply, Asking, Answering, Booking, Over, BorneOut
  <1> QED
    BY <1>2, <1>3, <1>4 DEF q, o

\* The books do not change what they are about.
LEMMA BookingStep ==
    ASSUME RequestInv, NEW r \in Requests,
           WriteLog(r) \/ IngestRecord(r) \/ CountTotals(r) \/ FinalizeTrace(r) \/ StoreAnswer(r)
    PROVE  req[r].pc \in Booking /\ Moves(r, Booking \union {"done"})
  <1>1. req[r].pc \in Booking
    BY DEF WriteLog, IngestRecord, CountTotals, FinalizeTrace, StoreAnswer, Booking
  <1>2. (\E pc \in Booking \union {"done"} : req' = [req EXCEPT ![r] = [req[r] EXCEPT !.pc = pc]])
        \/ req' = [req EXCEPT ![r] = Done]
    <2>1. CASE StoreAnswer(r)
      BY <2>1 DEF StoreAnswer, RequestInv
    <2>2. CASE WriteLog(r) \/ IngestRecord(r) \/ CountTotals(r) \/ FinalizeTrace(r)
      <3>1. \E pc \in Booking : Go(r, pc)
        BY <2>2 DEF WriteLog, IngestRecord, CountTotals, FinalizeTrace, Booking
      <3> QED
        BY <3>1 DEF Go, RequestInv
    <2> QED
      BY <2>1, <2>2
  <1>3. CASE req' = [req EXCEPT ![r] = Done]
    <2>1. RequestOK(Done, now) /\ Done.pc = "done"
      BY GoneOK, FreshFields DEF Done, RequestInv, Fields
    <2> QED
      BY <1>1, <1>3, <2>1 DEF Moves
  <1>4. ASSUME NEW pc \in Booking \union {"done"},
               req' = [req EXCEPT ![r] = [req[r] EXCEPT !.pc = pc]]
        PROVE  Moves(r, Booking \union {"done"})
    <2> DEFINE q == [req[r] EXCEPT !.pc = pc]
    <2>1. RequestOK(q, now) /\ q.pc = pc
      BY <1>1, Onwards
    <2>2. req' = [req EXCEPT ![r] = q]
      BY <1>4
    <2> HIDE DEF q
    <2> QED
      BY <2>1, <2>2 DEF Moves
  <1> QED
    BY <1>1, <1>2, <1>3, <1>4

-----------------------------------------------------------------------------
(* Every step keeps the two invariants.                                   *)

\* At the start nothing is asked and nothing cached.
LEMMA RequestStart == Init => RequestInv /\ CacheInv
  <1> SUFFICES ASSUME Init PROVE RequestInv /\ CacheInv
    OBVIOUS
  <1>1. /\ now = StartAt /\ now \in Nat /\ accounts = Accounts
        /\ req = [r \in Requests |-> Fresh0]
        /\ cache = << >>
    BY GatewayAssumption DEF Init, CacheInit
  <1>2. RequestInv
    BY <1>1, GoneOK DEF RequestInv
  <1>3. DOMAIN cache = {}
    BY <1>1
  <1> QED
    BY <1>2, <1>3 DEF CacheInv

\* A step of one request is a step of no other.
LEMMA Moved ==
    ASSUME RequestInv, NEW r \in Requests, NEW to, Moves(r, to),
           now' = now, accounts' = accounts
    PROVE  RequestInv'
  <1>1. PICK q : req' = [req EXCEPT ![r] = q] /\ RequestOK(q, now)
    BY DEF Moves
  <1>2. \A s \in Requests : req'[s] = IF s = r THEN q ELSE req[s]
    BY <1>1 DEF RequestInv
  <1>3. \A s \in Requests : RequestOK(req'[s], now)
    BY <1>1, <1>2 DEF RequestInv
  <1>4. DOMAIN req' = Requests
    BY <1>1 DEF RequestInv
  <1> QED
    BY <1>3, <1>4 DEF RequestInv

(* Every step of a request, by where it starts and ends. *)
LEMMA RequestMoves ==
    ASSUME RequestInv, CacheInv, NEW r \in Requests, RequestStep(r)
    PROVE  \/ /\ WriteLog(r) \/ IngestRecord(r) \/ CountTotals(r) \/ FinalizeTrace(r)
                 \/ StoreAnswer(r)
              /\ Moves(r, Booking \union {"done"})
           \/ /\ UNCHANGED <<usageVars, traceVars>>
              /\ req[r].pc \in Asking \union Answering
              /\ Moves(r, Asking \union Answering \union {"log", "gone"})
  <1> DEFINE All == Asking \union Answering \union {"log", "gone"}
  <1>1. \A to : (to \subseteq All /\ Moves(r, to)) => Moves(r, All)
    BY DEF Moves
  <1>2. CASE Authenticate(r) \/ ReadGroup(r) \/ ReadSettings(r) \/ AskUpstream(r)
    <2>1. UNCHANGED <<usageVars, traceVars>>
      BY <1>2 DEF Authenticate, ReadGroup, ReadSettings, AskUpstream, Books
    <2> QED
      BY <1>1, <1>2, <2>1, AskingStep
  <1>3. CASE Reject(r) \/ WebSearchOnly(r)
    BY <1>1, <1>3, RejectStep DEF Reject, WebSearchOnly, Books
  <1>4. CASE Replay(r)
    BY <1>1, <1>4, ReplayStep DEF Replay, Books
  <1>5. CASE CallFails(r)
    BY <1>1, <1>5, CallFailsStep DEF CallFails, Books
  <1>6. CASE CallAnswers(r)
    BY <1>1, <1>6, CallAnswersStep DEF CallAnswers, Books
  <1>7. CASE Answer(r)
    BY <1>1, <1>7, AnswerStep DEF Answer, Books
  <1>8. CASE EmptyAnswer(r)
    BY <1>1, <1>8, EmptyAnswerStep DEF EmptyAnswer, Books
  <1>9. CASE RetryFails(r)
    BY <1>1, <1>9, RetryFailsStep DEF RetryFails, Books
  <1>10. CASE HangUp(r)
    BY <1>1, <1>10, HangUpStep DEF HangUp, Books
  <1>11. CASE WriteLog(r) \/ IngestRecord(r) \/ CountTotals(r) \/ FinalizeTrace(r)
              \/ StoreAnswer(r)
    BY <1>11, BookingStep
  <1> QED
    BY <1>2, <1>3, <1>4, <1>5, <1>6, <1>7, <1>8, <1>9, <1>10, <1>11 DEF RequestStep

\* Every step keeps RequestInv.
LEMMA RequestInvStep == RequestInv /\ CacheInv /\ [Next]_vars => RequestInv'
  <1> SUFFICES ASSUME RequestInv, CacheInv, [Next]_vars PROVE RequestInv'
    OBVIOUS
  <1>1. ASSUME NEW r \in Requests, RequestStep(r) PROVE RequestInv'
    <2>1. \E to : Moves(r, to)
      BY <1>1, RequestMoves
    <2>2. now' = now /\ accounts' = accounts
      BY <1>1 DEF RequestStep, Authenticate, ReadGroup, ReadSettings, Reject, WebSearchOnly,
                  Replay, AskUpstream, CallFails, CallAnswers, Answer, EmptyAnswer, RetryFails,
                  HangUp, WriteLog, IngestRecord, CountTotals, FinalizeTrace, StoreAnswer, Books
    <2> QED
      BY <2>1, <2>2, Moved
  <1>2. CASE SaveKeys \/ AdminKeys \/ AdminBooks \/ EvictTask \/ UNCHANGED vars
    <2>1. UNCHANGED <<req, now, accounts>>
      BY <1>2 DEF SaveKeys, AdminKeys, AdminBooks, EvictTask, vars
    <2> QED
      BY <2>1 DEF RequestInv
  <1>3. CASE DeleteAccount
    <2>1. UNCHANGED <<req, now>> /\ accounts' \subseteq accounts
      BY <1>3 DEF DeleteAccount
    <2> QED
      BY <2>1 DEF RequestInv
  <1>4. CASE Restart
    <2>1. /\ req' = [r \in Requests |-> IF Open(r) THEN Gone ELSE req[r]]
          /\ now' = now /\ accounts' = accounts
      BY <1>4 DEF Restart
    <2>2. RequestOK(Gone, now)
      BY GoneOK DEF RequestInv
    <2> QED
      BY <2>1, <2>2 DEF RequestInv
  <1>5. CASE Tick
    <2>1. now' = now + 1 /\ req' = req /\ accounts' = accounts /\ now \in Nat
      BY <1>5 DEF Tick, RequestInv
    <2>2. \A t \in 0 .. now : t \in 0 .. now'
      BY <2>1
    <2>3. \A r \in Requests : RequestOK(req[r], now) => RequestOK(req[r], now')
      BY <2>2 DEF RequestOK
    <2> QED
      BY <2>1, <2>3 DEF RequestInv
  <1> QED
    BY <1>1, <1>2, <1>3, <1>4, <1>5 DEF Next

\* Dropping answers leaves the others as they are.
LEMMA DropStep ==
    ASSUME CacheInv, NEW ds, Drop(ds)
    PROVE  CacheInv'
  <1>1. DOMAIN cache' \subseteq DOMAIN cache /\ \A d \in DOMAIN cache' : cache'[d] = cache[d]
    BY DEF Drop, Restrict
  <1> QED
    BY <1>1 DEF CacheInv

\* What is stored is a clean answer, under its own digest.
LEMMA StoreStep ==
    ASSUME RequestInv, CacheInv, NEW r \in Requests, StoreAnswer(r)
    PROVE  CacheInv'
  <1> DEFINE o == req[r]
             d == DigestOf(r)
             new == [body |-> [by |-> o, at |-> now], expires |-> now + Ttl]
  <1>1. CASE o.store /\ o.clean /\ o.kind # "sse"
    <2>1. \A x \in DOMAIN cache' :
             \/ x = d /\ cache'[x] = new
             \/ x \in DOMAIN cache /\ cache'[x] = cache[x]
      BY <1>1 DEF StoreAnswer, Put, Restrict
    <2>2. /\ d = Digest(o.conv, o.key, o.kind # "json")
          /\ o.status = "success" /\ now \in Nat
      BY <1>1 DEF DigestOf, Streamed, RequestInv, RequestOK
    <2>3. /\ new.body.by = o /\ new.body.at = now /\ new.expires = now + Ttl
      OBVIOUS
    <2> HIDE DEF o, d, new
    <2> QED
      BY <1>1, <2>1, <2>2, <2>3 DEF CacheInv
  <1>2. CASE ~(o.store /\ o.clean /\ o.kind # "sse")
    BY <1>2 DEF StoreAnswer, CacheInv, cacheVars
  <1> QED
    BY <1>1, <1>2

\* Every step keeps CacheInv.
LEMMA CacheInvStep == RequestInv /\ CacheInv /\ [Next]_vars => CacheInv'
  <1> SUFFICES ASSUME RequestInv, CacheInv, [Next]_vars PROVE CacheInv'
    OBVIOUS
  <1>1. CASE UNCHANGED cache
    BY <1>1 DEF CacheInv
  <1>2. ASSUME NEW ds, Drop(ds)
        PROVE  CacheInv'
    BY <1>2, DropStep
  <1>3. ASSUME NEW r \in Requests, RequestStep(r) PROVE CacheInv'
    <2>1. CASE AskUpstream(r)
      <3>1. UNCHANGED cache \/ Drop({DigestOf(r)})
        BY <2>1 DEF AskUpstream, Miss, cacheVars
      <3> QED
        BY <1>1, <1>2, <3>1
    <2>2. CASE StoreAnswer(r)
      BY <2>2, StoreStep
    <2>3. CASE Replay(r)
      <3>1. UNCHANGED cache
        BY <2>3 DEF Replay, Hit
      <3> QED
        BY <1>1, <3>1
    <2>4. CASE ~(AskUpstream(r) \/ StoreAnswer(r) \/ Replay(r))
      <3>1. UNCHANGED cacheVars
        BY <1>3, <2>4
        DEF RequestStep, Authenticate, ReadGroup, ReadSettings, Reject, WebSearchOnly,
            CallFails, CallAnswers, Answer, EmptyAnswer, RetryFails, HangUp, WriteLog,
            IngestRecord, CountTotals, FinalizeTrace
      <3> QED
        BY <1>1, <3>1 DEF cacheVars
    <2> QED
      BY <2>1, <2>2, <2>3, <2>4
  <1>4. CASE SaveKeys \/ AdminKeys \/ AdminBooks \/ DeleteAccount \/ Tick \/ UNCHANGED vars
    <2>1. UNCHANGED cacheVars
      BY <1>4 DEF SaveKeys, AdminKeys, AdminBooks, DeleteAccount, Tick, vars
    <2> QED
      BY <1>1, <2>1 DEF cacheVars
  <1>5. CASE EvictTask
    BY <1>2, <1>5 DEF EvictTask, EvictExpired
  <1>6. CASE Restart
    <2>1. DOMAIN cache' = {}
      BY <1>6 DEF Restart
    <2> QED
      BY <2>1 DEF CacheInv
  <1> QED
    BY <1>3, <1>4, <1>5, <1>6 DEF Next

\* Whatever interleaves with it, an answer replayed from the cache is the
\* whole, clean and fresh answer to the same conversation in the same form, of
\* the same key or the same session.
THEOREM ReplayIsAlwaysOwn == Spec => []ReplayIsOwn
  <1>1. Init => RequestInv /\ CacheInv
    BY RequestStart
  <1>2. (RequestInv /\ CacheInv) /\ [Next]_vars => (RequestInv /\ CacheInv)'
    BY RequestInvStep, CacheInvStep
  <1>3. RequestInv => ReplayIsOwn
    BY DEF RequestInv, RequestOK, OwnReply, ReplayIsOwn
  <1> QED
    BY <1>1, <1>2, <1>3, PTL DEF Spec

-----------------------------------------------------------------------------
(* The books.  A record is written, then ingested, and the row of the      *)
(* trace comes last: until it has one a request must still say what its    *)
(* record says, and a request whose row is written must not make another   *)
(* record.                                                                 *)

(* The records in the files and in the buckets. *)
Logged == UNION {logs[d] : d \in DOMAIN logs}
Counted == UNION {hours[t] : t \in DOMAIN hours}

(* A record is of a request that has got that far, and what it will say in *)
(* its row until it has one.                                               *)
RecordInv ==
    \A rec \in Logged \union Counted : rec.id \in Requests =>
        /\ req[rec.id].pc \in {"ingest", "totals", "trace", "store"} \union Over
        /\ req[rec.id].pc \in {"ingest", "totals", "trace"} => rec = RecordOf(rec.id)

\* The fields of a row.
RowFields == {"id", "ts", "key", "cred", "status", "attempts"}

\* A row is of a request whose trace was finalized.
RowInv ==
    \A row \in rows :
        /\ DOMAIN row = RowFields
        /\ row.id \in Requests
        /\ req[row.id].pc \in {"store"} \union Over

(* A record and the row of the same request tell the same. *)
TellTheSame(rec, row) ==
    /\ rec.key = row.key
    /\ rec.ok = (row.status = "success")
    /\ rec.cred \in accounts => Success(rec.cred) \in Range(row.attempts)
    /\ rec.cred = 0 => \A a \in Range(row.attempts) : a.outcome # "success"

PairInv ==
    \A rec \in Logged \union Counted, row \in rows : row.id = rec.id => TellTheSame(rec, row)

BooksInv == RecordInv /\ RowInv /\ PairInv

\* With a record, and without a row yet; and past both.
Recorded == {"ingest", "totals", "trace"}
Told     == {"store"} \union Over

(* A request that has been recorded goes on, and its record with it. *)
Later(r) ==
    /\ req[r].pc \in Told => req'[r].pc \in Told
    /\ req[r].pc \in Recorded => \/ req'[r].pc \in Recorded /\ RecordOf(r)' = RecordOf(r)
                                 \/ req'[r].pc \in Told

Records == Logged \union Counted

\* Books that only lose records and rows still agree.
LEMMA BooksKept ==
    ASSUME BooksInv, Records' \subseteq Records, rows' \subseteq rows, accounts' \subseteq accounts,
           \A r \in Requests : Later(r)
    PROVE  BooksInv'
  <1>1. RecordInv'
    <2> SUFFICES ASSUME NEW rec \in Records', rec.id \in Requests
                 PROVE  /\ req'[rec.id].pc \in {"ingest", "totals", "trace", "store"} \union Over
                        /\ req'[rec.id].pc \in {"ingest", "totals", "trace"} =>
                              rec = RecordOf(rec.id)'
      BY DEF RecordInv, Records
    <2> DEFINE r == rec.id
    <2>1. /\ req[r].pc \in {"ingest", "totals", "trace", "store"} \union Over
          /\ req[r].pc \in {"ingest", "totals", "trace"} => rec = RecordOf(r)
      BY DEF BooksInv, RecordInv, Records
    <2>2. Later(r)
      OBVIOUS
    <2> QED
      BY <2>1, <2>2 DEF Later, Recorded, Told, Over
  <1>2. RowInv'
    BY DEF BooksInv, RowInv, Later, Told
  <1>3. PairInv'
    BY DEF BooksInv, PairInv, TellTheSame, Records
  <1> QED
    BY <1>1, <1>2, <1>3 DEF BooksInv

(* A request writes its record in the log, or in memory. *)
LEMMA RecordMade ==
    ASSUME BooksInv, NEW r \in Requests, req[r].pc \in {"log", "ingest"},
           Records' \subseteq Records \union {RecordOf(r)},
           rows' = rows, accounts' = accounts,
           \A s \in Requests \ {r} : req'[s] = req[s],
           req'[r].pc \in Recorded, RecordOf(r)' = RecordOf(r)
    PROVE  BooksInv'
  <1>1. RecordInv'
    <2> SUFFICES ASSUME NEW rec \in Records', rec.id \in Requests
                 PROVE  /\ req'[rec.id].pc \in {"ingest", "totals", "trace", "store"} \union Over
                        /\ req'[rec.id].pc \in {"ingest", "totals", "trace"} =>
                              rec = RecordOf(rec.id)'
      BY DEF RecordInv, Records
    <2>1. CASE rec = RecordOf(r)
      <3>1. rec.id = r
        BY <2>1 DEF RecordOf
      <3> QED
        BY <2>1, <3>1 DEF Recorded
    <2>2. CASE rec # RecordOf(r)
      <3>1. rec \in Records
        BY <2>2
      <3>2. /\ req[rec.id].pc \in {"ingest", "totals", "trace", "store"} \union Over
            /\ req[rec.id].pc \in {"ingest", "totals", "trace"} => rec = RecordOf(rec.id)
        BY <3>1 DEF BooksInv, RecordInv, Records
      <3>3. rec.id # r
        BY <2>2, <3>2 DEF Over
      <3>4. RecordOf(rec.id)' = RecordOf(rec.id)
        BY <3>3 DEF RecordOf
      <3> QED
        BY <3>2, <3>3, <3>4
    <2> QED
      BY <2>1, <2>2
  <1>2. \A row \in rows : row.id # r
    BY DEF BooksInv, RowInv, Over
  <1>3. RowInv'
    BY <1>2 DEF BooksInv, RowInv
  <1>4. PairInv'
    <2>1. RecordOf(r).id = r
      BY DEF RecordOf
    <2>2. \A rec \in Records', row \in rows : row.id = rec.id => rec \in Records
      BY <1>2, <2>1
    <2> QED
      BY <2>2 DEF BooksInv, PairInv, TellTheSame, Records
  <1> QED
    BY <1>1, <1>3, <1>4 DEF BooksInv

(* What a request has in its books is what its row will tell. *)
LEMMA RowTells ==
    ASSUME RequestInv, NEW r \in Requests, req[r].pc = "trace", req[r].trace # "none",
           NEW row, row.key = req[r].key, row.status = req[r].trace,
           row.attempts = req[r].attempts
    PROVE  TellTheSame(RecordOf(r), row)
  <1> DEFINE o == req[r]
             rec == RecordOf(r)
  <1>1. /\ rec.key = o.key /\ rec.cred = o.cred /\ rec.ok = (o.status = "success")
    BY DEF RecordOf
  <1>2. /\ o.cred \in Accounts \union {0} /\ BorneOut(o)
        /\ (o.trace = "success") = (o.status = "success")
    BY DEF RequestInv, RequestOK, Booking
  <1>3. 0 \notin accounts
    BY GatewayAssumption DEF RequestInv
  <1> HIDE DEF o, rec
  <1>4. /\ rec.cred \in accounts => Success(rec.cred) \in Range(o.attempts)
        /\ rec.cred = 0 => \A a \in Range(o.attempts) : a.outcome # "success"
    BY <1>1, <1>2, <1>3 DEF BorneOut
  <1> QED
    BY <1>1, <1>2, <1>4 DEF TellTheSame, o, rec

\* The row tells what the record of its request tells.
LEMMA FinalizeStep ==
    ASSUME RequestInv, BooksInv, NEW r \in Requests, FinalizeTrace(r)
    PROVE  BooksInv'
  <1> DEFINE row == [id |-> r, ts |-> req[r].start, key |-> req[r].key,
                     cred |-> LastAccount(r), status |-> req[r].trace,
                     attempts |-> req[r].attempts]
  <1>1. /\ req[r].pc = "trace" /\ req' = [req EXCEPT ![r].pc = "store"]
        /\ UNCHANGED <<logs, hours, accounts>>
    BY DEF FinalizeTrace, Go, usageVars
  <1>2. /\ \A s \in Requests \ {r} : req'[s] = req[s]
        /\ req'[r].pc = "store"
    BY <1>1 DEF RequestInv, RequestOK, Fields
  <1>3. \A s \in Requests : Later(s)
    BY <1>1, <1>2 DEF Later, Told, Recorded, Over, RecordOf
  <1>4. Records' = Records
    BY <1>1 DEF Records, Logged, Counted
  <1>5. CASE rows' \subseteq rows
    BY <1>1, <1>3, <1>4, <1>5, BooksKept
  <1>6. CASE req[r].trace # "none" /\ rows' = {x \in rows : x.id # row.id} \union {row}
    <2>1. /\ row.id = r /\ row.key = req[r].key /\ row.status = req[r].trace
          /\ row.attempts = req[r].attempts /\ DOMAIN row = RowFields
      BY DEF RowFields
    <2> HIDE DEF row
    <2> DEFINE old == {x \in rows : x.id # row.id}
    <2>2. RecordInv'
      <3> SUFFICES ASSUME NEW rec \in Records', rec.id \in Requests
                   PROVE  /\ req'[rec.id].pc \in {"ingest", "totals", "trace", "store"} \union Over
                          /\ req'[rec.id].pc \in {"ingest", "totals", "trace"} =>
                                rec = RecordOf(rec.id)'
        BY DEF RecordInv, Records
      <3>1. /\ req[rec.id].pc \in {"ingest", "totals", "trace", "store"} \union Over
            /\ req[rec.id].pc \in {"ingest", "totals", "trace"} => rec = RecordOf(rec.id)
        BY <1>4 DEF BooksInv, RecordInv, Records
      <3>2. CASE rec.id = r
        BY <1>2, <3>2
      <3>3. CASE rec.id # r
        BY <1>2, <3>1, <3>3 DEF RecordOf
      <3> QED
        BY <3>2, <3>3
    <2>3. RowInv'
      <3>1. \A x \in old : /\ DOMAIN x = RowFields /\ x.id \in Requests
                           /\ req'[x.id].pc \in {"store"} \union Over
        BY <1>2, <2>1 DEF BooksInv, RowInv
      <3>2. req'[row.id].pc \in {"store"} \union Over /\ row.id \in Requests
        BY <1>2, <2>1
      <3> QED
        BY <1>6, <2>1, <3>1, <3>2 DEF RowInv
    <2>4. PairInv'
      <3>1. \A rec \in Records, x \in old : x.id = rec.id => TellTheSame(rec, x)
        BY DEF BooksInv, PairInv, Records
      <3>2. ASSUME NEW rec \in Records, row.id = rec.id
            PROVE  TellTheSame(rec, row)
        <4>1. rec = RecordOf(r)
          BY <1>1, <2>1, <3>2 DEF BooksInv, RecordInv, Records
        <4> QED
          BY <1>1, <1>6, <2>1, <4>1, RowTells
      <3>3. \A rec \in Records, x \in rows' : x.id = rec.id => TellTheSame(rec, x)
        BY <1>6, <3>1, <3>2
      <3> QED
        BY <1>1, <1>4, <3>3 DEF PairInv, TellTheSame, Records
    <2> QED
      BY <2>2, <2>3, <2>4 DEF BooksInv
  <1> QED
    BY <1>5, <1>6 DEF FinalizeTrace, InsertTrace, traceVars

\* The attempts a deletion removes are those of the account alone.
LEMMA DeleteStep ==
    ASSUME RequestInv, BooksInv, DeleteAccount
    PROVE  BooksInv'
  <1>1. PICK c \in accounts : accounts' = accounts \ {c} /\ DeleteForCredential(c)
    BY DEF DeleteAccount
  <1>2. UNCHANGED <<logs, hours, req>>
    BY DEF DeleteAccount, usageVars
  <1>3. ASSUME NEW new \in rows'
        PROVE  \E old \in rows :
                  /\ DOMAIN new = RowFields /\ new.id = old.id /\ new.key = old.key
                  /\ new.status = old.status
                  /\ Range(new.attempts) = {a \in Range(old.attempts) : a.cred # c}
    <2>1. PICK old \in rows :
            new = [old EXCEPT !.attempts = Restrict(@, {n \in DOMAIN @ : @[n].cred # c})]
      BY <1>1 DEF DeleteForCredential
    <2> DEFINE kept == {n \in DOMAIN old.attempts : old.attempts[n].cred # c}
               less == Restrict(old.attempts, kept)
    <2>2. DOMAIN old = RowFields
      BY DEF BooksInv, RowInv
    <2>3. new = [old EXCEPT !.attempts = less]
      BY <2>1
    <2>4. Range(less) = {a \in Range(old.attempts) : a.cred # c}
      BY DEF Range, Restrict
    <2> HIDE DEF less
    <2>5. /\ DOMAIN new = RowFields /\ new.id = old.id /\ new.key = old.key
          /\ new.status = old.status /\ new.attempts = less
      BY <2>2, <2>3 DEF RowFields
    <2> QED
      BY <2>4, <2>5
  <1>4. RecordInv'
    BY <1>2 DEF BooksInv, RecordInv, Logged, Counted, RecordOf
  <1>5. RowInv'
    BY <1>2, <1>3 DEF BooksInv, RowInv
  <1>6. PairInv'
    <2> SUFFICES ASSUME NEW rec \in Records, NEW new \in rows', new.id = rec.id
                 PROVE  TellTheSame(rec, new)'
      BY <1>2 DEF PairInv, Records, Logged, Counted
    <2>1. PICK old \in rows :
            /\ new.id = old.id /\ new.key = old.key /\ new.status = old.status
            /\ Range(new.attempts) = {a \in Range(old.attempts) : a.cred # c}
      BY <1>3
    <2>2. TellTheSame(rec, old)
      BY <2>1 DEF BooksInv, PairInv, Records
    <2>3. \A b : Success(b).cred = b
      BY DEF Success
    <2> QED
      BY <1>1, <2>1, <2>2, <2>3 DEF TellTheSame
  <1> QED
    BY <1>4, <1>5, <1>6 DEF BooksInv

\* A bucket keeps what it has, and gets the new record if it is its own.
LEMMA UpsertOnlyAdds ==
    ASSUME NEW buckets, NEW ts, NEW rec, NEW max,
           NEW t \in DOMAIN Upsert(buckets, ts, rec, max)
    PROVE  Upsert(buckets, ts, rec, max)[t]
             = (IF t \in DOMAIN buckets THEN buckets[t] ELSE {})
               \union (IF t = ts THEN {rec} ELSE {})
  BY DEF Upsert, Restrict

(* The rebuild takes its records from the files. *)
LEMMA RebuiltFromFiles ==
    /\ Readable(now) \subseteq Logged
    /\ \A t \in DOMAIN RebuiltHours(now) : RebuiltHours(now)[t] \subseteq Logged
  <1>1. Readable(now) \subseteq Logged
    BY DEF Readable, Logged
  <1> DEFINE recs == Readable(now)
             b == BucketsOf(recs, HourOf, HourBuckets)
  <1> HIDE DEF recs
  <1>2. \A t \in DOMAIN b : b[t] \subseteq recs
    BY DEF BucketsOf
  <1> QED
    BY <1>1, <1>2 DEF RebuiltHours, recs

\* The records in the log at the start are of no request to come.
LEMMA BooksStart == Init => BooksInv
  <1> SUFFICES ASSUME Init PROVE BooksInv
    OBVIOUS
  <1>1. logs = LogsAtStart /\ hours = RebuiltHours(now) /\ rows = {}
    BY DEF Init, UsageInit, TraceInit
  <1>2. \A rec \in Logged : rec.id \notin Requests
    BY <1>1, GatewayAssumption DEF Logged
  <1>3. \A rec \in Counted : rec \in Logged
    BY <1>1, RebuiltFromFiles DEF Counted
  <1> QED
    BY <1>1, <1>2, <1>3 DEF BooksInv, RecordInv, RowInv, PairInv

\* The steps of a request keep BooksInv.
LEMMA BooksRequestStep ==
    ASSUME RequestInv, CacheInv, BooksInv, NEW r \in Requests, RequestStep(r)
    PROVE  BooksInv'
  <1>1. ASSUME NEW to, Moves(r, to)
        PROVE  /\ \A s \in Requests \ {r} : req'[s] = req[s]
               /\ req'[r].pc \in to
    BY <1>1 DEF Moves, RequestInv
  <1>2. ASSUME NEW s \in Requests, req'[s] = req[s]
        PROVE  Later(s)
    BY <1>2 DEF Later, RecordOf
  <1>3. accounts' = accounts
    BY DEF RequestStep, Authenticate, ReadGroup, ReadSettings, Reject, WebSearchOnly,
           Replay, AskUpstream, CallFails, CallAnswers, Answer, EmptyAnswer, RetryFails,
           HangUp, WriteLog, IngestRecord, CountTotals, FinalizeTrace, StoreAnswer, Books
  <1>4. CASE /\ UNCHANGED <<usageVars, traceVars>>
             /\ req[r].pc \in Asking \union Answering
             /\ Moves(r, Asking \union Answering \union {"log", "gone"})
    <2>1. Records' = Records /\ rows' = rows
      BY <1>4 DEF usageVars, traceVars, Records, Logged, Counted
    <2>2. \A s \in Requests \ {r} : req'[s] = req[s]
      BY <1>1, <1>4
    <2>3. Later(r)
      BY <1>4 DEF Later, Told, Recorded, Over, Asking, Answering
    <2> QED
      BY <1>2, <1>3, <2>1, <2>2, <2>3, BooksKept
  <1>5. ASSUME NEW pc, req' = [req EXCEPT ![r].pc = pc]
        PROVE  /\ \A s \in Requests \ {r} : req'[s] = req[s]
               /\ req'[r].pc = pc
               /\ RecordOf(r)' = RecordOf(r)
    <2>1. DOMAIN req = Requests /\ DOMAIN req[r] = Fields
      BY DEF RequestInv, RequestOK
    <2> QED
      BY <1>5, <2>1 DEF Fields, RecordOf
  <1>6. CASE WriteLog(r)
    <2>1. req[r].pc = "log" /\ req' = [req EXCEPT ![r].pc = "ingest"]
      BY <1>6 DEF WriteLog, Go
    <2>2. rows' = rows /\ hours' = hours
      BY <1>6 DEF WriteLog, traceVars
    <2>3. \A d \in DOMAIN logs' : \A rec \in logs'[d] : rec \in Logged \/ rec = RecordOf(r)
      <3>1. CASE LineFails(RecordOf(r))
        BY <3>1 DEF LineFails, Logged
      <3>2. CASE RecordLine(RecordOf(r), now)
        BY <3>2 DEF RecordLine, Logged
      <3> QED
        BY <1>6, <3>1, <3>2 DEF WriteLog
    <2>4. Records' \subseteq Records \union {RecordOf(r)}
      BY <2>2, <2>3 DEF Records, Logged, Counted
    <2> QED
      BY <1>3, <1>5, <2>1, <2>2, <2>4, RecordMade DEF Recorded
  <1>7. CASE IngestRecord(r)
    <2>1. req[r].pc = "ingest"
          /\ \E pc \in {"totals", "trace"} : req' = [req EXCEPT ![r].pc = pc]
      BY <1>7 DEF IngestRecord, Go
    <2>2. rows' = rows /\ logs' = logs
      BY <1>7 DEF IngestRecord, traceVars
    <2>3. hours' = Upsert(hours, RecordOf(r).ts, RecordOf(r), HourBuckets)
      BY <1>7 DEF IngestRecord, Ingest
    <2>4. \A t \in DOMAIN hours' : \A rec \in hours'[t] : rec \in Counted \/ rec = RecordOf(r)
      BY <2>3, UpsertOnlyAdds DEF Counted
    <2>5. Records' \subseteq Records \union {RecordOf(r)}
      BY <2>2, <2>4 DEF Records, Logged, Counted
    <2> QED
      BY <1>3, <1>5, <2>1, <2>2, <2>5, RecordMade DEF Recorded
  <1>8. CASE CountTotals(r)
    <2>1. /\ req[r].pc = "totals" /\ req' = [req EXCEPT ![r].pc = "trace"]
          /\ Records' = Records /\ rows' = rows
      BY <1>8 DEF CountTotals, Go, usageVars, traceVars, Records, Logged, Counted
    <2>2. Later(r)
      BY <1>5, <2>1 DEF Later, Told, Recorded, Over
    <2> QED
      BY <1>2, <1>3, <1>5, <2>1, <2>2, BooksKept
  <1>9. CASE StoreAnswer(r)
    <2>1. /\ req[r].pc = "store" /\ Records' = Records /\ rows' = rows
      BY <1>9 DEF StoreAnswer, Books, usageVars, traceVars, Records, Logged, Counted
    <2>2. req'[r].pc = "done" /\ \A s \in Requests \ {r} : req'[s] = req[s]
      <3>1. DOMAIN req = Requests /\ DOMAIN req[r] = Fields
        BY DEF RequestInv, RequestOK
      <3>2. Done.pc = "done"
        BY FreshFields DEF Done, Fields
      <3>3. [req[r] EXCEPT !.pc = "done"].pc = "done"
        BY <3>1 DEF Fields
      <3> QED
        BY <1>9, <3>1, <3>2, <3>3 DEF StoreAnswer
    <2>3. Later(r)
      BY <2>1, <2>2 DEF Later, Told, Recorded, Over
    <2> QED
      BY <1>2, <1>3, <2>1, <2>2, <2>3, BooksKept
  <1>10. CASE FinalizeTrace(r)
    BY <1>10, FinalizeStep
  <1> QED
    BY <1>4, <1>6, <1>7, <1>8, <1>9, <1>10, RequestMoves

\* Every step keeps BooksInv.
LEMMA BooksStep == RequestInv /\ CacheInv /\ BooksInv /\ [Next]_vars => BooksInv'
  <1> SUFFICES ASSUME RequestInv, CacheInv, BooksInv, [Next]_vars PROVE BooksInv'
    OBVIOUS
  <1>1. (UNCHANGED req) => \A r \in Requests : Later(r)
    BY DEF Later, RecordOf
  <1>2. ASSUME NEW r \in Requests, RequestStep(r) PROVE BooksInv'
    BY <1>2, BooksRequestStep
  <1>3. CASE SaveKeys \/ AdminKeys \/ EvictTask \/ Tick \/ UNCHANGED vars
    <2>1. UNCHANGED <<req, accounts, rows, logs, hours>>
      BY <1>3 DEF SaveKeys, AdminKeys, EvictTask, Tick, vars, usageVars, traceVars
    <2>2. Records' = Records
      BY <2>1 DEF Records, Logged, Counted
    <2> QED
      BY <1>1, <2>1, <2>2, BooksKept
  <1>4. CASE AdminBooks
    <2>1. UNCHANGED <<req, accounts, hours>>
      BY <1>4 DEF AdminBooks, SetRetention, CleanupOldLogs, usageVars
    <2>2. DOMAIN logs' \subseteq DOMAIN logs /\ \A d \in DOMAIN logs' : logs'[d] = logs[d]
      BY <1>4 DEF AdminBooks, SetRetention, CleanupOldLogs, Restrict, usageVars
    <2>3. rows' \subseteq rows
      BY <1>4 DEF AdminBooks, CleanupTraces, SetTraceEnabled, traceVars
    <2>4. Records' \subseteq Records
      BY <2>1, <2>2 DEF Records, Logged, Counted
    <2> QED
      BY <1>1, <2>1, <2>3, <2>4, BooksKept
  <1>5. CASE DeleteAccount
    BY <1>5, DeleteStep
  <1>6. CASE Restart
    <2>1. /\ req' = [r \in Requests |-> IF Open(r) THEN Gone ELSE req[r]]
          /\ rows' = rows /\ accounts' = accounts /\ logs' = logs
          /\ hours' = RebuiltHours(now)
      BY <1>6 DEF Restart, traceVars, RebuildFromLogs
    <2>2. Gone.pc = "gone"
      BY FreshFields DEF Gone, Fields
    <2>3. \A r \in Requests : Later(r)
      BY <2>1, <2>2 DEF Later, Told, Recorded, Over, Open, RecordOf
    <2>4. Counted' \subseteq Logged
      BY <2>1, RebuiltFromFiles DEF Counted, Logged
    <2>5. Records' \subseteq Records
      BY <2>1, <2>4 DEF Records, Logged
    <2> QED
      BY <2>1, <2>3, <2>5, BooksKept
  <1> QED
    BY <1>2, <1>3, <1>4, <1>5, <1>6 DEF Next

\* Requests and the cache are always as they should be.
LEMMA RequestsHold == Spec => [](RequestInv /\ CacheInv)
  <1>1. Init => RequestInv /\ CacheInv
    BY RequestStart
  <1>2. (RequestInv /\ CacheInv) /\ [Next]_vars => (RequestInv /\ CacheInv)'
    BY RequestInvStep, CacheInvStep
  <1> QED
    BY <1>1, <1>2, PTL DEF Spec

\* Whatever interleaves with it, the row of the trace and the record in the
\* statistics agree on key, outcome and account.
THEOREM BooksAlwaysAgree == Spec => []BooksAgree
  <1>1. BooksInv => BooksAgree
    <2> SUFFICES ASSUME BooksInv,
                        NEW rec \in QueryHours(0, now + 1, 0 .. MaxKeyId), NEW row \in rows,
                        row.id = rec.id
                 PROVE  /\ row \in Query([key |-> rec.key])
                        /\ row \in Query([onlyFailed |-> TRUE]) <=> ~rec.ok
                        /\ rec.cred \in accounts => Success(rec.cred) \in Range(row.attempts)
                        /\ rec.cred = 0 => \A a \in Range(row.attempts) : a.outcome # "success"
      BY DEF BooksAgree
    <2>1. rec \in Counted
      BY DEF QueryHours, Counted
    <2>2. TellTheSame(rec, row)
      BY <2>1 DEF BooksInv, PairInv
    <2>3. row \in Query([key |-> rec.key])
      BY <2>2 DEF TellTheSame, Query, Matches
    <2>4. row \in Query([onlyFailed |-> TRUE]) <=> row.status # "success"
      BY DEF Query, Matches
    <2> QED
      BY <2>2, <2>3, <2>4 DEF TellTheSame
  <1>2. (RequestInv /\ CacheInv) /\ BooksInv /\ [Next]_vars => BooksInv'
    BY BooksStep
  <1> QED
    BY <1>1, <1>2, BooksStart, RequestsHold, PTL DEF Spec

-----------------------------------------------------------------------------
(* Arithmetic, and the newest of a set of buckets.                         *)

\* What \div returns.
LEMMA Quotient ==
    ASSUME NEW a \in Nat, NEW d \in Nat \ {0}
    PROVE  a \div d \in Nat /\ d * (a \div d) <= a /\ a < d * ((a \div d) + 1)
  OBVIOUS

\* \div is monotone.
LEMMA DivMono ==
    ASSUME NEW a \in Nat, NEW b \in Nat, NEW d \in Nat \ {0}, a <= b
    PROVE  a \div d <= b \div d
  <1> DEFINE p == a \div d
             q == b \div d
  <1>1. p \in Nat /\ q \in Nat /\ d * p <= a /\ b < d * (q + 1)
    BY Quotient
  <1> HIDE DEF p, q
  <1>2. SUFFICES ASSUME q + 1 <= p PROVE FALSE
    BY <1>1 DEF p, q
  <1>3. d * (q + 1) <= d * p
    <2>1. PICK k \in Nat : p = (q + 1) + k
      <3>1. p - (q + 1) \in Nat /\ p = (q + 1) + (p - (q + 1))
        BY <1>1, <1>2
      <3> QED
        BY <3>1
    <2>2. d * p = d * (q + 1) + d * k /\ d * k \in Nat
      BY <1>1, <2>1
    <2>3. d * (q + 1) \in Nat
      BY <1>1
    <2> QED
      BY <2>2, <2>3
  <1>4. d * p \in Nat /\ d * (q + 1) \in Nat
    BY <1>1
  <1> QED
    BY <1>1, <1>3, <1>4

\* An hour is its own bucket.
LEMMA DivOne == \A a \in Nat : a \div 1 = a
  OBVIOUS

(* The max newest of a set of buckets. *)
Newest(S, max) == {t \in S : Cardinality({u \in S : u >= t}) <= max}

\* When there are not too many, all are kept.
LEMMA NewestAll ==
    ASSUME NEW S \in SUBSET Nat, IsFiniteSet(S), NEW max \in Nat, Cardinality(S) <= max
    PROVE  Newest(S, max) = S
  <1>1. ASSUME NEW t \in S
        PROVE  Cardinality({u \in S : u >= t}) <= max
    <2> DEFINE T == {u \in S : u >= t}
    <2>1. T \subseteq S
      OBVIOUS
    <2>2. Cardinality(T) <= Cardinality(S) /\ IsFiniteSet(T)
      BY <2>1, FS_Subset
    <2>3. Cardinality(T) \in Nat /\ Cardinality(S) \in Nat
      BY <2>2, FS_CardinalityType
    <2> QED
      BY <2>2, <2>3
  <1> QED
    BY <1>1 DEF Newest

\* What is dropped is older than all that is kept.
LEMMA NewestAbove ==
    ASSUME NEW S \in SUBSET Nat, IsFiniteSet(S), NEW max \in Nat,
           NEW x \in S, x \notin Newest(S, max), NEW t \in Newest(S, max)
    PROVE  x < t
  <1> SUFFICES ASSUME t <= x PROVE FALSE
    BY DEF Newest
  <1> DEFINE T == {u \in S : u >= t}
             X == {u \in S : u >= x}
  <1>1. X \subseteq T
    <2>1. t \in S /\ t \in Nat /\ x \in Nat
      BY DEF Newest
    <2>2. ASSUME NEW u \in S, u >= x
          PROVE  u >= t
      <3>1. u \in Nat
        OBVIOUS
      <3> QED
        BY <2>1, <2>2, <3>1
    <2> QED
      BY <2>2
  <1>2. IsFiniteSet(T)
    BY FS_Subset
  <1>3. Cardinality(X) <= Cardinality(T) /\ IsFiniteSet(X)
    BY <1>1, <1>2, FS_Subset
  <1>4. Cardinality(X) \in Nat /\ Cardinality(T) \in Nat
    BY <1>2, <1>3, FS_CardinalityType
  <1>5. Cardinality(T) <= max /\ ~(Cardinality(X) <= max)
    BY DEF Newest
  <1> QED
    BY <1>3, <1>4, <1>5

\* Every set of numbers that is not empty has a least one.
LEMMA LeastNumber ==
    \A T \in SUBSET Nat : T # {} => \E x \in T : \A y \in T : x <= y
  <1> DEFINE R == {ss \in Nat \X Nat : ss[1] < ss[2]}
  <1>1. IsWellFoundedOn(R, Nat)
    BY NatLessThanWellFounded DEF OpToRel
  <1>2. \A a, b \in Nat : a < b => <<a, b>> \in R
    OBVIOUS
  <1> HIDE DEF R
  <1> SUFFICES ASSUME NEW T \in SUBSET Nat, T # {}
               PROVE  \E x \in T : \A y \in T : x <= y
    OBVIOUS
  <1>3. PICK x \in T : \A y \in T : ~ (<<y, x>> \in R)
    BY <1>1, WFMin
  <1>4. \A y \in T : x <= y
    <2>1. \A y \in T : y \in Nat /\ x \in Nat /\ ~ (y < x)
      BY <1>2, <1>3
    <2> QED
      BY <2>1
  <1> QED
    BY <1>4

(* A set with more than max elements has exactly max newest ones: by the   *)
(* least size of a set that has not.                                       *)
LEMMA NewestFull ==
    ASSUME NEW max \in Nat
    PROVE  \A S \in SUBSET Nat : (IsFiniteSet(S) /\ Cardinality(S) >= max) =>
              Cardinality(Newest(S, max)) = max
  <1> DEFINE Bad(S) == /\ IsFiniteSet(S) /\ Cardinality(S) >= max
                       /\ Cardinality(Newest(S, max)) # max
             T == {n \in Nat : \E S \in SUBSET Nat : Bad(S) /\ Cardinality(S) = n}
  <1> SUFFICES ASSUME NEW S0 \in SUBSET Nat, Bad(S0) PROVE FALSE
    OBVIOUS
  <1>1. Cardinality(S0) \in Nat
    BY FS_CardinalityType
  <1>2. T \in SUBSET Nat /\ T # {}
    BY <1>1
  <1>3. PICK n \in T : \A m \in T : n <= m
    BY <1>2, LeastNumber
  <1>4. PICK S \in SUBSET Nat : Bad(S) /\ Cardinality(S) = n
    OBVIOUS
  <1>5. n \in Nat /\ n > max
    <2>1. n \in Nat /\ n >= max
      BY <1>4
    <2>2. n # max
      <3>1. ASSUME n = max PROVE Cardinality(Newest(S, max)) = max
        BY <1>4, <3>1, NewestAll
      <3> QED
        BY <1>4, <3>1
    <2> QED
      BY <2>1, <2>2
  <1>6. S # {}
    BY <1>4, <1>5, FS_EmptySet
  <1>7. PICK m \in S : \A y \in S : m <= y
    BY <1>6, LeastNumber
  <1> DEFINE less == S \ {m}
  <1>8. IsFiniteSet(less) /\ Cardinality(less) = n - 1
    BY <1>4, FS_RemoveElement
  <1>9. Newest(S, max) = Newest(less, max)
    <2>1. m \notin Newest(S, max)
      <3>1. {u \in S : u >= m} = S
        BY <1>7
      <3> QED
        BY <1>4, <1>5, <3>1 DEF Newest
    <2>2. ASSUME NEW t \in less
          PROVE  {u \in S : u >= t} = {u \in less : u >= t}
      <3>1. m < t
        BY <1>7, <2>2
      <3>2. m \in Nat /\ t \in Nat
        OBVIOUS
      <3> QED
        BY <3>1, <3>2
    <2> QED
      BY <2>1, <2>2 DEF Newest
  <1>10. Bad(less)
    <2>1. Cardinality(less) >= max
      BY <1>5, <1>8
    <2> QED
      BY <1>4, <1>8, <1>9, <2>1
  <1>11. n - 1 \in T
    <2>1. less \in SUBSET Nat /\ n - 1 \in Nat
      BY <1>5
    <2> QED
      BY <1>8, <1>10, <2>1
  <1> QED
    BY <1>3, <1>5, <1>11

\* As many are kept as there may be.
LEMMA NewestMany ==
    ASSUME NEW S \in SUBSET Nat, IsFiniteSet(S), NEW max \in Nat
    PROVE  /\ IsFiniteSet(Newest(S, max)) /\ Cardinality(Newest(S, max)) <= max
           /\ Newest(S, max) # S => Cardinality(Newest(S, max)) = max
  <1>1. Cardinality(S) \in Nat
    BY FS_CardinalityType
  <1>2. IsFiniteSet(Newest(S, max))
    BY FS_Subset DEF Newest
  <1>3. CASE Cardinality(S) <= max
    BY <1>2, <1>3, NewestAll
  <1>4. CASE Cardinality(S) > max
    BY <1>1, <1>2, <1>4, NewestFull
  <1> QED
    BY <1>1, <1>3, <1>4

-----------------------------------------------------------------------------
(* The statistics.  The buckets have what a rebuild would read, but for    *)
(* what is under way and what a newer bucket has pushed out; and what they *)
(* have is in a file that is read as long as its day is, because a record  *)
(* is never in a file older than itself.                                   *)

(* The bucket of a record, in buckets of len hours. *)
Slot(rec, len) == rec.ts \div len

(* A record whose file is kept is in a file that is not older than it. *)
Kept(rec) ==
    \/ Day(rec.ts) < purged
    \/ \E d \in DOMAIN logs : rec \in logs[d] /\ Day(rec.ts) <= d

\* What is logged is in a file of its day or a later one, as is a record that is
\* yet to be ingested, unless it could not be written.
LogInv ==
    /\ purged \in Nat /\ retention \in Nat
    /\ \A d \in DOMAIN logs : d \in Nat
          /\ \A rec \in logs[d] : rec.ts \in 0 .. now /\ Day(rec.ts) <= d
    /\ \A r \in Requests : req[r].pc = "ingest" =>
          RecordOf(r) \in unwritten \/ Kept(RecordOf(r))

(* What is in memory can be read, but for what could not be written and    *)
(* what was removed.                                                       *)
Backed(live) == \A t \in DOMAIN live : \A rec \in live[t] : rec \in unwritten \/ Kept(rec)

(* The record is in its bucket, or older than all of the buckets and they  *)
(* are as many as there may be.                                            *)
Has(live, len, max, rec) ==
    \/ Slot(rec, len) \in DOMAIN live /\ rec \in live[Slot(rec, len)]
    \/ Cardinality(DOMAIN live) = max /\ \A u \in DOMAIN live : Slot(rec, len) < u

(* The buckets live, of len hours each, have the records must.             *)
Tracks(live, len, max, must, t) ==
    /\ IsFiniteSet(DOMAIN live) /\ Cardinality(DOMAIN live) <= max
    /\ \A u \in DOMAIN live : u \in Nat
          /\ \A rec \in live[u] : rec.ts \in 0 .. t /\ Slot(rec, len) = u
    /\ \A rec \in must : Has(live, len, max, rec)

(* What the statistics must have: what can be read and is not under way.   *)
Due == Readable(now) \ Unfinished

StatsInv ==
    /\ LogInv /\ Backed(hours) /\ Backed(days)
    /\ Tracks(hours, 1, HourBuckets, Due, now)
    /\ Tracks(days, DayLen, DayBuckets, Due, now)

\* The bucket of a record is a number that is bounded as its time is.
LEMMA SlotBounds ==
    ASSUME NEW t \in Nat, NEW rec, rec.ts \in 0 .. t, NEW len \in Nat \ {0}
    PROVE  Slot(rec, len) \in 0 .. (t \div len) /\ Slot(rec, len) \in Nat
  <1> DEFINE a == rec.ts
  <1>1. a \in Nat /\ a <= t
    OBVIOUS
  <1> HIDE DEF a
  <1>2. a \div len \in Nat /\ t \div len \in Nat
    BY <1>1, Quotient
  <1>3. a \div len <= t \div len
    BY <1>1, DivMono
  <1> QED
    BY <1>2, <1>3 DEF Slot, a

\* Buckets that track some records track fewer, and later.
LEMMA TracksKept ==
    ASSUME NEW live, NEW len, NEW max, NEW must, NEW less, NEW t \in Nat, NEW u \in Nat,
           Tracks(live, len, max, must, t), less \subseteq must, t <= u
    PROVE  Tracks(live, len, max, less, u)
  <1>1. \A n \in 0 .. t : n \in 0 .. u
    OBVIOUS
  <1> QED
    BY <1>1 DEF Tracks

\* The buckets after an upsert, and what they have.
LEMMA UpsertBuckets ==
    ASSUME NEW live, NEW s, NEW rec, NEW max
    PROVE  LET new == Upsert(live, s, rec, max)
           IN  /\ DOMAIN new = Newest(DOMAIN live \union {s}, max)
               /\ \A t \in DOMAIN new : new[t] = (IF t \in DOMAIN live THEN live[t] ELSE {})
                                                 \union (IF t = s THEN {rec} ELSE {})
  BY DEF Upsert, Restrict, Newest

\* A record that is ingested is tracked, and so are the others still: a bucket
\* that is pushed out is older than all that stay.
LEMMA TracksMore ==
    ASSUME NEW live, NEW len \in Nat \ {0}, NEW max \in Nat, NEW must, NEW more, NEW t \in Nat,
           NEW rec, \A q \in must \union {rec} : q.ts \in 0 .. t,
           Tracks(live, len, max, must, t), more \subseteq must \union {rec}
    PROVE  Tracks(Upsert(live, Slot(rec, len), rec, max), len, max, more, t)
  <1> DEFINE s == Slot(rec, len)
             D == DOMAIN live
             S == D \union {s}
             new == Upsert(live, s, rec, max)
             N == DOMAIN new
  <1>1. s \in Nat
    BY SlotBounds
  <1>2. D \in SUBSET Nat /\ IsFiniteSet(D) /\ Cardinality(D) <= max
    BY DEF Tracks
  <1>3. S \in SUBSET Nat /\ IsFiniteSet(S)
    BY <1>1, <1>2, FS_AddElement
  <1>4. /\ N = Newest(S, max)
        /\ \A u \in N : new[u] = (IF u \in D THEN live[u] ELSE {})
                                 \union (IF u = s THEN {rec} ELSE {})
    BY UpsertBuckets
  <1>11. \A q \in must \union {rec} : q.ts \in 0 .. t
    OBVIOUS
  <1>12. Slot(rec, len) = s
    OBVIOUS
  <1> HIDE DEF new, s, D, S
  <1>5. N \subseteq S
    BY <1>4 DEF Newest
  <1>6. IsFiniteSet(N) /\ Cardinality(N) <= max /\ (N # S => Cardinality(N) = max)
    BY <1>3, <1>4, NewestMany
  <1>7. \A x \in S, u \in N : x \notin N => x < u
    BY <1>3, <1>4, NewestAbove
  <1>8. \A u \in N : u \in Nat /\ \A q \in new[u] : q.ts \in 0 .. t /\ Slot(q, len) = u
    BY <1>3, <1>4, <1>5, <1>11, <1>12 DEF Tracks, D
  <1>9. Has(new, len, max, rec)
    <2>1. CASE s \in N
      BY <1>4, <1>12, <2>1 DEF Has
    <2>2. CASE s \notin N
      <3>1. s \in S
        BY DEF S
      <3> QED
        BY <1>6, <1>7, <1>12, <2>2, <3>1 DEF Has
    <2> QED
      BY <2>1, <2>2
  <1>10. ASSUME NEW q \in must PROVE Has(new, len, max, q)
    <2> DEFINE k == Slot(q, len)
    <2>1. Has(live, len, max, q)
      BY DEF Tracks, D
    <2>2. CASE k \in D /\ q \in live[k]
      <3>1. CASE k \in N
        BY <1>4, <2>2, <3>1 DEF Has
      <3>2. CASE k \notin N
        BY <1>6, <1>7, <2>2, <3>2 DEF Has, S
      <3> QED
        BY <3>1, <3>2
    <2>3. CASE Cardinality(D) = max /\ \A u \in D : k < u
      <3>1. CASE s \in D
        <4>1. S = D
          BY <3>1 DEF S
        <4>2. N = D
          BY <1>2, <1>4, <4>1, NewestAll
        <4> QED
          BY <2>3, <4>2 DEF Has
      <3>2. CASE s \notin D
        <4>1. Cardinality(S) = max + 1
          BY <1>2, <2>3, <3>2, FS_AddElement DEF S
        <4>2. N # S
          BY <1>6, <4>1
        <4>3. PICK y \in S : y \notin N
          BY <1>5, <4>2
        <4>4. ASSUME NEW u \in N PROVE k < u
          <5>1. CASE u \in D
            BY <2>3, <5>1
          <5>2. CASE u = s
            <6>1. y \in D /\ y < s
              BY <1>7, <4>3, <5>2 DEF S
            <6>2. k < y
              BY <2>3, <6>1
            <6>3. k \in Nat /\ y \in Nat /\ s \in Nat
              BY <1>1, <1>2, <6>1, <1>11, SlotBounds
            <6> QED
              BY <5>2, <6>1, <6>2, <6>3
          <5> QED
            BY <1>5, <5>1, <5>2 DEF S
        <4> QED
          BY <1>6, <4>2, <4>4 DEF Has
      <3> QED
        BY <3>1, <3>2
    <2> QED
      BY <2>1, <2>2, <2>3 DEF Has, D
  <1> QED
    BY <1>6, <1>8, <1>9, <1>10 DEF Tracks, new, s

(* What a rebuild makes of the records recs. *)
Buckets(recs, len, max) ==
    [u \in Newest({Slot(rec, len) : rec \in recs}, max) |-> {rec \in recs : Slot(rec, len) = u}]

\* Finitely many buckets for any records up to now.
LEMMA Slots ==
    ASSUME NEW recs, NEW len \in Nat \ {0}, NEW t \in Nat, \A rec \in recs : rec.ts \in 0 .. t
    PROVE  LET all == {Slot(rec, len) : rec \in recs}
           IN  all \in SUBSET Nat /\ IsFiniteSet(all)
  <1> DEFINE all == {Slot(rec, len) : rec \in recs}
             n == t \div len
  <1>1. n \in Nat
    BY Quotient
  <1>2. all \subseteq 0 .. n
    BY SlotBounds
  <1> HIDE DEF n, all
  <1>3. IsFiniteSet(0 .. n)
    BY <1>1, FS_Interval
  <1>4. IsFiniteSet(all)
    BY <1>2, <1>3, FS_Subset
  <1>5. all \in SUBSET Nat
    BY <1>1, <1>2
  <1> QED
    BY <1>4, <1>5 DEF all

\* The rebuilt buckets track all that was read.
LEMMA TracksRebuilt ==
    ASSUME NEW recs, NEW len \in Nat \ {0}, NEW max \in Nat, NEW t \in Nat,
           \A rec \in recs : rec.ts \in 0 .. t
    PROVE  Tracks(Buckets(recs, len, max), len, max, recs, t)
  <1> DEFINE all == {Slot(rec, len) : rec \in recs}
             live == Buckets(recs, len, max)
             N == DOMAIN live
  <1>1. all \in SUBSET Nat /\ IsFiniteSet(all)
    BY Slots
  <1>2. N = Newest(all, max) /\ \A u \in N : live[u] = {rec \in recs : Slot(rec, len) = u}
    BY DEF Buckets
  <1> HIDE DEF live
  <1>3. N \subseteq all
    BY <1>2 DEF Newest
  <1>4. \A rec \in recs : Slot(rec, len) \in all
    OBVIOUS
  <1> HIDE DEF all
  <1>5. IsFiniteSet(N) /\ Cardinality(N) <= max /\ (N # all => Cardinality(N) = max)
    BY <1>1, <1>2, NewestMany
  <1>6. \A x \in all, u \in N : x \notin N => x < u
    BY <1>1, <1>2, NewestAbove
  <1>7. ASSUME NEW rec \in recs PROVE Has(live, len, max, rec)
    <2>1. CASE Slot(rec, len) \in N
      BY <1>2, <2>1 DEF Has
    <2>2. CASE Slot(rec, len) \notin N
      BY <1>4, <1>5, <1>6, <2>2 DEF Has
    <2> QED
      BY <2>1, <2>2
  <1>8. \A u \in N : u \in Nat /\ \A rec \in live[u] : rec.ts \in 0 .. t /\ Slot(rec, len) = u
    BY <1>1, <1>2, <1>3
  <1> QED
    BY <1>5, <1>7, <1>8 DEF Tracks, live

(* Buckets that track the records which can be read but for those under    *)
(* way agree with the rebuilt ones.                                        *)
LEMMA RebuiltHasIt ==
    ASSUME NEW recs, NEW busy, NEW live, NEW len \in Nat \ {0}, NEW max \in Nat, NEW t \in Nat,
           \A rec \in recs \union busy : rec.ts \in 0 .. t,
           Tracks(live, len, max, recs \ busy, t),
           NEW s \in DOMAIN live, NEW rec \in recs, rec \in live[s],
           Stays(live, {Slot(q, len) : q \in busy}, s, max)
    PROVE  s \in DOMAIN Buckets(recs, len, max) /\ rec \in Buckets(recs, len, max)[s]
  <1> DEFINE all == {Slot(q, len) : q \in recs}
             coming == {Slot(q, len) : q \in busy}
             A == {u \in all : u >= s}
             B == {u \in DOMAIN live \union coming : u >= s}
  <1>1. Slot(rec, len) = s
    BY DEF Tracks
  <1>2. A \subseteq B
    <2>1. ASSUME NEW q \in recs, Slot(q, len) >= s
          PROVE  Slot(q, len) \in DOMAIN live \union coming
      <3>1. CASE q \in busy
        BY <3>1
      <3>2. CASE q \notin busy
        <4>1. Has(live, len, max, q)
          BY <3>2 DEF Tracks
        <4>2. ~ (Slot(q, len) < s)
          <5>1. Slot(q, len) \in Nat /\ s \in Nat
            BY SlotBounds DEF Tracks
          <5> QED
            BY <2>1, <5>1
        <4> QED
          BY <4>1, <4>2 DEF Has
      <3> QED
        BY <3>1, <3>2
    <2> QED
      BY <2>1
  <1>3. IsFiniteSet(B)
    <2>1. IsFiniteSet(coming)
      BY Slots
    <2>2. IsFiniteSet(DOMAIN live)
      BY DEF Tracks
    <2>3. IsFiniteSet(DOMAIN live \union coming)
      BY <2>1, <2>2, FS_Union
    <2> QED
      BY <2>3, FS_Subset
  <1>4. Cardinality(A) <= max
    <2>1. Cardinality(B) <= max
      BY DEF Stays
    <2>2. IsFiniteSet(A) /\ Cardinality(A) <= Cardinality(B)
      BY <1>2, <1>3, FS_Subset
    <2>3. Cardinality(A) \in Nat /\ Cardinality(B) \in Nat
      BY <1>3, <2>2, FS_CardinalityType
    <2> QED
      BY <2>1, <2>2, <2>3
  <1>5. s \in all
    BY <1>1
  <1>6. s \in Newest(all, max)
    BY <1>4, <1>5 DEF Newest
  <1> QED
    BY <1>1, <1>6 DEF Buckets

\* What a rebuild finds is in the bucket already, or under way.
LEMMA LiveHasIt ==
    ASSUME NEW recs, NEW busy, NEW live, NEW len \in Nat \ {0}, NEW max \in Nat, NEW t \in Nat,
           \A rec \in recs : rec.ts \in 0 .. t,
           Tracks(live, len, max, recs \ busy, t),
           NEW s \in DOMAIN live, s \in DOMAIN Buckets(recs, len, max),
           NEW rec \in Buckets(recs, len, max)[s], rec \notin busy
    PROVE  rec \in live[s]
  <1>1. rec \in recs /\ Slot(rec, len) = s
    BY DEF Buckets
  <1>2. Has(live, len, max, rec)
    BY <1>1 DEF Tracks
  <1>3. s \in Nat
    BY DEF Tracks
  <1>4. ~ (s < s)
    BY <1>3
  <1> QED
    BY <1>1, <1>2, <1>4 DEF Has

-----------------------------------------------------------------------------
(* Every step keeps the invariant of the statistics.                       *)

\* Days are numbers.
LEMMA DayNat == \A t \in Nat : Day(t) \in Nat
  BY BucketsAssumption, Quotient DEF Day

\* Days do not go back.
LEMMA DayMono == \A t, u \in Nat : t <= u => Day(t) <= Day(u)
  BY BucketsAssumption, DivMono DEF Day

\* What is read was written up to now, in a file that is not older.
LEMMA Times ==
    ASSUME LogInv
    PROVE  /\ \A rec \in Readable(now) : rec.ts \in 0 .. now
           /\ \A rec \in Readable(now) : \E d \in DOMAIN logs : rec \in logs[d] /\ Day(rec.ts) <= d
           /\ \A rec \in Due : rec.ts \in 0 .. now
  BY DEF LogInv, Readable, Due

\* The record of a request has its stamp.
LEMMA Stamps ==
    ASSUME RequestInv, NEW r \in Requests
    PROVE  RecordOf(r).ts \in 0 .. now /\ RecordOf(r).id = r
  BY DEF RequestInv, RequestOK, RecordOf

\* The rebuild, by buckets of one hour and of one day.
LEMMA Rebuilds ==
    ASSUME now \in Nat, \A rec \in Readable(now) : rec.ts \in 0 .. now
    PROVE  /\ RebuiltHours(now) = Buckets(Readable(now), 1, HourBuckets)
           /\ RebuiltDays(now) = Buckets(Readable(now), DayLen, DayBuckets)
  <1> DEFINE recs == Readable(now)
  <1>1. \A rec \in recs : HourOf(rec) = Slot(rec, 1) /\ DayOf(rec) = Slot(rec, DayLen)
    <2>1. \A rec \in recs : rec.ts \in Nat
      OBVIOUS
    <2> HIDE DEF recs
    <2> QED
      BY <2>1, DivOne DEF HourOf, DayOf, Slot, Day
  <1> HIDE DEF recs
  <1>2. BucketsOf(recs, HourOf, HourBuckets) = Buckets(recs, 1, HourBuckets)
    <2>1. {HourOf(rec) : rec \in recs} = {Slot(rec, 1) : rec \in recs}
      BY <1>1
    <2>2. \A u : {rec \in recs : HourOf(rec) = u} = {rec \in recs : Slot(rec, 1) = u}
      BY <1>1
    <2> QED
      BY <2>1, <2>2 DEF BucketsOf, Buckets, Newest
  <1>3. BucketsOf(recs, DayOf, DayBuckets) = Buckets(recs, DayLen, DayBuckets)
    <2>1. {DayOf(rec) : rec \in recs} = {Slot(rec, DayLen) : rec \in recs}
      BY <1>1
    <2>2. \A u : {rec \in recs : DayOf(rec) = u} = {rec \in recs : Slot(rec, DayLen) = u}
      BY <1>1
    <2> QED
      BY <2>1, <2>2 DEF BucketsOf, Buckets, Newest
  <1> QED
    BY <1>2, <1>3 DEF RebuiltHours, RebuiltDays, recs

\* What is rebuilt tracks what is read, and has nothing else.
LEMMA RebuiltTracks ==
    ASSUME now \in Nat, LogInv
    PROVE  /\ Tracks(RebuiltHours(now), 1, HourBuckets, Readable(now), now)
           /\ Tracks(RebuiltDays(now), DayLen, DayBuckets, Readable(now), now)
           /\ \A u \in DOMAIN RebuiltHours(now) : \A rec \in RebuiltHours(now)[u] : Kept(rec)
           /\ \A u \in DOMAIN RebuiltDays(now) : \A rec \in RebuiltDays(now)[u] : Kept(rec)
  <1>1. \A rec \in Readable(now) : rec.ts \in 0 .. now
    BY Times
  <1>2. \A rec \in Readable(now) : Kept(rec)
    BY Times DEF Kept
  <1>3. \A len, max : \A u \in DOMAIN Buckets(Readable(now), len, max) :
            Buckets(Readable(now), len, max)[u] \subseteq Readable(now)
    BY DEF Buckets
  <1>4. 1 \in Nat \ {0} /\ DayLen \in Nat \ {0} /\ HourBuckets \in Nat /\ DayBuckets \in Nat
    BY BucketsAssumption
  <1> QED
    BY <1>1, <1>2, <1>3, <1>4, Rebuilds, TracksRebuilt

\* The statistics start from the files.
LEMMA StatsStart == Init => StatsInv
  <1> SUFFICES ASSUME Init PROVE StatsInv
    OBVIOUS
  <1>1. /\ now = StartAt /\ logs = LogsAtStart /\ purged = 0 /\ retention \in Retention
        /\ hours = RebuiltHours(now) /\ days = RebuiltDays(now)
        /\ req = [r \in Requests |-> Fresh0]
    BY DEF Init, UsageInit
  <1>2. LogInv
    <2>1. \A r \in Requests : req[r].pc # "ingest"
      BY <1>1, FreshFields
    <2> QED
      BY <1>1, <2>1, GatewayAssumption DEF LogInv
  <1>3. now \in Nat
    BY <1>1, GatewayAssumption
  <1>4. Due \subseteq Readable(now)
    BY DEF Due
  <1>5. now <= now
    BY <1>3
  <1>6. /\ Tracks(hours, 1, HourBuckets, Readable(now), now)
        /\ Tracks(days, DayLen, DayBuckets, Readable(now), now)
        /\ Backed(hours) /\ Backed(days)
    BY <1>1, <1>2, <1>3, RebuiltTracks DEF Backed
  <1>7. Tracks(hours, 1, HourBuckets, Due, now) /\ Tracks(days, DayLen, DayBuckets, Due, now)
    BY <1>3, <1>4, <1>5, <1>6, TracksKept
  <1> QED
    BY <1>2, <1>6, <1>7 DEF StatsInv

(* No record is begun or ingested. *)
Quiet ==
    \A r \in Requests : /\ (req'[r].pc = "ingest") <=> (req[r].pc = "ingest")
                        /\ req[r].pc = "ingest" => RecordOf(r)' = RecordOf(r)

\* Then as much is under way as before.
LEMMA QuietUnfinished == Quiet => Unfinished' = Unfinished
  BY DEF Quiet, Unfinished

(* Steps that only drop files the period no longer covers, if any. *)
LEMMA StatsKept ==
    ASSUME RequestInv, StatsInv, Quiet, UNCHANGED <<hours, days, unwritten>>,
           now' \in Nat, now <= now', retention' \in Nat, purged' \in Nat, purged <= purged',
           DOMAIN logs' \subseteq DOMAIN logs,
           \A d \in DOMAIN logs' : logs'[d] = logs[d],
           \A d \in DOMAIN logs \ DOMAIN logs' : d < purged'
    PROVE  StatsInv'
  <1>1. now \in Nat /\ LogInv /\ purged \in Nat /\ \A d \in DOMAIN logs : d \in Nat
    BY DEF RequestInv, StatsInv, LogInv
  <1>2. \A t \in 0 .. now : t \in 0 .. now'
    BY <1>1
  <1>3. ASSUME NEW rec, rec.ts \in 0 .. now, Kept(rec)
        PROVE  Kept(rec)'
    <2>1. Day(rec.ts) \in Nat
      BY <1>1, <1>3, DayNat
    <2>2. CASE Day(rec.ts) < purged
      <3>1. Day(rec.ts) < purged'
        BY <1>1, <2>1, <2>2
      <3> QED
        BY <3>1 DEF Kept, Day
    <2>3. ASSUME NEW d \in DOMAIN logs, rec \in logs[d], Day(rec.ts) <= d
          PROVE  Kept(rec)'
      <3>1. CASE d \in DOMAIN logs'
        BY <2>3, <3>1 DEF Kept, Day
      <3>2. CASE d \notin DOMAIN logs'
        <4>1. Day(rec.ts) < purged'
          BY <1>1, <2>1, <2>3, <3>2
        <4> QED
          BY <4>1 DEF Kept, Day
      <3> QED
        BY <3>1, <3>2
    <2> QED
      BY <1>3, <2>2, <2>3 DEF Kept
  <1>4. LogInv'
    <2>1. \A d \in DOMAIN logs' : d \in Nat
             /\ \A rec \in logs'[d] : rec.ts \in 0 .. now' /\ Day(rec.ts) <= d
      BY <1>1, <1>2 DEF LogInv
    <2>2. ASSUME NEW r \in Requests, req'[r].pc = "ingest"
          PROVE  RecordOf(r)' \in unwritten' \/ Kept(RecordOf(r))'
      <3>1. req[r].pc = "ingest" /\ RecordOf(r)' = RecordOf(r)
        BY <2>2 DEF Quiet
      <3>2. RecordOf(r) \in unwritten \/ Kept(RecordOf(r))
        BY <1>1, <3>1 DEF LogInv
      <3>3. PICK rec : rec = RecordOf(r)
        OBVIOUS
      <3>4. rec.ts \in 0 .. now
        BY <3>3, Stamps
      <3>5. rec \in unwritten \/ Kept(rec)'
        BY <1>3, <3>2, <3>3, <3>4
      <3> QED
        BY <3>1, <3>3, <3>5 DEF Kept, Day
    <2> QED
      BY <2>1, <2>2 DEF LogInv, Day
  <1>5. Due' \subseteq Due
    <2>1. DaysBefore(Day(now), RebuildDays) <= DaysBefore(Day(now'), RebuildDays)
          /\ DaysBefore(Day(now), RebuildDays) \in Nat /\ DaysBefore(Day(now'), RebuildDays) \in Nat
      <3>1. Day(now) \in Nat /\ Day(now') \in Nat /\ Day(now) <= Day(now')
        BY <1>1, DayNat, DayMono
      <3> QED
        BY <3>1, BucketsAssumption DEF DaysBefore
    <2> DEFINE old == DaysBefore(Day(now), RebuildDays)
               new == DaysBefore(Day(now'), RebuildDays)
    <2>2. Readable(now) = UNION {logs[d] : d \in {e \in DOMAIN logs : e >= old}}
          /\ Readable(now)' = UNION {logs'[d] : d \in {e \in DOMAIN logs' : e >= new}}
      BY DEF Readable, DaysBefore, Day
    <2> HIDE DEF old, new
    <2>3. \A d \in DOMAIN logs' : d >= new => d \in DOMAIN logs /\ d >= old
      BY <1>1, <2>1 DEF old, new
    <2>4. Readable(now)' \subseteq Readable(now)
      BY <2>2, <2>3
    <2> QED
      BY <2>4, QuietUnfinished DEF Due
  <1>6. Backed(hours)' /\ Backed(days)'
    <2>1. \A t \in DOMAIN hours : \A rec \in hours[t] : rec.ts \in 0 .. now
      BY DEF StatsInv, Tracks
    <2>2. \A t \in DOMAIN days : \A rec \in days[t] : rec.ts \in 0 .. now
      BY DEF StatsInv, Tracks
    <2>3. Backed(hours) /\ Backed(days)
      BY DEF StatsInv
    <2> QED
      BY <1>3, <2>1, <2>2, <2>3 DEF Backed
  <1>7. Tracks(hours, 1, HourBuckets, Due, now) /\ Tracks(days, DayLen, DayBuckets, Due, now)
    BY DEF StatsInv
  <1>8. /\ Tracks(hours', 1, HourBuckets, Due', now')
        /\ Tracks(days', DayLen, DayBuckets, Due', now')
    BY <1>1, <1>5, <1>7, TracksKept
  <1> QED
    BY <1>4, <1>6, <1>8 DEF StatsInv, Tracks, Has, Slot

\* The greater of two numbers.
LEMMA MaxOfTwo ==
    ASSUME NEW a \in Nat, NEW b \in Nat
    PROVE  Max({a, b}) \in {a, b} /\ Max({a, b}) >= a /\ Max({a, b}) >= b
  <1> DEFINE S == {a, b}
  <1>1. \E x \in S : \A y \in S : x >= y
    <2>1. CASE a >= b
      BY <2>1
    <2>2. CASE b >= a
      BY <2>2
    <2> QED
      BY <2>1, <2>2
  <1> HIDE DEF S
  <1>2. Max(S) \in S /\ \A y \in S : Max(S) >= y
    BY <1>1 DEF Max
  <1> QED
    BY <1>2 DEF S

(* A step of r alone to pc. *)
LEMMA StepOf ==
    ASSUME RequestInv, NEW r \in Requests, NEW pc, req' = [req EXCEPT ![r].pc = pc]
    PROVE  /\ \A s \in Requests \ {r} : req'[s] = req[s]
           /\ req'[r].pc = pc
           /\ \A s \in Requests : RecordOf(s)' = RecordOf(s)
  <1>1. DOMAIN req = Requests /\ DOMAIN req[r] = Fields
    BY DEF RequestInv, RequestOK
  <1> QED
    BY <1>1 DEF Fields, RecordOf

\* A record that is written, or fails to be, is under way.
LEMMA StatsWrite ==
    ASSUME RequestInv, StatsInv, NEW r \in Requests, WriteLog(r)
    PROVE  StatsInv'
  <1>1. /\ req[r].pc = "log" /\ req' = [req EXCEPT ![r].pc = "ingest"]
        /\ UNCHANGED <<hours, days, retention, purged, now>>
        /\ RecordLine(RecordOf(r), now) \/ LineFails(RecordOf(r))
    BY DEF WriteLog, Go
  <1>2. /\ \A s \in Requests \ {r} : req'[s] = req[s]
        /\ req'[r].pc = "ingest"
        /\ \A s \in Requests : RecordOf(s)' = RecordOf(s)
    BY <1>1, StepOf
  <1>3. PICK new : new = RecordOf(r)
    OBVIOUS
  <1>4. new.ts \in 0 .. now /\ now \in Nat
    BY <1>3, Stamps DEF RequestInv
  <1>5. Day(new.ts) <= Day(now) /\ Day(new.ts) \in Nat /\ Day(now) \in Nat
    BY <1>4, DayNat, DayMono
  <1>6. LogInv
    BY DEF StatsInv
  <1>7. /\ \A d \in DOMAIN logs : d \in DOMAIN logs' /\ logs[d] \subseteq logs'[d]
        /\ \A d \in DOMAIN logs' : \A rec \in logs'[d] :
              (d \in DOMAIN logs /\ rec \in logs[d]) \/ (d = Day(now) /\ rec = new)
        /\ \A d \in DOMAIN logs' : d \in DOMAIN logs \/ d = Day(now)
        /\ unwritten \subseteq unwritten'
        /\ \/ new \in unwritten'
           \/ Day(now) \in DOMAIN logs' /\ new \in logs'[Day(now)]
    <2>1. CASE RecordLine(RecordOf(r), now)
      BY <1>3, <2>1 DEF RecordLine
    <2>2. CASE LineFails(RecordOf(r))
      BY <1>3, <2>2 DEF LineFails
    <2> QED
      BY <1>1, <2>1, <2>2
  <1>8. \A rec : Kept(rec) => Kept(rec)'
    BY <1>1, <1>7 DEF Kept, Day
  <1>9. LogInv'
    <2>1. \A d \in DOMAIN logs' : d \in Nat
             /\ \A rec \in logs'[d] : rec.ts \in 0 .. now' /\ Day(rec.ts) <= d
      BY <1>1, <1>4, <1>5, <1>6, <1>7 DEF LogInv
    <2>2. ASSUME NEW s \in Requests, req'[s].pc = "ingest"
          PROVE  RecordOf(s)' \in unwritten' \/ Kept(RecordOf(s))'
      <3>1. CASE s = r
        <4>1. new \in unwritten' \/ Kept(new)'
          BY <1>5, <1>7 DEF Kept, Day
        <4> QED
          BY <1>2, <1>3, <3>1, <4>1 DEF Kept, Day
      <3>2. CASE s # r
        <4>1. RecordOf(s) \in unwritten \/ Kept(RecordOf(s))
          BY <1>2, <1>6, <2>2, <3>2 DEF LogInv
        <4>2. PICK rec : rec = RecordOf(s)
          OBVIOUS
        <4>3. rec \in unwritten' \/ Kept(rec)'
          BY <1>7, <1>8, <4>1, <4>2
        <4> QED
          BY <1>2, <4>2, <4>3 DEF Kept, Day
      <3> QED
        BY <3>1, <3>2
    <2>3. purged' \in Nat /\ retention' \in Nat
      BY <1>1, <1>6 DEF LogInv
    <2> QED
      BY <2>1, <2>2, <2>3 DEF LogInv, Day
  <1>10. Backed(hours)' /\ Backed(days)'
    <2>1. Backed(hours) /\ Backed(days)
      BY DEF StatsInv
    <2> QED
      BY <1>1, <1>7, <1>8, <2>1 DEF Backed
  <1>11. Due' \subseteq Due
    <2>1. new \in Unfinished'
      BY <1>2, <1>3 DEF Unfinished
    <2>2. Unfinished \subseteq Unfinished'
      BY <1>2 DEF Unfinished
    <2>3. Readable(now)' \subseteq Readable(now) \union {new}
      BY <1>1, <1>7 DEF Readable
    <2> QED
      BY <2>1, <2>2, <2>3 DEF Due
  <1>12. Tracks(hours, 1, HourBuckets, Due, now) /\ Tracks(days, DayLen, DayBuckets, Due, now)
    BY DEF StatsInv
  <1>13. now <= now
    BY <1>4
  <1>14. /\ Tracks(hours, 1, HourBuckets, Due', now)
         /\ Tracks(days, DayLen, DayBuckets, Due', now)
    BY <1>4, <1>11, <1>12, <1>13, TracksKept
  <1> QED
    BY <1>1, <1>9, <1>10, <1>14 DEF StatsInv, Tracks, Has, Slot

\* The record that was under way gets into its buckets.
LEMMA StatsIngest ==
    ASSUME RequestInv, StatsInv, NEW r \in Requests, IngestRecord(r)
    PROVE  StatsInv'
  <1>1. /\ req[r].pc = "ingest"
        /\ \E pc \in {"totals", "trace"} : req' = [req EXCEPT ![r].pc = pc]
        /\ UNCHANGED <<logs, unwritten, retention, purged, now>>
        /\ hours' = Upsert(hours, RecordOf(r).ts, RecordOf(r), HourBuckets)
        /\ days' = Upsert(days, Day(RecordOf(r).ts), RecordOf(r), DayBuckets)
    BY DEF IngestRecord, Go, Ingest
  <1>2. /\ \A s \in Requests \ {r} : req'[s] = req[s]
        /\ req'[r].pc # "ingest"
        /\ \A s \in Requests : RecordOf(s)' = RecordOf(s)
    BY <1>1, StepOf
  <1>3. PICK new : new = RecordOf(r)
    OBVIOUS
  <1>4. new.ts \in 0 .. now /\ now \in Nat
    BY <1>3, Stamps DEF RequestInv
  <1>5. LogInv
    BY DEF StatsInv
  <1>6. LogInv'
    BY <1>1, <1>2, <1>5 DEF LogInv, Kept, Day
  <1>7. Backed(hours)' /\ Backed(days)'
    <2>1. Backed(hours) /\ Backed(days)
      BY DEF StatsInv
    <2>2. new \in unwritten \/ Kept(new)
      BY <1>1, <1>3, <1>5 DEF LogInv
    <2>3. /\ \A t \in DOMAIN hours' : \A rec \in hours'[t] :
                rec = new \/ (t \in DOMAIN hours /\ rec \in hours[t])
          /\ \A t \in DOMAIN days' : \A rec \in days'[t] :
                rec = new \/ (t \in DOMAIN days /\ rec \in days[t])
      BY <1>1, <1>3, UpsertOnlyAdds
    <2> QED
      BY <1>1, <2>1, <2>2, <2>3 DEF Backed, Kept, Day
  <1>8. Due' \subseteq Due \union {new}
    <2>1. Unfinished \subseteq Unfinished' \union {new}
      BY <1>2, <1>3 DEF Unfinished
    <2>2. Readable(now)' = Readable(now)
      BY <1>1 DEF Readable
    <2> QED
      BY <2>1, <2>2 DEF Due
  <1>9. Tracks(hours, 1, HourBuckets, Due, now) /\ Tracks(days, DayLen, DayBuckets, Due, now)
    BY DEF StatsInv
  <1>10. \A q \in Due \union {new} : q.ts \in 0 .. now
    BY <1>4, <1>5, Times
  <1>11. Slot(new, 1) = new.ts /\ Slot(new, DayLen) = Day(new.ts)
    <2>1. new.ts \in Nat
      BY <1>4
    <2> QED
      BY <2>1, DivOne DEF Slot, Day
  <1>12. 1 \in Nat \ {0} /\ DayLen \in Nat \ {0} /\ HourBuckets \in Nat /\ DayBuckets \in Nat
    BY BucketsAssumption
  <1>13. Tracks(hours', 1, HourBuckets, Due', now)
    <2>1. hours' = Upsert(hours, Slot(new, 1), new, HourBuckets)
      BY <1>1, <1>3, <1>11
    <2> QED
      BY <1>4, <1>8, <1>9, <1>10, <1>12, <2>1, TracksMore
  <1>14. Tracks(days', DayLen, DayBuckets, Due', now)
    <2>1. days' = Upsert(days, Slot(new, DayLen), new, DayBuckets)
      BY <1>1, <1>3, <1>11
    <2> QED
      BY <1>4, <1>8, <1>9, <1>10, <1>12, <2>1, TracksMore
  <1> QED
    BY <1>1, <1>6, <1>7, <1>13, <1>14 DEF StatsInv, Tracks, Has, Slot

\* A restart drops what is under way and reads the files.
LEMMA StatsRestart ==
    ASSUME RequestInv, StatsInv, Restart
    PROVE  StatsInv'
  <1>1. /\ req' = [r \in Requests |-> IF Open(r) THEN Gone ELSE req[r]]
        /\ hours' = RebuiltHours(now) /\ days' = RebuiltDays(now) /\ unwritten' = {}
        /\ UNCHANGED <<logs, retention, purged, now>>
    BY DEF Restart, RebuildFromLogs
  <1>2. \A r \in Requests : req'[r].pc # "ingest"
    <2>1. Gone.pc = "gone"
      BY FreshFields DEF Gone, Fields
    <2> QED
      BY <1>1, <2>1 DEF Open
  <1>3. now \in Nat /\ now <= now
    BY DEF RequestInv
  <1>4. LogInv
    BY DEF StatsInv
  <1>5. LogInv'
    BY <1>1, <1>2, <1>4 DEF LogInv, Day
  <1>6. /\ Tracks(hours', 1, HourBuckets, Readable(now), now)
        /\ Tracks(days', DayLen, DayBuckets, Readable(now), now)
        /\ \A t \in DOMAIN hours' : \A rec \in hours'[t] : Kept(rec)
        /\ \A t \in DOMAIN days' : \A rec \in days'[t] : Kept(rec)
    BY <1>1, <1>3, <1>4, RebuiltTracks
  <1>7. Due' \subseteq Readable(now)
    BY <1>1 DEF Due, Readable
  <1>8. /\ Tracks(hours', 1, HourBuckets, Due', now)
        /\ Tracks(days', DayLen, DayBuckets, Due', now)
    BY <1>3, <1>6, <1>7, TracksKept
  <1>9. Backed(hours)' /\ Backed(days)'
    BY <1>1, <1>6 DEF Backed, Kept, Day
  <1> QED
    BY <1>1, <1>5, <1>8, <1>9 DEF StatsInv, Tracks, Has, Slot

\* Every step keeps StatsInv.
LEMMA StatsStep == RequestInv /\ CacheInv /\ StatsInv /\ [Next]_vars => StatsInv'
  <1> SUFFICES ASSUME RequestInv, CacheInv, StatsInv, [Next]_vars PROVE StatsInv'
    OBVIOUS
  <1>1. now \in Nat /\ now <= now /\ retention \in Nat /\ purged \in Nat /\ purged <= purged
    BY DEF RequestInv, StatsInv, LogInv
  <1>2. ASSUME Quiet, UNCHANGED <<usageVars, now>> PROVE StatsInv'
    BY <1>1, <1>2, StatsKept DEF usageVars
  <1>3. (UNCHANGED req) => Quiet
    BY DEF Quiet, RecordOf
  <1>4. ASSUME NEW r \in Requests, RequestStep(r) PROVE StatsInv'
    <2>1. ASSUME NEW to, Moves(r, to), "ingest" \notin to, req[r].pc # "ingest"
          PROVE  Quiet
      BY <2>1 DEF Moves, RequestInv, Quiet, RecordOf
    <2>2. now' = now
      BY <1>4 DEF RequestStep, Authenticate, ReadGroup, ReadSettings, Reject, WebSearchOnly,
                  Replay, AskUpstream, CallFails, CallAnswers, Answer, EmptyAnswer, RetryFails,
                  HangUp, WriteLog, IngestRecord, CountTotals, FinalizeTrace, StoreAnswer, Books
    <2>3. CASE /\ UNCHANGED <<usageVars, traceVars>>
               /\ req[r].pc \in Asking \union Answering
               /\ Moves(r, Asking \union Answering \union {"log", "gone"})
      BY <1>2, <2>1, <2>2, <2>3 DEF Asking, Answering
    <2>4. CASE CountTotals(r) \/ FinalizeTrace(r)
      <3>1. \E pc \in {"trace", "store"} : req' = [req EXCEPT ![r].pc = pc]
        BY <2>4 DEF CountTotals, FinalizeTrace, Go
      <3>2. req[r].pc # "ingest" /\ UNCHANGED usageVars
        BY <2>4 DEF CountTotals, FinalizeTrace
      <3>3. Quiet
        BY <3>1, <3>2, StepOf DEF Quiet
      <3> QED
        BY <1>2, <2>2, <3>2, <3>3
    <2>5. CASE StoreAnswer(r)
      <3>1. req[r].pc = "store" /\ UNCHANGED usageVars
        BY <2>5 DEF StoreAnswer, Books
      <3>2. req'[r].pc = "done" /\ \A s \in Requests \ {r} : req'[s] = req[s]
        <4>1. DOMAIN req = Requests /\ DOMAIN req[r] = Fields
          BY DEF RequestInv, RequestOK
        <4>2. Done.pc = "done"
          BY FreshFields DEF Done, Fields
        <4>3. [req[r] EXCEPT !.pc = "done"].pc = "done"
          BY <4>1 DEF Fields
        <4> QED
          BY <2>5, <4>1, <4>2, <4>3 DEF StoreAnswer
      <3>3. Quiet
        BY <3>1, <3>2 DEF Quiet, RecordOf
      <3> QED
        BY <1>2, <2>2, <3>1, <3>3
    <2>6. CASE WriteLog(r)
      BY <2>6, StatsWrite
    <2>7. CASE IngestRecord(r)
      BY <2>7, StatsIngest
    <2> QED
      BY <1>4, <2>3, <2>4, <2>5, <2>6, <2>7, RequestMoves
  <1>5. CASE SaveKeys \/ AdminKeys \/ EvictTask \/ DeleteAccount \/ UNCHANGED vars
    <2>1. UNCHANGED <<req, usageVars, now>>
      BY <1>5 DEF SaveKeys, AdminKeys, EvictTask, DeleteAccount, vars
    <2> QED
      BY <1>2, <1>3, <2>1
  <1>6. CASE Tick
    <2>1. UNCHANGED <<req, usageVars>> /\ now' = now + 1
      BY <1>6 DEF Tick
    <2>2. now' \in Nat /\ now <= now'
      BY <1>1, <2>1
    <2> QED
      BY <1>1, <1>3, <2>1, <2>2, StatsKept DEF usageVars
  <1>7. CASE AdminBooks
    <2>1. UNCHANGED <<req, now>>
      BY <1>7 DEF AdminBooks
    <2>2. ASSUME NEW n \in Retention, SetRetention(n) PROVE StatsInv'
      <3>1. UNCHANGED <<logs, hours, days, unwritten, purged>> /\ retention' = Max({n, 1})
        BY <2>2 DEF SetRetention
      <3>2. retention' \in Nat
        <4>1. n \in Nat /\ 1 \in Nat
          BY GatewayAssumption
        <4> QED
          BY <3>1, <4>1, MaxOfTwo
      <3> QED
        BY <1>1, <1>3, <2>1, <3>1, <3>2, StatsKept
    <2>3. CASE CleanupOldLogs(now)
      <3> DEFINE cutoff == DaysBefore(Day(now), retention)
      <3>1. /\ purged' = Max({purged, cutoff})
            /\ logs' = Restrict(logs, {d \in DOMAIN logs : d >= cutoff})
            /\ UNCHANGED <<hours, days, retention, unwritten>>
        BY <2>3 DEF CleanupOldLogs
      <3>2. cutoff \in Nat
        BY <1>1, DayNat DEF DaysBefore
      <3> HIDE DEF cutoff
      <3>3. purged' \in Nat /\ purged <= purged' /\ cutoff <= purged'
        BY <1>1, <3>1, <3>2, MaxOfTwo
      <3>4. /\ DOMAIN logs' = {d \in DOMAIN logs : d >= cutoff}
            /\ \A d \in DOMAIN logs' : logs'[d] = logs[d]
        BY <3>1 DEF Restrict
      <3>5. \A d \in DOMAIN logs : d \in Nat
        BY DEF StatsInv, LogInv
      <3>6. \A d \in DOMAIN logs \ DOMAIN logs' : d < purged'
        BY <3>2, <3>3, <3>4, <3>5
      <3> QED
        BY <1>1, <1>3, <2>1, <3>1, <3>3, <3>4, <3>6, StatsKept
    <2>4. CASE CleanupTraces(now) \/ SetTraceEnabled(~traceOn)
      <3>1. CASE UNCHANGED usageVars
        BY <1>2, <1>3, <2>1, <3>1
      <3> QED
        BY <1>7, <2>2, <2>3, <3>1 DEF AdminBooks
    <2> QED
      BY <1>7, <2>2, <2>3, <2>4 DEF AdminBooks
  <1>8. CASE Restart
    BY <1>8, StatsRestart
  <1> QED
    BY <1>4, <1>5, <1>6, <1>7, <1>8 DEF Next

\* Buckets that track what is due agree with the rebuilt ones, for the buckets
\* of a day whose file is kept and read.
LEMMA TrackedAgrees ==
    ASSUME RequestInv, LogInv, NEW live, Backed(live),
           NEW len \in Nat \ {0}, NEW max \in Nat, Tracks(live, len, max, Due, now),
           NEW s \in Nat, NEW day \in Nat, day >= purged,
           day >= DaysBefore(Day(now), RebuildDays),
           \A rec : (rec.ts \in 0 .. now /\ Slot(rec, len) = s) => Day(rec.ts) = day
    PROVE  Agree(live, Buckets(Readable(now), len, max), {Slot(q, len) : q \in Unfinished}, s, max)
  <1> DEFINE recs == Readable(now)
             busy == Unfinished
             oldest == DaysBefore(Day(now), RebuildDays)
  <1>1. now \in Nat /\ purged \in Nat
    BY DEF RequestInv, LogInv
  <1>2. \A rec \in recs \union busy : rec.ts \in 0 .. now
    BY Times, Stamps DEF Unfinished
  <1>3. Tracks(live, len, max, recs \ busy, now)
    BY DEF Due
  <1>4. ASSUME s \in DOMAIN live, NEW rec \in live[s], rec \notin unwritten
        PROVE  rec \in recs
    <2>1. Kept(rec) /\ Slot(rec, len) = s /\ rec.ts \in 0 .. now
      BY <1>4 DEF Backed, Tracks
    <2>2. Day(rec.ts) \in Nat /\ Day(rec.ts) >= purged /\ Day(rec.ts) >= oldest
      BY <2>1
    <2>3. PICK d \in DOMAIN logs : rec \in logs[d] /\ Day(rec.ts) <= d
      BY <1>1, <2>1, <2>2 DEF Kept
    <2>4. d >= oldest
      <3>1. d \in Nat
        BY DEF LogInv
      <3>2. oldest \in Nat
        BY <1>1, DayNat, BucketsAssumption DEF DaysBefore
      <3> HIDE DEF oldest
      <3> QED
        BY <2>2, <2>3, <3>1, <3>2
    <2> QED
      BY <2>3, <2>4 DEF Readable
  <1> HIDE DEF recs, busy
  <1>5. ASSUME Stays(live, {Slot(q, len) : q \in busy}, s, max), NEW rec \in At(live, s) \ unwritten
        PROVE  rec \in At(Buckets(recs, len, max), s)
    <2>1. s \in DOMAIN live /\ rec \in live[s] /\ rec \notin unwritten
      BY <1>5 DEF At
    <2>2. rec \in recs
      BY <1>4, <2>1
    <2>3. s \in DOMAIN Buckets(recs, len, max) /\ rec \in Buckets(recs, len, max)[s]
      BY <1>1, <1>2, <1>3, <1>5, <2>1, <2>2, RebuiltHasIt
    <2> QED
      BY <2>3 DEF At
  <1>6. ASSUME s \in DOMAIN live, NEW rec \in At(Buckets(recs, len, max), s), rec \notin busy
        PROVE  rec \in live[s]
    <2>1. s \in DOMAIN Buckets(recs, len, max) /\ rec \in Buckets(recs, len, max)[s]
      BY <1>6 DEF At
    <2> QED
      BY <1>1, <1>2, <1>3, <1>6, <2>1, LiveHasIt
  <1> QED
    BY <1>5, <1>6 DEF Agree, recs, busy

\* In every state the statistics in memory are those a restart would rebuild,
\* for the days whose file is kept and read, but for lines that could not be
\* written and buckets that a record under way is about to push out.
THEOREM StatisticsAlwaysSurviveRestart == Spec => []StatisticsSurviveRestart
  <1>1. RequestInv /\ StatsInv => StatisticsSurviveRestart
    <2> SUFFICES ASSUME RequestInv, StatsInv, NEW t \in 0 .. now, Day(t) >= purged,
                        Day(t) >= DaysBefore(Day(now), RebuildDays)
                 PROVE  /\ Agree(hours, RebuiltHours(now), {HourOf(rec) : rec \in Unfinished}, t,
                                 HourBuckets)
                        /\ Agree(days, RebuiltDays(now), {DayOf(rec) : rec \in Unfinished}, Day(t),
                                 DayBuckets)
      BY DEF StatisticsSurviveRestart
    <2>1. /\ LogInv /\ Backed(hours) /\ Backed(days) /\ now \in Nat /\ t \in Nat
          /\ Tracks(hours, 1, HourBuckets, Due, now)
          /\ Tracks(days, DayLen, DayBuckets, Due, now)
      BY DEF StatsInv, RequestInv
    <2>2. 1 \in Nat \ {0} /\ DayLen \in Nat \ {0} /\ HourBuckets \in Nat /\ DayBuckets \in Nat
      BY BucketsAssumption
    <2>3. /\ RebuiltHours(now) = Buckets(Readable(now), 1, HourBuckets)
          /\ RebuiltDays(now) = Buckets(Readable(now), DayLen, DayBuckets)
      BY <2>1, Times, Rebuilds
    <2>4. /\ {HourOf(rec) : rec \in Unfinished} = {Slot(rec, 1) : rec \in Unfinished}
          /\ {DayOf(rec) : rec \in Unfinished} = {Slot(rec, DayLen) : rec \in Unfinished}
      <3>1. \A rec \in Unfinished : rec.ts \in Nat
        BY <2>1, Stamps DEF Unfinished
      <3>2. \A rec \in Unfinished : HourOf(rec) = Slot(rec, 1) /\ DayOf(rec) = Slot(rec, DayLen)
        BY <3>1, DivOne DEF HourOf, DayOf, Slot, Day
      <3> QED
        BY <3>2
    <2>5. Day(t) \in Nat
      BY <2>1, DayNat
    <2>6. Agree(hours, RebuiltHours(now), {HourOf(rec) : rec \in Unfinished}, t, HourBuckets)
      <3>1. \A rec : (rec.ts \in 0 .. now /\ Slot(rec, 1) = t) => Day(rec.ts) = Day(t)
        BY DivOne DEF Slot
      <3>2. Agree(hours, Buckets(Readable(now), 1, HourBuckets), {Slot(q, 1) : q \in Unfinished},
                  t, HourBuckets)
        BY <2>1, <2>2, <2>5, <3>1, TrackedAgrees
      <3> QED
        BY <2>3, <2>4, <3>2
    <2>7. Agree(days, RebuiltDays(now), {DayOf(rec) : rec \in Unfinished}, Day(t), DayBuckets)
      <3>1. \A rec : (rec.ts \in 0 .. now /\ Slot(rec, DayLen) = Day(t)) => Day(rec.ts) = Day(t)
        BY DEF Slot, Day
      <3> QED
        BY <2>1, <2>2, <2>3, <2>4, <2>5, <3>1, TrackedAgrees
    <2> QED
      BY <2>6, <2>7
  <1>2. (RequestInv /\ CacheInv) /\ StatsInv /\ [Next]_vars => StatsInv'
    BY StatsStep
  <1> QED
    BY <1>1, <1>2, StatsStart, RequestsHold, PTL DEF Spec

=============================================================================
