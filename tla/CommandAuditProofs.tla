------------------------- MODULE CommandAuditProofs -------------------------
(***************************************************************************)
(* The audit trail for every set of requests, every length of a batch, any *)
(* number of faults and token expiries, and crashes at any point.          *)
(***************************************************************************)
EXTENDS CommandAudit, SequenceTheorems, TLAPS

Statuses == {"ok", "error"}

\* The writes of a request from the n-th on have not been touched.
Untouched(r, n) ==
    \A i \in DOMAIN Writes[r] : i >= n => audit[r][i] = "none" /\ executed[r][i] = 0

\* What is known of every write at every moment.
WriteInv(r) ==
    /\ audit[r] \in [DOMAIN Writes[r] -> {"none", "pending", "ok", "error"}]
    /\ executed[r] \in [DOMAIN Writes[r] -> {0, 1}]
    /\ \A i \in DOMAIN Writes[r] :
          /\ executed[r][i] = 1 => audit[r][i] # "none"
          /\ audit[r][i] = "ok" => executed[r][i] = 1

\* The results stand for the first writes, an "ok" for one that was carried out.
ResultsInv(r) ==
    /\ results[r] \in Seq(Statuses) /\ Len(results[r]) <= Len(Writes[r])
    /\ \A i \in 1..Len(results[r]) : results[r][i] = "ok" => executed[r][i] = 1

\* Where the handler is with its present write.
HandlerInv(r) ==
    /\ pc[r] \in Ended \cup {"new", "register", "insert", "post", "login", "update"}
    /\ status[r] \in Statuses
    /\ pc[r] \notin Ended => Current(r) \in DOMAIN Writes[r]
    /\ pc[r] \in {"new", "register", "insert"} => Untouched(r, Current(r))
    /\ pc[r] \in {"post", "login", "update"} =>
          audit[r][Current(r)] = "pending" /\ Untouched(r, Current(r) + 1)
    /\ pc[r] \in {"post", "login"} => executed[r][Current(r)] = 0 /\ status[r] = "error"
    /\ pc[r] = "update" /\ status[r] = "ok" => executed[r][Current(r)] = 1

CommandInv ==
    /\ DOMAIN pc = Requests /\ DOMAIN results = Requests /\ DOMAIN status = Requests
    /\ DOMAIN audit = Requests /\ DOMAIN executed = Requests
    /\ \A r \in Requests : WriteInv(r) /\ ResultsInv(r) /\ HandlerInv(r)

\* The writes of a request are numbered from one.
LEMMA WriteNumbers ==
    ASSUME NEW r \in Requests
    PROVE  /\ DOMAIN Writes[r] = 1..Len(Writes[r]) /\ Len(Writes[r]) \in Nat \ {0}
           /\ DOMAIN Writes[r] \subseteq Nat
  <1>1. Writes[r] \in Seq(BOOLEAN) /\ Writes[r] # <<>>
    BY CommandAssumption
  <1> QED
    BY <1>1, EmptySeq, LenProperties

LEMMA CommandInit == Init => CommandInv
  <1> SUFFICES ASSUME Init PROVE CommandInv
    OBVIOUS
  <1>1. ASSUME NEW r \in Requests PROVE WriteInv(r) /\ ResultsInv(r) /\ HandlerInv(r)
    <2>1. WriteInv(r)
      BY DEF Init, WriteInv
    <2>2. results[r] = <<>> /\ Current(r) = 1 /\ pc[r] = "new" /\ status[r] = "error"
      BY EmptySeq DEF Init, Current
    <2>3. 1 \in DOMAIN Writes[r]
      BY WriteNumbers
    <2>4. Untouched(r, Current(r))
      BY DEF Init, Untouched
    <2> QED
      BY <2>1, <2>2, <2>3, <2>4, EmptySeq, WriteNumbers DEF ResultsInv, HandlerInv, Statuses, Ended
  <1> QED
    BY <1>1 DEF Init, CommandInv

\* A step of one handler leaves the writes and the locals of the others alone.
LEMMA OthersKeep ==
    ASSUME CommandInv, NEW q \in Requests,
           UNCHANGED <<pc[q], results[q], status[q], audit[q], executed[q]>>
    PROVE  WriteInv(q)' /\ ResultsInv(q)' /\ HandlerInv(q)'
  BY DEF CommandInv, WriteInv, ResultsInv, HandlerInv, Untouched, Current

\* To prove the invariant after a step of r it is enough to look at r.
LEMMA LocalStep ==
    ASSUME CommandInv, NEW r \in Requests,
           DOMAIN pc' = Requests, DOMAIN results' = Requests, DOMAIN status' = Requests,
           DOMAIN audit' = Requests, DOMAIN executed' = Requests,
           \A q \in Requests \ {r} :
               UNCHANGED <<pc[q], results[q], status[q], audit[q], executed[q]>>,
           WriteInv(r)', ResultsInv(r)', HandlerInv(r)'
    PROVE  CommandInv'
  BY OthersKeep DEF CommandInv

\* A request before the present write has been audited.
LEMMA AcceptStep ==
    ASSUME CommandInv, NEW r \in Requests, Accept(r)
    PROVE  CommandInv'
  <1>1. /\ pc[r] = "new" /\ pc'[r] \in {"rejected", "register", "insert", "failed"}
        /\ \A q \in Requests \ {r} : pc'[q] = pc[q]
        /\ DOMAIN pc' = Requests /\ UNCHANGED <<results, status, audit, executed>>
    BY DEF Accept, Goto, CommandInv
  <1>2. WriteInv(r)' /\ ResultsInv(r)' /\ HandlerInv(r)'
    BY <1>1 DEF CommandInv, WriteInv, ResultsInv, HandlerInv, Untouched, Current, Ended
  <1> QED
    BY <1>1, <1>2, LocalStep DEF CommandInv

LEMMA RegisterStep ==
    ASSUME CommandInv, NEW r \in Requests, NEW o \in Outcomes, Register(r, o)
    PROVE  CommandInv'
  <1>1. /\ pc[r] = "register" /\ pc'[r] \in {"failed", "insert"}
        /\ \A q \in Requests \ {r} : pc'[q] = pc[q]
        /\ DOMAIN pc' = Requests /\ UNCHANGED <<results, status, audit, executed>>
    BY DEF Register, NextOr500, Goto, CommandInv
  <1>2. WriteInv(r)' /\ ResultsInv(r)' /\ HandlerInv(r)'
    BY <1>1 DEF CommandInv, WriteInv, ResultsInv, HandlerInv, Untouched, Current, Ended
  <1> QED
    BY <1>1, <1>2, LocalStep DEF CommandInv

LEMMA InsertStep ==
    ASSUME CommandInv, NEW r \in Requests, NEW o \in Outcomes, InsertAudit(r, o)
    PROVE  CommandInv'
  <1>0. PICK n \in Nat : n = Current(r)
    BY WriteNumbers DEF InsertAudit, CommandInv, ResultsInv, HandlerInv, Ended
  <1>1. /\ pc[r] = "insert" /\ n \in DOMAIN Writes[r] /\ n \in Nat
        /\ Untouched(r, n) /\ DOMAIN audit = Requests
        /\ audit[r] \in [DOMAIN Writes[r] -> {"none", "pending", "ok", "error"}]
        /\ DOMAIN Writes[r] \subseteq Nat
    BY <1>0, WriteNumbers DEF InsertAudit, CommandInv, HandlerInv, ResultsInv, WriteInv, Ended
  <1>2. /\ pc'[r] = (IF o.done THEN "post" ELSE "failed")
        /\ status'[r] = "error" /\ UNCHANGED <<results, executed>>
        /\ DOMAIN pc' = Requests /\ DOMAIN status' = Requests /\ DOMAIN audit' = Requests
        /\ \A q \in Requests \ {r} : pc'[q] = pc[q] /\ status'[q] = status[q] /\ audit'[q] = audit[q]
    BY <1>0 DEF InsertAudit, ForwardIfAudited, NextOr500, Goto, Recorded, CommandInv
  <1>3. /\ o.committed => audit'[r] = [audit[r] EXCEPT ![n] = "pending"]
        /\ ~o.committed => audit'[r] = audit[r]
        /\ o.done => o.committed
    BY <1>0, <1>1 DEF InsertAudit, Recorded, Outcomes
  <1>4. WriteInv(r)'
    BY <1>0, <1>1, <1>2, <1>3 DEF CommandInv, WriteInv, Untouched
  <1>5. ResultsInv(r)'
    BY <1>2 DEF CommandInv, ResultsInv
  <1>6. HandlerInv(r)'
    <2>1. Current(r)' = n
      BY <1>0, <1>2 DEF Current
    <2>2. o.done => audit'[r][n] = "pending" /\ executed'[r][n] = 0
      BY <1>0, <1>1, <1>2, <1>3 DEF Untouched
    <2>3. o.done => Untouched(r, n + 1)'
      <3>1. ASSUME NEW i \in DOMAIN Writes[r], i >= n + 1
            PROVE  audit'[r][i] = "none" /\ executed'[r][i] = 0
        <4>1. i \in Nat /\ n \in Nat /\ i # n /\ i >= n
          BY <1>0, <1>1, <3>1, WriteNumbers
        <4>2. audit[r][i] = "none" /\ executed[r][i] = 0
          BY <1>0, <1>1, <3>1, <4>1 DEF Untouched
        <4> QED
          BY <1>0, <1>1, <1>2, <1>3, <4>1, <4>2
      <3> QED
        BY <3>1 DEF Untouched
    <2> QED
      BY <1>0, <1>1, <1>2, <2>1, <2>2, <2>3 DEF CommandInv, HandlerInv, Ended, Statuses
  <1> QED
    BY <1>2, <1>4, <1>5, <1>6, LocalStep DEF CommandInv

LEMMA PostStep ==
    ASSUME CommandInv, NEW r \in Requests, NEW did \in BOOLEAN, NEW answer \in Answers,
           PostAnswered(r, did, answer)
    PROVE  CommandInv'
  <1>0. PICK n \in Nat : n = Current(r)
    BY WriteNumbers DEF PostAnswered, CommandInv, ResultsInv, HandlerInv, Ended
  <1>1. /\ pc[r] = "post" /\ n \in DOMAIN Writes[r] /\ n \in Nat
        /\ audit[r][n] = "pending" /\ executed[r][n] = 0 /\ Untouched(r, n + 1)
        /\ executed[r] \in [DOMAIN Writes[r] -> {0, 1}]
        /\ DOMAIN Writes[r] \subseteq Nat
    BY <1>0, WriteNumbers DEF PostAnswered, CommandInv, HandlerInv, ResultsInv, WriteInv, Ended
  <1>2. /\ pc'[r] = "update" /\ status'[r] \in Statuses
        /\ status'[r] = "ok" => did
        /\ UNCHANGED <<results, audit>>
        /\ DOMAIN pc' = Requests /\ DOMAIN status' = Requests /\ DOMAIN executed' = Requests
        /\ \A q \in Requests \ {r} :
              pc'[q] = pc[q] /\ status'[q] = status[q] /\ executed'[q] = executed[q]
    BY <1>0 DEF PostAnswered, AfterAnswer, StatusOf, Goto, CommandInv, Statuses
  <1>3. executed'[r] = IF did THEN [executed[r] EXCEPT ![n] = 1] ELSE executed[r]
    BY <1>0, <1>1 DEF PostAnswered, CommandInv
  <1>4. WriteInv(r)'
    BY <1>0, <1>1, <1>2, <1>3 DEF CommandInv, WriteInv
  <1>5. ResultsInv(r)'
    <2>1. ASSUME NEW i \in 1..Len(results[r]), results[r][i] = "ok"
          PROVE  executed'[r][i] = 1
      BY <1>0, <1>1, <1>3, <2>1, WriteNumbers DEF CommandInv, ResultsInv
    <2> QED
      BY <1>2, <2>1 DEF CommandInv, ResultsInv
  <1>6. HandlerInv(r)'
    <2>1. Current(r)' = n
      BY <1>0, <1>2 DEF Current
    <2>2. Untouched(r, n + 1)'
      <3>1. ASSUME NEW i \in DOMAIN Writes[r], i >= n + 1
            PROVE  audit'[r][i] = "none" /\ executed'[r][i] = 0
        <4>1. i \in Nat /\ n \in Nat /\ i # n /\ i >= n
          BY <1>0, <1>1, <3>1, WriteNumbers
        <4>2. audit[r][i] = "none" /\ executed[r][i] = 0
          BY <1>0, <1>1, <3>1, <4>1 DEF Untouched
        <4> QED
          BY <1>0, <1>1, <1>2, <1>3, <4>1, <4>2
      <3> QED
        BY <3>1 DEF Untouched
    <2>3. status'[r] = "ok" => executed'[r][n] = 1
      BY <1>0, <1>1, <1>2, <1>3
    <2> QED
      BY <1>0, <1>1, <1>2, <2>1, <2>2, <2>3 DEF CommandInv, HandlerInv, Ended
  <1> QED
    BY <1>2, <1>4, <1>5, <1>6, LocalStep DEF CommandInv

\* Refusals and logins touch neither the trail nor the gateway.
LEMMA RefusalStep ==
    ASSUME CommandInv, NEW r \in Requests, NEW granted \in BOOLEAN,
           PostUnauthorised(r) \/ PostUnreachable(r) \/ Login(r, granted) \/ LoginRaises(r)
    PROVE  CommandInv'
  <1>1. /\ pc[r] \in {"post", "login"} /\ pc'[r] \in {"post", "login", "update"}
        /\ \A q \in Requests \ {r} : pc'[q] = pc[q]
        /\ DOMAIN pc' = Requests /\ UNCHANGED <<results, status, audit, executed>>
    BY DEF PostUnauthorised, PostUnreachable, Login, LoginRaises, Goto, CommandInv
  <1>2. WriteInv(r)' /\ ResultsInv(r)' /\ HandlerInv(r)'
    <2>1. WriteInv(r)' /\ ResultsInv(r)'
      BY <1>1 DEF CommandInv, WriteInv, ResultsInv
    <2>2. Current(r)' = Current(r) /\ Untouched(r, Current(r) + 1)' = Untouched(r, Current(r) + 1)
      BY <1>1 DEF Current, Untouched
    <2>3. /\ Current(r) \in DOMAIN Writes[r] /\ audit[r][Current(r)] = "pending"
          /\ Untouched(r, Current(r) + 1) /\ executed[r][Current(r)] = 0 /\ status[r] = "error"
      BY <1>1 DEF CommandInv, HandlerInv, Ended
    <2> QED
      BY <1>1, <2>1, <2>2, <2>3 DEF HandlerInv, Ended, Statuses
  <1> QED
    BY <1>1, <1>2, LocalStep DEF CommandInv

LEMMA UpdateStep ==
    ASSUME CommandInv, NEW r \in Requests, NEW o \in Outcomes, UpdateAudit(r, o)
    PROVE  CommandInv'
  <1>0. PICK n \in Nat : n = Current(r)
    BY WriteNumbers DEF UpdateAudit, CommandInv, ResultsInv, HandlerInv, Ended
  <1>1. /\ pc[r] = "update" /\ n \in DOMAIN Writes[r] /\ n \in Nat
        /\ audit[r][n] = "pending" /\ Untouched(r, n + 1) /\ status[r] \in Statuses
        /\ status[r] = "ok" => executed[r][n] = 1
        /\ results[r] \in Seq(Statuses)
        /\ DOMAIN Writes[r] = 1..Len(Writes[r]) /\ Len(Writes[r]) \in Nat
    BY <1>0, WriteNumbers DEF UpdateAudit, CommandInv, HandlerInv, ResultsInv, WriteInv, Ended
  <1>2. /\ UNCHANGED <<status, executed>>
        /\ pc'[r] \in {"failed", "answered", "register"}
        /\ pc'[r] = "register" => o.done /\ n < Len(Writes[r])
        /\ DOMAIN pc' = Requests /\ DOMAIN results' = Requests /\ DOMAIN audit' = Requests
        /\ \A q \in Requests \ {r} :
              pc'[q] = pc[q] /\ results'[q] = results[q] /\ audit'[q] = audit[q]
    BY <1>0 DEF UpdateAudit, NextOr500, MoreWrites, Goto, Updated, Recorded, CommandInv
  <1>3. /\ audit'[r] = IF o.committed THEN [audit[r] EXCEPT ![n] = status[r]] ELSE audit[r]
        /\ results'[r] = IF o.done THEN Append(results[r], status[r]) ELSE results[r]
    BY <1>0 DEF UpdateAudit, Updated, Recorded, CommandInv
  <1>4. WriteInv(r)'
    BY <1>0, <1>1, <1>2, <1>3 DEF CommandInv, WriteInv, Statuses
  <1>5. ResultsInv(r)'
    <2>1. CASE o.done
      <3>1. results'[r] = Append(results[r], status[r]) /\ n = Len(results[r]) + 1
        BY <1>0, <1>3, <2>1 DEF Current
      <3>2. results'[r] \in Seq(Statuses) /\ Len(results'[r]) = n
        BY <1>1, <3>1, AppendProperties
      <3>3. n <= Len(Writes[r])
        BY <1>1
      <3>4. ASSUME NEW i \in 1..n, results'[r][i] = "ok"
            PROVE  executed[r][i] = 1
        <4>1. CASE i = n
          BY <1>1, <3>1, <3>4, <4>1, AppendProperties
        <4>2. CASE i # n
          BY <1>1, <3>1, <3>4, <4>2, AppendProperties DEF CommandInv, ResultsInv
        <4> QED
          BY <4>1, <4>2
      <3> QED
        BY <1>2, <3>2, <3>3, <3>4 DEF ResultsInv
    <2>2. CASE ~o.done
      BY <1>2, <1>3, <2>2 DEF CommandInv, ResultsInv
    <2> QED
      BY <2>1, <2>2
  <1>6. HandlerInv(r)'
    <2>1. o.done => Current(r)' = n + 1
      <3>1. CASE o.done
        BY <1>0, <1>1, <1>3, <3>1, AppendProperties DEF Current
      <3>2. CASE ~o.done
        BY <1>0, <1>1, <1>3, <3>2
      <3> QED
        BY <3>1, <3>2
    <2>2. Untouched(r, n + 1)'
      <3>1. ASSUME NEW i \in DOMAIN Writes[r], i >= n + 1
            PROVE  audit'[r][i] = "none" /\ executed'[r][i] = 0
        <4>1. i \in Nat /\ n \in Nat /\ i # n /\ i >= n
          BY <1>0, <1>1, <3>1, WriteNumbers
        <4>2. audit[r][i] = "none" /\ executed[r][i] = 0
          BY <1>0, <1>1, <3>1, <4>1 DEF Untouched
        <4> QED
          BY <1>0, <1>1, <1>2, <1>3, <4>1, <4>2
      <3> QED
        BY <3>1 DEF Untouched
    <2>3. CASE pc'[r] = "register"
      <3>1. Current(r)' = n + 1 /\ n + 1 \in DOMAIN Writes[r]
        BY <1>0, <1>1, <1>2, <2>1, <2>3, WriteNumbers
      <3> QED
        BY <1>0, <1>1, <1>2, <2>1, <2>2, <2>3, <3>1 DEF HandlerInv, Ended
    <2>4. CASE pc'[r] \in {"failed", "answered"}
      BY <1>0, <1>1, <1>2, <2>1, <2>4 DEF HandlerInv, Ended
    <2> QED
      BY <1>2, <2>3, <2>4
  <1> QED
    BY <1>2, <1>4, <1>5, <1>6, LocalStep DEF CommandInv

\* A crash only ends handlers.
LEMMA CrashStep ==
    ASSUME CommandInv, Crash
    PROVE  CommandInv'
  <1>1. /\ UNCHANGED <<results, status, audit, executed>> /\ DOMAIN pc' = Requests
        /\ \A r \in Requests : pc'[r] = pc[r] \/ pc'[r] = "crashed"
    BY DEF Crash, CommandInv
  <1>2. ASSUME NEW r \in Requests PROVE WriteInv(r)' /\ ResultsInv(r)' /\ HandlerInv(r)'
    BY <1>1 DEF CommandInv, WriteInv, ResultsInv, HandlerInv, Untouched, Current, Ended
  <1> QED
    BY <1>1, <1>2 DEF CommandInv

LEMMA CommandStep == CommandInv /\ [Next]_vars => CommandInv'
  <1> SUFFICES ASSUME CommandInv, [Next]_vars PROVE CommandInv'
    OBVIOUS
  <1>1. ASSUME UNCHANGED <<pc, results, status, audit, executed>> PROVE CommandInv'
    BY <1>1, OthersKeep DEF CommandInv
  <1>2. CASE TokenExpires
    BY <1>1, <1>2 DEF TokenExpires, locals
  <1>3. CASE UNCHANGED vars
    BY <1>1, <1>3 DEF vars, locals
  <1> QED
    BY <1>2, <1>3, AcceptStep, RegisterStep, InsertStep, PostStep, RefusalStep, UpdateStep, CrashStep
    DEF Next, Handle

\* Whatever fails and whenever the process dies: no command is carried out without
\* an audit row, none is carried out twice for one row, and no row
\* and no batch says "ok" of a command that was not carried out.
THEOREM AuditTrailSound ==
    Spec => [](AuditedBeforeExecuted /\ ExecutedAtMostOnce /\ OkMeansExecuted)
  <1>1. CommandInv => AuditedBeforeExecuted /\ ExecutedAtMostOnce
    BY DEF CommandInv, WriteInv, AuditedBeforeExecuted, ExecutedAtMostOnce
  <1>2. CommandInv => OkMeansExecuted
    <2> SUFFICES ASSUME CommandInv, NEW r \in Requests, NEW i \in DOMAIN Writes[r]
                 PROVE  /\ audit[r][i] = "ok" => executed[r][i] = 1
                        /\ BatchOk(r) => executed[r][i] = 1
      BY DEF OkMeansExecuted
    <2>1. audit[r][i] = "ok" => executed[r][i] = 1
      BY DEF CommandInv, WriteInv
    <2>2. ASSUME BatchOk(r) PROVE executed[r][i] = 1
      BY <2>2, WriteNumbers, LenProperties DEF BatchOk, CommandInv, ResultsInv
    <2> QED
      BY <2>1, <2>2
  <1> QED
    BY <1>1, <1>2, CommandInit, CommandStep, PTL DEF Spec

\* Nothing is carried out that has no audit row.
THEOREM NothingUnaudited == Spec => []AuditedBeforeExecuted
  BY AuditTrailSound, PTL

\* What a row, a result or a batch calls "ok" has been carried out.
THEOREM OkIsTrue == Spec => []OkMeansExecuted
  BY AuditTrailSound, PTL

-----------------------------------------------------------------------------
(* What the client is told, and where a batch stops. The rows of the writes *)
(* that have a result say the same as the results; they are all "ok" while  *)
(* a batch that stops at an error is still running.                         *)

\* The rows of the finished writes say what their results say.
Told(r) == \A i \in 1..Len(results[r]) : audit[r][i] = results[r][i]

\* BatchStopsAtError of one request.
Stops(r) ==
    \A i \in DOMAIN Writes[r] : audit[r][i] # "none" =>
        \A j \in 1..(i - 1) : audit[r][j] = "ok"

TrailInv(r) ==
    /\ Told(r)
    /\ pc[r] = "answered" => Untouched(r, Current(r))
    /\ ~continueOnError[r] =>
          /\ pc[r] \notin Ended => \A i \in 1..Len(results[r]) : results[r][i] = "ok"
          /\ Stops(r)

ReplyInv == \A r \in Requests : TrailInv(r)

LEMMA ReplyInit == Init => ReplyInv
  <1> SUFFICES ASSUME Init, NEW r \in Requests PROVE TrailInv(r)
    BY DEF ReplyInv
  <1>1. results[r] = <<>> /\ Len(results[r]) = 0 /\ pc[r] = "new"
    BY EmptySeq DEF Init
  <1>2. \A i \in DOMAIN Writes[r] : audit[r][i] = "none"
    BY DEF Init
  <1> QED
    BY <1>1, <1>2 DEF TrailInv, Told, Stops

\* A step that leaves the rows and the results of a handler alone and does not
\* answer its client.
LEMMA QuietTrail ==
    ASSUME NEW r \in Requests, TrailInv(r),
           UNCHANGED <<continueOnError[r], results[r], audit[r], executed[r]>>,
           pc'[r] = pc[r] \/ (pc'[r] # "answered" /\ (pc[r] \in Ended => pc'[r] \in Ended))
    PROVE  TrailInv(r)'
  BY DEF TrailInv, Told, Stops, Untouched, Current, Ended

LEMMA InsertTrail ==
    ASSUME CommandInv, NEW r \in Requests, NEW o \in Outcomes, InsertAudit(r, o), TrailInv(r)
    PROVE  TrailInv(r)'
  <1>0. PICK n \in Nat : n = Current(r)
    BY WriteNumbers DEF InsertAudit, CommandInv, ResultsInv, HandlerInv, Ended
  <1>1. /\ pc[r] = "insert" /\ n \in DOMAIN Writes[r] /\ n = Len(results[r]) + 1
        /\ Len(results[r]) \in Nat /\ Untouched(r, n)
        /\ audit[r] \in [DOMAIN Writes[r] -> {"none", "pending", "ok", "error"}]
        /\ DOMAIN Writes[r] \subseteq Nat
    BY <1>0, WriteNumbers, LenProperties
    DEF InsertAudit, CommandInv, HandlerInv, ResultsInv, WriteInv, Ended, Current
  <1>2. /\ pc'[r] \in {"post", "failed"} /\ UNCHANGED <<results, continueOnError>>
        /\ audit'[r] \in {audit[r], [audit[r] EXCEPT ![n] = "pending"]}
    BY <1>0 DEF InsertAudit, ForwardIfAudited, NextOr500, Goto, Recorded, CommandInv
  <1>kept. \A j \in 1..Len(results[r]) : audit'[r][j] = audit[r][j]
    <2>1. Len(results[r]) <= Len(Writes[r]) /\ 1..Len(results[r]) \subseteq DOMAIN Writes[r]
      BY WriteNumbers, LenProperties, <1>1 DEF CommandInv, ResultsInv
    <2> QED
      BY <1>1, <1>2, <2>1
  <1>3. Told(r)'
    BY <1>2, <1>kept DEF TrailInv, Told
  <1>4. ASSUME ~continueOnError[r]
        PROVE  Stops(r)'
    <2> SUFFICES ASSUME NEW i \in DOMAIN Writes[r], audit'[r][i] # "none", NEW j \in 1..(i - 1)
                 PROVE  audit'[r][j] = "ok"
      BY DEF Stops
    <2>1. i <= n
      BY <1>1, <1>2 DEF Untouched
    <2>2. j \in 1..Len(results[r])
      BY <1>1, <2>1
    <2>3. audit[r][j] = "ok"
      BY <1>1, <1>4, <2>2 DEF TrailInv, Told, Ended
    <2> QED
      BY <1>kept, <2>2, <2>3
  <1> QED
    BY <1>1, <1>2, <1>3, <1>4 DEF TrailInv, Ended

LEMMA UpdateTrail ==
    ASSUME CommandInv, NEW r \in Requests, NEW o \in Outcomes, UpdateAudit(r, o), TrailInv(r)
    PROVE  TrailInv(r)'
  <1>0. PICK n \in Nat : n = Current(r)
    BY WriteNumbers DEF UpdateAudit, CommandInv, ResultsInv, HandlerInv, Ended
  <1>1. /\ pc[r] = "update" /\ n \in DOMAIN Writes[r] /\ n = Len(results[r]) + 1
        /\ Len(results[r]) \in Nat /\ results[r] \in Seq(Statuses)
        /\ Untouched(r, n + 1) /\ status[r] \in Statuses
        /\ audit[r] \in [DOMAIN Writes[r] -> {"none", "pending", "ok", "error"}]
        /\ DOMAIN Writes[r] \subseteq Nat
    BY <1>0, WriteNumbers, LenProperties
    DEF UpdateAudit, CommandInv, HandlerInv, ResultsInv, WriteInv, Ended, Current
  <1>2. /\ UNCHANGED <<status, executed, continueOnError>>
        /\ pc'[r] \in {"failed", "answered", "register"}
        /\ pc'[r] # "failed" => o.done
        /\ pc'[r] = "register" => status[r] = "ok" \/ continueOnError[r]
        /\ o.done => o.committed
    BY <1>0 DEF UpdateAudit, NextOr500, MoreWrites, Goto, CommandInv, Outcomes
  <1>3. /\ audit'[r] = IF o.committed THEN [audit[r] EXCEPT ![n] = status[r]] ELSE audit[r]
        /\ results'[r] = IF o.done THEN Append(results[r], status[r]) ELSE results[r]
    BY <1>0 DEF UpdateAudit, Updated, Recorded, CommandInv
  <1>4. /\ \A j \in 1..Len(results[r]) : audit'[r][j] = audit[r][j]
        /\ o.committed => audit'[r][n] = status[r]
        /\ \A i \in DOMAIN Writes[r] : i # n => audit'[r][i] = audit[r][i]
    <2>1. Len(results[r]) <= Len(Writes[r]) /\ 1..Len(results[r]) \subseteq DOMAIN Writes[r]
      BY WriteNumbers, LenProperties, <1>1 DEF CommandInv, ResultsInv
    <2> QED
      BY <1>1, <1>3, <2>1
  <1>5. o.done => /\ Len(results'[r]) = n /\ results'[r][n] = status[r]
                  /\ \A j \in 1..Len(results[r]) : results'[r][j] = results[r][j]
    <2> SUFFICES ASSUME o.done
                 PROVE  /\ Len(results'[r]) = n /\ results'[r][n] = status[r]
                        /\ \A j \in 1..Len(results[r]) : results'[r][j] = results[r][j]
      OBVIOUS
    <2>1. results'[r] = Append(results[r], status[r])
      BY <1>3
    <2> QED
      BY <1>1, <2>1, AppendProperties
  <1>6. Told(r)'
    <2>1. CASE o.done
      <3> SUFFICES ASSUME NEW j \in 1..n PROVE audit'[r][j] = results'[r][j]
        BY <1>5, <2>1 DEF Told
      <3>1. CASE j = n
        BY <1>2, <1>4, <1>5, <2>1, <3>1
      <3>2. CASE j # n
        <4>1. j \in 1..Len(results[r])
          BY <1>1, <3>2
        <4> QED
          BY <1>4, <1>5, <2>1, <4>1 DEF TrailInv, Told
      <3> QED
        BY <3>1, <3>2
    <2>2. CASE ~o.done
      BY <1>3, <1>4, <2>2 DEF TrailInv, Told
    <2> QED
      BY <2>1, <2>2
  <1>7. ASSUME pc'[r] = "answered" PROVE Untouched(r, Current(r))'
    <2>1. o.done /\ Current(r)' = n + 1
      BY <1>1, <1>2, <1>5, <1>7 DEF Current
    <2>2. ASSUME NEW i \in DOMAIN Writes[r], i >= n + 1
          PROVE  audit'[r][i] = "none" /\ executed'[r][i] = 0
      <3>1. i # n
        BY <1>1, <2>2
      <3> QED
        BY <1>1, <1>2, <1>4, <2>2, <3>1 DEF Untouched
    <2> QED
      BY <2>1, <2>2 DEF Untouched
  <1>8. ASSUME ~continueOnError[r]
        PROVE  \A i \in 1..Len(results[r]) : results[r][i] = "ok" /\ audit'[r][i] = "ok"
    BY <1>1, <1>4, <1>8 DEF TrailInv, Told, Ended
  <1>9. ASSUME ~continueOnError[r], pc'[r] = "register"
        PROVE  \A i \in 1..Len(results'[r]) : results'[r][i] = "ok"
    <2> SUFFICES ASSUME NEW i \in 1..n PROVE results'[r][i] = "ok"
      BY <1>2, <1>5, <1>9
    <2>1. o.done /\ status[r] = "ok"
      BY <1>2, <1>9
    <2>2. i = n \/ i \in 1..Len(results[r])
      BY <1>1
    <2> QED
      BY <1>5, <1>8, <1>9, <2>1, <2>2
  <1>10. ASSUME ~continueOnError[r] PROVE Stops(r)'
    <2> SUFFICES ASSUME NEW i \in DOMAIN Writes[r], audit'[r][i] # "none", NEW j \in 1..(i - 1)
                 PROVE  audit'[r][j] = "ok"
      BY DEF Stops
    <2>1. i <= n
      <3>1. ASSUME i > n PROVE FALSE
        BY <1>1, <1>4, <3>1 DEF Untouched
      <3> QED
        BY <1>1, <3>1
    <2>2. j \in 1..Len(results[r])
      BY <1>1, <2>1
    <2> QED
      BY <1>8, <1>10, <2>2
  <1> QED
    BY <1>2, <1>6, <1>7, <1>9, <1>10 DEF TrailInv, Ended

\* The other steps of a handler, and a crash.
LEMMA QuietStep ==
    ASSUME CommandInv, NEW r \in Requests,
           \/ Accept(r)
           \/ \E o \in Outcomes : Register(r, o)
           \/ \E did \in BOOLEAN, answer \in Answers : PostAnswered(r, did, answer)
           \/ PostUnauthorised(r) \/ PostUnreachable(r)
           \/ \E granted \in BOOLEAN : Login(r, granted)
           \/ LoginRaises(r),
           TrailInv(r)
    PROVE  TrailInv(r)'
  <1>1. /\ UNCHANGED <<continueOnError, results, audit>>
        /\ pc[r] \notin Ended /\ pc'[r] # "answered"
    BY DEF Accept, Register, PostAnswered, PostUnauthorised, PostUnreachable, Login, LoginRaises,
           AfterAnswer, NextOr500, Goto, CommandInv, Ended
  <1> QED
    BY <1>1 DEF TrailInv, Told, Stops

\* A step of one handler leaves the replies of the others alone.
LEMMA OtherTrails ==
    ASSUME CommandInv, NEW r \in Requests, Handle(r), NEW q \in Requests \ {r}, TrailInv(q)
    PROVE  TrailInv(q)'
  <1>1. UNCHANGED <<continueOnError[q], results[q], audit[q], executed[q], pc[q]>>
    BY DEF Handle, Accept, Register, InsertAudit, UpdateAudit, PostAnswered, PostUnauthorised,
           PostUnreachable, Login, LoginRaises, AfterAnswer, ForwardIfAudited, NextOr500, Goto,
           Recorded, Updated, CommandInv
  <1> QED
    BY <1>1, QuietTrail

LEMMA ReplyStep == CommandInv /\ ReplyInv /\ [Next]_vars => ReplyInv'
  <1> SUFFICES ASSUME CommandInv, ReplyInv, [Next]_vars, NEW r \in Requests PROVE TrailInv(r)'
    BY DEF ReplyInv
  <1>0. TrailInv(r)
    BY DEF ReplyInv
  <1>1. CASE Handle(r)
    BY <1>0, <1>1, InsertTrail, UpdateTrail, QuietStep DEF Handle
  <1>2. ASSUME NEW q \in Requests, q # r, Handle(q) PROVE TrailInv(r)'
    BY <1>0, <1>2, OtherTrails
  <1>3. CASE Crash
    <2>1. /\ UNCHANGED <<continueOnError, results, audit, executed>>
          /\ pc'[r] = pc[r] \/ pc'[r] = "crashed"
      BY <1>3 DEF Crash
    <2> QED
      BY <1>0, <2>1, QuietTrail DEF Ended
  <1>4. CASE TokenExpires \/ UNCHANGED vars
    BY <1>0, <1>4, QuietTrail DEF TokenExpires, vars, locals
  <1> QED
    BY <1>1, <1>2, <1>3, <1>4 DEF Next

LEMMA ReplyInvariant == Spec => [](CommandInv /\ ReplyInv)
  BY CommandInit, CommandStep, ReplyInit, ReplyStep, PTL DEF Spec

\* The reply says of every write what its row says, and of the writes it does not
\* mention there is no row.
THEOREM ReplyIsTrail == Spec => []ReplyMatchesAudit
  <1>1. CommandInv /\ ReplyInv => ReplyMatchesAudit
    <2> SUFFICES ASSUME CommandInv, ReplyInv, NEW r \in Requests, pc[r] = "answered",
                        NEW i \in DOMAIN Writes[r]
                 PROVE  audit[r][i] = IF i <= Len(results[r]) THEN results[r][i] ELSE "none"
      BY DEF ReplyMatchesAudit
    <2>1. Len(results[r]) \in Nat /\ i \in Nat \ {0}
      BY WriteNumbers, LenProperties DEF CommandInv, ResultsInv
    <2>2. CASE i <= Len(results[r])
      BY <2>1, <2>2 DEF ReplyInv, TrailInv, Told
    <2>3. CASE ~(i <= Len(results[r]))
      BY <2>1, <2>3 DEF ReplyInv, TrailInv, Untouched, Current
    <2> QED
      BY <2>2, <2>3
  <1> QED
    BY <1>1, ReplyInvariant, PTL

\* A batch that is to stop at an error has reached no write behind one.
THEOREM BatchesStop == Spec => []BatchStopsAtError
  <1>1. ReplyInv => BatchStopsAtError
    BY DEF ReplyInv, TrailInv, Stops, BatchStopsAtError
  <1> QED
    BY <1>1, ReplyInvariant, PTL

-----------------------------------------------------------------------------
(* The trail is append-only: a handler inserts the row of a write it has not *)
(* touched and gives a result to a row that is still pending.                *)

RowKept(r, i) ==
    /\ audit[r][i] # "none" => audit'[r][i] # "none"
    /\ audit[r][i] \in Statuses => audit'[r][i] = audit[r][i]

LEMMA InsertKeepsRows ==
    ASSUME CommandInv, NEW r \in Requests, NEW o \in Outcomes, InsertAudit(r, o),
           NEW q \in Requests, NEW i \in DOMAIN Writes[q]
    PROVE  RowKept(q, i)
  <1>0. PICK n \in Nat : n = Current(r)
    BY WriteNumbers DEF InsertAudit, CommandInv, ResultsInv, HandlerInv, Ended
  <1>1. n \in DOMAIN Writes[r] /\ audit[r][n] = "none"
    BY <1>0 DEF InsertAudit, CommandInv, HandlerInv, Untouched, Ended
  <1>2. audit' = IF o.committed THEN [audit EXCEPT ![r][n] = "pending"] ELSE audit
    BY <1>0 DEF InsertAudit, Recorded
  <1> QED
    BY <1>1, <1>2 DEF CommandInv, WriteInv, RowKept, Statuses

LEMMA UpdateKeepsRows ==
    ASSUME CommandInv, NEW r \in Requests, NEW o \in Outcomes, UpdateAudit(r, o),
           NEW q \in Requests, NEW i \in DOMAIN Writes[q]
    PROVE  RowKept(q, i)
  <1>0. PICK n \in Nat : n = Current(r)
    BY WriteNumbers DEF UpdateAudit, CommandInv, ResultsInv, HandlerInv, Ended
  <1>1. n \in DOMAIN Writes[r] /\ audit[r][n] = "pending" /\ status[r] \in Statuses
    BY <1>0 DEF UpdateAudit, CommandInv, HandlerInv, Ended
  <1>2. audit' = IF o.committed THEN [audit EXCEPT ![r][n] = status[r]] ELSE audit
    BY <1>0 DEF UpdateAudit, Updated, Recorded
  <1> QED
    BY <1>1, <1>2 DEF CommandInv, WriteInv, RowKept, Statuses

\* Whatever the handlers do concurrently, whatever fails and whenever the process
\* dies: no row disappears, and a row with a result never changes again.
THEOREM TrailOnlyGrows == Spec => AuditIsAppendOnly
  <1>1. CommandInv /\ [Next]_vars =>
          [\A r \in Requests : \A i \in DOMAIN Writes[r] :
              /\ audit[r][i] # "none" => audit'[r][i] # "none"
              /\ audit[r][i] \in {"ok", "error"} => audit'[r][i] = audit[r][i]]_vars
    <2> SUFFICES ASSUME CommandInv, Next, NEW r \in Requests, NEW i \in DOMAIN Writes[r]
                 PROVE  RowKept(r, i)
      BY DEF RowKept, Statuses
    <2>1. ASSUME UNCHANGED audit PROVE RowKept(r, i)
      BY <2>1 DEF RowKept
    <2>2. ASSUME NEW q \in Requests, Handle(q) PROVE RowKept(r, i)
      <3>1. CASE \E o \in Outcomes : InsertAudit(q, o)
        BY <3>1, InsertKeepsRows
      <3>2. CASE \E o \in Outcomes : UpdateAudit(q, o)
        BY <3>2, UpdateKeepsRows
      <3>3. UNCHANGED audit \/ (\E o \in Outcomes : InsertAudit(q, o) \/ UpdateAudit(q, o))
        BY <2>2
        DEF Handle, Accept, Register, PostAnswered, PostUnauthorised, PostUnreachable, Login,
            LoginRaises
      <3> QED
        BY <2>1, <3>1, <3>2, <3>3
    <2> QED
      BY <2>1, <2>2 DEF Next, TokenExpires, Crash
  <1> QED
    BY <1>1, CommandInit, CommandStep, PTL DEF Spec, AuditIsAppendOnly
=============================================================================
