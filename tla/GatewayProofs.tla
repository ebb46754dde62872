--------------------------- MODULE GatewayProofs ---------------------------
(***************************************************************************)
(* Theorems about Gateway: its types, the lock, the order in which the     *)
(* spans of a request are accounted for, the verdicts of a life, the lines *)
(* of the file, and the refinement of AuditTrail.                          *)
(***************************************************************************)
EXTENDS Gateway, TLAPS, FiniteSetTheorems

IInv == TypeOK /\ TimelineLocked /\ HandlersInOrder

-----------------------------------------------------------------------------
(* What the steps of appendSpan do to the account.                         *)

(* Steps that leave the file alone leave the account alone.                *)
LEMMA FileUnchanged ==
  ASSUME UNCHANGED <<lines, tail, dropped>>
  PROVE  \A s : Accounted(s)' <=> Accounted(s)
BY DEF Accounted, InTrail, OnLine

(* Moving the tail to the complete lines neither adds nor removes a span.  *)
LEMMA NewlineKeepsTrail ==
  ASSUME TypeOK, lines' = Append(lines, tail), tail' = <<>>
  PROVE  \A s : InTrail(s)' <=> InTrail(s)
<1>1. lines \in Seq(Seq(Cells)) /\ tail \in Seq(Cells)
  BY DEF TypeOK
<1>2. /\ DOMAIN lines' = 1..(Len(lines) + 1)
      /\ \A i \in DOMAIN lines : lines'[i] = lines[i]
      /\ lines'[Len(lines) + 1] = tail
      /\ DOMAIN lines = 1..Len(lines)
  BY <1>1
<1>3. DOMAIN tail' = {}
  OBVIOUS
<1>. QED
  BY <1>1, <1>2, <1>3 DEF InTrail, OnLine

(* A cell written to the file is the only one it gains.                    *)
LEMMA CellJoinsTail ==
  ASSUME TypeOK, NEW c, tail' = Append(tail, c), lines' = lines
  PROVE  \A s : InTrail(s)' <=> (InTrail(s) \/ s = c)
<1>1. tail \in Seq(Cells)
  BY DEF TypeOK
<1>2. /\ DOMAIN tail' = 1..(Len(tail) + 1)
      /\ \A i \in DOMAIN tail : tail'[i] = tail[i]
      /\ tail'[Len(tail) + 1] = c
      /\ DOMAIN tail = 1..Len(tail)
      /\ Len(tail) \in Nat
  BY <1>1
<1>3. ASSUME NEW s PROVE OnLine(tail, s)' <=> (OnLine(tail, s) \/ s = c)
  BY <1>2 DEF OnLine
<1>. QED
  BY <1>3 DEF InTrail, OnLine

LEMMA TornIsNoSpan == Torn \notin Spans
BY DEF Torn, Spans, RequestKinds, FallbackKinds

(* One step inside appendSpan: until it is over the span is not in the     *)
(* account, then it is; nothing else enters, nothing leaves.               *)
LEMMA AppendEffect ==
  ASSUME TypeOK, NEW w \in Writers, AcquireTimeline(w) \/ AppendStep(w)
  PROVE  /\ io[w] # "none"
         /\ \E x \in {"none", "open", "write", "newline"} :
              io' = [io EXCEPT ![w] = x]
         /\ Appended(w) => Appended(w)'
         /\ \A s \in Spans : Accounted(s)' <=>
              (Accounted(s) \/ (s = pending[w] /\ Appended(w)' /\ ~Appended(w)))
         /\ UNCHANGED <<processVars, handlerVars, pending, beats>>
<1>0. io \in [Writers -> {"none", "wait", "open", "write", "newline"}]
  BY DEF TypeOK
<1>1. CASE AcquireTimeline(w)
  BY <1>0, <1>1, FileUnchanged DEF AcquireTimeline, Appended, fileVars
<1>2. CASE OpenTimeline(w)
  BY <1>0, <1>2, FileUnchanged DEF OpenTimeline, Appended, fileVars
<1>3. CASE OpenFails(w)
  <2>1. \A s : Accounted(s)' <=> (Accounted(s) \/ s = pending[w])
    BY <1>3 DEF OpenFails, Accounted, InTrail, OnLine
  <2>. QED
    BY <1>0, <1>3, <2>1 DEF OpenFails, Return, Appended
<1>4. CASE WriteSpan(w)
  <2>1. \A s : Accounted(s)' <=> (Accounted(s) \/ s = pending[w])
    BY <1>4, CellJoinsTail DEF WriteSpan, Accounted
  <2>. QED
    BY <1>0, <1>4, <2>1 DEF WriteSpan, Appended
<1>5. CASE WriteFails(w)
  <2>1. \A s \in Spans : InTrail(s)' <=> InTrail(s)
    <3>1. CASE tail' = tail
      BY <1>5, <3>1 DEF WriteFails, InTrail, OnLine
    <3>2. CASE tail' = Append(tail, Torn)
      BY <1>5, <3>2, CellJoinsTail, TornIsNoSpan DEF WriteFails
    <3>. QED
      BY <1>5, <3>1, <3>2 DEF WriteFails
  <2>2. \A s \in Spans : Accounted(s)' <=> (Accounted(s) \/ s = pending[w])
    BY <1>5, <2>1 DEF WriteFails, Accounted
  <2>. QED
    BY <1>0, <1>5, <2>2 DEF WriteFails, Appended
<1>6. CASE WriteNewline(w)
  <2>1. \A s : Accounted(s)' <=> Accounted(s)
    BY <1>6, NewlineKeepsTrail DEF WriteNewline, Accounted
  <2>. QED
    BY <1>0, <1>6, <2>1 DEF WriteNewline, Return, Appended
<1>7. CASE NewlineFails(w)
  BY <1>0, <1>7, FileUnchanged DEF NewlineFails, Return, Appended
<1>. QED
  BY <1>1, <1>2, <1>3, <1>4, <1>5, <1>6, <1>7 DEF AppendStep

-----------------------------------------------------------------------------
(* The invariant holds initially.                                          *)

LEMMA InitInvariant == Init => IInv
<1>. SUFFICES ASSUME Init PROVE IInv
  OBVIOUS
<1>1. TypeOK
  <2>1. lines \in Seq(Seq(Cells)) /\ tail \in Seq(Cells)
    BY DEF Init
  <2>2. 0 \in 0..MaxLives /\ 0 \in 0..MaxBeats /\ Torn \in Cells /\ ShortPath \in Asks
    BY GatewayAssumption DEF Cells, Asks
  <2>. QED
    BY <2>1, <2>2 DEF Init, TypeOK
<1>2. TimelineLocked
  BY GatewayAssumption DEF Init, TimelineLocked
<1>3. \A s : ~Accounted(s)
  BY DEF Init, Accounted, InTrail, OnLine
<1>4. HandlersInOrder
  BY <1>3 DEF Init, HandlersInOrder, HeartbeatOK, HandlerOK, Of, Writers, RequestKinds
<1>. QED
  BY <1>1, <1>2, <1>4 DEF IInv

-----------------------------------------------------------------------------
(* Types.                                                                  *)

(* The span a fallback writes tells the reason of the answer.              *)
LEMMA FallbackIsPending ==
  ASSUME HandlersInOrder, NEW r \in Requests, pc[r] = "fallback"
  PROVE  pending[r].kind \in FallbackKinds /\ pending[r] = Span(pending[r].kind, r)
<1>1. PICK k \in FallbackKinds : pending[r] = Span(k, r)
  BY DEF HandlersInOrder, HandlerOK
<1>. QED
  BY <1>1 DEF Span

LEMMA TypeStep == IInv /\ [Next]_vars => TypeOK'
<1>. SUFFICES ASSUME IInv, [Next]_vars PROVE TypeOK'
  OBVIOUS
<1>. USE DEF IInv
<1>a. /\ Requests \subseteq Writers /\ Heartbeat \in Writers
      /\ \A r \in Requests, k \in RequestKinds : Span(k, r) \in Cells
      /\ Torn \in Cells
      /\ \A n \in 1..MaxBeats : Span("heartbeat", n) \in Cells
  BY DEF Writers, Cells, Spans, Span
<1>1. CASE Start
  BY <1>1, GatewayAssumption DEF Start, loadConfig, TypeOK, handlerVars, appendVars, fileVars
<1>2. CASE Crash
  <2>1. pc' \in [Requests -> {"idle", "route", "deny", "record", "read", "exec", "run",
                             "fallback", "done", "lost"}]
    BY <1>2 DEF Crash, TypeOK
  <2>2. /\ up' \in BOOLEAN /\ lock' \in Writers \cup {Nobody}
        /\ io' \in [Writers -> {"none", "wait", "open", "write", "newline"}]
    BY <1>2 DEF Crash
  <2>3. damage' \in {damage, damage + 1}
    BY <1>2 DEF Crash
  <2>4. damage' \in Nat
    BY <2>3 DEF TypeOK
  <2>. QED
    BY <1>2, <2>1, <2>2, <2>4 DEF Crash, TypeOK
<1>3. CASE Beat
  <2>1. beats' \in 1..MaxBeats
    BY <1>3, GatewayAssumption DEF Beat, TypeOK
  <2>. QED
    BY <1>3, <2>1, <1>a DEF Beat, Begin, TypeOK, handlerVars, fileVars, processVars
<1>4. ASSUME NEW w \in Writers, AcquireTimeline(w) \/ AppendStep(w) PROVE TypeOK'
  <2>0. /\ \E x \in {"none", "open", "write", "newline"} : io' = [io EXCEPT ![w] = x]
        /\ UNCHANGED <<processVars, handlerVars, pending, beats>>
    BY <1>4, AppendEffect
  <2>1. io' \in [Writers -> {"none", "wait", "open", "write", "newline"}]
    BY <2>0 DEF TypeOK
  <2>2. lock' \in Writers \cup {Nobody}
    BY <1>4 DEF TypeOK, AcquireTimeline, AppendStep, OpenTimeline, OpenFails, WriteSpan,
                WriteFails, WriteNewline, NewlineFails, Return
  <2>3. lines' \in Seq(Seq(Cells)) /\ tail' \in Seq(Cells)
    <3>. lines \in Seq(Seq(Cells)) /\ tail \in Seq(Cells) /\ pending[w] \in Cells
      BY DEF TypeOK
    <3>. QED
      <4>1. Append(tail, pending[w]) \in Seq(Cells) /\ Append(tail, Torn) \in Seq(Cells)
            /\ Append(lines, tail) \in Seq(Seq(Cells)) /\ <<>> \in Seq(Cells)
        BY <1>a
      <4>. QED
        BY <1>4, <4>1 DEF AcquireTimeline, AppendStep, OpenTimeline, OpenFails, WriteSpan,
                WriteFails, WriteNewline, NewlineFails, fileVars
  <2>4. dropped' \in SUBSET Cells /\ damage' \in Nat
    BY <1>4 DEF TypeOK, AcquireTimeline, AppendStep, OpenTimeline, OpenFails, WriteSpan,
                WriteFails, WriteNewline, NewlineFails, fileVars
  <2>. QED
    BY <2>0, <2>1, <2>2, <2>3, <2>4 DEF TypeOK, processVars, handlerVars
<1>5. ASSUME NEW r \in Requests, Connect(r) PROVE TypeOK'
  BY <1>5 DEF Connect, Goto, TypeOK, processVars, appendVars, fileVars
<1>6. ASSUME NEW r \in Requests, HandlerStep(r) PROVE TypeOK'
  <2>. USE <1>a DEF TypeOK, processVars, appendVars, fileVars, Goto, Reply, Log, Begin,
                    fallback, RequestKinds, FallbackKinds, Answers
  <2>1. CASE RejectPath(r)    BY <2>1 DEF RejectPath
  <2>2. CASE Deny(r)          BY <2>2 DEF Deny
  <2>3. CASE Forbid(r)        BY <2>3 DEF Forbid
  <2>4. CASE Admit(r)         BY <2>4 DEF Admit
  <2>5. CASE FindScript(r)    BY <2>5 DEF FindScript
  <2>6. CASE MissScript(r)    BY <2>6 DEF MissScript
  <2>7. CASE ReadBody(r)      BY <2>7 DEF ReadBody
  <2>8. CASE StartScript(r)   BY <2>8 DEF StartScript
  <2>9. CASE StartFails(r)    BY <2>9 DEF StartFails
  <2>10. CASE ReplyFallback(r)
    <3>1. pending[r].kind \in FallbackKinds
      BY <2>10, FallbackIsPending DEF ReplyFallback
    <3>. QED
      BY <2>10, <3>1 DEF ReplyFallback
  <2>. QED
    BY <1>6, <2>1, <2>2, <2>3, <2>4, <2>5, <2>6, <2>7, <2>8, <2>9, <2>10 DEF HandlerStep
<1>7. ASSUME NEW r \in Requests, ScriptExits(r) PROVE TypeOK'
  <2>. USE <1>a DEF TypeOK, processVars, appendVars, fileVars, Goto, Reply, Log, Begin,
                    fallback, RequestKinds, FallbackKinds, Answers
  <2>1. CASE ScriptSucceeds(r)  BY <2>1 DEF ScriptSucceeds
  <2>2. CASE ScriptFails(r)     BY <2>2 DEF ScriptFails
  <2>. QED
    BY <1>7, <2>1, <2>2 DEF ScriptExits
<1>8. CASE UNCHANGED vars
  BY <1>8 DEF vars, TypeOK, processVars, handlerVars, appendVars, fileVars
<1>. QED
  BY <1>1, <1>2, <1>3, <1>4, <1>5, <1>6, <1>7, <1>8 DEF Next

-----------------------------------------------------------------------------
(* The lock.                                                               *)

(* A caller that is not inside the critical section may begin or wait      *)
(* without touching the lock.                                              *)
LEMMA BeginKeepsLock ==
  ASSUME TypeOK, TimelineLocked, NEW w \in Writers, NEW s, Begin(w, s)
  PROVE  TimelineLocked'
BY DEF Begin, TimelineLocked, TypeOK

LEMMA LockStep == IInv /\ [Next]_vars => TimelineLocked'
<1>. SUFFICES ASSUME IInv, [Next]_vars PROVE TimelineLocked'
  OBVIOUS
<1>a. TypeOK /\ TimelineLocked /\ Requests \subseteq Writers /\ Heartbeat \in Writers
  BY DEF IInv, Writers
<1>1. CASE Start \/ UNCHANGED vars
  BY <1>1, <1>a DEF Start, vars, appendVars, TimelineLocked
<1>2. CASE Crash
  BY <1>2, GatewayAssumption DEF Crash, TimelineLocked
<1>3. CASE Beat
  BY <1>3, <1>a, BeginKeepsLock DEF Beat
<1>4. ASSUME NEW w \in Writers, AcquireTimeline(w) \/ AppendStep(w) PROVE TimelineLocked'
  BY <1>4, <1>a, GatewayAssumption DEF TimelineLocked, TypeOK, AcquireTimeline, AppendStep,
      OpenTimeline, OpenFails, WriteSpan, WriteFails, WriteNewline, NewlineFails, Return
<1>5. ASSUME NEW r \in Requests, Connect(r) \/ HandlerStep(r) \/ ScriptExits(r)
      PROVE TimelineLocked'
  <2>1. CASE \E s : Begin(r, s)
    BY <2>1, <1>a, BeginKeepsLock
  <2>2. CASE UNCHANGED appendVars
    BY <2>2, <1>a DEF appendVars, TimelineLocked
  <2>3. (\E s : Begin(r, s)) \/ UNCHANGED appendVars
    BY <1>5 DEF Connect, HandlerStep, ScriptExits, RejectPath, Deny, Forbid, Admit, FindScript,
        MissScript, ReadBody, StartScript, StartFails, ReplyFallback, ScriptSucceeds,
        ScriptFails, Log, fallback
  <2>. QED
    BY <2>1, <2>2, <2>3
<1>. QED
  BY <1>1, <1>2, <1>3, <1>4, <1>5 DEF Next

-----------------------------------------------------------------------------
(* The order of a request's spans.                                         *)

(* A handler nobody touches, and whose spans nobody writes, stays in order.*)
LEMMA HandlerFrame ==
  ASSUME NEW q \in Requests, HandlerOK(q),
         pc'[q] = pc[q], answer'[q] = answer[q], ran'[q] = ran[q],
         io'[q] = io[q], pending'[q] = pending[q],
         \A k \in RequestKinds : Accounted(Span(k, q))' <=> Accounted(Span(k, q))
  PROVE  HandlerOK(q)'
<1>1. \A ks : Of(q, ks)' <=> Of(q, ks)
  BY DEF Of
<1>2. Accounted(Span("request", q))' <=> Accounted(Span("request", q))
  BY DEF RequestKinds
<1>3. Appended(q)' <=> Appended(q)
  BY DEF Appended
<1>. QED
  BY SMTT(20), <1>1, <1>2, <1>3 DEF HandlerOK

LEMMA HeartbeatFrame ==
  ASSUME HeartbeatOK, beats' = beats,
         io'[Heartbeat] = io[Heartbeat], pending'[Heartbeat] = pending[Heartbeat],
         \A n \in 1..MaxBeats :
           Accounted(Span("heartbeat", n))' <=> Accounted(Span("heartbeat", n)),
         beats \in 0..MaxBeats
  PROVE  HeartbeatOK'
BY DEF HeartbeatOK, Appended

(* The spans of different writers differ.                                  *)
LEMMA SpansDiffer ==
  /\ \A r, q, k, l : Span(k, r) = Span(l, q) => k = l /\ r = q
  /\ \A k \in RequestKinds : k # "heartbeat"
  /\ \A r \in Requests, k \in RequestKinds : Span(k, r) \in Spans
  /\ \A n \in 1..MaxBeats : Span("heartbeat", n) \in Spans
BY DEF Span, RequestKinds, FallbackKinds, Spans

(* Who is inside appendSpan is about to write a span of its own.           *)
LEMMA PendingIsOwn ==
  ASSUME TypeOK, HandlersInOrder, NEW w \in Writers, io[w] # "none"
  PROVE  \/ w \in Requests /\ \E k \in RequestKinds : pending[w] = Span(k, w)
         \/ w = Heartbeat /\ beats \in 1..MaxBeats /\ pending[w] = Span("heartbeat", beats)
<1>1. CASE w \in Requests
  <2>1. pc[w] \in {"deny", "record", "fallback"}
    BY <1>1 DEF HandlersInOrder, HandlerOK, TypeOK
  <2>. QED
    BY <1>1, <2>1 DEF HandlersInOrder, HandlerOK, RequestKinds, FallbackKinds
<1>2. CASE w = Heartbeat
  <2>1. beats > 0 /\ pending[w] = Span("heartbeat", beats)
    BY <1>2 DEF HandlersInOrder, HeartbeatOK
  <2>. QED
    BY <1>2, <2>1, GatewayAssumption DEF TypeOK
<1>. QED
  BY <1>1, <1>2 DEF Writers

LEMMA OrderUnderAppend ==
  ASSUME IInv, NEW w \in Writers, AcquireTimeline(w) \/ AppendStep(w)
  PROVE  HandlersInOrder'
<1>. USE DEF IInv
<1>1. /\ io[w] # "none"
      /\ \E x \in {"none", "open", "write", "newline"} : io' = [io EXCEPT ![w] = x]
      /\ Appended(w) => Appended(w)'
      /\ \A s \in Spans : Accounted(s)' <=>
           (Accounted(s) \/ (s = pending[w] /\ Appended(w)' /\ ~Appended(w)))
      /\ UNCHANGED <<processVars, handlerVars, pending, beats>>
  BY AppendEffect
<1>2. \A v \in Writers : v # w => io'[v] = io[v]
  BY <1>1 DEF TypeOK
<1>3. CASE w \in Requests
  <2>1. PICK k \in RequestKinds : pending[w] = Span(k, w)
    BY <1>1, <1>3, PendingIsOwn, GatewayAssumption
  <2>2. HeartbeatOK'
    <3>1. \A n \in 1..MaxBeats :
            Accounted(Span("heartbeat", n))' <=> Accounted(Span("heartbeat", n))
      BY <1>1, <2>1, SpansDiffer
    <3>. QED
      BY <1>1, <1>2, <1>3, <3>1, HeartbeatFrame, GatewayAssumption
      DEF HandlersInOrder, Writers, TypeOK
  <2>3. ASSUME NEW q \in Requests, q # w PROVE HandlerOK(q)'
    <3>1. \A l \in RequestKinds : Accounted(Span(l, q))' <=> Accounted(Span(l, q))
      BY <1>1, <2>1, <2>3, SpansDiffer
    <3>. QED
      BY <1>1, <1>2, <2>3, <3>1, HandlerFrame DEF HandlersInOrder, Writers, handlerVars
  <2>4. HandlerOK(w)'
    <3>1. HandlerOK(w)
      BY <1>3 DEF HandlersInOrder
    <3>2. pc[w] \in {"deny", "record", "fallback"}
      BY <1>1, <1>3, <3>1 DEF HandlerOK, TypeOK
    <3>3. \A l \in RequestKinds : Accounted(Span(l, w))' <=>
            (Accounted(Span(l, w)) \/ (l = k /\ Appended(w)' /\ ~Appended(w)))
      BY <1>1, <1>3, <2>1, SpansDiffer
    <3>4. UNCHANGED <<pc, answer, ran, pending>>
      BY <1>1 DEF handlerVars
    <3>5. ASSUME NEW ks, NEW l \in RequestKinds, l \notin ks, pending[w] = Span(l, w),
                 Of(w, IF Appended(w) THEN ks \cup {l} ELSE ks)
          PROVE  Of(w, IF Appended(w) THEN ks \cup {l} ELSE ks)'
      <4>1. l = k
        BY <3>5, <2>1, SpansDiffer
      <4>. QED
        BY <1>1, <3>3, <3>5, <4>1 DEF Of
    <3>6. CASE pc[w] = "deny"
      <4>1. pending[w] = Span("error", w) /\ Of(w, IF Appended(w) THEN {} \cup {"error"} ELSE {})
        BY <3>1, <3>6 DEF HandlerOK
      <4>2. Of(w, IF Appended(w) THEN {} \cup {"error"} ELSE {})'
        BY <3>5, <4>1 DEF RequestKinds
      <4>. QED
        BY <3>1, <3>4, <3>6, <4>1, <4>2 DEF HandlerOK
    <3>7. CASE pc[w] = "record"
      <4>1. pending[w] = Span("request", w) /\ Of(w, IF Appended(w) THEN {} \cup {"request"} ELSE {})
        BY <3>1, <3>7 DEF HandlerOK
      <4>2. Of(w, IF Appended(w) THEN {} \cup {"request"} ELSE {})'
        BY <3>5, <4>1 DEF RequestKinds
      <4>. QED
        BY <3>1, <3>4, <3>7, <4>1, <4>2 DEF HandlerOK
    <3>8. CASE pc[w] = "fallback"
      <4>1. PICK l \in FallbackKinds :
              /\ pending[w] = Span(l, w)
              /\ l = "missing_app" => ran[w] = "nothing"
              /\ Of(w, IF Appended(w) THEN {"request"} \cup {l} ELSE {"request"})
        BY <3>1, <3>8 DEF HandlerOK
      <4>2. Of(w, IF Appended(w) THEN {"request"} \cup {l} ELSE {"request"})'
        BY <3>5, <4>1 DEF RequestKinds, FallbackKinds
      <4>. QED
        BY <3>1, <3>4, <3>8, <4>1, <4>2 DEF HandlerOK
    <3>. QED
      BY <3>2, <3>6, <3>7, <3>8
  <2>. QED
    BY <2>2, <2>3, <2>4 DEF HandlersInOrder
<1>4. CASE w = Heartbeat
  <2>1. beats \in 1..MaxBeats /\ pending[w] = Span("heartbeat", beats)
    BY <1>1, <1>4, PendingIsOwn, GatewayAssumption
  <2>2. HeartbeatOK'
    <3>1. \A n \in 1..MaxBeats : Accounted(Span("heartbeat", n))' <=>
            (Accounted(Span("heartbeat", n)) \/ (n = beats /\ Appended(w)' /\ ~Appended(w)))
      BY <1>1, <2>1, SpansDiffer
    <3>2. beats' = beats /\ pending' = pending
      BY <1>1
    <3>3. \A n \in 1..MaxBeats : n > beats' => ~Accounted(Span("heartbeat", n))'
      BY <3>1, <3>2, <2>1 DEF HandlersInOrder, HeartbeatOK
    <3>4. Accounted(Span("heartbeat", beats)) <=> Appended(w)
      BY <1>1, <1>4, <2>1 DEF HandlersInOrder, HeartbeatOK
    <3>5. Accounted(Span("heartbeat", beats))' <=> Appended(w)'
      BY <1>1, <2>1, <3>1, <3>4
    <3>. QED
      BY <1>4, <2>1, <3>2, <3>3, <3>5, GatewayAssumption DEF HeartbeatOK
  <2>3. ASSUME NEW q \in Requests PROVE HandlerOK(q)'
    <3>1. \A l \in RequestKinds : Accounted(Span(l, q))' <=> Accounted(Span(l, q))
      BY <1>1, <2>1, SpansDiffer
    <3>. QED
      BY <1>1, <1>2, <1>4, <3>1, HandlerFrame, GatewayAssumption
      DEF HandlersInOrder, Writers, handlerVars
  <2>. QED
    BY <2>2, <2>3 DEF HandlersInOrder
<1>. QED
  BY <1>3, <1>4 DEF Writers

(* A handler's own step touches nothing of the others, nor the file.       *)
LEMMA HandlersAreLocal ==
  ASSUME TypeOK, NEW r \in Requests, Connect(r) \/ HandlerStep(r) \/ ScriptExits(r)
  PROVE  /\ \A q \in Requests : q # r =>
              /\ pc'[q] = pc[q] /\ answer'[q] = answer[q] /\ ran'[q] = ran[q]
         /\ \A w \in Writers : w # r => io'[w] = io[w] /\ pending'[w] = pending[w]
         /\ UNCHANGED <<fileVars, beats>>
<1>. USE DEF TypeOK, Goto, Reply, Log, Begin, fallback, handlerVars, appendVars
<1>0. r \in Writers
  BY DEF Writers
<1>1. CASE Connect(r)         BY <1>1, <1>0 DEF Connect
<1>2. CASE RejectPath(r)      BY <1>2, <1>0 DEF RejectPath
<1>3. CASE Deny(r)            BY <1>3, <1>0 DEF Deny
<1>4. CASE Forbid(r)          BY <1>4, <1>0 DEF Forbid
<1>5. CASE Admit(r)           BY <1>5, <1>0 DEF Admit
<1>6. CASE FindScript(r)      BY <1>6, <1>0 DEF FindScript
<1>7. CASE MissScript(r)      BY <1>7, <1>0 DEF MissScript
<1>8. CASE ReadBody(r)        BY <1>8, <1>0 DEF ReadBody
<1>9. CASE StartScript(r)     BY <1>9, <1>0 DEF StartScript
<1>10. CASE StartFails(r)     BY <1>10, <1>0 DEF StartFails
<1>11. CASE ReplyFallback(r)  BY <1>11, <1>0 DEF ReplyFallback
<1>12. CASE ScriptSucceeds(r) BY <1>12, <1>0 DEF ScriptSucceeds
<1>13. CASE ScriptFails(r)    BY <1>13, <1>0 DEF ScriptFails
<1>. QED
  BY <1>1, <1>2, <1>3, <1>4, <1>5, <1>6, <1>7, <1>8, <1>9, <1>10, <1>11, <1>12, <1>13
  DEF HandlerStep, ScriptExits

LEMMA OrderUnderHandler ==
  ASSUME IInv, NEW r \in Requests, Connect(r) \/ HandlerStep(r) \/ ScriptExits(r)
  PROVE  HandlersInOrder'
<1>. USE DEF IInv
<1>0. r \in Writers /\ HandlerOK(r) /\ r # Heartbeat /\ Heartbeat \in Writers
  BY GatewayAssumption DEF Writers, HandlersInOrder
<1>1. \A s : Accounted(s)' <=> Accounted(s)
  BY HandlersAreLocal, FileUnchanged DEF fileVars
<1>2. HeartbeatOK'
  BY <1>0, <1>1, HandlersAreLocal, HeartbeatFrame DEF HandlersInOrder, TypeOK
<1>3. ASSUME NEW q \in Requests, q # r PROVE HandlerOK(q)'
  BY <1>1, <1>3, HandlersAreLocal, HandlerFrame DEF HandlersInOrder, Writers
<1>4. \A ks : Of(r, ks)' <=> Of(r, ks)
  BY <1>1 DEF Of
<1>5. HandlerOK(r)'
  <2>. USE <1>0, <1>4 DEF TypeOK, Goto, Reply, Log, Begin, fallback, appendVars, handlerVars,
           HandlerOK, Appended
  <2>1. CASE Connect(r)         BY <2>1 DEF Connect
  <2>2. CASE RejectPath(r)      BY <2>2 DEF RejectPath
  <2>3. CASE Deny(r)            BY <2>3 DEF Deny
  <2>4. CASE Forbid(r)          BY <2>4 DEF Forbid
  <2>5. CASE Admit(r)           BY <2>5 DEF Admit
  <2>6. CASE FindScript(r)      BY <2>6 DEF FindScript
  <2>7. CASE MissScript(r)      BY <2>7 DEF MissScript, FallbackKinds
  <2>8. CASE ReadBody(r)        BY <2>8 DEF ReadBody
  <2>9. CASE StartScript(r)     BY <2>9 DEF StartScript
  <2>10. CASE StartFails(r)     BY <2>10 DEF StartFails, FallbackKinds
  <2>11. CASE ReplyFallback(r)
    <3>1. PICK k \in FallbackKinds :
            /\ pending[r] = Span(k, r)
            /\ k = "missing_app" => ran[r] = "nothing"
            /\ Of(r, {"request", k})
      BY <2>11 DEF ReplyFallback
    <3>2. pending[r].kind = k
      BY <3>1 DEF Span
    <3>. QED
      BY <2>11, <3>1, <3>2 DEF ReplyFallback, FallbackKinds
  <2>12. CASE ScriptSucceeds(r) BY <2>12 DEF ScriptSucceeds
  <2>13. CASE ScriptFails(r)    BY <2>13 DEF ScriptFails, FallbackKinds
  <2>. QED
    BY <2>1, <2>2, <2>3, <2>4, <2>5, <2>6, <2>7, <2>8, <2>9, <2>10, <2>11, <2>12, <2>13
    DEF HandlerStep, ScriptExits
<1>. QED
  BY <1>2, <1>3, <1>5 DEF HandlersInOrder

LEMMA OrderStep == IInv /\ [Next]_vars => HandlersInOrder'
<1>. SUFFICES ASSUME IInv, [Next]_vars PROVE HandlersInOrder'
  OBVIOUS
<1>. USE DEF IInv
<1>1. CASE Start \/ UNCHANGED vars
  <2>1. /\ UNCHANGED <<lines, tail, dropped>>
        /\ UNCHANGED <<pc, answer, ran, io, pending, beats>>
    BY <1>1 DEF Start, vars, handlerVars, appendVars, fileVars
  <2>2. \A s : Accounted(s)' <=> Accounted(s)
    BY <2>1, FileUnchanged
  <2>. QED
    BY <2>1, <2>2, HandlerFrame, HeartbeatFrame DEF HandlersInOrder, TypeOK
<1>2. CASE Crash
  <2>1. \A s : Accounted(s)' <=> Accounted(s)
    BY <1>2, FileUnchanged DEF Crash
  <2>2. HeartbeatOK'
    BY <1>2, <2>1, GatewayAssumption DEF Crash, HandlersInOrder, HeartbeatOK, Writers
  <2>3. ASSUME NEW r \in Requests PROVE HandlerOK(r)'
    <3>1. HandlerOK(r) /\ r \in Writers
      BY DEF HandlersInOrder, Writers
    <3>2. \A ks : Of(r, ks)' <=> Of(r, ks)
      BY <2>1 DEF Of
    <3>3. /\ answer'[r] = answer[r] /\ ran'[r] = ran[r] /\ io'[r] = "none"
          /\ pc'[r] = IF InFlight(r) THEN "lost" ELSE pc[r]
      BY <1>2, <3>1 DEF Crash
    <3>4. CASE ~InFlight(r)
      BY <2>1, <3>1, <3>2, <3>3, <3>4 DEF HandlerOK, InFlight
    <3>5. CASE InFlight(r)
      <4>1. pc'[r] = "lost" /\ answer'[r] = "none"
        BY <3>1, <3>3, <3>5 DEF HandlerOK, InFlight
      <4>2. ran[r] # "nothing" => Accounted(Span("request", r))
        <5>1. CASE pc[r] = "run"
          BY <3>1, <5>1 DEF HandlerOK, Of, RequestKinds
        <5>2. CASE pc[r] = "fallback"
          <6>1. \E k \in FallbackKinds :
                  Of(r, IF Appended(r) THEN {"request", k} ELSE {"request"})
            BY <3>1, <5>2 DEF HandlerOK
          <6>. QED
            BY <6>1 DEF Of, RequestKinds
        <5>. QED
          BY <3>1, <3>5, <5>1, <5>2 DEF HandlerOK, InFlight
      <4>. QED
        BY <2>1, <3>3, <4>1, <4>2 DEF HandlerOK
    <3>. QED
      BY <3>4, <3>5
  <2>. QED
    BY <2>2, <2>3 DEF HandlersInOrder
<1>3. CASE Beat
  <2>1. \A s : Accounted(s)' <=> Accounted(s)
    BY <1>3, FileUnchanged DEF Beat, fileVars
  <2>2. /\ beats \in Nat /\ beats' = beats + 1 /\ beats' \in 1..MaxBeats
        /\ Heartbeat \in Writers /\ Heartbeat \notin Requests
    BY <1>3, GatewayAssumption DEF Beat, TypeOK, Writers
  <2>3. HeartbeatOK'
    <3>1. \A n \in 1..MaxBeats : n > beats => ~Accounted(Span("heartbeat", n))
      BY DEF HandlersInOrder, HeartbeatOK
    <3>2. io'[Heartbeat] = "wait" /\ pending'[Heartbeat] = Span("heartbeat", beats')
      BY <1>3, <2>2 DEF Beat, Begin, TypeOK
    <3>3. ~Accounted(Span("heartbeat", beats'))
      BY <2>2, <3>1
    <3>4. \A n \in 1..MaxBeats : n > beats' => ~Accounted(Span("heartbeat", n))
      BY <2>2, <3>1
    <3>. QED
      BY <2>1, <2>2, <3>2, <3>3, <3>4 DEF HeartbeatOK, Appended
  <2>4. ASSUME NEW r \in Requests PROVE HandlerOK(r)'
    BY <1>3, <2>1, <2>2, HandlerFrame DEF Beat, Begin, HandlersInOrder, handlerVars, TypeOK, Writers
  <2>. QED
    BY <2>3, <2>4 DEF HandlersInOrder
<1>4. CASE \E w \in Writers : AcquireTimeline(w) \/ AppendStep(w)
  BY <1>4, OrderUnderAppend
<1>5. CASE \E r \in Requests : Connect(r) \/ HandlerStep(r) \/ ScriptExits(r)
  BY <1>5, OrderUnderHandler
<1>. QED
  BY <1>1, <1>2, <1>3, <1>4, <1>5 DEF Next

-----------------------------------------------------------------------------
(* The invariants.                                                         *)

LEMMA Invariance == Spec => []IInv
<1>1. IInv /\ [Next]_vars => IInv'
  BY TypeStep, LockStep, OrderStep DEF IInv
<1>. QED
  BY InitInvariant, <1>1, PTL DEF Spec

(* Type correctness of the gateway.                                        *)
THEOREM TypeCorrect == Spec => []TypeOK
<1>1. IInv => TypeOK
  BY DEF IInv
<1>. QED
  BY Invariance, <1>1, PTL

(* timelineMu is exact: the holder is whoever is between Lock and Unlock.  *)
THEOREM LockExact == Spec => []TimelineLocked
<1>1. IInv => TimelineLocked
  BY DEF IInv
<1>. QED
  BY Invariance, <1>1, PTL

(* The spans of a request enter the account in order, each once.           *)
THEOREM SpansInOrder == Spec => []HandlersInOrder
<1>1. IInv => HandlersInOrder
  BY DEF IInv
<1>. QED
  BY Invariance, <1>1, PTL

(* handler never starts a script before appendSpan has dealt with the      *)
(* request's span, in this life of the process or an earlier one.          *)
THEOREM NoUnauditedExecution == Spec => []AuditBeforeExecute
<1>1. IInv => AuditBeforeExecute
  <2>. SUFFICES ASSUME IInv, NEW r \in Requests, ran[r] # "nothing"
                PROVE  Accounted(Span("request", r))
    BY DEF AuditBeforeExecute
  <2>1. HandlerOK(r) /\ pc[r] \in {"run", "fallback", "done", "lost"}
    BY DEF IInv, HandlersInOrder, HandlerOK
  <2>2. ASSUME NEW ks, Of(r, ks), "request" \in ks PROVE Accounted(Span("request", r))
    BY <2>2 DEF Of, RequestKinds
  <2>3. CASE pc[r] = "fallback"
    BY <2>1, <2>2, <2>3 DEF HandlerOK
  <2>4. CASE pc[r] = "done"
    BY <2>1, <2>2, <2>4 DEF HandlerOK
  <2>5. CASE pc[r] \in {"run", "lost"}
    BY <2>1, <2>2, <2>5 DEF HandlerOK
  <2>. QED
    BY <2>1, <2>3, <2>4, <2>5
<1>. QED
  BY Invariance, <1>1, PTL

(* What handler and fallback answer agrees with what they logged.          *)
THEOREM AnswersAgreeWithTrail == Spec => []AnswerMatchesTrail
<1>1. IInv => AnswerMatchesTrail
  <2>. SUFFICES ASSUME IInv, NEW r \in Requests, answer[r] # "none"
                PROVE
                  /\ answer[r] = "403" => /\ Accounted(Span("error", r))
                                         /\ ~Accounted(Span("request", r))
                                         /\ ran[r] = "nothing"
                  /\ answer[r] = "output" => /\ ran[r] # "nothing"
                                            /\ \A k \in FallbackKinds : ~Accounted(Span(k, r))
                  /\ answer[r] \in FallbackKinds => /\ Accounted(Span("request", r))
                                                   /\ Accounted(Span(answer[r], r))
                  /\ answer[r] = "missing_app" => ran[r] = "nothing"
    BY DEF AnswerMatchesTrail, FallbackKinds
  <2>1. HandlerOK(r) /\ pc[r] = "done"
    BY DEF IInv, HandlersInOrder, HandlerOK
  <2>2. \/ answer[r] = "404" /\ Of(r, {}) /\ ran[r] = "nothing"
        \/ answer[r] = "403" /\ Of(r, {"error"}) /\ ran[r] = "nothing"
        \/ answer[r] = "output" /\ Of(r, {"request"}) /\ ran[r] # "nothing"
        \/ answer[r] = "missing_app" /\ Of(r, {"request", "missing_app"}) /\ ran[r] = "nothing"
        \/ answer[r] = "app_error" /\ Of(r, {"request", "app_error"})
    BY <2>1 DEF HandlerOK
  <2>. QED
    BY <2>2 DEF Of, RequestKinds, FallbackKinds
<1>. QED
  BY Invariance, <1>1, PTL

-----------------------------------------------------------------------------
(* Requests of one life of the process are judged by one config.  A verdict *)
(* of an earlier life is out of reach: Start leaves all of them behind.     *)

OneJudge ==
  /\ \A r \in Requests : born[r] <= life /\ (InFlight(r) => up /\ born[r] = life)
  /\ \A r \in Requests : up /\ born[r] = life =>
       /\ Denied(r) => ~validateKey(asked[r])
       /\ Admitted(r) => validateKey(asked[r])

(* A step that judges nobody and starts nothing leaves the verdicts alone.  *)
LEMMA VerdictFrame ==
  ASSUME OneJudge, ConsistentVerdicts, up' => up, life' = life, config' = config,
         born' = born, asked' = asked,
         \A r \in Requests : /\ Denied(r)' => Denied(r)
                             /\ Admitted(r)' => Admitted(r)
                             /\ InFlight(r)' => InFlight(r) /\ up'
  PROVE  OneJudge' /\ ConsistentVerdicts'
BY DEF OneJudge, ConsistentVerdicts, validateKey

LEMMA VerdictsUnderHandler ==
  ASSUME IInv, OneJudge, ConsistentVerdicts,
         NEW r \in Requests, Connect(r) \/ HandlerStep(r) \/ ScriptExits(r)
  PROVE  OneJudge' /\ ConsistentVerdicts'
<1>. USE DEF IInv
<1>0. /\ HandlerOK(r) /\ TypeOK
      /\ \A q \in Requests : q # r => pc'[q] = pc[q] /\ answer'[q] = answer[q]
  BY HandlersAreLocal DEF HandlersInOrder
<1>1. CASE Connect(r)
  <2>1. /\ up' = up /\ life' = life /\ config' = config /\ up
        /\ pc'[r] = "route" /\ answer'[r] = "none" /\ born'[r] = life /\ life \in Nat
        /\ \A q \in Requests : q # r => born'[q] = born[q] /\ asked'[q] = asked[q]
    BY <1>0, <1>1 DEF Connect, Goto, TypeOK, HandlerOK, processVars
  <2>2. ~Denied(r)' /\ ~Admitted(r)'
    BY <2>1 DEF Denied, Admitted, FallbackKinds
  <2>3. \A q \in Requests : q # r => /\ Denied(q)' <=> Denied(q)
                                     /\ Admitted(q)' <=> Admitted(q)
                                     /\ InFlight(q)' <=> InFlight(q)
    BY <1>0 DEF Denied, Admitted, InFlight
  <2>4. OneJudge'
    BY <2>1, <2>2, <2>3 DEF OneJudge, validateKey
  <2>5. ConsistentVerdicts'
    BY <2>1, <2>2, <2>3 DEF ConsistentVerdicts
  <2>. QED
    BY <2>4, <2>5
<1>2. CASE Deny(r) \/ Admit(r)
  <2>1. /\ up' = up /\ life' = life /\ config' = config /\ born' = born /\ asked' = asked
        /\ pc[r] = "route" /\ answer'[r] = "none"
    BY <1>0, <1>2 DEF Deny, Admit, HandlerOK, processVars
  <2>2. up /\ born[r] = life
    BY <2>1 DEF OneJudge, InFlight
  <2>3. /\ Denied(r)' => ~validateKey(asked[r])
        /\ Admitted(r)' => validateKey(asked[r])
        /\ InFlight(r)' => InFlight(r)
    BY <1>0, <1>2, <2>1
    DEF Deny, Admit, Log, Goto, TypeOK, Denied, Admitted, InFlight, FallbackKinds
  <2>4. \A q \in Requests : q # r => /\ Denied(q)' <=> Denied(q)
                                     /\ Admitted(q)' <=> Admitted(q)
                                     /\ InFlight(q)' <=> InFlight(q)
    BY <1>0 DEF Denied, Admitted, InFlight
  <2>5. OneJudge'
    BY <2>1, <2>2, <2>3, <2>4 DEF OneJudge, validateKey
  <2>6. ASSUME NEW q \in Requests, q # r, born[q] = born[r], asked[q] = asked[r]
        PROVE  ~(Denied(r)' /\ Admitted(q)') /\ ~(Denied(q)' /\ Admitted(r)')
    BY <2>2, <2>3, <2>4, <2>6 DEF OneJudge
  <2>7. ~(Denied(r)' /\ Admitted(r)')
    BY <2>3
  <2>8. ConsistentVerdicts'
    BY <2>1, <2>4, <2>6, <2>7 DEF ConsistentVerdicts
  <2>. QED
    BY <2>5, <2>8
<1>3. CASE \/ RejectPath(r) \/ Forbid(r) \/ FindScript(r) \/ MissScript(r) \/ ReadBody(r)
           \/ StartScript(r) \/ StartFails(r) \/ ScriptExits(r) \/ ReplyFallback(r)
  <2>1. up' = up /\ life' = life /\ config' = config /\ born' = born /\ asked' = asked
    BY <1>3 DEF RejectPath, Forbid, FindScript, MissScript, ReadBody, StartScript, StartFails,
        ScriptExits, ScriptSucceeds, ScriptFails, ReplyFallback, processVars
  <2>2. InFlight(r) /\ up
    BY <1>3 DEF RejectPath, Forbid, FindScript, MissScript, ReadBody, StartScript, StartFails,
        ScriptExits, ScriptSucceeds, ScriptFails, ReplyFallback, InFlight, OneJudge
  <2>3. (Denied(r)' => Denied(r)) /\ (Admitted(r)' => Admitted(r))
    <3>1. CASE RejectPath(r) \/ Forbid(r) \/ ScriptSucceeds(r)
      BY <1>0, <3>1 DEF RejectPath, Forbid, ScriptSucceeds, Reply, Goto, TypeOK, Denied, Admitted,
          FallbackKinds
    <3>2. CASE ReplyFallback(r)
      <4>1. pending[r].kind \in FallbackKinds
        BY <3>2, FallbackIsPending DEF ReplyFallback
      <4>. QED
        BY <1>0, <3>2, <4>1 DEF ReplyFallback, Reply, Goto, TypeOK, Denied, Admitted,
            FallbackKinds
    <3>3. CASE \/ FindScript(r) \/ MissScript(r) \/ ReadBody(r) \/ StartScript(r)
               \/ StartFails(r) \/ ScriptFails(r)
      BY <1>0, <3>3 DEF FindScript, MissScript, ReadBody, StartScript, StartFails, ScriptFails,
          fallback, Log, Goto, TypeOK, Denied, Admitted, FallbackKinds
    <3>. QED
      BY <1>3, <3>1, <3>2, <3>3 DEF ScriptExits
  <2>4. \A q \in Requests : q # r => /\ Denied(q)' <=> Denied(q)
                                     /\ Admitted(q)' <=> Admitted(q)
                                     /\ InFlight(q)' <=> InFlight(q)
    BY <1>0 DEF Denied, Admitted, InFlight
  <2>5. \A q \in Requests : /\ Denied(q)' => Denied(q)
                            /\ Admitted(q)' => Admitted(q)
                            /\ InFlight(q)' => InFlight(q) /\ up'
    BY <2>1, <2>2, <2>3, <2>4
  <2>. QED
    BY <2>1, <2>5, VerdictFrame
<1>. QED
  BY <1>1, <1>2, <1>3 DEF HandlerStep

LEMMA VerdictsStep ==
  ASSUME IInv, OneJudge, ConsistentVerdicts, [Next]_vars
  PROVE  OneJudge' /\ ConsistentVerdicts'
<1>. USE DEF IInv
<1>1. CASE Start
  <2>1. /\ up' /\ life' = life + 1 /\ UNCHANGED <<pc, asked, born, answer>> /\ life \in Nat
        /\ ~up /\ \A r \in Requests : born[r] \in Nat
    BY <1>1 DEF Start, handlerVars, TypeOK
  <2>2. \A r \in Requests : born'[r] < life' /\ ~InFlight(r)'
    BY <2>1 DEF OneJudge, InFlight
  <2>3. OneJudge'
    BY <2>1, <2>2 DEF OneJudge
  <2>4. ConsistentVerdicts'
    BY <2>1 DEF ConsistentVerdicts, Denied, Admitted
  <2>. QED
    BY <2>3, <2>4
<1>2. CASE Crash
  <2>1. /\ ~up' /\ life' = life /\ config' = config /\ UNCHANGED <<born, asked, answer>>
        /\ \A r \in Requests : pc'[r] = IF InFlight(r) THEN "lost" ELSE pc[r]
    BY <1>2 DEF Crash
  <2>2. \A r \in Requests : /\ Denied(r)' => Denied(r)
                            /\ Admitted(r)' => Admitted(r)
                            /\ ~InFlight(r)'
    BY <2>1 DEF Denied, Admitted, InFlight
  <2>. QED
    BY <2>1, <2>2, VerdictFrame
<1>3. CASE Beat \/ UNCHANGED vars \/ \E w \in Writers : AcquireTimeline(w) \/ AppendStep(w)
  <2>1. UNCHANGED <<up, life, config, pc, asked, born, answer>>
    <3>1. CASE Beat \/ UNCHANGED vars
      BY <3>1 DEF Beat, vars, processVars, handlerVars
    <3>2. CASE \E w \in Writers : AcquireTimeline(w) \/ AppendStep(w)
      BY <3>2 DEF AcquireTimeline, AppendStep, OpenTimeline, OpenFails, WriteSpan, WriteFails,
          WriteNewline, NewlineFails, processVars, handlerVars
    <3>. QED
      BY <1>3, <3>1, <3>2
  <2>. QED
    BY <2>1, VerdictFrame DEF Denied, Admitted, InFlight, OneJudge
<1>4. CASE \E r \in Requests : Connect(r) \/ HandlerStep(r) \/ ScriptExits(r)
  BY <1>4, VerdictsUnderHandler
<1>. QED
  BY <1>1, <1>2, <1>3, <1>4 DEF Next

(* Two requests that ask the same in one life of the process are judged     *)
(* alike: the verdict of an earlier life never meets the config of another. *)
THEOREM OneVerdictPerLife == Spec => []ConsistentVerdicts
<1>1. Init => OneJudge /\ ConsistentVerdicts
  BY GatewayAssumption DEF Init, OneJudge, ConsistentVerdicts, InFlight, Denied, Admitted, FallbackKinds
<1>2. IInv /\ OneJudge /\ ConsistentVerdicts /\ [Next]_vars => OneJudge' /\ ConsistentVerdicts'
  BY VerdictsStep
<1>. QED
  BY <1>1, <1>2, Invariance, PTL DEF Spec

-----------------------------------------------------------------------------
(* What the file has suffered.  DamageBounded alone is not inductive: a     *)
(* write that failed and left nothing owes a line that is empty before the  *)
(* newline makes it one.                                                    *)

Owing == IF \E w \in Writers : io[w] = "newline"
           THEN \A w \in Writers : io[w] = "newline" => tail # <<pending[w]>>
           ELSE tail # <<>>
Debt == IF Owing THEN 1 ELSE 0
DebtPaid == Cardinality(Malformed) + Debt <= damage

LEMMA MalformedFinite == TypeOK => IsFiniteSet(Malformed) /\ Cardinality(Malformed) \in Nat
<1>. SUFFICES ASSUME TypeOK PROVE IsFiniteSet(Malformed) /\ Cardinality(Malformed) \in Nat
  OBVIOUS
<1>1. Len(lines) \in Nat /\ DOMAIN lines = 1..Len(lines)
  BY DEF TypeOK
<1>2. IsFiniteSet(DOMAIN lines)
  BY <1>1, FS_Interval
<1>3. IsFiniteSet(Malformed)
  BY <1>2, FS_Subset DEF Malformed
<1>. QED
  BY <1>3, FS_CardinalityType

(* A newline adds at most the line it ends to the malformed ones.           *)
LEMMA NewlineAddsALine ==
  ASSUME TypeOK, lines' = Append(lines, tail)
  PROVE  /\ Whole(tail) => Cardinality(Malformed)' = Cardinality(Malformed)
         /\ Cardinality(Malformed)' \in {Cardinality(Malformed), Cardinality(Malformed) + 1}
<1>1. lines \in Seq(Seq(Cells)) /\ tail \in Seq(Cells) /\ Len(lines) \in Nat
  BY DEF TypeOK
<1>2. DOMAIN lines = 1..Len(lines) /\ DOMAIN lines' = 1..(Len(lines) + 1)
  BY <1>1
<1>3. lines'[Len(lines) + 1] = tail /\ \A i \in DOMAIN lines : lines'[i] = lines[i]
  BY <1>1
<1>4. \A i \in DOMAIN lines : i \in DOMAIN lines' /\ i # Len(lines) + 1
  BY <1>1, <1>2
<1>5. \A i \in DOMAIN lines' : i \in DOMAIN lines \/ i = Len(lines) + 1
  BY <1>1, <1>2
<1>6. Malformed' = IF Whole(tail) THEN Malformed ELSE Malformed \cup {Len(lines) + 1}
  <2>1. Malformed' = {i \in DOMAIN lines' : ~Whole(lines'[i])}
    BY DEF Malformed, Whole
  <2>2. Len(lines) + 1 \in DOMAIN lines'
    BY <1>1, <1>2
  <2>. QED
    BY <1>3, <1>4, <1>5, <2>1, <2>2 DEF Malformed
<1>7. Len(lines) + 1 \notin Malformed
  BY <1>4 DEF Malformed
<1>8. Cardinality(Malformed \cup {Len(lines) + 1}) = Cardinality(Malformed) + 1
  BY <1>7, MalformedFinite, FS_AddElement
<1>9. Cardinality(Malformed) \in Nat
  BY MalformedFinite
<1>. QED
  BY <1>6, <1>8, <1>9

LEMMA DebtUnderAppend ==
  ASSUME IInv, DebtPaid, NEW w \in Writers, AcquireTimeline(w) \/ AppendStep(w)
  PROVE  DebtPaid'
<1>. USE DEF IInv
<1>0. /\ Cardinality(Malformed) \in Nat /\ damage \in Nat /\ Debt \in {0, 1} /\ Debt' \in {0, 1}
      /\ io \in [Writers -> {"none", "wait", "open", "write", "newline"}]
      /\ tail \in Seq(Cells)
  BY MalformedFinite DEF Debt, TypeOK
<1>1. CASE AcquireTimeline(w) \/ OpenTimeline(w) \/ OpenFails(w)
  <2>1. /\ lines' = lines /\ tail' = tail /\ damage' = damage /\ pending' = pending
        /\ \A v \in Writers : io'[v] = "newline" <=> io[v] = "newline"
    BY <1>0, <1>1 DEF AcquireTimeline, OpenTimeline, OpenFails, Return, fileVars
  <2>. QED
    BY <2>1 DEF DebtPaid, Debt, Owing, Malformed
<1>2. CASE WriteSpan(w)
  <2>1. \A v \in Writers : io[v] # "newline"
    BY <1>2 DEF WriteSpan, TimelineLocked
  <2>2. /\ lines' = lines /\ damage' = damage /\ pending' = pending
        /\ tail' = Append(tail, pending[w]) /\ io' = [io EXCEPT ![w] = "newline"]
    BY <1>2 DEF WriteSpan
  <2>3. Owing' => Owing
    <3>1. SUFFICES ASSUME tail = <<>> PROVE ~Owing'
      BY <2>1 DEF Owing
    <3>2. tail' = <<pending[w]>> /\ io'[w] = "newline"
      BY <1>0, <2>2, <3>1
    <3>. QED
      BY <2>2, <3>2 DEF Owing
  <2>. QED
    BY <1>0, <2>2, <2>3 DEF DebtPaid, Debt, Malformed
<1>3. CASE WriteFails(w) \/ NewlineFails(w)
  <2>1. lines' = lines /\ damage' = damage + 1
    BY <1>3 DEF WriteFails, NewlineFails
  <2>2. Cardinality(Malformed)' = Cardinality(Malformed)
    BY <2>1 DEF Malformed
  <2>. QED
    BY <1>0, <2>1, <2>2 DEF DebtPaid
<1>4. CASE WriteNewline(w)
  <2>1. /\ lines' = Append(lines, tail) /\ damage' = damage /\ tail' = <<>>
        /\ io' = [io EXCEPT ![w] = "none"] /\ io[w] = "newline"
    BY <1>4 DEF WriteNewline, Return
  <2>2. \A v \in Writers : io[v] = "newline" => v = w
    BY <2>1 DEF TimelineLocked
  <2>3. Debt' = 0
    BY <1>0, <2>1, <2>2 DEF Debt, Owing
  <2>4. ~Owing => Whole(tail)
    <3>1. SUFFICES ASSUME ~Owing PROVE Whole(tail)
      OBVIOUS
    <3>2. tail = <<pending[w]>>
      BY <2>1, <2>2, <3>1 DEF Owing
    <3>3. pending[w] # Torn
      <4>1. pending[w] \in Spans
        BY <2>1, PendingIsOwn, SpansDiffer
      <4>. QED
        BY <4>1, TornIsNoSpan
    <3>. QED
      BY <3>2, <3>3 DEF Whole
  <2>5. /\ Whole(tail) => Cardinality(Malformed)' = Cardinality(Malformed)
        /\ Cardinality(Malformed)' \in {Cardinality(Malformed), Cardinality(Malformed) + 1}
    BY <2>1, NewlineAddsALine
  <2>. QED
    BY <1>0, <2>1, <2>3, <2>4, <2>5 DEF DebtPaid, Debt
<1>. QED
  BY <1>1, <1>2, <1>3, <1>4 DEF AppendStep

(* The call of appendSpan writes nothing.                                   *)
LEMMA BeginKeepsDebt ==
  ASSUME TypeOK, DebtPaid, UNCHANGED fileVars, NEW w \in Writers, NEW s, Begin(w, s)
  PROVE  DebtPaid'
<1>1. /\ lines' = lines /\ tail' = tail /\ damage' = damage
      /\ \A v \in Writers : io'[v] = "newline" <=> io[v] = "newline"
      /\ \A v \in Writers : io[v] = "newline" => pending'[v] = pending[v]
  BY DEF Begin, TypeOK, fileVars
<1>2. Owing' <=> Owing
  BY <1>1 DEF Owing
<1>. QED
  BY <1>1, <1>2 DEF DebtPaid, Debt, Malformed

LEMMA DebtStep == IInv /\ DebtPaid /\ [Next]_vars => DebtPaid'
<1>. SUFFICES ASSUME IInv, DebtPaid, [Next]_vars PROVE DebtPaid'
  OBVIOUS
<1>. USE DEF IInv
<1>0. /\ Cardinality(Malformed) \in Nat /\ damage \in Nat /\ Debt \in {0, 1} /\ Debt' \in {0, 1}
      /\ io \in [Writers -> {"none", "wait", "open", "write", "newline"}]
  BY MalformedFinite DEF Debt, TypeOK
<1>1. CASE Start \/ UNCHANGED vars
  BY <1>1 DEF Start, vars, appendVars, fileVars, DebtPaid, Debt, Owing, Malformed
<1>2. CASE Crash
  <2>1. /\ lines' = lines /\ tail' = tail /\ io' = [w \in Writers |-> "none"]
        /\ damage' = IF \E w \in Writers : io[w] = "newline" THEN damage + 1 ELSE damage
    BY <1>2 DEF Crash
  <2>2. Cardinality(Malformed)' = Cardinality(Malformed)
    BY <2>1 DEF Malformed
  <2>3. CASE \E w \in Writers : io[w] = "newline"
    BY <1>0, <2>1, <2>2, <2>3 DEF DebtPaid
  <2>4. CASE ~\E w \in Writers : io[w] = "newline"
    <3>1. Owing' <=> Owing
      BY <2>1, <2>4 DEF Owing
    <3>. QED
      BY <2>1, <2>2, <2>4, <3>1 DEF DebtPaid, Debt
  <2>. QED
    BY <2>3, <2>4
<1>3. CASE Beat
  <2>1. /\ UNCHANGED fileVars /\ Heartbeat \in Writers
        /\ \E s : Begin(Heartbeat, s)
    BY <1>3 DEF Beat, Writers
  <2>. QED
    BY <2>1, BeginKeepsDebt
<1>4. CASE \E w \in Writers : AcquireTimeline(w) \/ AppendStep(w)
  BY <1>4, DebtUnderAppend
<1>5. CASE \E r \in Requests : Connect(r) \/ HandlerStep(r) \/ ScriptExits(r)
  <2>1. PICK r \in Requests : Connect(r) \/ HandlerStep(r) \/ ScriptExits(r)
    BY <1>5
  <2>2. UNCHANGED fileVars
    BY <2>1, HandlersAreLocal
  <2>3. UNCHANGED <<io, pending>> \/ \E s : Begin(r, s)
    BY <2>1 DEF Connect, HandlerStep, ScriptExits, RejectPath, Deny, Forbid, Admit, FindScript,
        MissScript, ReadBody, StartScript, StartFails, ReplyFallback, ScriptSucceeds, ScriptFails,
        fallback, Log, appendVars
  <2>4. r \in Writers
    BY DEF Writers
  <2>. QED
    BY <2>2, <2>3, <2>4, BeginKeepsDebt DEF DebtPaid, Debt, Owing, Malformed, fileVars
<1>. QED
  BY <1>1, <1>2, <1>3, <1>4, <1>5 DEF Next

(* A line of requests.jsonl that is not one whole span is the price of an   *)
(* I/O error or of a death between the two writes of appendSpan, one line   *)
(* for each at most, for any number of handlers.                            *)
THEOREM LinesWhole == Spec => []DamageBounded
<1>1. Init => DebtPaid
  <2>. SUFFICES ASSUME Init PROVE DebtPaid
    OBVIOUS
  <2>1. Malformed = {}
    BY DEF Init, Malformed
  <2>2. Cardinality(Malformed) = 0
    BY <2>1, FS_EmptySet
  <2>. QED
    BY <2>2 DEF Init, DebtPaid, Debt, Owing
<1>2. IInv /\ DebtPaid /\ [Next]_vars => DebtPaid'
  BY DebtStep
<1>3. IInv /\ DebtPaid => DamageBounded
  <2>. SUFFICES ASSUME IInv, DebtPaid PROVE DamageBounded
    OBVIOUS
  <2>1. TailInDebt => Owing
    BY DEF TailInDebt, Owing
  <2>2. Cardinality(Malformed) \in Nat /\ damage \in Nat
    BY MalformedFinite DEF IInv, TypeOK
  <2>. QED
    BY <2>1, <2>2 DEF DebtPaid, Debt, DamageBounded
<1>. QED
  BY <1>1, <1>2, <1>3, Invariance, PTL DEF Spec

-----------------------------------------------------------------------------
(* The gateway implements AuditTrail.                                      *)

LEMMA AccountIsAccount == \A s \in Spans : s \in Ledger!Account <=> Accounted(s)
BY DEF Ledger!Account, Accounted

(* What is about to be appended is due.                                    *)
LEMMA PendingIsDue ==
  ASSUME IInv, NEW w \in Writers, io[w] \in {"open", "write"}
  PROVE  Ledger!Due(pending[w])
<1>. USE DEF IInv
<1>0. ~Appended(w) /\ io[w] # "none"
  BY DEF Appended
<1>1. CASE w = Heartbeat
  <2>1. beats \in 1..MaxBeats /\ pending[w] = Span("heartbeat", beats)
    BY <1>0, <1>1, PendingIsOwn, GatewayAssumption
  <2>2. ~Accounted(pending[w])
    BY <1>0, <1>1 DEF HandlersInOrder, HeartbeatOK
  <2>3. pending[w] \in Spans /\ pending[w].kind = "heartbeat"
    BY <2>1 DEF Span, Spans
  <2>. QED
    BY <2>2, <2>3, AccountIsAccount DEF Ledger!Due
<1>2. CASE w \in Requests
  <2>1. PICK k \in RequestKinds : pending[w] = Span(k, w)
    BY <1>0, <1>2, PendingIsOwn, GatewayAssumption
  <2>0. HandlerOK(w)
    BY <1>2 DEF HandlersInOrder
  <2>2. HandlerOK(w) /\ pc[w] \in {"deny", "record", "fallback"}
    BY <1>0, <1>2, <2>0 DEF HandlerOK, TypeOK
  <2>3. answer[w] = "none" /\ \A l \in RequestKinds : Span(l, w) \in Spans
    BY <1>2, <2>2, SpansDiffer DEF HandlerOK
  <2>4. CASE pc[w] = "deny"
    <3>1. pending[w] = Span("error", w) /\ Of(w, {})
      BY <1>0, <2>2, <2>4 DEF HandlerOK
    <3>2. /\ ~Accounted(Span("error", w)) /\ ~Accounted(Span("request", w))
          /\ Span("error", w) \in Spans /\ Span("request", w) \in Spans
      BY <2>3, <3>1 DEF Of, RequestKinds
    <3>. QED
      BY <1>2, <2>3, <3>1, <3>2, AccountIsAccount
      DEF Ledger!Due, Ledger!ErrorSpan, Ledger!RequestSpan, Span
  <2>5. CASE pc[w] = "record"
    <3>1. pending[w] = Span("request", w) /\ Of(w, {})
      BY <1>0, <2>2, <2>5 DEF HandlerOK
    <3>2. /\ ~Accounted(Span("error", w)) /\ ~Accounted(Span("request", w))
          /\ Span("error", w) \in Spans /\ Span("request", w) \in Spans
      BY <2>3, <3>1 DEF Of, RequestKinds
    <3>. QED
      BY <1>2, <2>3, <3>1, <3>2, AccountIsAccount
      DEF Ledger!Due, Ledger!ErrorSpan, Ledger!RequestSpan, Span
  <2>6. CASE pc[w] = "fallback"
    <3>1. PICK l \in FallbackKinds : /\ pending[w] = Span(l, w)
                                     /\ l = "missing_app" => ran[w] = "nothing"
                                     /\ Of(w, {"request"})
      BY <1>0, <2>2, <2>6 DEF HandlerOK
    <3>2. /\ \A j \in FallbackKinds : ~Accounted(Span(j, w)) /\ Span(j, w) \in Spans
          /\ Accounted(Span("request", w)) /\ Span("request", w) \in Spans
      BY <2>3, <3>1 DEF Of, RequestKinds, FallbackKinds
    <3>3. /\ \A j \in FallbackKinds : Span(j, w) \notin Ledger!Account
          /\ Span("request", w) \in Ledger!Account
      BY <3>2, AccountIsAccount
    <3>. QED
      BY <1>2, <2>3, <3>1, <3>2, <3>3
      DEF Ledger!Due, Ledger!FallbackSpan, Ledger!RequestSpan, Ledger!Fallbacks, FallbackKinds,
          Span
  <2>. QED
    BY <2>2, <2>4, <2>5, <2>6
<1>. QED
  BY <1>1, <1>2 DEF Writers

(* Every step inside appendSpan records the span, loses it, or changes     *)
(* nothing an auditor sees.                                                *)
LEMMA AppendRefines ==
  ASSUME IInv, NEW w \in Writers, AcquireTimeline(w) \/ AppendStep(w)
  PROVE  \/ Ledger!Record(pending[w]) \/ Ledger!Lose(pending[w])
         \/ UNCHANGED Ledger!trailVars
<1>. USE DEF IInv
<1>0. UNCHANGED <<ran, answer>>
  BY AppendEffect DEF handlerVars
<1>1. CASE AcquireTimeline(w) \/ OpenTimeline(w) \/ NewlineFails(w)
  <2>1. UNCHANGED <<lines, tail, dropped>>
    BY <1>1 DEF AcquireTimeline, OpenTimeline, NewlineFails, fileVars
  <2>. QED
    BY <1>0, <2>1 DEF Ledger!trailVars, InTrail, OnLine
<1>2. CASE OpenFails(w)
  <2>1. Ledger!Due(pending[w])
    BY <1>2, PendingIsDue DEF OpenFails
  <2>2. UNCHANGED <<lines, tail>> /\ dropped' = dropped \cup {pending[w]}
    BY <1>2 DEF OpenFails
  <2>. QED
    BY <1>0, <2>1, <2>2 DEF Ledger!Lose, InTrail, OnLine
<1>3. CASE WriteSpan(w)
  <2>1. Ledger!Due(pending[w])
    BY <1>3, PendingIsDue DEF WriteSpan
  <2>2. pending[w] \in Spans
    BY <2>1 DEF Ledger!Due
  <2>3. dropped' = dropped /\ \A s : InTrail(s)' <=> (InTrail(s) \/ s = pending[w])
    BY <1>3, CellJoinsTail DEF WriteSpan
  <2>4. {s \in Spans : InTrail(s)}' = {s \in Spans : InTrail(s)} \cup {pending[w]}
    BY <2>2, <2>3
  <2>. QED
    BY <1>0, <2>1, <2>3, <2>4 DEF Ledger!Record
<1>4. CASE WriteFails(w)
  <2>1. Ledger!Due(pending[w])
    BY <1>4, PendingIsDue DEF WriteFails
  <2>2. \A s \in Spans : InTrail(s)' <=> InTrail(s)
    <3>1. CASE tail' = tail
      BY <1>4, <3>1 DEF WriteFails, InTrail, OnLine
    <3>2. CASE tail' = Append(tail, Torn)
      BY <1>4, <3>2, CellJoinsTail, TornIsNoSpan DEF WriteFails
    <3>. QED
      BY <1>4, <3>1, <3>2 DEF WriteFails
  <2>3. {s \in Spans : InTrail(s)}' = {s \in Spans : InTrail(s)}
    BY <2>2
  <2>4. dropped' = dropped \cup {pending[w]}
    BY <1>4 DEF WriteFails
  <2>. QED
    BY <1>0, <2>1, <2>3, <2>4 DEF Ledger!Lose
<1>5. CASE WriteNewline(w)
  <2>1. \A s : InTrail(s)' <=> InTrail(s)
    BY <1>5, NewlineKeepsTrail DEF WriteNewline
  <2>2. {s \in Spans : InTrail(s)}' = {s \in Spans : InTrail(s)} /\ dropped' = dropped
    BY <1>5, <2>1 DEF WriteNewline
  <2>. QED
    BY <1>0, <2>2 DEF Ledger!trailVars
<1>. QED
  BY <1>1, <1>2, <1>3, <1>4, <1>5 DEF AppendStep

LEMMA HandlerRefines ==
  ASSUME IInv, NEW r \in Requests, Connect(r) \/ HandlerStep(r) \/ ScriptExits(r)
  PROVE  \/ Ledger!Execute(r) \/ Ledger!Answer(r)
         \/ UNCHANGED Ledger!trailVars
<1>. USE DEF IInv
<1>0. /\ HandlerOK(r)
      /\ ran \in [Requests -> {"nothing", "unread", "whole", "truncated"}]
      /\ answer \in [Requests -> Answers \cup {"none"}]
  BY DEF HandlersInOrder, TypeOK
<1>1. UNCHANGED <<lines, tail, dropped>>
  BY HandlersAreLocal DEF fileVars
<1>2. {s \in Spans : InTrail(s)}' = {s \in Spans : InTrail(s)} /\ dropped' = dropped
  BY <1>1 DEF InTrail, OnLine
<1>3. ASSUME NEW k \in RequestKinds
      PROVE  [kind |-> k, of |-> r] \in Ledger!Account <=> Accounted(Span(k, r))
  BY <1>3, SpansDiffer, AccountIsAccount DEF Span
<1>4. CASE UNCHANGED <<ran, answer>>
  BY <1>2, <1>4 DEF Ledger!trailVars
<1>5. ASSUME NEW a \in Answers, pc[r] # "done", answer' = [answer EXCEPT ![r] = a],
             Ledger!Justifies(r, a), UNCHANGED ran
      PROVE  Ledger!Answer(r)
  <2>1. answer[r] = "none"
    BY <1>0, <1>5 DEF HandlerOK
  <2>2. a \in {"404", "403", "output"} \cup Ledger!Fallbacks
    BY <1>5 DEF Answers, FallbackKinds, Ledger!Fallbacks
  <2>. QED
    BY <1>2, <1>5, <2>1, <2>2 DEF Ledger!Answer
<1>6. CASE RejectPath(r)
  <2>1. Ledger!Justifies(r, "404")
    BY <1>0, <1>3, <1>6 DEF RejectPath, HandlerOK, Of, RequestKinds, Ledger!Justifies,
        Ledger!RequestSpan, Ledger!ErrorSpan
  <2>. QED
    BY <1>5, <1>6, <2>1 DEF RejectPath, Reply, Answers
<1>7. CASE Forbid(r)
  <2>1. Of(r, {"error"})
    BY <1>0, <1>7 DEF Forbid, HandlerOK, Appended
  <2>2. Ledger!Justifies(r, "403")
    BY <1>3, <2>1 DEF Of, RequestKinds, Ledger!Justifies, Ledger!ErrorSpan
  <2>. QED
    BY <1>5, <1>7, <2>2 DEF Forbid, Reply, Answers
<1>8. CASE ScriptSucceeds(r)
  <2>1. Of(r, {"request"}) /\ ran[r] # "nothing"
    BY <1>0, <1>8 DEF ScriptSucceeds, HandlerOK
  <2>2. Ledger!Justifies(r, "output")
    BY <1>3, <2>1 DEF Of, RequestKinds, FallbackKinds, Ledger!Justifies, Ledger!FallbackSpan,
        Ledger!Fallbacks
  <2>. QED
    BY <1>5, <1>8, <2>2 DEF ScriptSucceeds, Reply, Answers
<1>9. CASE ReplyFallback(r)
  <2>1. PICK k \in FallbackKinds : pending[r] = Span(k, r) /\ Of(r, {"request", k})
    BY <1>0, <1>9 DEF ReplyFallback, HandlerOK, Appended
  <2>2. pending[r].kind = k
    BY <2>1 DEF Span
  <2>3. Ledger!Justifies(r, k)
    BY <1>3, <2>1 DEF Of, RequestKinds, FallbackKinds, Ledger!Justifies, Ledger!FallbackSpan,
        Ledger!Fallbacks
  <2>. QED
    BY <1>5, <1>9, <2>2, <2>3 DEF ReplyFallback, Reply, Answers
<1>10. CASE StartScript(r)
  <2>1. /\ answer[r] = "none" /\ ran[r] = "nothing" /\ Of(r, {"request"})
    BY <1>0, <1>10 DEF StartScript, HandlerOK
  <2>2. /\ ran' = [ran EXCEPT ![r] = body[r]] /\ body[r] # "nothing" /\ answer' = answer
    BY <1>10 DEF StartScript, TypeOK
  <2>3. {q \in Requests : ran'[q] # "nothing"} = {q \in Requests : ran[q] # "nothing"} \cup {r}
    BY <1>0, <2>2
  <2>4. /\ Ledger!RequestSpan(r) \in Ledger!Account
        /\ \A k \in Ledger!Fallbacks : Ledger!FallbackSpan(r, k) \notin Ledger!Account
    BY <1>3, <2>1 DEF Of, RequestKinds, FallbackKinds, Ledger!RequestSpan, Ledger!FallbackSpan,
        Ledger!Fallbacks
  <2>. QED
    BY <1>2, <2>1, <2>2, <2>3, <2>4 DEF Ledger!Execute
<1>11. CASE Connect(r) \/ Deny(r) \/ Admit(r) \/ FindScript(r) \/ MissScript(r) \/ ReadBody(r)
              \/ StartFails(r) \/ ScriptFails(r)
  BY <1>4, <1>11 DEF Connect, Deny, Admit, FindScript, MissScript, ReadBody, StartFails, ScriptFails
<1>. QED
  BY <1>6, <1>7, <1>8, <1>9, <1>10, <1>11 DEF HandlerStep, ScriptExits

(* server.go implements AuditTrail: every initial state maps to one, and   *)
(* every step, a crash and a restart among them, to a step or a stutter.   *)
THEOREM GatewayImplementsAuditTrail == Spec => ImplementsAuditTrail
<1>1. Init => Ledger!TrailInit
  <2>. SUFFICES ASSUME Init PROVE Ledger!TrailInit
    OBVIOUS
  <2>1. {s \in Spans : InTrail(s)} = {} /\ {r \in Requests : ran[r] # "nothing"} = {}
    BY DEF Init, InTrail, OnLine
  <2>. QED
    BY <2>1 DEF Init, Ledger!TrailInit
<1>2. IInv /\ [Next]_vars => [Ledger!TrailNext]_(Ledger!trailVars)
  <2>. SUFFICES ASSUME IInv, [Next]_vars PROVE [Ledger!TrailNext]_(Ledger!trailVars)
    OBVIOUS
  <2>1. CASE Start \/ Crash \/ Beat \/ UNCHANGED vars
    <3>1. UNCHANGED <<lines, tail, dropped, ran, answer>>
      BY <2>1 DEF Start, Crash, Beat, vars, handlerVars, fileVars
    <3>. QED
      BY <3>1 DEF Ledger!trailVars, InTrail, OnLine
  <2>2. ASSUME NEW w \in Writers, AcquireTimeline(w) \/ AppendStep(w)
        PROVE  [Ledger!TrailNext]_(Ledger!trailVars)
    BY <2>2, AppendRefines DEF Ledger!TrailNext, Ledger!Record, Ledger!Lose, Ledger!Due
  <2>3. ASSUME NEW r \in Requests, Connect(r) \/ HandlerStep(r) \/ ScriptExits(r)
        PROVE  [Ledger!TrailNext]_(Ledger!trailVars)
    BY <2>3, HandlerRefines DEF Ledger!TrailNext
  <2>. QED
    BY <2>1, <2>2, <2>3 DEF Next
<1>. QED
  BY <1>1, <1>2, Invariance, PTL DEF Spec, ImplementsAuditTrail, Ledger!TrailSpec
============================================================================
