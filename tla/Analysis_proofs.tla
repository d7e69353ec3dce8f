-------------------------- MODULE Analysis_proofs --------------------------
(******************************************************************************)
(* What Analysis keeps for any replies of the venue, any inputs of a          *)
(* provider, any answers of the LLM and any number of lost writes and         *)
(* crashes.  LedgerInv ties agent_runs to the context of the running pass and *)
(* the exceptions raised to the attempts made; ContentInv adds what the       *)
(* inputs and the context hold: the news are a sequence whose holdings the    *)
(* section names, live chains are whole, and the candidates are the first     *)
(* ranks of their chain.                                                      *)
(******************************************************************************)
EXTENDS Analysis, SequenceTheorems, FiniteSetTheorems, WellFoundedInduction, TLAPS

-----------------------------------------------------------------------------
(* Sequences put one after the other.                                         *)

\* A non-empty set of naturals has a least element.
LEMMA MinIsLeast ==
  ASSUME NEW S \in SUBSET Nat, S # {}
  PROVE  Min(S) \in S /\ \A n \in S : Min(S) <= n
<1> DEFINE Below == {0 .. n : n \in S}
<1>1. Below \subseteq FiniteSubsetsOf(Nat) /\ Below # {}
  <2>1. \A n \in S : IsFiniteSet(0 .. n) /\ 0 .. n \in SUBSET Nat
    BY FS_Interval
  <2> QED
    BY <2>1 DEF FiniteSubsetsOf
<1>2. PICK B \in Below : \A C \in Below : <<C, B>> \notin StrictSubsetOrdering(Nat)
  BY <1>1, FS_StrictSubsetOrderingWellFounded, WFMin
<1>3. PICK m \in S : B = 0 .. m
  BY <1>2
<1>4. ASSUME NEW n \in S
      PROVE  m <= n
  <2>1. 0 .. n \in Below /\ 0 .. n \in SUBSET Nat /\ 0 .. m \in SUBSET Nat
    BY <1>4
  <2>2. ~(0 .. n \subseteq 0 .. m /\ 0 .. n # 0 .. m)
    BY <1>2, <1>3, <2>1 DEF StrictSubsetOrdering
  <2>3. n \in 0 .. n /\ m \in 0 .. m
    BY <1>3, <1>4
  <2> QED
    BY <1>3, <1>4, <2>2, <2>3
<1> QED
  BY <1>4 DEF Min

\* What holds of no natural but for one below it holds of none.
LEMMA NoLeastCounterexample ==
  ASSUME NEW n \in Nat, NEW Good \in SUBSET (0 .. n), 0 \in Good,
         \A i \in 1 .. n : i - 1 \in Good => i \in Good
  PROVE  Good = 0 .. n
<1> DEFINE Bad == (0 .. n) \ Good
<1>1. ASSUME Bad # {}
      PROVE  FALSE
  <2>1. Bad \in SUBSET Nat
    OBVIOUS
  <2>2. Min(Bad) \in Bad /\ \A i \in Bad : Min(Bad) <= i
    BY <1>1, <2>1, MinIsLeast
  <2>3. PICK m \in Bad : \A i \in Bad : m <= i
    BY <2>2
  <2>4. m \in 1 .. n /\ m - 1 \in 0 .. n
    BY <2>3
  <2>5. m - 1 \in Good
    BY <2>3, <2>4
  <2> QED
    BY <2>3, <2>4, <2>5
<1> QED
  BY <1>1

\* FlattenSeq goes through the sequences with what it has so far.
Running(f, s, n) == f = [i \in 1 .. n |-> IF i = 1 THEN s[i] ELSE f[i - 1] \o s[i]]

\* The elements of the first n sequences.
Elements(s, n) == UNION {Range(s[i]) : i \in 1 .. n}

\* It can.
LEMMA RunningExists ==
  ASSUME NEW X, NEW n \in Nat, NEW s \in [1 .. n -> Seq(X)]
  PROVE  \E f \in [1 .. n -> Seq(X)] : Running(f, s, n)
<1> DEFINE Good == {m \in 0 .. n : \E f \in [1 .. m -> Seq(X)] : Running(f, s, m)}
<1>1. 0 \in Good
  <2> DEFINE f == [i \in 1 .. 0 |-> <<>>]
  <2>1. f \in [1 .. 0 -> Seq(X)]
    OBVIOUS
  <2>2. Running(f, s, 0)
    BY DEF Running
  <2> HIDE DEF f
  <2>3. \E g \in [1 .. 0 -> Seq(X)] : Running(g, s, 0)
    BY <2>1, <2>2
  <2>4. 0 \in 0 .. n
    OBVIOUS
  <2> QED
    BY <2>3, <2>4, Zenon
<1>2. ASSUME NEW m \in 1 .. n, m - 1 \in Good
      PROVE  m \in Good
  <2>1. PICK f \in [1 .. m - 1 -> Seq(X)] : Running(f, s, m - 1)
    BY <1>2
  <2> DEFINE last == IF m = 1 THEN s[m] ELSE f[m - 1] \o s[m]
             g == [i \in 1 .. m |-> IF i = m THEN last ELSE f[i]]
  <2>2. last \in Seq(X)
    <3>1. s[m] \in Seq(X)
      OBVIOUS
    <3>2. CASE m = 1
      BY <3>1, <3>2
    <3>3. CASE m # 1
      <4>1. f[m - 1] \in Seq(X)
        BY <2>1, <3>3
      <4> QED
        BY <3>1, <3>3, <4>1, ConcatProperties
    <3> QED
      BY <3>2, <3>3
  <2>3. \A i \in 1 .. m : g[i] = IF i = 1 THEN s[i] ELSE g[i - 1] \o s[i]
    <3> TAKE i \in 1 .. m
    <3>1. i # 1 => i - 1 \in 1 .. m /\ i - 1 # m
      OBVIOUS
    <3>2. CASE i = m
      BY <3>1, <3>2
    <3>3. CASE i # m
      <4>1. i \in 1 .. m - 1
        BY <3>3
      <4>2. f[i] = IF i = 1 THEN s[i] ELSE f[i - 1] \o s[i]
        BY <2>1, <4>1 DEF Running
      <4> QED
        BY <3>1, <3>3, <4>2
    <3> QED
      BY <3>2, <3>3
  <2>4. g \in [1 .. m -> Seq(X)]
    <3>1. \A i \in 1 .. m : i # m => i \in 1 .. m - 1
      OBVIOUS
    <3> HIDE DEF last
    <3> QED
      BY <2>1, <2>2, <3>1
  <2> HIDE DEF g
  <2>5. Running(g, s, m)
    BY <2>3, <2>4 DEF Running
  <2> QED
    BY <2>4, <2>5
<1> HIDE DEF Good
<1>3. Good = 0 .. n
  <2>1. Good \in SUBSET (0 .. n)
    BY DEF Good
  <2> QED
    BY <1>1, <1>2, <2>1, NoLeastCounterexample
<1>4. n \in Good
  BY <1>3
<1> QED
  BY <1>4 DEF Good

\* At each step it has the elements of the sequences passed.
LEMMA RunningHas ==
  ASSUME NEW X, NEW n \in Nat, NEW s \in [1 .. n -> Seq(X)], NEW f, Running(f, s, n)
  PROVE  \A m \in 1 .. n : f[m] \in Seq(X) /\ Range(f[m]) = Elements(s, m)
<1> DEFINE union(m) == UNION {Range(s[i]) : i \in 1 .. m}
           Good == {m \in 0 .. n : m = 0 \/ (f[m] \in Seq(X) /\ Range(f[m]) = union(m))}
<1>1. \A i \in 1 .. n : f[i] = IF i = 1 THEN s[i] ELSE f[i - 1] \o s[i]
  BY DEF Running
<1>2. ASSUME NEW m \in 1 .. n, m - 1 \in Good
      PROVE  m \in Good
  <2>1. s[m] \in Seq(X)
    OBVIOUS
  <2>2. CASE m = 1
    <3>1. f[m] = s[m]
      BY <1>1, <2>2
    <3>2. union(m) = Range(s[m])
      BY <2>2
    <3> QED
      BY <2>1, <3>1, <3>2
  <2>3. CASE m # 1
    <3>1. f[m] = f[m - 1] \o s[m]
      BY <1>1, <2>3
    <3>2. f[m - 1] \in Seq(X) /\ Range(f[m - 1]) = union(m - 1)
      BY <1>2, <2>3
    <3>3. f[m] \in Seq(X) /\ Range(f[m]) = Range(f[m - 1]) \cup Range(s[m])
      BY <2>1, <3>1, <3>2, ConcatProperties, RangeConcatenation
    <3>4. \A i : i \in 1 .. m <=> i \in 1 .. m - 1 \/ i = m
      BY <2>3
    <3>5. union(m) = union(m - 1) \cup Range(s[m])
      <4> HIDE <1>2
      <4> QED
        BY <3>4, Zenon
    <3> QED
      BY <3>2, <3>3, <3>5
  <2> QED
    BY <2>2, <2>3
<1>3. Good = 0 .. n
  <2>1. Good \in SUBSET (0 .. n) /\ 0 \in Good
    OBVIOUS
  <2> HIDE DEF Good
  <2> QED
    BY <1>2, <2>1, NoLeastCounterexample
<1>4. ASSUME NEW m \in 1 .. n
      PROVE  f[m] \in Seq(X) /\ Range(f[m]) = union(m)
  <2>1. m \in 0 .. n /\ m # 0
    OBVIOUS
  <2>2. m \in Good
    BY <1>3, <2>1, Zenon
  <2> QED
    BY <2>1, <2>2, Zenon
<1> QED
  BY <1>4 DEF Elements

\* So the flattened sequence has the elements of all of them.
LEMMA FlattenHas ==
  ASSUME NEW X, NEW s \in Seq(Seq(X))
  PROVE  /\ FlattenSeq(s) \in Seq(X)
         /\ Range(FlattenSeq(s)) = UNION {Range(s[i]) : i \in DOMAIN s}
<1> DEFINE n == Len(s)
           is(f) == f = [i \in 1 .. n |-> IF i = 1 THEN s[i] ELSE f[i - 1] \o s[i]]
           flat == CHOOSE f : is(f)
<1>1. n \in Nat /\ s \in [1 .. n -> Seq(X)] /\ DOMAIN s = 1 .. n
  BY LenProperties
<1>2. CASE n = 0
  <2>1. FlattenSeq(s) = s
    BY <1>2 DEF FlattenSeq
  <2>2. s = <<>>
    BY <1>2, EmptySeq
  <2>3. DOMAIN s = {}
    BY <1>1, <1>2
  <2>4. Range(s) = {} /\ UNION {Range(s[i]) : i \in DOMAIN s} = {}
    BY <2>3 DEF Range
  <2>5. FlattenSeq(s) \in Seq(X)
    BY <2>1, <2>2
  <2>6. Range(FlattenSeq(s)) = UNION {Range(s[i]) : i \in DOMAIN s}
    <3> HIDE DEF n
    <3> QED
      BY <2>1, <2>4
  <2> QED
    BY <2>5, <2>6
<1>3. CASE n # 0
  <2>1. FlattenSeq(s) = flat[n]
    BY <1>3 DEF FlattenSeq
  <2>2. \A f : Running(f, s, n) <=> is(f)
    BY DEF Running
  <2> HIDE DEF n
  <2>3. Running(flat, s, n)
    BY <1>1, <2>2, RunningExists
  <2> HIDE DEF flat, is
  <2>4. n \in 1 .. n
    BY <1>1, <1>3
  <2>5. flat[n] \in Seq(X) /\ Range(flat[n]) = Elements(s, n)
    BY <1>1, <2>3, <2>4, RunningHas
  <2> QED
    BY <1>1, <2>1, <2>5, Zenon DEF Elements
<1> QED
  BY <1>2, <1>3
-----------------------------------------------------------------------------
(* The invariant. *)

Places ==
  {"repo", "fetch", "market", "news", "chains", "agent", "run", "context", "failed", "raised",
   "503", "500", "dead"}

\* Where nothing has been analysed yet.
Fetching == {"repo", "fetch", "market", "news", "chains"}

Payloads == [route : {"MONITORING"}, class : {"CRITICAL", "RECOVERABLE"}, halted : BOOLEAN]

Passes ==
  [n : Nat, caller : {"node", "endpoint"}, source : {"live", "provider"}, at : Places,
   attempt : Nat, raised : Seq(Exceptions), agent : 1 .. 6, row : Nat, failure : Seq(Payloads)]

Rows ==
  [pass : Nat, agent : {"portfolio", "stock", "market", "news", "options"},
   status : {"started", "outputs", "error"}]

Sections == {"portfolio_state", "stock_state", "market_state", "news_context", "option_candidates"}

TypeOK ==
  /\ pass \in Passes
  /\ DOMAIN context = DOMAIN NoContext /\ context.degraded \in Seq(Sections)
  /\ runs \in Seq(Rows)

\* No row is of a later pass, and a pass that has not analysed has no row.
Untouched ==
  /\ \A i \in DOMAIN runs : runs[i].pass <= pass.n
  /\ pass.at \in Fetching \cup {"failed"} =>
       /\ context = NoContext /\ pass.agent = 1 /\ pass.row = 0
       /\ \A i \in DOMAIN runs : runs[i].pass < pass.n

\* Every attempt but the last was followed by another.
Attempts ==
  LET tries == Len(pass.raised)
      again(k) == \A i \in 1 .. k : AfterAttempt(i, pass.raised[i]) = "again" IN
  /\ pass.at \in Fetching => pass.attempt = tries + 1 /\ pass.attempt <= MaxAttempts /\ again(tries)
  /\ pass.at = "failed" =>
       /\ tries > 0 /\ tries <= MaxAttempts /\ again(tries - 1)
       /\ AfterAttempt(tries, pass.raised[tries]) # "again"
       /\ pass.failure = <<FailurePayload("ANALYZING", Surfaced(tries, pass.raised[tries]))>>

\* The open row of the running agent, the rows of the agents before it, and none of the
\* agents after it.
Written(n, agent) == \E write \in {"start", "finish"} : <<n, agent, write>> \in lost

OpenRow ==
  /\ pass.at = "run" => pass.agent \in DOMAIN Agents
  /\ pass.row # 0 /\ pass.at # "dead" =>
       pass.at = "run" /\ pass.row \in DOMAIN runs /\ runs[pass.row] = Row("started")

RowsOf(k) ==
  LET rows == RunsOf(pass.n, Agents[k]) IN
  /\ \A i, j \in rows : i = j
  /\ rows = {} => <<pass.n, Agents[k], "start">> \in lost

ClosedRows(k) ==
  \A i \in RunsOf(pass.n, Agents[k]) :
    \/ runs[i].status = IF Section[Agents[k]] \in ToSet(context.degraded) THEN "error" ELSE "outputs"
    \/ Written(pass.n, Agents[k])

Ledger ==
  pass.at \in {"agent", "run", "context"} =>
    /\ \A k \in DOMAIN Agents :
         /\ k < pass.agent => RowsOf(k) /\ ClosedRows(k)
         /\ k = pass.agent /\ pass.at = "run" =>
              RowsOf(k) /\ (pass.row = 0 => <<pass.n, Agents[k], "start">> \in lost)
         /\ k > pass.agent \/ (k = pass.agent /\ pass.at # "run") => RunsOf(pass.n, Agents[k]) = {}
         /\ k >= pass.agent => Section[Agents[k]] \notin ToSet(context.degraded)

OpenRowsExplained ==
  \A i \in DOMAIN runs :
    runs[i].status = "started" =>
      i = pass.row \/ runs[i].pass < pass.n \/ pass.at = "dead" \/ Written(runs[i].pass, runs[i].agent)

LedgerInv == TypeOK /\ Untouched /\ Attempts /\ OpenRow /\ Ledger /\ OpenRowsExplained

-----------------------------------------------------------------------------
(* Lemmas. *)

LEMMA AgentsFacts ==
  /\ DOMAIN Agents = 1 .. 5 /\ Len(Agents) = 5
  /\ \A k \in 1 .. 5 :
       /\ Agents[k] \in {"portfolio", "stock", "market", "news", "options"}
       /\ Section[Agents[k]] \in Sections
       /\ Agents[k] \in DOMAIN NoContext /\ Agents[k] # "degraded"
  /\ \A k, l \in 1 .. 5 : k # l => Agents[k] # Agents[l] /\ Section[Agents[k]] # Section[Agents[l]]
<1>1. \A k \in 1 .. 5 : k = 1 \/ k = 2 \/ k = 3 \/ k = 4 \/ k = 5
  OBVIOUS
<1>2. DOMAIN Agents = 1 .. 5 /\ Len(Agents) = 5
  BY DEF Agents
<1>3. /\ Agents[1] = "portfolio" /\ Agents[2] = "stock" /\ Agents[3] = "market"
      /\ Agents[4] = "news" /\ Agents[5] = "options"
  BY DEF Agents
<1>4. /\ Section[Agents[1]] = "portfolio_state" /\ Section[Agents[2]] = "stock_state"
      /\ Section[Agents[3]] = "market_state" /\ Section[Agents[4]] = "news_context"
      /\ Section[Agents[5]] = "option_candidates"
  BY <1>3 DEF Section
<1>5. \A k \in 1 .. 5 :
        /\ Agents[k] \in {"portfolio", "stock", "market", "news", "options"}
        /\ Section[Agents[k]] \in Sections
        /\ Agents[k] \in DOMAIN NoContext /\ Agents[k] # "degraded"
  BY <1>1, <1>3, <1>4 DEF NoContext, Sections
<1>6. \A k, l \in 1 .. 5 : k # l => Agents[k] # Agents[l]
  BY <1>1, <1>3
<1>7. \A k, l \in 1 .. 5 : k # l => Section[Agents[k]] # Section[Agents[l]]
  BY <1>1, <1>4
<1> QED
  BY <1>2, <1>5, <1>6, <1>7

LEMMA ToSetAppend ==
  ASSUME NEW X, NEW s \in Seq(X), NEW e \in X
  PROVE  ToSet(Append(s, e)) = ToSet(s) \cup {e}
<1>1. DOMAIN Append(s, e) = 1 .. Len(s) + 1 /\ DOMAIN s = 1 .. Len(s) /\ Len(s) \in Nat
  BY AppendProperties
<1>2. \A i \in 1 .. Len(s) + 1 : Append(s, e)[i] = IF i = Len(s) + 1 THEN e ELSE s[i]
  BY AppendProperties
<1>3. \A i \in 1 .. Len(s) + 1 : i = Len(s) + 1 \/ i \in 1 .. Len(s)
  BY <1>1
<1>4. Len(s) + 1 \in 1 .. Len(s) + 1 /\ \A i \in 1 .. Len(s) : i \in 1 .. Len(s) + 1 /\ i # Len(s) + 1
  BY <1>1
<1> QED
  BY <1>1, <1>2, <1>3, <1>4 DEF ToSet

\* A row appended is the only new one.
LEMMA Appended ==
  ASSUME NEW s \in Seq(Rows), NEW row \in Rows
  PROVE  /\ Append(s, row) \in Seq(Rows)
         /\ DOMAIN Append(s, row) = DOMAIN s \cup {Len(s) + 1}
         /\ Len(s) + 1 \notin DOMAIN s /\ Len(s) + 1 \in Nat \ {0}
         /\ Append(s, row)[Len(s) + 1] = row
         /\ \A i \in DOMAIN s : Append(s, row)[i] = s[i]
<1>1. DOMAIN s = 1 .. Len(s) /\ Len(s) \in Nat
  OBVIOUS
<1>2. /\ Append(s, row) \in Seq(Rows)
      /\ DOMAIN Append(s, row) = 1 .. Len(s) + 1
      /\ \A i \in 1 .. Len(s) + 1 : Append(s, row)[i] = IF i = Len(s) + 1 THEN row ELSE s[i]
  BY AppendProperties
<1> QED
  BY <1>1, <1>2

\* finish() writes the status of the open row and nothing else.
LEMMA Closed ==
  ASSUME NEW result, TypeOK, OpenRow, pass.at = "run"
  PROVE  /\ Close(runs, result) \in Seq(Rows) /\ DOMAIN Close(runs, result) = DOMAIN runs
         /\ \A i \in DOMAIN runs :
              /\ Close(runs, result)[i].pass = runs[i].pass
              /\ Close(runs, result)[i].agent = runs[i].agent
              /\ Close(runs, result)[i].status =
                   IF i = pass.row THEN IF result.raised THEN "error" ELSE "outputs"
                   ELSE runs[i].status
<1> DEFINE status == IF result.raised THEN "error" ELSE "outputs"
<1>1. CASE pass.row = 0
  <2>1. 0 \notin DOMAIN runs
    BY DEF TypeOK
  <2> QED
    BY <1>1, <2>1 DEF Close, TypeOK
<1>2. CASE pass.row # 0
  <2>1. pass.row \in DOMAIN runs /\ runs \in Seq(Rows)
    BY <1>2 DEF OpenRow, TypeOK
  <2>2. Close(runs, result) = [runs EXCEPT ![pass.row].status = status]
    BY <1>2 DEF Close
  <2>3. \A i \in DOMAIN runs : runs[i] \in Rows
    BY <2>1
  <2>4. [runs[pass.row] EXCEPT !.status = status] \in Rows
    <3>1. status \in {"started", "outputs", "error"}
      <4>1. CASE result.raised
        BY <4>1
      <4>2. CASE ~result.raised
        BY <4>2
      <4> QED
        BY <4>1, <4>2
    <3> HIDE DEF status
    <3> QED
      BY <2>1, <2>3, <3>1 DEF Rows
  <2> HIDE DEF status
  <2>5. Close(runs, result) = [runs EXCEPT ![pass.row] = [runs[pass.row] EXCEPT !.status = status]]
    BY <2>2
  <2>6. Close(runs, result) \in Seq(Rows) /\ DOMAIN Close(runs, result) = DOMAIN runs
    BY <2>1, <2>4, <2>5, ExceptSeq
  <2>7. \A i \in DOMAIN runs :
          Close(runs, result)[i] = IF i = pass.row THEN [runs[pass.row] EXCEPT !.status = status] ELSE runs[i]
    BY <2>1, <2>5
  <2>8. \A i \in DOMAIN runs : DOMAIN runs[i] = {"pass", "agent", "status"}
    BY <2>3 DEF Rows
  <2> QED
    BY <2>6, <2>7, <2>8 DEF status
<1> QED
  BY <1>1, <1>2

LEMMA PayloadType ==
  ASSUME NEW e
  PROVE  FailurePayload("ANALYZING", e) \in Payloads
BY DEF FailurePayload, ClassifyFailure, Payloads

\* What the provider raised is put on record, and the pass goes on fetching or is over.
LEMMA FailedType ==
  ASSUME TypeOK, NEW e \in Exceptions, Fail(e)
  PROVE  /\ pass' \in Passes /\ pass'.n = pass.n /\ pass'.agent = pass.agent /\ pass'.row = pass.row
         /\ pass'.raised = Append(pass.raised, e)
         /\ pass'.at \in {"fetch", "failed", "503", "500"}
<1>1. pass \in Passes
  BY DEF TypeOK
<1>2. Append(pass.raised, e) \in Seq(Exceptions)
  <2>1. pass.raised \in Seq(Exceptions)
    BY <1>1 DEF Passes
  <2> QED
    BY <2>1, AppendProperties
<1>3. <<FailurePayload("ANALYZING", Surfaced(pass.attempt, e))>> \in Seq(Payloads)
  BY PayloadType
<1>4. Refusal(e) \in {"503", "500"}
  BY DEF Refusal
<1>5. pass.attempt \in Nat
  BY <1>1 DEF Passes
<1>6. pass.attempt + 1 \in Nat
  BY <1>5
<1>7. {"fetch", "failed", "503", "500"} \subseteq Places
  BY DEF Places
<1> QED
  BY <1>1, <1>2, <1>3, <1>4, <1>5, <1>6, <1>7 DEF Fail, Passes

\* Whatever the portfolio reader raises is an exception.
LEMMA PortfolioRaises ==
  ASSUME NEW credentials, NEW account, NEW reply, NEW rows,
         PortfolioState(credentials, account, reply, rows).raises # "none"
  PROVE  Plain(PortfolioState(credentials, account, reply, rows).raises) \in Exceptions
<1> DEFINE raises == PortfolioState(credentials, account, reply, rows).raises
<1>1. raises \in {"IngestError", "other"}
  BY DEF PortfolioState
<1> HIDE DEF raises
<1> DEFINE kinds == {"TransientError", "CriticalFailure", "RecoverableFailure",
                     "AlpacaCredentialsError", "AgentError", "IngestError", "other"}
<1>2. \A kind \in kinds : Plain(kind) \in Exceptions
  BY Zenon DEF Exceptions
<1>3. raises \in kinds
  BY <1>1
<1> QED
  BY <1>2, <1>3, Zenon DEF raises
-----------------------------------------------------------------------------
(* The steps that fetch. *)

Fetches ==
  OpenRepo \/ RepoFails \/ FetchPortfolio \/ FetchMarket \/ FetchNews \/ FetchChains \/ FetchHandedIn

\* A pass goes to another place, or its provider has raised something.
LEMMA Fetched ==
  ASSUME TypeOK, Fetches
  PROVE  /\ pass.at \in Fetching
         /\ UNCHANGED <<context, runs>> /\ lost \subseteq lost'
         /\ \/ pass' = [pass EXCEPT !.at = pass'.at]
               /\ pass'.at \in {"fetch", "market", "news", "chains", "repo", "agent", "raised", "500"}
            \/ pass.at = "fetch" /\ \E e \in Exceptions : Fail(e)
<1> USE DEF Fetching, Goto
<1>0. pass \in Passes /\ DOMAIN pass = {"n", "caller", "source", "at", "attempt", "raised",
                                        "agent", "row", "failure"}
  BY DEF TypeOK, Passes
<1>1. CASE OpenRepo
  BY <1>0, <1>1 DEF OpenRepo, AfterRepo
<1>2. CASE RepoFails
  BY <1>0, <1>2 DEF RepoFails
<1>3. CASE FetchPortfolio
  <2>1. pass.at = "fetch" /\ UNCHANGED <<context, runs, lost>>
    BY <1>3 DEF FetchPortfolio
  <2>2. pass' = [pass EXCEPT !.at = "market"] \/ \E e \in Exceptions : Fail(e)
    <3>1. PICK credentials \in SUBSET {"key", "secret"}, account \in AlpacaReplies,
               reply \in AlpacaReplies, rows \in PositionSets \cup {{"no symbol"}} :
            LET portfolio == PortfolioState(credentials, account, reply, rows)
                reached == ~PortfolioUnreachable(credentials, account, reply) IN
            /\ IF portfolio.raises = "none"
               THEN /\ inputs' = [NoInputs EXCEPT !.positions = portfolio.positions,
                                                  !.underlyings = portfolio.positions]
                    /\ pass' = [pass EXCEPT !.at = "market"]
               ELSE Fail(Plain(portfolio.raises)) /\ UNCHANGED inputs
            /\ served' = [NothingServed EXCEPT !.failed = Source("portfolio_state", reached)]
      BY <1>3, Zenon DEF FetchPortfolio
    <3> DEFINE raises == PortfolioState(credentials, account, reply, rows).raises
    <3>2. CASE raises = "none"
      BY <3>1, <3>2
    <3>3. CASE raises # "none"
      <4>1. Fail(Plain(raises))
        BY <3>1, <3>3
      <4> QED
        BY <3>3, <4>1, PortfolioRaises
    <3> QED
      BY <3>2, <3>3
  <2> QED
    BY <1>0, <2>1, <2>2
<1>4. CASE FetchMarket
  BY <1>0, <1>4 DEF FetchMarket
<1>5. CASE FetchNews
  BY <1>0, <1>5 DEF FetchNews
<1>6. CASE FetchChains
  BY <1>0, <1>6 DEF FetchChains, AfterFetch
<1>7. CASE FetchHandedIn
  BY <1>0, <1>7 DEF FetchHandedIn
<1> QED
  BY <1>1, <1>2, <1>3, <1>4, <1>5, <1>6, <1>7 DEF Fetches

LEMMA FetchesKeep ==
  ASSUME LedgerInv, Fetches
  PROVE  LedgerInv'
<1> USE DEF LedgerInv
<1>1. /\ pass.at \in Fetching /\ UNCHANGED <<context, runs>> /\ lost \subseteq lost'
      /\ context = NoContext /\ pass.agent = 1 /\ pass.row = 0
      /\ \A i \in DOMAIN runs : runs[i].pass < pass.n
  BY Fetched DEF Untouched
<1>2. /\ pass' \in Passes /\ pass'.n = pass.n /\ pass'.agent = pass.agent /\ pass'.row = pass.row
      /\ pass'.at \in Fetching \cup {"agent", "raised", "500", "503", "failed"}
  <2>1. CASE /\ pass' = [pass EXCEPT !.at = pass'.at]
             /\ pass'.at \in {"fetch", "market", "news", "chains", "repo", "agent", "raised", "500"}
    BY <2>1 DEF TypeOK, Passes, Places, Fetching
  <2>2. CASE \E e \in Exceptions : Fail(e)
    BY <2>2, FailedType DEF Fetching
  <2> QED
    BY <2>1, <2>2, Fetched
<1>3. TypeOK'
  BY <1>1, <1>2 DEF TypeOK
<1>4. Untouched'
  BY <1>1, <1>2 DEF Untouched
<1>5. Attempts'
  <2> DEFINE tries == Len(pass.raised)
             again(raised, k) == \A i \in 1 .. k : AfterAttempt(i, raised[i]) = "again"
  <2>0. /\ pass.attempt = tries + 1 /\ pass.attempt <= MaxAttempts /\ again(pass.raised, tries)
        /\ pass.raised \in Seq(Exceptions) /\ tries \in Nat
    <3>1. pass.raised \in Seq(Exceptions)
      BY DEF TypeOK, Passes
    <3>2. pass.attempt = tries + 1 /\ pass.attempt <= MaxAttempts /\ again(pass.raised, tries)
      BY <1>1 DEF Attempts
    <3> QED
      BY <3>1, <3>2, LenProperties
  <2>1. CASE /\ pass' = [pass EXCEPT !.at = pass'.at]
             /\ pass'.at \in {"fetch", "market", "news", "chains", "repo", "agent", "raised", "500"}
    <3>1. pass'.raised = pass.raised /\ pass'.attempt = pass.attempt
      BY <2>1 DEF TypeOK, Passes
    <3> QED
      BY <2>0, <2>1, <3>1 DEF Attempts
  <2>2. ASSUME NEW e \in Exceptions, Fail(e)
        PROVE  Attempts'
    <3> DEFINE outcome == AfterAttempt(pass.attempt, e)
    <3>1. pass'.raised = Append(pass.raised, e)
      BY <2>2, FailedType
    <3>2. /\ Len(pass'.raised) = tries + 1 /\ pass'.raised[tries + 1] = e
          /\ \A i \in 1 .. tries : pass'.raised[i] = pass.raised[i]
      BY <2>0, <3>1, AppendProperties
    <3>3. again(pass'.raised, tries)
      BY <2>0, <3>2
    <3>4. /\ DOMAIN pass = {"n", "caller", "source", "at", "attempt", "raised", "agent", "row", "failure"}
          /\ pass.caller \in {"node", "endpoint"}
      BY DEF TypeOK, Passes
    <3>5. pass'.at \in Fetching =>
            outcome = "again" /\ pass'.attempt = pass.attempt + 1
      BY <2>2, <3>4 DEF Fail, Fetching, Refusal
    <3>6. outcome = "again" => pass.attempt < MaxAttempts
      BY DEF AfterAttempt
    <3>7. pass'.at = "failed" =>
            outcome # "again" /\ pass'.failure = <<FailurePayload("ANALYZING", Surfaced(pass.attempt, e))>>
      BY <2>2, <3>4 DEF Fail, Refusal
    <3>8. outcome = "again" => again(pass'.raised, tries + 1)
      <4>1. \A i \in 1 .. tries + 1 : i \in 1 .. tries \/ i = tries + 1
        BY <2>0
      <4> QED
        BY <2>0, <3>2, <3>3, <4>1
    <3>9. CASE pass'.at \in Fetching
      <4>1. pass'.attempt = Len(pass'.raised) + 1 /\ pass'.attempt <= MaxAttempts
        BY <2>0, <3>2, <3>5, <3>6, <3>9, MaxAttemptsAssumption
      <4>2. again(pass'.raised, Len(pass'.raised))
        BY <3>2, <3>5, <3>8, <3>9
      <4>3. pass'.at # "failed"
        BY <3>9 DEF Fetching
      <4> QED
        BY <4>1, <4>2, <4>3 DEF Attempts
    <3>10. CASE pass'.at = "failed"
      <4>1. Len(pass'.raised) > 0 /\ Len(pass'.raised) <= MaxAttempts /\ Len(pass'.raised) - 1 = tries
        BY <2>0, <3>2, MaxAttemptsAssumption
      <4>2. AfterAttempt(Len(pass'.raised), pass'.raised[Len(pass'.raised)]) # "again"
        BY <2>0, <3>2, <3>7, <3>10
      <4>3. pass'.failure =
              <<FailurePayload("ANALYZING", Surfaced(Len(pass'.raised), pass'.raised[Len(pass'.raised)]))>>
        BY <2>0, <3>2, <3>7, <3>10
      <4>4. pass'.at \notin Fetching
        BY <3>10 DEF Fetching
      <4> QED
        BY <3>3, <3>10, <4>1, <4>2, <4>3, <4>4 DEF Attempts
    <3> QED
      BY <3>9, <3>10 DEF Attempts
  <2> QED
    BY <2>1, <2>2, Fetched
<1>6. OpenRow'
  BY <1>1, <1>2 DEF OpenRow, Fetching
<1>7. Ledger'
  <2>1. ToSet(context'.degraded) = {}
    BY <1>1 DEF NoContext, ToSet
  <2>2. \A agent : RunsOf(pass.n, agent)' = {}
    <3>1. pass.n \in Nat
      BY DEF TypeOK, Passes
    <3>2. \A i \in DOMAIN runs : runs[i].pass \in Nat
      <4>1. \A i \in DOMAIN runs : runs[i] \in Rows
        BY DEF TypeOK
      <4> QED
        BY <4>1 DEF Rows
    <3> QED
      BY <1>1, <1>2, <3>1, <3>2 DEF RunsOf
  <2>3. \A k \in DOMAIN Agents : RunsOf(pass.n, Agents[k])' = {} /\ ~(k < pass'.agent)
    BY <1>1, <1>2, <2>2, AgentsFacts
  <2>4. pass'.at # "run"
    BY <1>2 DEF Fetching
  <2> QED
    BY <2>1, <2>3, <2>4 DEF Ledger
<1>8. OpenRowsExplained'
  <2>1. \A n, agent : Written(n, agent) => Written(n, agent)'
    BY <1>1 DEF Written
  <2>2. \A i \in DOMAIN runs : runs'[i] = runs[i] /\ runs[i].pass < pass'.n
    BY <1>1, <1>2
  <2> QED
    BY <1>1, <2>2 DEF OpenRowsExplained
<1> QED
  BY <1>3, <1>4, <1>5, <1>6, <1>7, <1>8
-----------------------------------------------------------------------------
(* The steps of the assembler. *)

LEMMA RecordStartKeeps ==
  ASSUME LedgerInv, RecordStart
  PROVE  LedgerInv'
<1> USE DEF LedgerInv
<1> DEFINE a == pass.agent
<1>1. /\ pass.at = "agent" /\ a \in 1 .. 5 /\ UNCHANGED context
      /\ \/ /\ runs' = Append(runs, Row("started")) /\ lost' = lost
            /\ pass' = [pass EXCEPT !.at = "run", !.row = Len(runs) + 1]
         \/ /\ runs' \in {runs, Append(runs, Row("started"))}
            /\ pass' = [pass EXCEPT !.at = "run", !.row = 0]
            /\ lost' = lost \cup {<<pass.n, Agents[a], "start">>}
  BY AgentsFacts DEF RecordStart, Agent
<1>2. pass.n \in Nat /\ Row("started") \in Rows /\ Row("started").status = "started"
      /\ Row("started").pass = pass.n /\ Row("started").agent = Agents[a]
  BY <1>1, AgentsFacts DEF TypeOK, Passes, Row, Agent, Rows
<1> DEFINE new == Len(runs) + 1
<1>3. /\ DOMAIN Append(runs, Row("started")) = DOMAIN runs \cup {new}
      /\ Append(runs, Row("started")) \in Seq(Rows)
      /\ new \notin DOMAIN runs /\ new \in Nat \ {0}
      /\ Append(runs, Row("started"))[new] = Row("started")
      /\ \A i \in DOMAIN runs : Append(runs, Row("started"))[i] = runs[i]
  BY <1>2, Appended DEF TypeOK
<1> HIDE DEF new
<1>4. /\ runs' \in Seq(Rows) /\ \A i \in DOMAIN runs : runs'[i] = runs[i]
      /\ DOMAIN runs \subseteq DOMAIN runs'
      /\ \A i \in DOMAIN runs' : i \in DOMAIN runs \/ (i = new /\ runs'[i] = Row("started"))
  BY <1>1, <1>3 DEF TypeOK
<1>5. /\ pass' \in Passes /\ pass'.at = "run" /\ pass'.n = pass.n /\ pass'.agent = a
      /\ \/ pass'.row = new /\ runs' = Append(runs, Row("started"))
         \/ pass'.row = 0 /\ <<pass.n, Agents[a], "start">> \in lost'
      /\ lost \subseteq lost'
  <2>1. pass \in Passes /\ "run" \in Places
    BY DEF TypeOK, Places
  <2> QED
    <3>1. CASE runs' = Append(runs, Row("started")) /\ lost' = lost
               /\ pass' = [pass EXCEPT !.at = "run", !.row = new]
      BY <1>3, <2>1, <3>1 DEF Passes
    <3>2. CASE /\ pass' = [pass EXCEPT !.at = "run", !.row = 0]
               /\ lost' = lost \cup {<<pass.n, Agents[a], "start">>}
      BY <2>1, <3>2 DEF Passes
    <3> QED
      BY <1>1, <3>1, <3>2 DEF new
<1>6. TypeOK'
  BY <1>1, <1>4, <1>5 DEF TypeOK
<1>7. Untouched'
  <2>1. pass'.n \in Nat /\ pass'.at \notin Fetching \cup {"failed"}
    BY <1>2, <1>5 DEF Fetching
  <2>2. \A i \in DOMAIN runs' : runs'[i].pass <= pass'.n
    BY <1>2, <1>4, <1>5 DEF Untouched
  <2> QED
    BY <2>1, <2>2 DEF Untouched
<1>8. Attempts'
  BY <1>5 DEF Attempts, Fetching
<1>9. OpenRow'
  <2>1. pass'.row # 0 =>
          pass'.row \in DOMAIN runs' /\ runs'[pass'.row] = [pass |-> pass'.n, agent |-> Agents[pass'.agent],
                                                            status |-> "started"]
    BY <1>3, <1>5 DEF Row, Agent
  <2> QED
    BY <1>1, <1>5, <2>1, AgentsFacts DEF OpenRow, Row, Agent
<1>10. ASSUME NEW k \in 1 .. 5, k # a
       PROVE  RunsOf(pass.n, Agents[k])' = RunsOf(pass.n, Agents[k])
  <2>1. Agents[k] # Agents[a]
    BY <1>1, <1>10, AgentsFacts
  <2> QED
    BY <1>2, <1>4, <1>5, <2>1 DEF RunsOf
<1>11. RunsOf(pass.n, Agents[a])' = DOMAIN runs' \ DOMAIN runs
  <2>1. RunsOf(pass.n, Agents[a]) = {}
    BY <1>1, AgentsFacts DEF Ledger
  <2> QED
    BY <1>2, <1>3, <1>4, <1>5, <2>1 DEF RunsOf
<1>12. Ledger'
  <2> SUFFICES ASSUME NEW k \in 1 .. 5
               PROVE  /\ k < a => RowsOf(k)' /\ ClosedRows(k)'
                      /\ k = a => RowsOf(k)' /\ (pass'.row = 0 => <<pass'.n, Agents[k], "start">> \in lost')
                      /\ k > a => RunsOf(pass.n, Agents[k])' = {}
                      /\ k >= a => Section[Agents[k]] \notin ToSet(context'.degraded)
    BY <1>1, <1>5, AgentsFacts DEF Ledger
  <2>1. /\ k < a => RowsOf(k) /\ ClosedRows(k)
        /\ k > a => RunsOf(pass.n, Agents[k]) = {}
        /\ k >= a => Section[Agents[k]] \notin ToSet(context'.degraded)
    BY <1>1, AgentsFacts DEF Ledger
  <2>2. CASE k # a
    <3>1. RunsOf(pass.n, Agents[k])' = RunsOf(pass.n, Agents[k])
      BY <1>10, <2>2
    <3>2. RowsOf(k) => RowsOf(k)'
      BY <1>5, <3>1 DEF RowsOf
    <3>3. ClosedRows(k) => ClosedRows(k)'
      BY <1>1, <1>4, <1>5, <3>1 DEF ClosedRows, RunsOf, Written
    <3> QED
      BY <2>1, <2>2, <3>1, <3>2, <3>3
  <2>3. CASE k = a
    <3>1. \A i, j \in RunsOf(pass.n, Agents[k])' : i = j
      <4>1. RunsOf(pass.n, Agents[k])' = DOMAIN runs' \ DOMAIN runs
        BY <1>5, <1>11, <2>3
      <4>2. \A i \in DOMAIN runs' \ DOMAIN runs : i = new
        BY <1>4
      <4> QED
        BY <4>1, <4>2
    <3>2. RunsOf(pass.n, Agents[k])' = {} => <<pass'.n, Agents[k], "start">> \in lost'
      BY <1>3, <1>5, <1>11, <2>3
    <3>3. pass'.row = 0 => <<pass'.n, Agents[k], "start">> \in lost'
      BY <1>3, <1>5, <2>3
    <3> QED
      BY <1>1, <1>5, <2>1, <2>3, <3>1, <3>2, <3>3 DEF RowsOf
  <2> QED
    BY <2>2, <2>3
<1>13. OpenRowsExplained'
  <2> SUFFICES ASSUME NEW i \in DOMAIN runs', runs'[i].status = "started"
               PROVE  i = pass'.row \/ runs'[i].pass < pass'.n \/ Written(runs[i].pass, runs[i].agent)'
    BY DEF OpenRowsExplained
  <2>1. CASE i \in DOMAIN runs
    <3>1. pass.row = 0 /\ i # 0
      BY <1>1, <2>1 DEF OpenRow, TypeOK
    <3>2. runs[i].pass < pass.n \/ Written(runs[i].pass, runs[i].agent)
      BY <1>1, <1>4, <2>1, <3>1 DEF OpenRowsExplained
    <3> QED
      BY <1>4, <1>5, <2>1, <3>2 DEF Written
  <2>2. CASE i = new
    BY <1>2, <1>3, <1>4, <1>5, <2>2 DEF Written
  <2> QED
    BY <1>4, <2>1, <2>2
<1> QED
  BY <1>6, <1>7, <1>8, <1>9, <1>12, <1>13

LEMMA RunAgentKeeps ==
  ASSUME LedgerInv, RunAgent
  PROVE  LedgerInv'
<1> USE DEF LedgerInv
<1> DEFINE name == Agents[pass.agent]
<1>1. pass.at = "run" /\ pass.agent \in 1 .. 5 /\ Agent = name
  BY AgentsFacts DEF RunAgent, OpenRow, Agent
<1>2. PICK result : RecordFinish(result) /\ context' = Merge(result)
  BY DEF RunAgent
<1>3. /\ pass' \in Passes /\ pass'.at = "agent" /\ pass'.agent = pass.agent + 1
      /\ pass'.row = 0 /\ pass'.n = pass.n
  <2>1. pass' = [pass EXCEPT !.at = "agent", !.agent = pass.agent + 1, !.row = 0]
    BY DEF RunAgent
  <2>2. pass \in Passes /\ "agent" \in Places /\ pass.agent + 1 \in 1 .. 6
    BY <1>1 DEF TypeOK, Places
  <2> QED
    BY <2>1, <2>2 DEF Passes
<1>4. /\ runs' \in {runs, Close(runs, result)} /\ lost \subseteq lost'
      /\ runs' # Close(runs, result) => <<pass.n, name, "finish">> \in lost'
  BY <1>1, <1>2 DEF RecordFinish
<1>5. /\ runs' \in Seq(Rows) /\ DOMAIN runs' = DOMAIN runs
      /\ \A i \in DOMAIN runs :
           /\ runs'[i].pass = runs[i].pass /\ runs'[i].agent = runs[i].agent
           /\ i # pass.row => runs'[i].status = runs[i].status
           /\ i = pass.row =>
                \/ runs'[i].status = IF result.raised THEN "error" ELSE "outputs"
                \/ <<pass.n, name, "finish">> \in lost'
  <2>1. CASE runs' = Close(runs, result)
    BY <1>1, <2>1, Closed
  <2>2. CASE runs' = runs /\ <<pass.n, name, "finish">> \in lost'
    BY <2>2 DEF TypeOK
  <2> QED
    BY <1>4, <2>1, <2>2
<1>6. /\ DOMAIN context' = DOMAIN NoContext /\ context'.degraded \in Seq(Sections)
      /\ ToSet(context'.degraded) =
           ToSet(context.degraded) \cup (IF result.raised THEN {Section[name]} ELSE {})
  <2>1. /\ DOMAIN context = DOMAIN NoContext /\ context.degraded \in Seq(Sections)
        /\ "degraded" \in DOMAIN NoContext
    BY DEF TypeOK, NoContext
  <2>2. /\ name # "degraded" /\ Section[name] \in Sections
    BY <1>1, AgentsFacts
  <2>3. CASE result.raised
    <3>1. context' = [context EXCEPT !.degraded = Append(context.degraded, Section[name])]
      BY <1>1, <1>2, <2>3 DEF Merge
    <3> HIDE DEF name
    <3>2. context'.degraded = Append(context.degraded, Section[name]) /\ DOMAIN context' = DOMAIN context
      BY <2>1, <3>1
    <3>3. /\ Append(context.degraded, Section[name]) \in Seq(Sections)
          /\ ToSet(Append(context.degraded, Section[name])) = ToSet(context.degraded) \cup {Section[name]}
      BY <2>1, <2>2, AppendProperties, ToSetAppend
    <3> QED
      BY <2>1, <2>3, <3>2, <3>3
  <2>4. CASE ~result.raised
    <3>1. context' = [context EXCEPT ![name] = result.value]
      BY <1>1, <1>2, <2>4 DEF Merge
    <3> HIDE DEF name
    <3> QED
      BY <2>1, <2>2, <2>4, <3>1
  <2> QED
    BY <2>3, <2>4
<1>7. TypeOK'
  BY <1>3, <1>5, <1>6 DEF TypeOK
<1>8. Untouched'
  BY <1>3, <1>5 DEF Untouched, Fetching
<1>9. Attempts'
  BY <1>3 DEF Attempts, Fetching
<1>10. OpenRow'
  BY <1>3 DEF OpenRow
<1>11. \A n, agent : RunsOf(n, agent)' = RunsOf(n, agent)
  BY <1>5 DEF RunsOf
<1>12. \A k \in 1 .. 5 : RowsOf(k) => RowsOf(k)'
  BY <1>3, <1>4, <1>11 DEF RowsOf
<1>13. ASSUME NEW k \in 1 .. 5, k < pass.agent, ClosedRows(k)
       PROVE  ClosedRows(k)'
  <2>1. Section[Agents[k]] # Section[name]
    BY <1>1, <1>13, AgentsFacts
  <2>2. Section[Agents[k]] \in ToSet(context'.degraded) <=> Section[Agents[k]] \in ToSet(context.degraded)
    BY <1>6, <2>1
  <2>3. Written(pass.n, Agents[k]) => Written(pass.n, Agents[k])'
    BY <1>3, <1>4 DEF Written
  <2>4. \A i \in RunsOf(pass.n, Agents[k]) : i \in DOMAIN runs /\ i # pass.row
    <3>1. Agents[k] # name
      BY <1>1, <1>13, AgentsFacts
    <3>2. pass.row # 0 => runs[pass.row].agent = name
      BY <1>1 DEF OpenRow, Row
    <3>3. 0 \notin DOMAIN runs
      BY DEF TypeOK
    <3> QED
      BY <3>1, <3>2, <3>3 DEF RunsOf
  <2>5. RunsOf(pass.n, Agents[k])' = RunsOf(pass.n, Agents[k])
    BY <1>3, <1>11
  <2> QED
    BY <1>5, <1>13, <2>2, <2>3, <2>4, <2>5 DEF ClosedRows
<1>14. Ledger'
  <2> SUFFICES ASSUME NEW k \in 1 .. 5
               PROVE  /\ k <= pass.agent => RowsOf(k)' /\ ClosedRows(k)'
                      /\ k > pass.agent => RunsOf(pass.n, Agents[k])' = {}
                      /\ k > pass.agent => Section[Agents[k]] \notin ToSet(context'.degraded)
    BY <1>1, <1>3, AgentsFacts DEF Ledger
  <2>1. /\ k < pass.agent => RowsOf(k) /\ ClosedRows(k)
        /\ k = pass.agent => RowsOf(k) /\ (pass.row = 0 => <<pass.n, Agents[k], "start">> \in lost)
        /\ k > pass.agent => RunsOf(pass.n, Agents[k]) = {}
        /\ k >= pass.agent => Section[Agents[k]] \notin ToSet(context.degraded)
    BY <1>1, AgentsFacts DEF Ledger
  <2>2. CASE k < pass.agent
    BY <1>1, <1>12, <1>13, <2>1, <2>2
  <2>3. CASE k = pass.agent
    <3>1. Section[Agents[k]] \in ToSet(context'.degraded) <=> result.raised
      BY <1>6, <2>1, <2>3
    <3>2. \A i \in RunsOf(pass.n, Agents[k])' :
            \/ runs'[i].status = IF Section[Agents[k]] \in ToSet(context'.degraded) THEN "error" ELSE "outputs"
            \/ Written(pass.n, Agents[k])'
      <4>1. CASE pass.row = 0
        BY <1>3, <1>4, <2>1, <2>3, <4>1 DEF Written
      <4>2. CASE pass.row # 0
        <5>1. pass.row \in RunsOf(pass.n, Agents[k])
          BY <1>1, <2>3, <4>2 DEF OpenRow, RunsOf, Row, Agent
        <5>2. \A i \in RunsOf(pass.n, Agents[k]) : i = pass.row
          BY <2>1, <2>3, <5>1 DEF RowsOf
        <5>3. pass.row \in DOMAIN runs
          BY <5>1 DEF RunsOf
        <5>4. RunsOf(pass.n, Agents[k])' = RunsOf(pass.n, Agents[k])
          BY <1>3, <1>11
        <5>5. \/ runs'[pass.row].status = IF result.raised THEN "error" ELSE "outputs"
              \/ Written(pass.n, Agents[k])'
          BY <1>3, <1>5, <2>3, <5>3 DEF Written
        <5> QED
          BY <3>1, <5>2, <5>4, <5>5
      <4> QED
        BY <4>1, <4>2
    <3>3. ClosedRows(k)'
      BY <3>2 DEF ClosedRows
    <3> QED
      BY <1>12, <2>1, <2>3, <3>3
  <2>4. CASE k > pass.agent
    <3>1. Section[Agents[k]] # Section[name]
      BY <1>1, <2>4, AgentsFacts
    <3>2. RunsOf(pass.n, Agents[k])' = RunsOf(pass.n, Agents[k])
      BY <1>3, <1>11
    <3> QED
      BY <1>1, <1>6, <2>1, <2>4, <3>1, <3>2
  <2> QED
    BY <1>1, <2>2, <2>3, <2>4
<1>15. OpenRowsExplained'
  <2> SUFFICES ASSUME NEW i \in DOMAIN runs, runs'[i].status = "started"
               PROVE  runs'[i].pass < pass'.n \/ Written(runs[i].pass, runs[i].agent)'
    BY <1>5 DEF OpenRowsExplained
  <2>1. CASE i = pass.row
    <3>1. runs[i].pass = pass.n /\ runs[i].agent = name
      <4>1. 0 \notin DOMAIN runs
        BY DEF TypeOK
      <4> QED
        BY <1>1, <2>1, <4>1 DEF OpenRow, Row
    <3>2. <<pass.n, name, "finish">> \in lost'
      BY <1>5, <2>1
    <3> QED
      BY <1>5, <3>1, <3>2 DEF Written
  <2>2. CASE i # pass.row
    <3>1. runs[i].pass < pass.n \/ Written(runs[i].pass, runs[i].agent)
      BY <1>1, <1>5, <2>2 DEF OpenRowsExplained
    <3> QED
      BY <1>3, <1>4, <1>5, <3>1 DEF Written
  <2> QED
    BY <2>1, <2>2
<1> QED
  BY <1>7, <1>8, <1>9, <1>10, <1>14, <1>15

LEMMA FinishKeeps ==
  ASSUME LedgerInv, Finish
  PROVE  LedgerInv'
<1> USE DEF LedgerInv
<1>1. /\ pass.at = "agent" /\ pass.row = 0 /\ runs' = runs /\ lost \subseteq lost'
      /\ DOMAIN context' = DOMAIN context /\ context'.degraded = context.degraded
  <2>1. DOMAIN context = DOMAIN NoContext
    BY DEF TypeOK
  <2>2. DOMAIN context' = DOMAIN context /\ context'.degraded = context.degraded
    BY <2>1 DEF Finish, Assembled, NoContext
  <2> QED
    BY <2>2 DEF Finish, OpenRow
<1>2. /\ pass' \in Passes /\ pass'.at \in {"context", "500"} /\ pass'.n = pass.n
      /\ pass'.agent = pass.agent /\ pass'.row = pass.row /\ pass.agent \in 1 .. 6
  <2>1. PICK place \in {"context", "500"} : pass' = [pass EXCEPT !.at = place]
    BY DEF Finish, Goto, WithoutSnapshot
  <2> QED
    BY <2>1 DEF TypeOK, Passes, Places
<1>3. TypeOK' /\ Untouched' /\ Attempts' /\ OpenRow'
  BY <1>1, <1>2 DEF TypeOK, Untouched, Attempts, OpenRow, Fetching
<1>4. \A n, agent : RunsOf(n, agent)' = RunsOf(n, agent) /\ (Written(n, agent) => Written(n, agent)')
  BY <1>1 DEF RunsOf, Written
<1>5. Ledger'
  <2> SUFFICES ASSUME NEW k \in 1 .. 5
               PROVE  /\ k < pass.agent => RowsOf(k)' /\ ClosedRows(k)'
                      /\ k >= pass.agent => RunsOf(pass.n, Agents[k])' = {}
                      /\ k >= pass.agent => Section[Agents[k]] \notin ToSet(context'.degraded)
    BY <1>2, AgentsFacts DEF Ledger
  <2>1. /\ k < pass.agent => RowsOf(k) /\ ClosedRows(k)
        /\ k >= pass.agent => RunsOf(pass.n, Agents[k]) = {}
        /\ k >= pass.agent => Section[Agents[k]] \notin ToSet(context.degraded)
    <3>1. pass.agent \in 1 .. 6
      BY DEF TypeOK, Passes
    <3> QED
      BY <1>1, <3>1, AgentsFacts DEF Ledger
  <2>2. RowsOf(k) => RowsOf(k)'
    BY <1>1, <1>2, <1>4 DEF RowsOf
  <2>3. RunsOf(pass.n, Agents[k])' = RunsOf(pass.n, Agents[k])
    BY <1>2, <1>4
  <2>4. ClosedRows(k) => ClosedRows(k)'
    <3>1. Written(pass.n, Agents[k]) => Written(pass.n, Agents[k])'
      BY <1>2, <1>4
    <3> QED
      BY <1>1, <2>3, <3>1 DEF ClosedRows
  <2> QED
    BY <1>1, <2>1, <2>2, <2>3, <2>4
<1>6. OpenRowsExplained'
  BY <1>1, <1>2, <1>4 DEF OpenRowsExplained
<1> QED
  BY <1>3, <1>5, <1>6

LEMMA NewPassType ==
  ASSUME NEW n \in Nat, NEW caller \in {"node", "endpoint"}, NEW source \in {"live", "provider"}
  PROVE  NewPass(n, caller, source) \in Passes
<1>1. <<>> \in Seq(Exceptions) /\ <<>> \in Seq(Payloads)
  OBVIOUS
<1>2. First(caller) \in Places
  BY DEF First, Places
<1>3. 1 \in 1 .. 6 /\ 1 \in Nat /\ 0 \in Nat
  OBVIOUS
<1> HIDE DEF First
<1> QED
  BY <1>1, <1>2, <1>3 DEF NewPass, Passes

\* A cycle analyses again as the next pass, a request is gone.
LEMMA CrashKeeps ==
  ASSUME LedgerInv, Crash
  PROVE  LedgerInv'
<1> USE DEF LedgerInv
<1>1. /\ UNCHANGED <<runs, lost>> /\ context' = NoContext
      /\ \A i \in DOMAIN runs : runs[i].pass \in Nat /\ runs[i].pass <= pass.n
  <2>1. \A i \in DOMAIN runs : runs[i] \in Rows
    BY DEF TypeOK
  <2> QED
    BY <2>1 DEF Crash, Untouched, Rows
<1>2. context'.degraded = <<>> /\ ToSet(context'.degraded) = {}
  BY <1>1 DEF NoContext, ToSet
<1>3. pass \in Passes /\ pass.n \in Nat
  BY DEF TypeOK, Passes
<1>4. CASE pass.caller = "node"
  <2>1. pass' = NewPass(pass.n + 1, "node", pass.source)
    BY <1>4 DEF Crash
  <2>2. /\ pass'.n = pass.n + 1 /\ pass'.at = "repo" /\ pass'.row = 0 /\ pass'.agent = 1
        /\ pass'.attempt = 1 /\ pass'.raised = <<>> /\ pass'.failure = <<>>
        /\ pass'.caller = "node" /\ pass'.source = pass.source
    BY <2>1 DEF NewPass, First
  <2>3. pass' \in Passes
    <3>1. pass.n + 1 \in Nat /\ pass.source \in {"live", "provider"}
      BY <1>3 DEF Passes
    <3> QED
      BY <2>1, <3>1, NewPassType
  <2>4. TypeOK'
    BY <1>1, <1>2, <2>3 DEF TypeOK
  <2>5. Untouched'
    BY <1>1, <1>3, <2>2 DEF Untouched
  <2>6. Attempts'
    BY <2>2, MaxAttemptsAssumption DEF Attempts
  <2>7. OpenRow' /\ Ledger'
    BY <2>2 DEF OpenRow, Ledger
  <2>8. OpenRowsExplained'
    BY <1>1, <1>3, <2>2 DEF OpenRowsExplained
  <2> QED
    BY <2>4, <2>5, <2>6, <2>7, <2>8
<1>5. CASE pass.caller # "node"
  <2>1. pass' = [pass EXCEPT !.at = "dead"]
    BY <1>5 DEF Crash
  <2>2. /\ pass' \in Passes /\ pass'.n = pass.n /\ pass'.at = "dead"
    BY <1>3, <2>1 DEF Passes, Places
  <2>3. TypeOK'
    BY <1>1, <1>2, <2>2 DEF TypeOK
  <2>4. Untouched' /\ Attempts'
    BY <1>1, <2>2 DEF Untouched, Attempts, Fetching
  <2>5. OpenRow' /\ Ledger' /\ OpenRowsExplained'
    BY <2>2 DEF OpenRow, Ledger, OpenRowsExplained
  <2> QED
    BY <2>3, <2>4, <2>5
<1> QED
  BY <1>4, <1>5

-----------------------------------------------------------------------------

LEMMA InitLedger == Init => LedgerInv
<1> SUFFICES ASSUME Init PROVE LedgerInv
  OBVIOUS
<1>1. PICK caller \in {"node", "endpoint"}, source \in {"live", "provider"} :
        pass = NewPass(1, caller, source)
  BY DEF Init
<1>2. /\ pass.n = 1 /\ pass.at = First(caller) /\ pass.row = 0 /\ pass.agent = 1
      /\ pass.attempt = 1 /\ pass.raised = <<>> /\ pass.failure = <<>>
  BY <1>1 DEF NewPass
<1>3. First(caller) \in {"repo", "fetch"}
  BY DEF First
<1>4. context = NoContext /\ runs = <<>>
  BY DEF Init
<1>0. DOMAIN runs = {} /\ runs \in Seq(Rows)
  BY <1>4
<1>5. TypeOK
  <2>2. pass \in Passes
    BY <1>1, NewPassType
  <2>3. context.degraded = <<>>
    BY <1>4 DEF NoContext
  <2> QED
    BY <1>0, <1>4, <2>2, <2>3 DEF TypeOK
<1>6. Untouched /\ Attempts
  BY <1>0, <1>2, <1>3, <1>4, MaxAttemptsAssumption DEF Untouched, Attempts
<1>7. OpenRow /\ Ledger /\ OpenRowsExplained
  BY <1>0, <1>2, <1>3, <1>4 DEF OpenRow, Ledger, OpenRowsExplained
<1> QED
  BY <1>5, <1>6, <1>7 DEF LedgerInv

LEMMA LedgerStep == LedgerInv /\ [Next]_vars => LedgerInv'
<1>1. ASSUME LedgerInv, Next
      PROVE  LedgerInv'
  BY <1>1, FetchesKeep, RecordStartKeeps, RunAgentKeeps, FinishKeeps, CrashKeeps DEF Next, Fetches
<1>2. ASSUME LedgerInv, UNCHANGED vars
      PROVE  LedgerInv'
  BY <1>2 DEF vars, LedgerInv, TypeOK, Untouched, Attempts, OpenRow, Ledger, OpenRowsExplained,
              RowsOf, ClosedRows, RunsOf, Written, Row, Agent
<1> QED
  BY <1>1, <1>2

\* The invariant holds of every analysis.
THEOREM LedgerKept == Spec => []LedgerInv
<1>1. Init => LedgerInv
  BY InitLedger
<1>2. LedgerInv /\ [Next]_vars => LedgerInv'
  BY LedgerStep
<1> QED
  BY <1>1, <1>2, PTL DEF Spec

\* A failure is surfaced, whether wrapped or not, as what it is.
LEMMA SurfacedCause ==
  ASSUME NEW n, NEW e \in Exceptions
  PROVE  Cause(Surfaced(n, e)) = e
<1>1. e.kind # "RetriesExhausted"
  <2> DEFINE kinds == {"TransientError", "CriticalFailure", "RecoverableFailure",
                       "AlpacaCredentialsError", "AgentError", "IngestError", "other"}
  <2>1. e \in AlpacaErrors \/ \E kind \in kinds : e = Plain(kind)
    BY Zenon DEF Exceptions
  <2>2. CASE e \in AlpacaErrors
    BY <2>2 DEF AlpacaErrors
  <2>3. CASE \E kind \in kinds : e = Plain(kind)
    <3>1. PICK kind \in kinds : e = Plain(kind)
      BY <2>3
    <3>2. e.kind = kind
      BY <3>1 DEF Plain
    <3> QED
      BY <3>2
  <2> QED
    BY <2>1, <2>2, <2>3
<1> QED
  BY <1>1 DEF Cause, Surfaced, RetriesExhausted

\* By what its exceptions say of themselves, a failed fetch was tried again while it could
\* go away and no further (run_with_retry), a permission problem halts (classify_failure),
\* and nothing was analysed.
THEOREM GivesUp == Spec => []GivesUpForACause
<1>1. LedgerInv => GivesUpForACause
  <2> SUFFICES ASSUME LedgerInv, pass.at = "failed" PROVE GivesUpForACause
    BY DEF GivesUpForACause
  <2> DEFINE tries == Len(pass.raised)
             blip(e) == e.kind = "TransientError" \/ (e.kind = "AlpacaError" /\ e.busy)
             last == pass.raised[tries]
  <2>1. /\ tries > 0 /\ tries <= MaxAttempts /\ tries \in Nat
        /\ \A i \in 1 .. tries - 1 : AfterAttempt(i, pass.raised[i]) = "again"
        /\ AfterAttempt(tries, last) # "again" /\ last \in Exceptions
        /\ pass.failure = <<FailurePayload("ANALYZING", Surfaced(tries, last))>>
    <3>1. pass.raised \in Seq(Exceptions)
      BY DEF LedgerInv, TypeOK, Passes
    <3>2. tries > 0 /\ tries <= MaxAttempts /\ tries \in Nat
      BY <3>1, LenProperties DEF LedgerInv, Attempts
    <3>3. last \in Exceptions
      BY <3>1, <3>2
    <3> QED
      BY <3>2, <3>3 DEF LedgerInv, Attempts
  <2> HIDE DEF last, tries
  <2>2. \A i \in 1 .. tries - 1 : blip(pass.raised[i]) /\ ~Unrepairable(pass.raised[i])
    BY <2>1 DEF AfterAttempt, IsTransient, LooksLikeAuth, Unrepairable
  <2>3. blip(last) => tries = MaxAttempts \/ Unrepairable(last)
    BY <2>1, MaxAttemptsAssumption DEF AfterAttempt, IsTransient, LooksLikeAuth, Unrepairable
  <2>4. Unrepairable(last) => pass.failure[1].halted
    <3>1. Cause(Surfaced(tries, last)) = last
      BY <2>1, SurfacedCause
    <3>2. pass.failure[1].halted = (ClassifyFailure(Surfaced(tries, last), "ANALYZING") = "CRITICAL")
      BY <2>1 DEF FailurePayload
    <3>3. Unrepairable(last) => ClassifyFailure(Surfaced(tries, last), "ANALYZING") = "CRITICAL"
      BY <3>1 DEF ClassifyFailure, LooksLikeAuth, Unrepairable
    <3> QED
      BY <3>2, <3>3
  <2>5. context = NoContext /\ \A i \in DOMAIN runs : runs[i].pass < pass.n
    BY DEF LedgerInv, Untouched
  <2> QED
    BY <2>1, <2>2, <2>3, <2>4, <2>5 DEF GivesUpForACause, tries, last
<1> QED
  BY <1>1, LedgerKept, PTL

\* A closed agent_runs row says what the context says of its agent, and a row that is
\* missing or still open was lost to a failing write or to a crash (context_assembler's
\* record_start and record_finish).
THEOREM LedgerTellsTheContext == Spec => []RunsTellTheContext
<1>1. LedgerInv => RunsTellTheContext
  <2> SUFFICES ASSUME LedgerInv PROVE RunsTellTheContext
    OBVIOUS
  <2>1. ASSUME NEW k \in DOMAIN Agents, pass.at \in {"agent", "context"}, k < pass.agent
        PROVE  /\ Cardinality(RunsOf(pass.n, Agents[k])) <= 1
               /\ RunsOf(pass.n, Agents[k]) = {} => <<pass.n, Agents[k], "start">> \in lost
               /\ \A i \in RunsOf(pass.n, Agents[k]) :
                    \/ runs[i].status = IF Section[Agents[k]] \in ToSet(context.degraded)
                                        THEN "error" ELSE "outputs"
                    \/ \E write \in {"start", "finish"} : <<pass.n, Agents[k], write>> \in lost
    <3> DEFINE rows == RunsOf(pass.n, Agents[k])
    <3>1. RowsOf(k) /\ ClosedRows(k)
      BY <2>1 DEF LedgerInv, Ledger
    <3>2. Cardinality(rows) <= 1
      <4>1. CASE rows = {}
        BY <4>1, FS_EmptySet
      <4>2. CASE rows # {}
        <5>1. PICK i \in rows : rows = {i}
          BY <3>1, <4>2 DEF RowsOf
        <5>2. Cardinality({i}) = 1
          BY FS_Singleton
        <5> QED
          BY <5>1, <5>2
      <4> QED
        BY <4>1, <4>2
    <3> QED
      BY <3>1, <3>2 DEF RowsOf, ClosedRows, Written
  <2>2. \A i \in DOMAIN runs :
          runs[i].status = "started" =>
            \/ i = pass.row
            \/ runs[i].pass < pass.n \/ pass.at = "dead"
            \/ \E write \in {"start", "finish"} : <<runs[i].pass, runs[i].agent, write>> \in lost
    BY DEF LedgerInv, OpenRowsExplained, Written
  <2> QED
    BY <2>1, <2>2 DEF RunsTellTheContext
<1> QED
  BY <1>1, LedgerKept, PTL
-----------------------------------------------------------------------------
(* What the pass has fetched and made of it. *)

Chains == [underlying : STRING, quotes : Seq(Quotes)]

\* What BestOfAWholeChain says of the chains.
Whole ==
  served.chains # <<>> =>
    \A k \in DOMAIN inputs.chains :
      Len(inputs.chains[k].quotes) = Contracts(served.chains[inputs.chains[k].underlying])

\* The inputs are typed, and only the live ones come with chains served.
Gathered ==
  /\ DOMAIN inputs = DOMAIN NoInputs /\ DOMAIN served = DOMAIN NothingServed
  /\ \E n \in Nat : DOMAIN inputs.news = 1 .. n
  /\ inputs.chains \in Seq(Chains)
  /\ pass.source = "provider" => served.chains = <<>>
  /\ pass.at \in {"market", "news", "chains"} => pass.source = "live"
  /\ Whole

\* What NewsOfHoldings says of a section that is not degraded.
Attached(news) ==
  /\ \A i \in DOMAIN inputs.news :
       LET holdings == inputs.news[i].symbols \cap inputs.positions IN
       holdings # {} => \E k \in DOMAIN news : news[k].article = i /\ holdings \subseteq news[k].symbols
  /\ \A k \in DOMAIN news :
       news[k].symbols \subseteq inputs.positions /\ (news[k].symbols = {} => news[k].event)

\* What BestOfAWholeChain says of the candidates.
Best(options) ==
  \A k \in DOMAIN options :
    LET kept == options[k] IN
    \E chain \in ToSet(inputs.chains) :
      /\ chain.underlying = kept.underlying /\ kept.quote \in ToSet(chain.quotes)
      /\ \A quote \in ToSet(chain.quotes) :
           IsCandidate(quote) /\ quote.oi > kept.quote.oi =>
             \E j \in DOMAIN options : options[j].underlying = kept.underlying /\ options[j].quote = quote

Analysed ==
  pass.at \in {"agent", "run", "context"} =>
    /\ pass.at = "context" => pass.agent > Len(Agents)
    /\ pass.agent <= 4 => context.news = <<>>
    /\ pass.agent > 4 =>
         \/ Attached(context.news)
         \/ Section["news"] \in ToSet(context.degraded) /\ context.news = <<>>
    /\ Best(context.options)

ContentInv == LedgerInv /\ Gathered /\ Analysed
-----------------------------------------------------------------------------
(* What a client returns. *)

\* The pages asked for are the first ones, at most max and at least one.
LEMMA AskedPrefix ==
  ASSUME NEW Items, NEW pages \in Resources(Items), NEW max \in Nat \ {0}
  PROVE  \E m \in 1 .. Len(pages) : m <= max /\ Asked(pages, max) = SubSeq(pages, 1, m)
<1> DEFINE last == {i \in DOMAIN pages : ~pages[i].more} \cup {max, Len(pages)}
           m == CHOOSE i \in last : \A j \in last : i <= j
<1>1. DOMAIN pages = 1 .. Len(pages) /\ Len(pages) \in Nat \ {0}
  <2>1. pages \in Seq([reply : PageReplies, items : Seq(Items), more : BOOLEAN]) /\ Len(pages) > 0
    BY DEF Resources
  <2> QED
    BY <2>1, LenProperties
<1>2. last \in SUBSET (Nat \ {0}) /\ last \in SUBSET Nat /\ max \in last /\ Len(pages) \in last
  BY <1>1
<1>3. Asked(pages, max) = SubSeq(pages, 1, m)
  BY DEF Asked
<1> HIDE DEF last
<1>4. m \in last /\ \A j \in last : m <= j
  <2>1. Min(last) \in last /\ \A j \in last : Min(last) <= j
    BY <1>2, MinIsLeast
  <2> QED
    BY <2>1
<1> HIDE DEF m
<1>5. m \in 1 .. Len(pages) /\ m <= max
  BY <1>1, <1>2, <1>4
<1> QED
  BY <1>3, <1>5

\* The items of those pages, one after the other.
LEMMA WalkedItems ==
  ASSUME NEW Items, NEW pages \in Resources(Items), NEW max \in Nat \ {0}
  PROVE  FlattenSeq([i \in DOMAIN Asked(pages, max) |-> Asked(pages, max)[i].items]) \in Seq(Items)
<1> DEFINE Page == [reply : PageReplies, items : Seq(Items), more : BOOLEAN]
           asked == Asked(pages, max)
           items == [i \in DOMAIN asked |-> asked[i].items]
<1>1. pages \in Seq(Page)
  BY DEF Resources
<1>2. PICK m \in 1 .. Len(pages) : asked = SubSeq(pages, 1, m)
  BY AskedPrefix
<1>3. \A i \in 1 .. m : pages[i] \in Page
  <2> HIDE DEF Page
  <2>1. Len(pages) \in Nat /\ pages \in [1 .. Len(pages) -> Page]
    BY <1>1, LenProperties
  <2>2. \A i \in 1 .. m : i \in 1 .. Len(pages)
    BY <2>1
  <2> QED
    BY <2>1, <2>2
<1>4. asked \in Seq(Page)
  <2>1. m \in Int /\ 1 \in Int
    OBVIOUS
  <2> HIDE DEF Page, asked
  <2> QED
    BY <1>2, <1>3, <2>1, SubSeqProperties
<1> HIDE DEF asked
<1>5. /\ Len(asked) \in Nat /\ DOMAIN asked = 1 .. Len(asked)
      /\ \A i \in 1 .. Len(asked) : asked[i].items \in Seq(Items)
  <2>1. Len(asked) \in Nat /\ DOMAIN asked = 1 .. Len(asked) /\ \A i \in 1 .. Len(asked) : asked[i] \in Page
    BY <1>4, LenProperties
  <2> QED
    BY <2>1
<1>6. items \in Seq(Seq(Items))
  BY <1>5
<1> HIDE DEF items
<1>7. FlattenSeq(items) \in Seq(Items)
  BY <1>6, FlattenHas
<1> QED
  BY <1>7 DEF items, asked

\* The news a client returns is a sequence.
LEMMA NewsIsASequence ==
  ASSUME NEW pages \in NewsReplies, NEW held
  PROVE  \E n \in Nat : DOMAIN NewsSlice(pages, held) = 1 .. n
<1> DEFINE asked == Asked(pages, MaxNewsPages)
           items == FlattenSeq([i \in DOMAIN asked |-> asked[i].items])
<1>1. items \in Seq(RawArticles)
  <2>1. pages \in Resources(RawArticles) /\ MaxNewsPages \in Nat \ {0}
    BY NewsRepliesAssumption, MaxPagesAssumption
  <2> QED
    BY <2>1, WalkedItems
<1>2. DOMAIN items = 1 .. Len(items) /\ Len(items) \in Nat
  BY <1>1, LenProperties
<1>3. DOMAIN <<>> = 1 .. 0
  OBVIOUS
<1>4. GetNews(pages).items = <<>> \/ DOMAIN GetNews(pages).items = DOMAIN items
  <2>1. CASE GetNews(pages) = Failed
    BY <2>1 DEF Failed
  <2>2. CASE GetNews(pages) # Failed
    <3>1. Walk(pages, MaxNewsPages).items = items
      BY <2>2 DEF GetNews, Parsed, Walk, Failed
    <3> HIDE DEF items
    <3> QED
      BY <2>2, <3>1 DEF GetNews, Parsed
  <2> QED
    BY <2>1, <2>2
<1> HIDE DEF items
<1> QED
  BY <1>2, <1>3, <1>4 DEF NewsSlice

\* A chain that is not left out was answered in full, and its rows are one per contract.
LEMMA ChainIsWhole ==
  ASSUME NEW pages \in ChainReplies, GetChain(pages, LiveChainPages).items # <<>>
  PROVE  LET contracts == GetChain(pages, LiveChainPages).items
             rows == [q \in DOMAIN contracts |-> QuoteRow(contracts[q])] IN
         Len(rows) = Contracts(pages) /\ rows \in Seq(Quotes)
<1> DEFINE asked == Asked(pages, LiveChainPages)
           items == FlattenSeq([i \in DOMAIN asked |-> asked[i].items])
           contracts == GetChain(pages, LiveChainPages).items
           rows == [q \in DOMAIN contracts |-> QuoteRow(contracts[q])]
<1>1. pages \in Resources(RawContracts) /\ LiveChainPages \in Nat \ {0} /\ LiveChainPages = 1
  BY ChainRepliesAssumption DEF LiveChainPages
<1>2. /\ DOMAIN items = 1 .. Len(items) /\ Len(items) \in Nat
      /\ \A q \in DOMAIN items : items[q] \in RawContracts
  <2>1. items \in Seq(RawContracts)
    BY <1>1, WalkedItems
  <2> HIDE DEF items
  <2>2. DOMAIN items = 1 .. Len(items) /\ Len(items) \in Nat
    BY <2>1, LenProperties
  <2> QED
    BY <2>1, <2>2
<1>3. asked = pages
  <2> DEFINE Page == [reply : PageReplies, items : Seq(RawContracts), more : BOOLEAN]
  <2>1. /\ pages \in Seq(Page) /\ Len(pages) > 0
        /\ \A i \in DOMAIN pages : pages[i].more <=> i # Len(pages)
    BY <1>1 DEF Resources
  <2> HIDE DEF Page
  <2>2. Len(pages) \in Nat /\ DOMAIN pages = 1 .. Len(pages) /\ pages \in [1 .. Len(pages) -> Page]
    BY <2>1, LenProperties
  <2>3. asked = SubSeq(pages, 1, 1)
    <3>1. PICK m \in 1 .. Len(pages) : m <= LiveChainPages /\ asked = SubSeq(pages, 1, m)
      BY <1>1, AskedPrefix
    <3>2. m = 1
      BY <1>1, <2>2, <3>1
    <3> QED
      BY <3>1, <3>2
  <2>4. Len(asked) = 1 /\ asked[1] = pages[1]
    <3>1. \A i \in 1 .. 1 : pages[i] \in Page
      BY <2>1, <2>2
    <3> HIDE DEF asked
    <3>2. Len(SubSeq(pages, 1, 1)) = 1 /\ SubSeq(pages, 1, 1)[1] = pages[1]
      BY <3>1, SubSeqProperties
    <3> QED
      BY <2>3, <3>2
  <2>5. ~Last(asked).more
    BY DEF GetChain, Failed
  <2> HIDE DEF asked
  <2>6. ~pages[1].more
    BY <2>4, <2>5 DEF Last
  <2>7. Len(pages) = 1
    BY <2>1, <2>2, <2>6
  <2> QED
    BY <2>1, <2>3, <2>7, SubSeqFull
<1>4. DOMAIN contracts = DOMAIN items /\ \A q \in DOMAIN items : contracts[q] = ParseOptionSnapshot(items[q])
  <2>1. GetChain(pages, LiveChainPages) # Failed
    BY DEF Failed
  <2>2. GetChain(pages, LiveChainPages) =
          Parsed(Walk(pages, LiveChainPages), IsSnapshot, ParseOptionSnapshot)
    BY <2>1 DEF GetChain
  <2>3. Walk(pages, LiveChainPages).items = items
    BY <2>1, <2>2 DEF Parsed, Walk, Failed
  <2> HIDE DEF items
  <2> QED
    BY <2>1, <2>2, <2>3 DEF Parsed
<1>5. Contracts(pages) = Len(items)
  BY <1>3 DEF Contracts
<1> HIDE DEF items, contracts
<1>6. DOMAIN rows = 1 .. Len(items) /\ Len(rows) = Len(items)
  BY <1>2, <1>4
<1>7. \A q \in DOMAIN items : QuoteRow(contracts[q]) \in Quotes
  <2> TAKE q \in DOMAIN items
  <2>1. items[q].occ.dte \in Int /\ items[q].bid \in Int /\ items[q].ask \in Int
    BY <1>2 DEF RawContracts
  <2>2. contracts[q] = [dte |-> items[q].occ.dte, strike |-> items[q].occ.strike,
                        bid |-> items[q].bid, ask |-> items[q].ask]
    BY <1>4 DEF ParseOptionSnapshot
  <2> QED
    BY <2>1, <2>2 DEF QuoteRow, Quotes
<1>8. rows \in Seq(Quotes)
  BY <1>2, <1>4, <1>7
<1> QED
  BY <1>5, <1>6, <1>8 DEF contracts

\* So is every chain of the live inputs.
LEMMA LiveChains ==
  ASSUME NEW held \in Seq(STRING), NEW venue \in [ToSet(Underlyings(held)) -> ChainReplies]
  PROVE  /\ OptionChains(venue, held) \in Seq(Chains)
         /\ \A k \in DOMAIN OptionChains(venue, held) :
              LET chain == OptionChains(venue, held)[k] IN
              Len(chain.quotes) = Contracts(venue[chain.underlying])
<1> DEFINE underlyings == Underlyings(held)
           contracts(i) == GetChain(venue[underlyings[i]], LiveChainPages).items
           quotes(i) == [q \in DOMAIN contracts(i) |-> QuoteRow(contracts(i)[q])]
           chain(i) == [underlying |-> underlyings[i], quotes |-> quotes(i)]
           parts == [i \in DOMAIN underlyings |-> IF contracts(i) = <<>> THEN <<>> ELSE <<chain(i)>>]
<1>1. OptionChains(venue, held) \in {<<>>, FlattenSeq(parts)}
  BY DEF OptionChains
<1>2. /\ Len(underlyings) \in Nat /\ DOMAIN underlyings = 1 .. Len(underlyings)
      /\ \A i \in DOMAIN underlyings : underlyings[i] \in STRING
  <2> DEFINE n == IF Len(held) < MaxUnderlyings THEN Len(held) ELSE MaxUnderlyings
  <2>1. Len(held) \in Nat /\ held \in [1 .. Len(held) -> STRING]
    BY LenProperties
  <2>2. n \in Int /\ 1 \in Int /\ n <= Len(held)
    BY <2>1 DEF MaxUnderlyings
  <2> HIDE DEF n
  <2>3. \A i \in 1 .. n : held[i] \in STRING
    BY <2>1, <2>2
  <2>4. SubSeq(held, 1, n) \in Seq(STRING)
    BY <2>2, <2>3, SubSeqProperties
  <2>5. underlyings \in Seq(STRING)
    BY <2>4 DEF Underlyings, n
  <2> HIDE DEF underlyings
  <2>6. Len(underlyings) \in Nat /\ underlyings \in [1 .. Len(underlyings) -> STRING]
    BY <2>5, LenProperties
  <2> QED
    BY <2>6
<1>3. \A i \in DOMAIN underlyings :
        contracts(i) # <<>> =>
          chain(i) \in Chains /\ Len(chain(i).quotes) = Contracts(venue[chain(i).underlying])
  <2> SUFFICES ASSUME NEW i \in DOMAIN underlyings, contracts(i) # <<>>
               PROVE  chain(i) \in Chains /\ Len(chain(i).quotes) = Contracts(venue[chain(i).underlying])
    OBVIOUS
  <2>1. venue[underlyings[i]] \in ChainReplies /\ underlyings[i] \in STRING
    BY <1>2 DEF ToSet
  <2> HIDE DEF underlyings
  <2>2. Len(quotes(i)) = Contracts(venue[underlyings[i]]) /\ quotes(i) \in Seq(Quotes)
    BY <2>1, ChainIsWhole
  <2> HIDE DEF quotes
  <2> QED
    BY <2>1, <2>2 DEF Chains
<1> HIDE DEF underlyings, chain
<1>4. \A i \in 1 .. Len(underlyings) :
        parts[i] \in Seq(Chains) /\ \A x \in Range(parts[i]) : x = chain(i) /\ contracts(i) # <<>>
  <2> SUFFICES ASSUME NEW i \in 1 .. Len(underlyings)
               PROVE  parts[i] \in Seq(Chains) /\ \A x \in Range(parts[i]) : x = chain(i) /\ contracts(i) # <<>>
    OBVIOUS
  <2>1. parts[i] = IF contracts(i) = <<>> THEN <<>> ELSE <<chain(i)>>
    BY <1>2
  <2>2. contracts(i) # <<>> => chain(i) \in Chains
    BY <1>2, <1>3
  <2> HIDE DEF parts, contracts
  <2> QED
    BY <2>1, <2>2 DEF Range
<1>5. parts \in Seq(Seq(Chains)) /\ DOMAIN parts = 1 .. Len(underlyings)
  <2>1. DOMAIN parts = 1 .. Len(underlyings) /\ parts = [i \in DOMAIN parts |-> parts[i]]
    BY <1>2
  <2> HIDE DEF parts
  <2> QED
    BY <1>2, <1>4, <2>1
<1> HIDE DEF parts, contracts
<1>6. \A x \in Range(FlattenSeq(parts)) : \E i \in DOMAIN underlyings : x = chain(i) /\ contracts(i) # <<>>
  <2>1. Range(FlattenSeq(parts)) = UNION {Range(parts[i]) : i \in DOMAIN parts}
    BY <1>5, FlattenHas
  <2> QED
    BY <1>2, <1>4, <1>5, <2>1
<1>7. FlattenSeq(parts) \in Seq(Chains)
  BY <1>5, FlattenHas
<1>8. \A k \in DOMAIN FlattenSeq(parts) : FlattenSeq(parts)[k] \in Range(FlattenSeq(parts))
  BY DEF Range
<1>9. DOMAIN <<>> = {} /\ <<>> \in Seq(Chains)
  OBVIOUS
<1> QED
  BY <1>1, <1>3, <1>6, <1>7, <1>8, <1>9

-----------------------------------------------------------------------------
(* The order of the candidates. *)

LEMMA BeforeOrders ==
  ASSUME NEW quotes \in Seq(Quotes)
  PROVE  /\ \A i \in DOMAIN quotes : ~Before(quotes, i, i)
         /\ \A i, j, k \in DOMAIN quotes :
              Before(quotes, i, j) /\ Before(quotes, j, k) => Before(quotes, i, k)
         /\ \A i, j \in DOMAIN quotes : i = j \/ Before(quotes, i, j) \/ Before(quotes, j, i)
<1>1. \A i \in DOMAIN quotes : i \in Nat /\ quotes[i].oi \in Int /\ quotes[i].dte \in Int
  <2>1. \A i \in DOMAIN quotes : i \in Nat /\ quotes[i] \in Quotes
    OBVIOUS
  <2> QED
    BY <2>1 DEF Quotes
<1> QED
  BY <1>1 DEF Before

\* Ranks run from one to the number of candidates, in that order.
LEMMA Ranks ==
  ASSUME NEW quotes \in Seq(Quotes)
  PROVE  /\ Cardinality(Found(quotes)) \in Nat
         /\ \A i \in Found(quotes) : Rank(quotes, i) \in 1 .. Cardinality(Found(quotes))
         /\ \A i, j \in Found(quotes) : Before(quotes, i, j) => Rank(quotes, i) < Rank(quotes, j)
         /\ \A r \in 1 .. Cardinality(Found(quotes)) : \E i \in Found(quotes) : Rank(quotes, i) = r
<1> DEFINE found == Found(quotes)
           n == Cardinality(found)
           above(i) == {j \in found : Before(quotes, j, i)}
<1>1. found \subseteq DOMAIN quotes /\ IsFiniteSet(found) /\ n \in Nat
  <2>1. Len(quotes) \in Nat /\ DOMAIN quotes = 1 .. Len(quotes)
    BY LenProperties
  <2>2. IsFiniteSet(1 .. Len(quotes)) /\ found \in SUBSET (1 .. Len(quotes))
    BY <2>1, FS_Interval DEF Found
  <2>3. IsFiniteSet(found)
    BY <2>2, FS_Subset
  <2> QED
    BY <2>1, <2>2, <2>3, FS_CardinalityType
<1> HIDE DEF found
<1>2. \A i \in found : IsFiniteSet(above(i)) /\ Cardinality(above(i)) \in Nat
  <2> TAKE i \in found
  <2>1. above(i) \in SUBSET found
    OBVIOUS
  <2> QED
    BY <1>1, <2>1, FS_Subset, FS_CardinalityType
<1>3. \A i \in found : Rank(quotes, i) = Cardinality(above(i)) + 1
  BY DEF Rank, found
<1>4. ASSUME NEW i \in found
      PROVE  Rank(quotes, i) \in 1 .. n
  <2>1. i \notin above(i)
    BY <1>1, BeforeOrders
  <2>2. above(i) \in SUBSET (found \ {i})
    BY <2>1
  <2>3. IsFiniteSet(found \ {i}) /\ Cardinality(found \ {i}) = n - 1
    BY <1>1, FS_RemoveElement
  <2>4. Cardinality(above(i)) <= n - 1
    BY <2>2, <2>3, FS_Subset
  <2>5. Cardinality(above(i)) \in Nat /\ Rank(quotes, i) = Cardinality(above(i)) + 1
    BY <1>2, <1>3
  <2> HIDE DEF above, n
  <2> QED
    BY <1>1, <2>4, <2>5
<1>5. ASSUME NEW i \in found, NEW j \in found, Before(quotes, i, j)
      PROVE  Rank(quotes, i) < Rank(quotes, j)
  <2>1. i \notin above(i) /\ i \in above(j)
    BY <1>1, <1>5, BeforeOrders
  <2>2. above(i) \in SUBSET above(j) /\ above(i) # above(j)
    <3>1. \A k \in above(i) : k \in above(j)
      BY <1>1, <1>5, BeforeOrders
    <3> QED
      BY <2>1, <3>1
  <2>3. Cardinality(above(i)) <= Cardinality(above(j)) /\ Cardinality(above(i)) # Cardinality(above(j))
    BY <1>2, <2>2, FS_Subset
  <2>4. /\ Cardinality(above(i)) \in Nat /\ Rank(quotes, i) = Cardinality(above(i)) + 1
        /\ Cardinality(above(j)) \in Nat /\ Rank(quotes, j) = Cardinality(above(j)) + 1
    BY <1>2, <1>3
  <2> HIDE DEF above
  <2> QED
    BY <2>3, <2>4
<1>6. \A r \in 1 .. n : \E i \in found : Rank(quotes, i) = r
  <2> DEFINE rank == [i \in found |-> Rank(quotes, i)]
  <2>1. rank \in [found -> 1 .. n]
    BY <1>4
  <2>2. \A i, j \in found : i # j => Rank(quotes, i) # Rank(quotes, j)
    <3> SUFFICES ASSUME NEW i \in found, NEW j \in found, i # j
                 PROVE  Rank(quotes, i) # Rank(quotes, j)
      OBVIOUS
    <3>1. Before(quotes, i, j) \/ Before(quotes, j, i)
      BY <1>1, BeforeOrders
    <3>2. Rank(quotes, i) < Rank(quotes, j) \/ Rank(quotes, j) < Rank(quotes, i)
      BY <1>5, <3>1
    <3>3. Rank(quotes, i) \in Nat /\ Rank(quotes, j) \in Nat
      BY <1>1, <1>4
    <3> QED
      BY <3>2, <3>3
  <2>3. rank \in Injection(found, 1 .. n)
    BY <2>1, <2>2 DEF Injection, IsInjective
  <2>4. IsFiniteSet(1 .. n) /\ Cardinality(1 .. n) = n
    BY <1>1, FS_Interval
  <2>5. rank \in Surjection(found, 1 .. n)
    BY <2>3, <2>4, FS_Injection
  <2> QED
    BY <2>5 DEF Surjection
<1> QED
  BY <1>1, <1>4, <1>5, <1>6 DEF found

\* The quote of a rank is the one that has it.
LEMMA RankedIs ==
  ASSUME NEW quotes \in Seq(Quotes), NEW i \in Found(quotes)
  PROVE  Ranked(quotes, Rank(quotes, i)) = quotes[i]
<1> DEFINE r == Rank(quotes, i)
           j == CHOOSE k \in Found(quotes) : Rank(quotes, k) = r
<1>1. j \in Found(quotes) /\ Rank(quotes, j) = r
  OBVIOUS
<1> HIDE DEF j
<1>2. i = j
  <2>1. i \in DOMAIN quotes /\ j \in DOMAIN quotes
    BY <1>1 DEF Found
  <2>2. i = j \/ Before(quotes, i, j) \/ Before(quotes, j, i)
    BY <2>1, BeforeOrders
  <2>3. Rank(quotes, i) \in 1 .. Cardinality(Found(quotes)) /\ Cardinality(Found(quotes)) \in Nat
    BY Ranks
  <2>4. Before(quotes, i, j) => Rank(quotes, i) < Rank(quotes, j)
    BY <1>1, Ranks
  <2>5. Before(quotes, j, i) => Rank(quotes, j) < Rank(quotes, i)
    BY <1>1, Ranks
  <2> QED
    BY <1>1, <2>2, <2>3, <2>4, <2>5
<1> QED
  BY <1>2 DEF Ranked, j

-----------------------------------------------------------------------------
(* What the two agents make of their slices. *)

LEMMA NewsAttached ==
  ASSUME NEW reply, \E n \in Nat : DOMAIN inputs.news = 1 .. n
  PROVE  Attached(AnalyzeNews(Slice("news", inputs), reply).value)
<1> DEFINE feed == inputs.news
           held == inputs.positions
           verdict(i) == VerdictOf(Verdicts(reply), i)
           item(i) == [article |-> i, event |-> verdict(i).event,
                       symbols |-> Affected(feed[i], verdict(i), held)]
           kept(i) == verdict(i).event \/ item(i).symbols # {}
           parts == [i \in DOMAIN feed |-> IF kept(i) THEN <<item(i)>> ELSE <<>>]
           X == {item(i) : i \in DOMAIN feed}
           news == FlattenSeq(parts)
<1>1. AnalyzeNews(Slice("news", inputs), reply).value = news
  BY DEF AnalyzeNews, Slice, Value
<1>2. PICK n \in Nat : DOMAIN feed = 1 .. n
  OBVIOUS
<1>3. \A i \in DOMAIN feed :
        /\ item(i).article = i /\ item(i).event = verdict(i).event
        /\ item(i).symbols = (verdict(i).symbols \cup feed[i].symbols) \cap held
        /\ item(i) \in X
  BY DEF Affected
<1> HIDE DEF verdict, item, X
<1>4. \A i \in 1 .. n : parts[i] \in Seq(X) /\ Range(parts[i]) = IF kept(i) THEN {item(i)} ELSE {}
  <2> SUFFICES ASSUME NEW i \in 1 .. n
               PROVE  parts[i] \in Seq(X) /\ Range(parts[i]) = IF kept(i) THEN {item(i)} ELSE {}
    OBVIOUS
  <2>1. parts[i] = (IF kept(i) THEN <<item(i)>> ELSE <<>>) /\ item(i) \in X
    BY <1>2, <1>3
  <2> HIDE DEF parts, kept
  <2> QED
    BY <2>1 DEF Range
<1>5. DOMAIN parts = 1 .. n /\ parts = [i \in DOMAIN parts |-> parts[i]]
  BY <1>2
<1> HIDE DEF parts
<1>6. parts \in Seq(Seq(X))
  BY <1>4, <1>5
<1>7. Range(news) = UNION {Range(parts[i]) : i \in DOMAIN parts}
  BY <1>6, FlattenHas
<1> HIDE DEF news
<1>8. \A i \in DOMAIN feed : kept(i) => \E k \in DOMAIN news : news[k] = item(i)
  <2> SUFFICES ASSUME NEW i \in DOMAIN feed, kept(i)
               PROVE  \E k \in DOMAIN news : news[k] = item(i)
    OBVIOUS
  <2>1. item(i) \in Range(news)
    BY <1>2, <1>4, <1>5, <1>7
  <2> QED
    BY <2>1 DEF Range
<1>9. \A k \in DOMAIN news : \E i \in DOMAIN feed : kept(i) /\ news[k] = item(i)
  <2> SUFFICES ASSUME NEW k \in DOMAIN news
               PROVE  \E i \in DOMAIN feed : kept(i) /\ news[k] = item(i)
    OBVIOUS
  <2>1. news[k] \in Range(news)
    BY DEF Range
  <2>2. PICK i \in DOMAIN parts : news[k] \in Range(parts[i])
    BY <1>7, <2>1
  <2> QED
    BY <1>2, <1>4, <1>5, <2>2
<1>10. ASSUME NEW i \in DOMAIN feed, feed[i].symbols \cap held # {}
       PROVE  \E k \in DOMAIN news : news[k].article = i /\ feed[i].symbols \cap held \subseteq news[k].symbols
  <2>1. kept(i)
    BY <1>3, <1>10
  <2>2. PICK k \in DOMAIN news : news[k] = item(i)
    BY <1>8, <2>1
  <2> QED
    BY <1>3, <2>2
<1>11. ASSUME NEW k \in DOMAIN news
       PROVE  news[k].symbols \subseteq held /\ (news[k].symbols = {} => news[k].event)
  <2>1. PICK i \in DOMAIN feed : kept(i) /\ news[k] = item(i)
    BY <1>9
  <2> QED
    BY <1>3, <2>1
<1> QED
  BY <1>1, <1>10, <1>11 DEF Attached

\* A chain's candidates are the first of its ranks.
LEMMA CandidatesRanked ==
  ASSUME NEW chain, chain.quotes \in Seq(Quotes)
  PROVE  LET count == Cardinality(Found(chain.quotes))
             m == IF count < CandidateCap THEN count ELSE CandidateCap IN
         /\ m \in Nat /\ m <= count
         /\ DOMAIN Candidates(chain) = 1 .. m
         /\ \A r \in 1 .. m : /\ Candidates(chain)[r].underlying = chain.underlying
                              /\ Candidates(chain)[r].quote = Ranked(chain.quotes, r)
<1>1. Cardinality(Found(chain.quotes)) \in Nat
  BY Ranks
<1> QED
  BY <1>1, CandidateCapAssumption DEF Candidates

\* A quote with more open interest than a candidate of its chain is a candidate, or is none
\* by the filter.
LEMMA MoreLiquidIsKept ==
  ASSUME NEW chain, chain.quotes \in Seq(Quotes),
         NEW r \in DOMAIN Candidates(chain), NEW p \in DOMAIN chain.quotes,
         IsCandidate(chain.quotes[p]), chain.quotes[p].oi > Candidates(chain)[r].quote.oi
  PROVE  \E t \in DOMAIN Candidates(chain) : Candidates(chain)[t].quote = chain.quotes[p]
<1> DEFINE quotes == chain.quotes
           count == Cardinality(Found(quotes))
           m == IF count < CandidateCap THEN count ELSE CandidateCap
<1>1. /\ m \in Nat /\ m <= count /\ count \in Nat
      /\ DOMAIN Candidates(chain) = 1 .. m
      /\ \A t \in 1 .. m : Candidates(chain)[t].quote = Ranked(quotes, t)
  BY CandidatesRanked, Ranks
<1> HIDE DEF m, count
<1>2. r \in 1 .. m /\ r \in 1 .. count
  BY <1>1
<1>3. PICK i \in Found(quotes) : Rank(quotes, i) = r
  BY <1>2, Ranks DEF count
<1>4. Candidates(chain)[r].quote = quotes[i]
  BY <1>1, <1>2, <1>3, RankedIs
<1>5. p \in Found(quotes) /\ Before(quotes, p, i)
  BY <1>4 DEF Found, Before
<1>6. Rank(quotes, p) \in 1 .. count /\ Rank(quotes, p) < r
  BY <1>3, <1>5, Ranks DEF count
<1>7. Rank(quotes, p) \in 1 .. m
  BY <1>1, <1>2, <1>6
<1>8. Candidates(chain)[Rank(quotes, p)].quote = quotes[p]
  BY <1>1, <1>5, <1>7, RankedIs
<1> QED
  BY <1>1, <1>7, <1>8

\* A candidate's quote is one of its chain's.
LEMMA CandidateOf ==
  ASSUME NEW chain, chain.quotes \in Seq(Quotes), NEW r \in DOMAIN Candidates(chain)
  PROVE  Candidates(chain)[r].quote \in ToSet(chain.quotes)
<1> DEFINE count == Cardinality(Found(chain.quotes))
           m == IF count < CandidateCap THEN count ELSE CandidateCap
<1>1. /\ m \in Nat /\ m <= count /\ count \in Nat /\ r \in 1 .. m
      /\ Candidates(chain)[r].quote = Ranked(chain.quotes, r)
  BY CandidatesRanked, Ranks
<1> HIDE DEF m, count
<1>2. r \in 1 .. count
  BY <1>1
<1>3. PICK i \in Found(chain.quotes) : Rank(chain.quotes, i) = r
  BY <1>2, Ranks DEF count
<1>4. Candidates(chain)[r].quote = chain.quotes[i]
  BY <1>1, <1>3, RankedIs
<1> QED
  BY <1>4 DEF Found, ToSet

LEMMA BestKept ==
  ASSUME inputs.chains \in Seq(Chains)
  PROVE  Best(AnalyzeOptions(Slice("options", inputs)).value)
<1> DEFINE chains == inputs.chains
           slice == Slice("options", inputs)
           wanted(chain) == slice.wanted = {} \/ chain.underlying \in slice.wanted
           parts == [i \in DOMAIN chains |-> IF wanted(chains[i]) THEN Candidates(chains[i]) ELSE <<>>]
           options == FlattenSeq(parts)
           X == UNION {Range(Candidates(chains[i])) : i \in DOMAIN chains}
<1>1. AnalyzeOptions(slice).value = options
  <2>1. slice.chains = chains
    BY DEF Slice
  <2> HIDE DEF slice
  <2> QED
    BY <2>1 DEF AnalyzeOptions, Value
<1> HIDE DEF slice, wanted
<1>2. /\ DOMAIN chains = 1 .. Len(chains) /\ Len(chains) \in Nat
      /\ \A i \in DOMAIN chains : chains[i].quotes \in Seq(Quotes)
  <2>1. \A chain \in Chains : chain.quotes \in Seq(Quotes)
    BY DEF Chains
  <2> HIDE DEF chains
  <2>2. chains \in Seq(Chains)
    BY DEF chains
  <2>3. DOMAIN chains = 1 .. Len(chains) /\ Len(chains) \in Nat
    BY <2>2, LenProperties
  <2>4. \A i \in DOMAIN chains : chains[i].quotes \in Seq(Quotes)
    BY <2>1, <2>2
  <2> QED
    BY <2>3, <2>4
<1> HIDE DEF chains
<1>3. \A i \in DOMAIN chains : Candidates(chains[i]) \in Seq(X)
  <2> SUFFICES ASSUME NEW i \in DOMAIN chains PROVE Candidates(chains[i]) \in Seq(X)
    OBVIOUS
  <2>1. PICK m \in Nat : DOMAIN Candidates(chains[i]) = 1 .. m
    BY <1>2, CandidatesRanked
  <2>2. \A r \in 1 .. m : Candidates(chains[i])[r] \in X
    BY <2>1 DEF Range
  <2>3. Candidates(chains[i]) = [r \in 1 .. m |-> Candidates(chains[i])[r]]
    BY <2>1 DEF Candidates
  <2> HIDE DEF X
  <2> QED
    BY <2>2, <2>3
<1> HIDE DEF X
<1>4. /\ DOMAIN parts = DOMAIN chains /\ parts = [i \in DOMAIN parts |-> parts[i]]
      /\ \A i \in DOMAIN chains :
           parts[i] = IF wanted(chains[i]) THEN Candidates(chains[i]) ELSE <<>>
  OBVIOUS
<1> HIDE DEF parts
<1>5. \A i \in DOMAIN chains : parts[i] \in Seq(X)
  <2> TAKE i \in DOMAIN chains
  <2>1. <<>> \in Seq(X)
    OBVIOUS
  <2>2. Candidates(chains[i]) \in Seq(X)
    BY <1>3
  <2> QED
    BY <1>4, <2>1, <2>2
<1>6. parts \in Seq(Seq(X))
  BY <1>2, <1>4, <1>5
<1>7. Range(options) = UNION {Range(parts[i]) : i \in DOMAIN chains}
  BY <1>4, <1>6, FlattenHas
<1> HIDE DEF options
<1>8. ASSUME NEW k \in DOMAIN options
      PROVE  \E chain \in ToSet(chains) :
               /\ chain.underlying = options[k].underlying /\ options[k].quote \in ToSet(chain.quotes)
               /\ \A quote \in ToSet(chain.quotes) :
                    IsCandidate(quote) /\ quote.oi > options[k].quote.oi =>
                      \E j \in DOMAIN options :
                        options[j].underlying = options[k].underlying /\ options[j].quote = quote
  <2>1. options[k] \in Range(options)
    BY DEF Range
  <2>2. PICK d \in DOMAIN chains : options[k] \in Range(parts[d])
    BY <1>7, <2>1
  <2>3. wanted(chains[d])
    <3>1. Range(<<>>) = {}
      BY DEF Range
    <3> QED
      BY <1>4, <2>2, <3>1
  <2>4. parts[d] = Candidates(chains[d])
    BY <1>4, <2>3
  <2>5. PICK r \in DOMAIN Candidates(chains[d]) : options[k] = Candidates(chains[d])[r]
    BY <2>2, <2>4 DEF Range
  <2>6. options[k].underlying = chains[d].underlying
    BY <1>2, <2>5, CandidatesRanked
  <2>7. options[k].quote \in ToSet(chains[d].quotes)
    BY <1>2, <2>5, CandidateOf
  <2>8. ASSUME NEW quote \in ToSet(chains[d].quotes), IsCandidate(quote), quote.oi > options[k].quote.oi
        PROVE  \E j \in DOMAIN options :
                 options[j].underlying = options[k].underlying /\ options[j].quote = quote
    <3>1. PICK p \in DOMAIN chains[d].quotes : quote = chains[d].quotes[p]
      BY DEF ToSet
    <3>2. PICK t \in DOMAIN Candidates(chains[d]) : Candidates(chains[d])[t].quote = quote
      BY <1>2, <2>5, <2>8, <3>1, MoreLiquidIsKept
    <3>3. Candidates(chains[d])[t].underlying = chains[d].underlying
      BY <1>2, CandidatesRanked
    <3>4. Candidates(chains[d])[t] \in Range(options)
      <4>1. Candidates(chains[d])[t] \in Range(parts[d])
        BY <2>4, <3>2 DEF Range
      <4> QED
        BY <1>7, <4>1
    <3>5. PICK j \in DOMAIN options : options[j] = Candidates(chains[d])[t]
      BY <3>4 DEF Range
    <3> QED
      BY <2>6, <3>2, <3>3, <3>5
  <2>9. chains[d] \in ToSet(chains)
    BY DEF ToSet
  <2> QED
    BY <2>6, <2>7, <2>8, <2>9
<1> QED
  BY <1>1, <1>8 DEF Best, options, chains, slice

-----------------------------------------------------------------------------
(* The steps. *)

\* The symbols held, in their order.
LEMMA HeldIsASequence ==
  ASSUME NEW positions
  PROVE  Held(positions) \in Seq(STRING)
<1> DEFINE parts == [i \in DOMAIN Symbols |-> IF Symbols[i] \in positions THEN <<Symbols[i]>> ELSE <<>>]
<1>1. /\ Len(Symbols) \in Nat /\ DOMAIN Symbols = 1 .. Len(Symbols)
      /\ \A i \in DOMAIN Symbols : Symbols[i] \in STRING
  BY SymbolsAssumption, LenProperties
<1>2. \A i \in DOMAIN Symbols : parts[i] \in Seq(STRING)
  <2> TAKE i \in DOMAIN Symbols
  <2>1. parts[i] = IF Symbols[i] \in positions THEN <<Symbols[i]>> ELSE <<>>
    OBVIOUS
  <2>2. <<>> \in Seq(STRING) /\ <<Symbols[i]>> \in Seq(STRING)
    BY <1>1
  <2> HIDE DEF parts
  <2> QED
    BY <2>1, <2>2
<1>3. DOMAIN parts = 1 .. Len(Symbols) /\ parts = [i \in DOMAIN parts |-> parts[i]]
  BY <1>1
<1> HIDE DEF parts
<1>4. parts \in Seq(Seq(STRING))
  BY <1>1, <1>2, <1>3
<1>5. FlattenSeq(parts) \in Seq(STRING)
  BY <1>4, FlattenHas
<1> QED
  BY <1>5 DEF Held, parts

\* A pass keeps its source.
LEMMA SourceKept ==
  ASSUME TypeOK, Next
  PROVE  pass'.source = pass.source
<1>1. DOMAIN pass = {"n", "caller", "source", "at", "attempt", "raised", "agent", "row", "failure"}
  BY DEF TypeOK, Passes
<1>2. CASE Fetches
  <2>1. CASE \E e \in Exceptions : Fail(e)
    BY <1>1, <2>1 DEF Fail
  <2>2. CASE pass' = [pass EXCEPT !.at = pass'.at]
    BY <1>1, <2>2
  <2> QED
    BY <1>2, <2>1, <2>2, Fetched
<1>3. CASE RecordStart
  BY <1>1, <1>3 DEF RecordStart
<1>4. CASE RunAgent
  BY <1>1, <1>4 DEF RunAgent
<1>5. CASE Finish
  BY <1>1, <1>5 DEF Finish, Goto
<1>6. CASE Crash
  BY <1>1, <1>6 DEF Crash, NewPass
<1> QED
  BY <1>2, <1>3, <1>4, <1>5, <1>6 DEF Next, Fetches

LEMMA GatheredStep ==
  ASSUME ContentInv, Next
  PROVE  Gathered'
<1> USE DEF ContentInv, LedgerInv
<1>1. pass'.source = pass.source
  BY SourceKept
<1>0. DOMAIN pass = {"n", "caller", "source", "at", "attempt", "raised", "agent", "row", "failure"}
      /\ pass.source \in {"live", "provider"}
  BY DEF TypeOK, Passes
<1>2. /\ DOMAIN inputs = {"positions", "curve", "market", "news", "chains", "underlyings"}
      /\ DOMAIN served = {"failed", "chains"}
  BY DEF Gathered, NoInputs, NothingServed
<1> DEFINE late == pass'.at \in {"market", "news", "chains"} => pass'.source = "live"
<1>3. CASE UNCHANGED <<inputs, served>> /\ late
  BY <1>1, <1>3 DEF Gathered, Whole
<1>4. CASE OpenRepo \/ RepoFails \/ RecordStart \/ RunAgent \/ Finish
  <2>1. UNCHANGED <<inputs, served>>
    BY <1>4 DEF OpenRepo, RepoFails, RecordStart, RunAgent, Finish
  <2>2. late
    BY <1>0, <1>4 DEF OpenRepo, RepoFails, RecordStart, RunAgent, Finish, Goto, AfterRepo, WithoutSnapshot
  <2> QED
    BY <1>3, <2>1, <2>2
<1>5. CASE FetchPortfolio
  <2>1. /\ pass.source = "live"
        /\ DOMAIN served' = DOMAIN NothingServed /\ served'.chains = <<>>
    <3>1. \E failed : served' = [NothingServed EXCEPT !.failed = failed]
      BY <1>5 DEF FetchPortfolio
    <3> QED
      BY <1>5, <3>1 DEF FetchPortfolio, NothingServed
  <2>2. \/ UNCHANGED inputs
        \/ \E positions : inputs' = [NoInputs EXCEPT !.positions = positions, !.underlyings = positions]
    <3>1. PICK credentials \in SUBSET {"key", "secret"}, account \in AlpacaReplies,
               reply \in AlpacaReplies, rows \in PositionSets \cup {{"no symbol"}} :
            LET portfolio == PortfolioState(credentials, account, reply, rows)
                reached == ~PortfolioUnreachable(credentials, account, reply) IN
            /\ IF portfolio.raises = "none"
               THEN /\ inputs' = [NoInputs EXCEPT !.positions = portfolio.positions,
                                                  !.underlyings = portfolio.positions]
                    /\ Goto("market")
               ELSE Fail(Plain(portfolio.raises)) /\ UNCHANGED inputs
            /\ served' = [NothingServed EXCEPT !.failed = Source("portfolio_state", reached)]
      BY <1>5, Zenon DEF FetchPortfolio
    <3> DEFINE portfolio == PortfolioState(credentials, account, reply, rows)
    <3>2. CASE portfolio.raises = "none"
      <4>1. inputs' = [NoInputs EXCEPT !.positions = portfolio.positions,
                                       !.underlyings = portfolio.positions]
        BY <3>1, <3>2
      <4> QED
        BY <4>1
    <3>3. CASE portfolio.raises # "none"
      BY <3>1, <3>3
    <3> QED
      BY <3>2, <3>3
  <2>3. /\ DOMAIN inputs' = DOMAIN NoInputs
        /\ \E n \in Nat : DOMAIN inputs'.news = 1 .. n
        /\ inputs'.chains \in Seq(Chains)
    <3>1. CASE UNCHANGED inputs
      BY <3>1 DEF Gathered
    <3>2. CASE \E positions : inputs' = [NoInputs EXCEPT !.positions = positions, !.underlyings = positions]
      <4>1. inputs'.news = <<>> /\ inputs'.chains = <<>> /\ DOMAIN inputs' = DOMAIN NoInputs
        BY <3>2 DEF NoInputs
      <4>2. DOMAIN <<>> = 1 .. 0 /\ 0 \in Nat /\ DOMAIN <<>> = {}
        OBVIOUS
      <4> QED
        BY <4>1, <4>2
    <3> QED
      BY <2>2, <3>1, <3>2
  <2> QED
    BY <1>1, <2>1, <2>3 DEF Gathered, Whole
<1>6. CASE FetchMarket
  <2>1. /\ inputs' = [inputs EXCEPT !.market = inputs'.market]
        /\ served' = [served EXCEPT !.failed = served'.failed] /\ pass.source = "live"
    BY <1>2, <1>6 DEF FetchMarket, Gathered
  <2>2. /\ DOMAIN inputs' = DOMAIN inputs /\ DOMAIN served' = DOMAIN served
        /\ inputs'.news = inputs.news /\ inputs'.chains = inputs.chains /\ served'.chains = served.chains
    BY <1>2, <2>1
  <2> QED
    BY <1>1, <2>1, <2>2 DEF Gathered, Whole
<1>7. CASE FetchNews
  <2>1. /\ pass.source = "live"
        /\ \E pages \in NewsReplies :
             /\ inputs' = [inputs EXCEPT !.news = NewsSlice(pages, Held(inputs.positions))]
             /\ served' = [served EXCEPT !.failed = served'.failed]
    BY <1>2, <1>7 DEF FetchNews, Gathered
  <2>2. PICK pages \in NewsReplies :
          /\ inputs' = [inputs EXCEPT !.news = NewsSlice(pages, Held(inputs.positions))]
          /\ served' = [served EXCEPT !.failed = served'.failed]
    BY <2>1
  <2>3. /\ DOMAIN inputs' = DOMAIN inputs /\ DOMAIN served' = DOMAIN served
        /\ inputs'.news = NewsSlice(pages, Held(inputs.positions))
        /\ inputs'.chains = inputs.chains /\ served'.chains = served.chains
    BY <1>2, <2>2
  <2>4. \E n \in Nat : DOMAIN inputs'.news = 1 .. n
    BY <2>3, NewsIsASequence
  <2> QED
    BY <1>1, <2>1, <2>3, <2>4 DEF Gathered, Whole
<1>8. CASE FetchChains
  <2> DEFINE held == Held(inputs.positions)
  <2>1. PICK chains \in [ToSet(Underlyings(held)) -> ChainReplies] :
          /\ inputs' = [inputs EXCEPT !.chains = OptionChains(chains, held)]
          /\ served' = [served EXCEPT !.chains = chains, !.failed = served'.failed]
    BY <1>2, <1>8 DEF FetchChains
  <2>2. pass.source = "live"
    BY <1>8 DEF FetchChains, Gathered
  <2>3. /\ DOMAIN inputs' = DOMAIN inputs /\ DOMAIN served' = DOMAIN served
        /\ inputs'.news = inputs.news
        /\ inputs'.chains = OptionChains(chains, held) /\ served'.chains = chains
    BY <1>2, <2>1
  <2>4. /\ inputs'.chains \in Seq(Chains)
        /\ \A k \in DOMAIN inputs'.chains :
             Len(inputs'.chains[k].quotes) = Contracts(served'.chains[inputs'.chains[k].underlying])
    <3>1. held \in Seq(STRING)
      BY HeldIsASequence
    <3> HIDE DEF held
    <3> QED
      BY <2>3, <3>1, LiveChains
  <2> QED
    BY <1>1, <2>2, <2>3, <2>4 DEF Gathered, Whole
<1>9. CASE FetchHandedIn
  <2>1. served' = served /\ pass.source = "provider" /\ served.chains = <<>>
    BY <1>9 DEF FetchHandedIn, Gathered
  <2>2. late
    <3>1. CASE \E e \in Exceptions : Fail(e)
      BY <3>1, FailedType
    <3>2. CASE Goto("agent")
      BY <1>0, <3>2 DEF Goto
    <3> QED
      BY <1>9, <3>1, <3>2 DEF FetchHandedIn
  <2>3. CASE inputs' \in HandedIn
    <3>1. /\ DOMAIN inputs' = {"positions", "curve", "market", "news", "chains", "underlyings"}
          /\ inputs'.news \in Seq(RawArticles) /\ inputs'.chains \in Seq(Chains)
      BY <2>3, HandedInAssumption DEF Chains
    <3>2. \E n \in Nat : DOMAIN inputs'.news = 1 .. n
      BY <3>1, LenProperties
    <3>3. Whole'
      BY <2>1 DEF Whole
    <3> QED
      BY <1>1, <1>2, <2>1, <2>2, <3>1, <3>2, <3>3 DEF Gathered, NoInputs
  <2>4. CASE UNCHANGED inputs
    BY <1>3, <2>1, <2>2, <2>4
  <2> QED
    BY <1>9, <2>3, <2>4 DEF FetchHandedIn
<1>10. CASE Crash
  <2>1. served' = NothingServed /\ inputs' = NoInputs
    BY <1>10 DEF Crash
  <2>2. late
    BY <1>0, <1>10 DEF Crash, NewPass, First
  <2>3. inputs'.news = <<>> /\ inputs'.chains = <<>> /\ served'.chains = <<>>
    BY <2>1 DEF NoInputs, NothingServed
  <2>4. DOMAIN <<>> = 1 .. 0 /\ 0 \in Nat /\ DOMAIN <<>> = {}
    OBVIOUS
  <2>5. \E n \in Nat : DOMAIN inputs'.news = 1 .. n
    BY <2>3, <2>4
  <2> QED
    BY <2>1, <2>2, <2>3, <2>4, <2>5 DEF Gathered, Whole
<1> QED
  BY <1>4, <1>5, <1>6, <1>7, <1>8, <1>9, <1>10 DEF Next

\* An agent that does not raise returns what it makes of its slice.
LEMMA RunValue ==
  ASSUME NEW slice, NEW reply
  PROVE  /\ ~Run("news", slice, reply).raised =>
              Run("news", slice, reply).value = AnalyzeNews(slice, reply).value
         /\ ~Run("options", slice, reply).raised =>
              Run("options", slice, reply).value = AnalyzeOptions(slice).value
BY DEF Run, Raised

LEMMA AnalysedStep ==
  ASSUME ContentInv, Next
  PROVE  Analysed'
<1> USE DEF ContentInv, LedgerInv
<1> DEFINE there == {"agent", "run", "context"}
           news == Section["news"]
<1>0. /\ pass \in Passes /\ pass.agent \in 1 .. 6
      /\ DOMAIN pass = {"n", "caller", "source", "at", "attempt", "raised", "agent", "row", "failure"}
      /\ DOMAIN context = {"portfolio", "stock", "market", "news", "options", "degraded"}
  BY DEF TypeOK, Passes, NoContext
<1>1. CASE Fetches
  <2>1. pass.agent = 1 /\ context = NoContext /\ UNCHANGED context
    BY <1>1, Fetched DEF Untouched
  <2>2. pass'.agent = pass.agent /\ pass'.at # "context"
    <3>1. CASE \E e \in Exceptions : Fail(e)
      BY <3>1, FailedType
    <3>2. CASE /\ pass' = [pass EXCEPT !.at = pass'.at]
               /\ pass'.at \in {"fetch", "market", "news", "chains", "repo", "agent", "raised", "500"}
      BY <1>0, <3>2
    <3> QED
      BY <1>1, <3>1, <3>2, Fetched
  <2>3. context'.options = <<>> /\ context'.news = <<>> /\ DOMAIN <<>> = {}
    BY <2>1 DEF NoContext
  <2>4. Best(context.options)'
    BY <2>3 DEF Best
  <2> QED
    BY <2>1, <2>2, <2>3, <2>4 DEF Analysed
<1>2. CASE RecordStart
  <2>1. /\ pass.at = "agent" /\ pass'.at = "run"
        /\ UNCHANGED <<inputs, context>> /\ pass'.agent = pass.agent
    BY <1>0, <1>2 DEF RecordStart
  <2> QED
    BY <2>1 DEF Analysed, Attached, Best
<1>3. CASE Finish
  <2>1. /\ pass.at = "agent" /\ UNCHANGED inputs /\ pass'.agent = pass.agent
        /\ pass.agent > Len(Agents)
        /\ context'.news = context.news /\ context'.options = context.options
        /\ context'.degraded = context.degraded
    BY <1>0, <1>3 DEF Finish, Goto, Assembled
  <2> QED
    BY <2>1 DEF Analysed, Attached, Best
<1>4. CASE Crash
  <2>1. pass'.at \notin there
    BY <1>0, <1>4 DEF Crash, NewPass, First
  <2> QED
    BY <2>1 DEF Analysed
<1>5. CASE RunAgent
  <2> DEFINE name == Agents[pass.agent]
  <2>1. /\ pass.at = "run" /\ pass.agent \in 1 .. 5 /\ Agent = name /\ UNCHANGED inputs
        /\ pass'.agent = pass.agent + 1 /\ pass'.at = "agent"
    BY <1>0, <1>5, AgentsFacts DEF RunAgent, OpenRow, Agent
  <2>2. PICK result : /\ context' = Merge(result)
                      /\ \/ \E reply : result = Run(name, Slice(name, inputs), reply)
                         \/ result = Raised
    BY <1>5, <2>1 DEF RunAgent
  <2>3. /\ Agents[4] = "news" /\ Agents[5] = "options"
        /\ \A k \in 1 .. 5 : Agents[k] = "news" => k = 4
        /\ \A k \in 1 .. 5 : Agents[k] = "options" => k = 5
    <3>1. Agents[4] = "news" /\ Agents[5] = "options"
      BY DEF Agents
    <3> QED
      BY <3>1, AgentsFacts
  <2>4. result.raised =>
          /\ context'.news = context.news /\ context'.options = context.options
          /\ ToSet(context'.degraded) = ToSet(context.degraded) \cup {Section[name]}
    <3> SUFFICES ASSUME result.raised
                 PROVE  /\ context'.news = context.news /\ context'.options = context.options
                        /\ ToSet(context'.degraded) = ToSet(context.degraded) \cup {Section[name]}
      OBVIOUS
    <3>1. context' = [context EXCEPT !.degraded = Append(context.degraded, Section[name])]
      BY <2>1, <2>2 DEF Merge
    <3>2. context.degraded \in Seq(Sections) /\ Section[name] \in Sections
      BY <2>1, AgentsFacts DEF TypeOK
    <3> HIDE DEF name
    <3>3. /\ context'.news = context.news /\ context'.options = context.options
          /\ context'.degraded = Append(context.degraded, Section[name])
      BY <1>0, <3>1
    <3> QED
      BY <3>2, <3>3, ToSetAppend
  <2>5. ~result.raised =>
          /\ context'.degraded = context.degraded
          /\ context'.news = IF name = "news" THEN result.value ELSE context.news
          /\ context'.options = IF name = "options" THEN result.value ELSE context.options
    <3>1. ~result.raised => context' = [context EXCEPT ![name] = result.value]
      BY <2>1, <2>2 DEF Merge
    <3>2. name # "degraded"
      BY <2>1, AgentsFacts
    <3> HIDE DEF name
    <3> QED
      BY <1>0, <3>1, <3>2
  <2>6. ~result.raised => \E reply : result = Run(name, Slice(name, inputs), reply)
    BY <2>2 DEF Raised
  <2>7. ASSUME pass'.agent > 4
        PROVE  \/ Attached(context'.news)
               \/ news \in ToSet(context'.degraded) /\ context'.news = <<>>
    <3>0. CASE pass.agent = 4 /\ result.raised
      BY <2>1, <2>3, <2>4, <3>0 DEF Analysed
    <3>1. CASE pass.agent = 4 /\ ~result.raised
      <4>1. ~result.raised
        BY <3>1
      <4>2. PICK reply : result = Run("news", Slice("news", inputs), reply)
        BY <2>3, <2>6, <3>1, <4>1
      <4>3. context'.news = AnalyzeNews(Slice("news", inputs), reply).value
        BY <2>3, <2>5, <3>1, <4>1, <4>2, RunValue
      <4>4. \E n \in Nat : DOMAIN inputs.news = 1 .. n
        BY DEF Gathered
      <4> QED
        BY <4>3, <4>4, NewsAttached
    <3>2. CASE pass.agent # 4
      <4>1. pass.agent > 4
        BY <2>1, <2>7, <3>2
      <4>2. context'.news = context.news
        BY <2>1, <2>3, <2>4, <2>5, <3>2
      <4>3. ToSet(context.degraded) \subseteq ToSet(context'.degraded)
        BY <2>4, <2>5
      <4>4. Attached(context.news) <=> Attached(context'.news)
        BY <4>2
      <4> QED
        BY <2>1, <4>1, <4>2, <4>3, <4>4 DEF Analysed
    <3> QED
      BY <3>0, <3>1, <3>2
  <2>8. Best(context'.options)
    <3>1. CASE pass.agent = 5 /\ ~result.raised
      <4>1. PICK reply : result = Run("options", Slice("options", inputs), reply)
        BY <2>3, <2>6, <3>1
      <4>2. context'.options = AnalyzeOptions(Slice("options", inputs)).value
        BY <2>3, <2>5, <3>1, <4>1, RunValue
      <4>3. inputs.chains \in Seq(Chains)
        BY DEF Gathered
      <4> QED
        BY <4>2, <4>3, BestKept
    <3>2. CASE ~(pass.agent = 5 /\ ~result.raised)
      <4>1. context'.options = context.options
        BY <2>1, <2>3, <2>4, <2>5, <3>2
      <4> QED
        BY <2>1, <4>1 DEF Analysed
    <3> QED
      BY <3>1, <3>2
  <2>9. (Attached(context.news))' <=> Attached(context'.news)
    BY <2>1 DEF Attached
  <2>10. (Best(context.options))' <=> Best(context'.options)
    BY <2>1 DEF Best
  <2>11. pass'.agent <= 4 => context'.news = <<>>
    BY <1>0, <2>1, <2>3, <2>4, <2>5 DEF Analysed
  <2> QED
    BY <2>1, <2>7, <2>8, <2>9, <2>10, <2>11 DEF Analysed
<1> QED
  BY <1>1, <1>2, <1>3, <1>4, <1>5 DEF Next, Fetches

LEMMA InitContent == Init => ContentInv
<1> SUFFICES ASSUME Init PROVE ContentInv
  OBVIOUS
<1>1. LedgerInv
  BY InitLedger
<1>2. inputs = NoInputs /\ served = NothingServed /\ pass.at \in {"repo", "fetch"}
  BY DEF Init, NewPass, First
<1>3. inputs.news = <<>> /\ inputs.chains = <<>> /\ served.chains = <<>>
  BY <1>2 DEF NoInputs, NothingServed
<1>4. DOMAIN <<>> = 1 .. 0 /\ 0 \in Nat /\ DOMAIN <<>> = {}
  OBVIOUS
<1>5. \E n \in Nat : DOMAIN inputs.news = 1 .. n
  BY <1>3, <1>4
<1>6. Gathered
  BY <1>2, <1>3, <1>4, <1>5 DEF Gathered, Whole
<1>7. Analysed
  BY <1>2 DEF Analysed
<1> QED
  BY <1>1, <1>6, <1>7 DEF ContentInv

LEMMA ContentStep == ContentInv /\ [Next]_vars => ContentInv'
<1>1. ASSUME ContentInv, Next
      PROVE  ContentInv'
  <2>1. LedgerInv'
    BY <1>1, LedgerStep DEF ContentInv
  <2> QED
    BY <1>1, <2>1, GatheredStep, AnalysedStep DEF ContentInv
<1>2. ASSUME ContentInv, UNCHANGED vars
      PROVE  ContentInv'
  <2>1. LedgerInv'
    BY <1>2, LedgerStep DEF ContentInv
  <2>2. Gathered'
    BY <1>2 DEF vars, ContentInv, Gathered, Whole
  <2>3. Analysed'
    BY <1>2 DEF vars, ContentInv, Analysed, Attached, Best
  <2> QED
    BY <2>1, <2>2, <2>3 DEF ContentInv
<1> QED
  BY <1>1, <1>2

LEMMA ContentKept == Spec => []ContentInv
<1>1. Init => ContentInv
  BY InitContent
<1>2. ContentInv /\ [Next]_vars => ContentInv'
  BY ContentStep
<1> QED
  BY <1>1, <1>2, PTL DEF Spec

\* News of a holding is never lost silently: it reaches the context (analyze_news) or the
\* news section is reported degraded (assemble_hedge_context); and nothing the LLM answers
\* attaches to a symbol that is not held.
THEOREM NewsSurvives == Spec => []NewsOfHoldings
<1>1. ContentInv => NewsOfHoldings
  <2> SUFFICES ASSUME ContentInv, pass.at = "context"
               PROVE  NewsOfHoldings
    BY DEF NewsOfHoldings
  <2>1. pass.agent \in 1 .. 6
    BY DEF ContentInv, LedgerInv, TypeOK, Passes
  <2>2. \/ Attached(context.news)
        \/ Section["news"] \in ToSet(context.degraded) /\ context.news = <<>>
    BY <2>1, AgentsFacts DEF ContentInv, Analysed
  <2>3. DOMAIN <<>> = {}
    OBVIOUS
  <2> QED
    BY <2>2, <2>3 DEF NewsOfHoldings, HoldingNewsCarried, Attached
<1> QED
  BY <1>1, ContentKept, PTL

\* A chain is used whole or not at all (get_chain), and a quote the cap leaves out has no
\* more open interest than one it keeps (analyze_options).
THEOREM WholeChainsBest == Spec => []BestOfAWholeChain
<1>1. ContentInv => BestOfAWholeChain
  <2> SUFFICES ASSUME ContentInv PROVE BestOfAWholeChain
    OBVIOUS
  <2>1. Whole
    BY DEF ContentInv, Gathered
  <2>2. pass.at = "context" => Best(context.options)
    BY DEF ContentInv, Analysed
  <2> QED
    BY <2>1, <2>2 DEF BestOfAWholeChain, Whole, Best
<1> QED
  BY <1>1, ContentKept, PTL
=============================================================================
