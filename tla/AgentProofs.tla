------------------------------ MODULE AgentProofs ------------------------------
(***************************************************************************)
(* Theorems about Agent, for any set of requests, any history and any      *)
(* delays: the stop of an idle agent, the tokens, and the reports of       *)
(* --doctor.  AgentInv has one part for each.                              *)
(***************************************************************************)
EXTENDS Agent, FiniteSetTheorems, TLAPS

\* The fields of every request.
RequestType ==
    /\ bound \in Bounds
    /\ at \in [Req -> Handled \cup {"off", "queued", "accepted", "flush"}]
    /\ kind \in [Req -> Kind \cup {"none"}] /\ result \in [Req -> {"none", "ok", "refused"}]
    /\ token \in [Req -> Nat] /\ known \in [Req -> Nat]
    /\ asked \in [Req -> Nat] /\ answer \in [Req -> Nat]

\* The requests let in.
In == {r \in Req : Handling(r)}

\* auth counts the requests it has let in; one of them may hold docMu.
CountFits ==
    /\ busy = Cardinality(In)
    /\ \A r \in Req : at[r] \in {"docrun", "docout"} <=> docMu = r
    /\ agent = "down" => \A r \in Req : ~Handling(r)
    /\ port = "free" => agent = "down"

\* The watchdog is over when Shutdown is called; a request it has not counted came after.
IdleFits ==
    /\ agent # "up" => watch = "none"
    /\ watch = "shutdown" \/ agent = "closing" => \A r \in Req : Handling(r) => r \in since

\* Tokens only grow: the one of a code is in the file, or an older one.
TokensFit ==
    /\ file \in Nat /\ cfg \in Nat
    /\ pair = "save1" => cfg = file + 1
    /\ pair = "save2" => cfg = file \/ (file = 0 /\ cfg = 1)
    /\ pair = "print" => cfg = file
    /\ \A t \in issued : t \in Nat /\ t <= file
    /\ \A r \in Req : token[r] <= file /\ known[r] <= file

\* A report is kept in answer until the end of the request that asked for it.
AnswersFit ==
    /\ world \in Nat /\ docOut \in Nat
    /\ \A r \in Req : asked[r] <= world
    /\ \A r \in Req : kind[r] = "refresh" /\ answer[r] # 0
                        => at[r] \in {"docout", "flush"} /\ answer[r] >= asked[r]

\* What the theorems rest on, step by step.
AgentInv == RequestType /\ CountFits /\ IdleFits /\ TokensFit /\ TokensMean /\ AnswersFit

-----------------------------------------------------------------------------
(* Counting the requests that auth has let in.                             *)

\* Nobody is in when busy is 0.
LEMMA NobodyIn == CountFits /\ busy = 0 => \A r \in Req : ~Handling(r)
  <1> SUFFICES ASSUME CountFits, busy = 0 PROVE \A r \in Req : ~Handling(r)
    OBVIOUS
  <1>1. IsFiniteSet(In)
    BY AgentAssumption, FS_Subset DEF In
  <1>2. In = {}
    BY <1>1, FS_EmptySet DEF CountFits
  <1> QED
    BY <1>2 DEF In

\* auth lets a request in.
LEMMA OneMoreIn ==
    ASSUME RequestType, NEW r \in Req, ~Handling(r), NEW v \in Handled,
           at' = [at EXCEPT ![r] = v]
    PROVE  Cardinality(In)' = Cardinality(In) + 1
  <1>1. IsFiniteSet(In)
    BY AgentAssumption, FS_Subset DEF In
  <1>2. In' = In \cup {r}
    BY DEF In, Handling, RequestType
  <1>3. r \notin In
    BY DEF In
  <1> QED
    BY <1>1, <1>2, <1>3, FS_AddElement

\* A handler returns.
LEMMA OneLessIn ==
    ASSUME RequestType, NEW r \in Req, Handling(r), at' = [at EXCEPT ![r] = "flush"]
    PROVE  Cardinality(In)' = Cardinality(In) - 1
  <1>1. IsFiniteSet(In)
    BY AgentAssumption, FS_Subset DEF In
  <1>2. In' = In \ {r}
    BY DEF In, Handling, Handled, RequestType
  <1>3. r \in In
    BY DEF In
  <1> QED
    BY <1>1, <1>2, <1>3, FS_RemoveElement

\* A step that moves no request.
LEMMA UnmovedIn == UNCHANGED at => Cardinality(In)' = Cardinality(In)
  <1> SUFFICES ASSUME UNCHANGED at PROVE In' = In
    OBVIOUS
  <1> QED
    BY DEF In, Handling

-----------------------------------------------------------------------------
(* One step.                                                               *)

\* Every step of the server, of --pair and of a request keeps the types.
LEMMA TypeKept == AgentInv /\ [Next]_vars => RequestType'
  <1> SUFFICES ASSUME AgentInv, [Next]_vars PROVE RequestType'
    OBVIOUS
  <1> USE DEF requestVars, serverVars, pairVars, AgentInv, RequestType, Handled, Kind,
          TokensFit, AnswersFit
  <1>1. CASE SystemdStart
    BY <1>1 DEF SystemdStart
  <1>2. CASE Tick
    BY <1>2 DEF Tick
  <1>3. CASE WatchIdle
    BY <1>3 DEF WatchIdle, Watchdog
  <1>4. CASE WatchBusy
    BY <1>4 DEF WatchBusy, Watchdog
  <1>5. CASE Shutdown
    BY <1>5 DEF Shutdown, Watchdog
  <1>6. CASE ServeReturns
    BY <1>6 DEF ServeReturns, Ends, Free
  <1>7. CASE Killed
    BY <1>7 DEF Killed, Ends, Free
  <1>8. CASE Boot
    BY <1>8 DEF Boot, Ends, Free
  <1>9. CASE WorldChanges
    BY <1>9 DEF WorldChanges
  <1>10. CASE PairStart
    BY <1>10 DEF PairStart, OnlyPair
  <1>11. CASE PairLoad
    BY <1>11 DEF PairLoad, OnlyPair
  <1>12. CASE Save("save1", "init")
    BY <1>12 DEF Save, OnlyPair
  <1>13. CASE PairInit
    BY <1>13 DEF PairInit, OnlyPair
  <1>14. CASE Save("save2", "print")
    BY <1>14 DEF Save, OnlyPair
  <1>15. CASE PairPrint
    BY <1>15 DEF PairPrint, OnlyPair
  <1>16. CASE PairListen
    BY <1>16 DEF PairListen
  <1>17. CASE StopPair
    BY <1>17 DEF StopPair, OnlyPair
  <1>18. CASE SetupPair
    BY <1>18 DEF SetupPair, OnlyPair
  <1>19. CASE SetupEnable
    BY <1>19 DEF SetupEnable
  <1>20. ASSUME NEW r \in Req, Connect(r) PROVE RequestType'
    BY <1>20, AgentAssumption DEF Connect, NotServer, Set
  <1>21. ASSUME NEW r \in Req, Accept(r) PROVE RequestType'
    BY <1>21 DEF Accept, NotServer, Set
  <1>22. ASSUME NEW r \in Req, Begin(r) PROVE RequestType'
    BY <1>22 DEF Begin, NotServer, Set, Route
  <1>23. ASSUME NEW r \in Req, Work(r) PROVE RequestType'
    BY <1>23 DEF Work, Returns, NotServer, Set
  <1>24. ASSUME NEW r \in Req, DocLock(r) PROVE RequestType'
    BY <1>24 DEF DocLock, Returns, NotServer, Set
  <1>25. ASSUME NEW r \in Req, DocRun(r) PROVE RequestType'
    BY <1>25 DEF DocRun, NotServer, Set
  <1>26. ASSUME NEW r \in Req, DocEnd(r) PROVE RequestType'
    BY <1>26 DEF DocEnd, Returns, NotServer, Set
  <1>27. ASSUME NEW r \in Req, Flush(r) PROVE RequestType'
    BY <1>27 DEF Flush, Free, NotServer
  <1>28. CASE UNCHANGED vars
    BY <1>28 DEF vars
  <1> QED
    BY <1>1, <1>2, <1>3, <1>4, <1>5, <1>6, <1>7, <1>8, <1>9, <1>10, <1>11, <1>12, <1>13, <1>14,
       <1>15, <1>16, <1>17, <1>18, <1>19, <1>20, <1>21, <1>22, <1>23, <1>24, <1>25, <1>26,
       <1>27, <1>28 DEF Next, WatchStep, PairStep, Handler

\* auth and the end of a handler keep busy equal to the number of requests let in,
\* and a stopped agent has none.
LEMMA CountKept == AgentInv /\ [Next]_vars => CountFits'
  <1> SUFFICES ASSUME AgentInv, [Next]_vars PROVE CountFits'
    OBVIOUS
  <1> USE DEF requestVars, serverVars, pairVars, AgentInv, RequestType, CountFits
  <1>1. CASE SystemdStart
    <2>1. \A s \in Req : ~Handling(s)'
      BY <1>1 DEF SystemdStart, Handling
    <2>2. Cardinality(In)' = 0
      BY <2>1, FS_EmptySet DEF In
    <2>3. busy' = 0 /\ docMu' = "none" /\ agent' = "up"
      BY <1>1 DEF SystemdStart, Serves
    <2> QED
      BY <1>1, <2>1, <2>2, <2>3, AgentAssumption DEF SystemdStart, Handling
  <1>2. CASE Tick
    BY <1>2, UnmovedIn DEF Tick
  <1>3. CASE WatchIdle
    BY <1>3, UnmovedIn DEF WatchIdle, Watchdog, Handling
  <1>4. CASE WatchBusy
    BY <1>4, UnmovedIn DEF WatchBusy, Watchdog, Handling
  <1>5. CASE Shutdown
    BY <1>5, UnmovedIn DEF Shutdown, Watchdog, IdleFits
  <1>6. CASE ServeReturns
    <2>1. \A s \in Req : ~Handling(s)'
      BY <1>6 DEF ServeReturns, Ends, Free, Handling, Handled
    <2>2. Cardinality(In)' = 0
      BY <2>1, FS_EmptySet DEF In
    <2>3. busy' = 0 /\ docMu' = "none" /\ agent' = "down"
      BY <1>6 DEF ServeReturns, Ends, Serves
    <2> QED
      BY <2>1, <2>2, <2>3, AgentAssumption DEF Handling, Handled
  <1>7. CASE Killed
    <2>1. \A s \in Req : ~Handling(s)'
      BY <1>7 DEF Killed, Ends, Free, Handling, Handled
    <2>2. Cardinality(In)' = 0
      BY <2>1, FS_EmptySet DEF In
    <2>3. busy' = 0 /\ docMu' = "none" /\ agent' = "down"
      BY <1>7 DEF Killed, Ends, Serves
    <2> QED
      BY <2>1, <2>2, <2>3, AgentAssumption DEF Handling, Handled
  <1>8. CASE Boot
    <2>1. \A s \in Req : ~Handling(s)'
      BY <1>8 DEF Boot, Ends, Free, Handling, Handled
    <2>2. Cardinality(In)' = 0
      BY <2>1, FS_EmptySet DEF In
    <2>3. busy' = 0 /\ docMu' = "none" /\ agent' = "down"
      BY <1>8 DEF Boot, Ends, Serves
    <2> QED
      BY <2>1, <2>2, <2>3, AgentAssumption DEF Handling, Handled
  <1>9. CASE WorldChanges
    BY <1>9, UnmovedIn DEF WorldChanges, Handling
  <1>10. CASE PairStart
    BY <1>10, UnmovedIn DEF PairStart, OnlyPair, Handling
  <1>11. CASE PairLoad
    BY <1>11, UnmovedIn DEF PairLoad, OnlyPair, Handling
  <1>12. CASE Save("save1", "init")
    BY <1>12, UnmovedIn DEF Save, OnlyPair, Handling
  <1>13. CASE PairInit
    BY <1>13, UnmovedIn DEF PairInit, OnlyPair, Handling
  <1>14. CASE Save("save2", "print")
    BY <1>14, UnmovedIn DEF Save, OnlyPair, Handling
  <1>15. CASE PairPrint
    BY <1>15, UnmovedIn DEF PairPrint, OnlyPair, Handling
  <1>16. CASE PairListen
    <2>1. CASE port = "free"
      <3>1. In = {}
        BY <2>1 DEF In
      <3>2. Cardinality(In)' = 0
        BY <1>16, <3>1, FS_EmptySet DEF PairListen, In, Handling
      <3> QED
        BY <1>16, <2>1, <3>2, AgentAssumption DEF PairListen, Serves, Handling
    <2>2. CASE port # "free"
      BY <1>16, <2>2 DEF PairListen, Handling, In
    <2> QED
      BY <2>1, <2>2
  <1>17. CASE StopPair
    BY <1>17, UnmovedIn DEF StopPair, OnlyPair, Handling
  <1>18. CASE SetupPair
    BY <1>18, UnmovedIn DEF SetupPair, OnlyPair, Handling
  <1>19. CASE SetupEnable
    BY <1>19, UnmovedIn DEF SetupEnable, Handling
  <1>20. ASSUME NEW r \in Req, Connect(r) PROVE CountFits'
    <2>1. In' = In
      BY <1>20 DEF Connect, Set, In, Handling, Handled
    <2> QED
      BY <1>20, <2>1 DEF Connect, NotServer, Set, Handling, Handled
  <1>21. ASSUME NEW r \in Req, Accept(r) PROVE CountFits'
    <2>1. In' = In
      BY <1>21 DEF Accept, Set, In, Handling, Handled
    <2> QED
      BY <1>21, <2>1 DEF Accept, NotServer, Set
  <1>22. ASSUME NEW r \in Req, Begin(r) PROVE CountFits'
    <2>1. CASE token[r] = LoadAgentConfig /\ ~(kind[r] = "trial" /\ TrialRuns)
      <3>1. Cardinality(In)' = Cardinality(In) + 1
        BY <1>22, <2>1, OneMoreIn DEF Begin, Set, Route, Handling, Handled
      <3> QED
        BY <1>22, <2>1, <3>1 DEF Begin, NotServer, NotDoctor, Set, Route
    <2>2. CASE ~(token[r] = LoadAgentConfig /\ ~(kind[r] = "trial" /\ TrialRuns))
      <3>1. In' = In
        BY <1>22, <2>2 DEF Begin, Set, In, Handling, Handled
      <3> QED
        BY <1>22, <2>2, <3>1 DEF Begin, NotServer, NotDoctor, Set
    <2> QED
      BY <2>1, <2>2
  <1>23. ASSUME NEW r \in Req, Work(r) PROVE CountFits'
    <2>1. Cardinality(In)' = Cardinality(In) - 1
      BY <1>23, OneLessIn DEF Work, Returns, Set, Handling
    <2> QED
      BY <1>23, <2>1 DEF Work, Returns, NotServer, NotDoctor, Set, Handling
  <1>24. ASSUME NEW r \in Req, DocLock(r) PROVE CountFits'
    <2>1. CASE CacheServes(r)
      <3>1. Cardinality(In)' = Cardinality(In) - 1
        BY <1>24, <2>1, OneLessIn DEF DocLock, Returns, Set, Handling
      <3> QED
        BY <1>24, <2>1, <3>1 DEF DocLock, Returns, NotServer, Set, Handling
    <2>2. CASE ~(CacheServes(r))
      <3>1. In' = In
        BY <1>24, <2>2 DEF DocLock, Set, In, Handling, Handled
      <3> QED
        BY <1>24, <2>2, <3>1, AgentAssumption DEF DocLock, NotServer, Set, Handling
    <2> QED
      BY <2>1, <2>2
  <1>25. ASSUME NEW r \in Req, DocRun(r) PROVE CountFits'
    <2>1. In' = In
      BY <1>25 DEF DocRun, Set, In, Handling, Handled
    <2> QED
      BY <1>25, <2>1 DEF DocRun, NotServer, Set, Handling
  <1>26. ASSUME NEW r \in Req, DocEnd(r) PROVE CountFits'
    <2>1. Cardinality(In)' = Cardinality(In) - 1
      BY <1>26, OneLessIn DEF DocEnd, Returns, Set, Handling
    <2> QED
      BY <1>26, <2>1, AgentAssumption DEF DocEnd, Returns, NotServer, Set, Handling
  <1>27. ASSUME NEW r \in Req, Flush(r) PROVE CountFits'
    <2>1. In' = In
      BY <1>27 DEF Flush, Free, In, Handling, Handled
    <2> QED
      BY <1>27, <2>1 DEF Flush, Free, NotServer, Handling, Handled
  <1>28. CASE UNCHANGED vars
    BY <1>28, UnmovedIn DEF vars, Handling
  <1> QED
    BY <1>1, <1>2, <1>3, <1>4, <1>5, <1>6, <1>7, <1>8, <1>9, <1>10, <1>11, <1>12, <1>13, <1>14,
       <1>15, <1>16, <1>17, <1>18, <1>19, <1>20, <1>21, <1>22, <1>23, <1>24, <1>25, <1>26,
       <1>27, <1>28 DEF Next, WatchStep, PairStep, Handler

\* No step of --pair or of a request makes the token of agent.json older than one
\* that a code, a request or --pair holds.
LEMMA TokensKept == AgentInv /\ [Next]_vars => (TokensFit /\ TokensMean)'
  <1> SUFFICES ASSUME AgentInv, [Next]_vars PROVE (TokensFit /\ TokensMean)'
    OBVIOUS
  <1> USE DEF requestVars, serverVars, pairVars, AgentInv, RequestType, TokensFit, TokensMean
  <1>1. CASE SystemdStart
    BY <1>1 DEF SystemdStart
  <1>2. CASE Tick
    BY <1>2 DEF Tick
  <1>3. CASE WatchIdle
    BY <1>3 DEF WatchIdle, Watchdog
  <1>4. CASE WatchBusy
    BY <1>4 DEF WatchBusy, Watchdog
  <1>5. CASE Shutdown
    BY <1>5 DEF Shutdown, Watchdog
  <1>6. CASE ServeReturns
    BY <1>6 DEF ServeReturns, Ends, Free
  <1>7. CASE Killed
    BY <1>7 DEF Killed, Ends, Free
  <1>8. CASE Boot
    BY <1>8 DEF Boot, Ends, Free
  <1>9. CASE WorldChanges
    BY <1>9 DEF WorldChanges
  <1>10. CASE PairStart
    BY <1>10 DEF PairStart, Pair, OnlyPair
  <1>11. CASE PairLoad
    BY <1>11 DEF PairLoad, Pair, OnlyPair, LoadAgentConfig
  <1>12. CASE Save("save1", "init")
    BY <1>12 DEF Save, Pair, OnlyPair
  <1>13. CASE PairInit
    BY <1>13 DEF PairInit, Pair, OnlyPair, LoadAgentConfig
  <1>14. CASE Save("save2", "print")
    BY <1>14 DEF Save, Pair, OnlyPair
  <1>15. CASE PairPrint
    BY <1>15 DEF PairPrint, Pair, OnlyPair
  <1>16. CASE PairListen
    BY <1>16 DEF PairListen, Pair
  <1>17. CASE StopPair
    BY <1>17 DEF StopPair, OnlyPair
  <1>18. CASE SetupPair
    BY <1>18 DEF SetupPair, Pair, OnlyPair
  <1>19. CASE SetupEnable
    BY <1>19 DEF SetupEnable
  <1>20. ASSUME NEW r \in Req, Connect(r) PROVE (TokensFit /\ TokensMean)'
    BY <1>20 DEF Connect, NotServer, Set
  <1>21. ASSUME NEW r \in Req, Accept(r) PROVE (TokensFit /\ TokensMean)'
    BY <1>21 DEF Accept, NotServer
  <1>22. ASSUME NEW r \in Req, Begin(r) PROVE (TokensFit /\ TokensMean)'
    BY <1>22 DEF Begin, NotServer, Set, LoadAgentConfig
  <1>23. ASSUME NEW r \in Req, Work(r) PROVE (TokensFit /\ TokensMean)'
    BY <1>23 DEF Work, NotServer
  <1>24. ASSUME NEW r \in Req, DocLock(r) PROVE (TokensFit /\ TokensMean)'
    BY <1>24 DEF DocLock, NotServer
  <1>25. ASSUME NEW r \in Req, DocRun(r) PROVE (TokensFit /\ TokensMean)'
    BY <1>25 DEF DocRun, NotServer
  <1>26. ASSUME NEW r \in Req, DocEnd(r) PROVE (TokensFit /\ TokensMean)'
    BY <1>26 DEF DocEnd, NotServer
  <1>27. ASSUME NEW r \in Req, Flush(r) PROVE (TokensFit /\ TokensMean)'
    BY <1>27 DEF Flush, Free, NotServer
  <1>28. CASE UNCHANGED vars
    BY <1>28 DEF vars
  <1> QED
    BY <1>1, <1>2, <1>3, <1>4, <1>5, <1>6, <1>7, <1>8, <1>9, <1>10, <1>11, <1>12, <1>13, <1>14,
       <1>15, <1>16, <1>17, <1>18, <1>19, <1>20, <1>21, <1>22, <1>23, <1>24, <1>25, <1>26,
       <1>27, <1>28 DEF Next, WatchStep, PairStep, Handler

\* A report reaches the request that asked for it, made while it held docMu.
LEMMA AnswersKept == AgentInv /\ [Next]_vars => AnswersFit'
  <1> SUFFICES ASSUME AgentInv, [Next]_vars PROVE AnswersFit'
    OBVIOUS
  <1> USE DEF requestVars, serverVars, pairVars, AgentInv, RequestType, AnswersFit, Handled,
          Kind
  <1>1. CASE SystemdStart
    BY <1>1 DEF SystemdStart, Serves
  <1>2. CASE Tick
    BY <1>2 DEF Tick
  <1>3. CASE WatchIdle
    BY <1>3 DEF WatchIdle, Watchdog
  <1>4. CASE WatchBusy
    BY <1>4 DEF WatchBusy, Watchdog
  <1>5. CASE Shutdown
    BY <1>5 DEF Shutdown, Watchdog
  <1>6. CASE ServeReturns
    BY <1>6 DEF ServeReturns, Ends, Serves, Free
  <1>7. CASE Killed
    BY <1>7 DEF Killed, Ends, Serves, Free
  <1>8. CASE Boot
    BY <1>8 DEF Boot, Ends, Serves, Free
  <1>9. CASE WorldChanges
    BY <1>9 DEF WorldChanges
  <1>10. CASE PairStart
    BY <1>10 DEF PairStart, OnlyPair
  <1>11. CASE PairLoad
    BY <1>11 DEF PairLoad, OnlyPair
  <1>12. CASE Save("save1", "init")
    BY <1>12 DEF Save, OnlyPair
  <1>13. CASE PairInit
    BY <1>13 DEF PairInit, OnlyPair
  <1>14. CASE Save("save2", "print")
    BY <1>14 DEF Save, OnlyPair
  <1>15. CASE PairPrint
    BY <1>15 DEF PairPrint, OnlyPair
  <1>16. CASE PairListen
    BY <1>16 DEF PairListen, Serves
  <1>17. CASE StopPair
    BY <1>17 DEF StopPair, OnlyPair
  <1>18. CASE SetupPair
    BY <1>18 DEF SetupPair, OnlyPair
  <1>19. CASE SetupEnable
    BY <1>19 DEF SetupEnable
  <1>20. ASSUME NEW r \in Req, Connect(r) PROVE AnswersFit'
    BY <1>20 DEF Connect, NotServer, Set
  <1>21. ASSUME NEW r \in Req, Accept(r) PROVE AnswersFit'
    BY <1>21 DEF Accept, NotServer, Set
  <1>22. ASSUME NEW r \in Req, Begin(r) PROVE AnswersFit'
    BY <1>22 DEF Begin, NotServer, NotDoctor, Set
  <1>23. ASSUME NEW r \in Req, Work(r) PROVE AnswersFit'
    BY <1>23 DEF Work, Returns, NotServer, NotDoctor, Set
  <1>24. ASSUME NEW r \in Req, DocLock(r) PROVE AnswersFit'
    BY <1>24 DEF DocLock, Returns, NotServer, Set, CacheServes
  <1>25. ASSUME NEW r \in Req, DocRun(r) PROVE AnswersFit'
    BY <1>25 DEF DocRun, NotServer, Set
  <1>26. ASSUME NEW r \in Req, DocEnd(r) PROVE AnswersFit'
    BY <1>26 DEF DocEnd, Returns, NotServer, Set
  <1>27. ASSUME NEW r \in Req, Flush(r) PROVE AnswersFit'
    BY <1>27 DEF Flush, Free, NotServer
  <1>28. CASE UNCHANGED vars
    BY <1>28 DEF vars
  <1> QED
    BY <1>1, <1>2, <1>3, <1>4, <1>5, <1>6, <1>7, <1>8, <1>9, <1>10, <1>11, <1>12, <1>13, <1>14,
       <1>15, <1>16, <1>17, <1>18, <1>19, <1>20, <1>21, <1>22, <1>23, <1>24, <1>25, <1>26,
       <1>27, <1>28 DEF Next, WatchStep, PairStep, Handler

\* Between the watchdog's look at busy and the stop, only new requests come in.
LEMMA IdleKept == AgentInv /\ [Next]_vars => IdleFits'
  <1> SUFFICES ASSUME AgentInv, [Next]_vars PROVE IdleFits'
    OBVIOUS
  <1> USE DEF requestVars, serverVars, pairVars, AgentInv, RequestType, IdleFits, Handled,
          Handling
  <1>1. CASE SystemdStart
    BY <1>1 DEF SystemdStart, Serves
  <1>2. CASE Tick
    BY <1>2 DEF Tick
  <1>3. CASE WatchIdle
    BY <1>3 DEF WatchIdle, Watchdog
  <1>4. CASE WatchBusy
    BY <1>4, NobodyIn DEF WatchBusy, Watchdog
  <1>5. CASE Shutdown
    BY <1>5 DEF Shutdown, Watchdog
  <1>6. CASE ServeReturns
    BY <1>6 DEF ServeReturns, Ends, Serves
  <1>7. CASE Killed
    BY <1>7 DEF Killed, Ends, Serves
  <1>8. CASE Boot
    BY <1>8 DEF Boot, Ends, Serves
  <1>9. CASE WorldChanges
    BY <1>9 DEF WorldChanges
  <1>10. CASE PairStart
    BY <1>10 DEF PairStart, OnlyPair
  <1>11. CASE PairLoad
    BY <1>11 DEF PairLoad, OnlyPair
  <1>12. CASE Save("save1", "init")
    BY <1>12 DEF Save, OnlyPair
  <1>13. CASE PairInit
    BY <1>13 DEF PairInit, OnlyPair
  <1>14. CASE Save("save2", "print")
    BY <1>14 DEF Save, OnlyPair
  <1>15. CASE PairPrint
    BY <1>15 DEF PairPrint, OnlyPair
  <1>16. CASE PairListen
    BY <1>16 DEF PairListen, Serves
  <1>17. CASE StopPair
    BY <1>17 DEF StopPair, OnlyPair
  <1>18. CASE SetupPair
    BY <1>18 DEF SetupPair, OnlyPair
  <1>19. CASE SetupEnable
    BY <1>19 DEF SetupEnable
  <1>20. ASSUME NEW r \in Req, Connect(r) PROVE IdleFits'
    BY <1>20 DEF Connect, NotServer, Set
  <1>21. ASSUME NEW r \in Req, Accept(r) PROVE IdleFits'
    BY <1>21 DEF Accept, NotServer, Set
  <1>22. ASSUME NEW r \in Req, Begin(r) PROVE IdleFits'
    BY <1>22 DEF Begin, NotServer, Set, Noted
  <1>23. ASSUME NEW r \in Req, Work(r) PROVE IdleFits'
    BY <1>23 DEF Work, Returns, NotServer, Set
  <1>24. ASSUME NEW r \in Req, DocLock(r) PROVE IdleFits'
    BY <1>24 DEF DocLock, Returns, NotServer, Set
  <1>25. ASSUME NEW r \in Req, DocRun(r) PROVE IdleFits'
    BY <1>25 DEF DocRun, NotServer, Set
  <1>26. ASSUME NEW r \in Req, DocEnd(r) PROVE IdleFits'
    BY <1>26 DEF DocEnd, Returns, NotServer, Set
  <1>27. ASSUME NEW r \in Req, Flush(r) PROVE IdleFits'
    BY <1>27 DEF Flush, Free, NotServer
  <1>28. CASE UNCHANGED vars
    BY <1>28 DEF vars
  <1> QED
    BY <1>1, <1>2, <1>3, <1>4, <1>5, <1>6, <1>7, <1>8, <1>9, <1>10, <1>11, <1>12, <1>13, <1>14,
       <1>15, <1>16, <1>17, <1>18, <1>19, <1>20, <1>21, <1>22, <1>23, <1>24, <1>25, <1>26,
       <1>27, <1>28 DEF Next, WatchStep, PairStep, Handler

-----------------------------------------------------------------------------
(* What holds of every history.                                            *)

\* No agent, no request and no code.
LEMMA InitAgent == Init => AgentInv
  <1> SUFFICES ASSUME Init PROVE AgentInv
    OBVIOUS
  <1> USE AgentAssumption DEF Init
  <1>1. RequestType
    BY DEF RequestType
  <1>2. CountFits
    <2>1. In = {}
      BY DEF In, Handling, Handled
    <2>2. Cardinality(In) = 0
      BY <2>1, FS_EmptySet
    <2> QED
      BY <2>2 DEF CountFits, Handling, Handled
  <1>3. IdleFits
    BY DEF IdleFits
  <1>4. TokensFit /\ TokensMean
    BY DEF TokensFit, TokensMean
  <1>5. AnswersFit
    BY DEF AnswersFit
  <1> QED
    BY <1>1, <1>2, <1>3, <1>4, <1>5 DEF AgentInv

\* Spec keeps AgentInv.
LEMMA AgentAlways == Spec => []AgentInv
  <1>1. AgentInv /\ [Next]_vars => AgentInv'
    BY TypeKept, TokensKept, AnswersKept, IdleKept, CountKept DEF AgentInv
  <1> QED
    BY <1>1, InitAgent, PTL DEF Spec

\* A request that the stop cuts was not there when the watchdog read busy: busy is the
\* number of those that auth has let in (idleWatchdog, auth).
THEOREM IdleStopOnly == Spec => []StopsOnlyIdle
  <1>1. AgentInv => StopsOnlyIdle
    BY DEF AgentInv, IdleFits, StopsOnlyIdle
  <1> QED
    BY <1>1, AgentAlways, PTL

\* The token in agent.json only grows, so a refused token was replaced and an accepted
\* one was not, wherever --pair is (auth, cmdPair, saveAgentConfig).
THEOREM TokensAreMeant == Spec => []TokensMean
  <1>1. AgentInv => TokensMean
    BY DEF AgentInv
  <1> QED
    BY <1>1, AgentAlways, PTL

\* refresh=1 is never answered by an older report (doctor, docMu).
THEOREM RefreshAnswers == Spec => []RefreshIsNew
  <1>1. AgentInv => RefreshIsNew
    BY DEF AgentInv, AnswersFit, RefreshIsNew
  <1> QED
    BY <1>1, AgentAlways, PTL
===============================================================================
