--------------------------------- MODULE Agent ---------------------------------
(***************************************************************************)
(* The agent on one port: its requests (auth, doctor, the trial slot), the *)
(* watchdog that ends an idle agent started by systemd's socket, --pair,   *)
(* which writes the configuration every request reads and starts an agent  *)
(* when none listens, and --setup --agent, which installs the socket.      *)
(*                                                                         *)
(* One --pair at a time.  Trial has the inside of a trial.                 *)
(***************************************************************************)
EXTENDS Naturals, FiniteSets

CONSTANTS
    Req,        \* slots for requests
    Bounds,     \* of a history: [routes, tokens, worlds, again], the routes asked for, how
                \* many tokens and machines --doctor can report it has, and whether
                \* --pair is called where an agent listens
    IdleExit,   \* agentIdleExit in turns of the watchdog (12 in the code)
    DoctorTTL   \* doctorTTL in the same unit (60 in the code)

\* "refresh" is doctor?refresh=1, "other" all routes without a state of their own.
Kind == {"doctor", "refresh", "trial", "other"}

ASSUME AgentAssumption ==
    /\ IsFiniteSet(Req) /\ "none" \notin Req
    /\ \A b \in Bounds : b.routes \subseteq Kind
    /\ \A b \in Bounds : {b.tokens, b.worlds} \subseteq Nat \ {0}
    /\ IdleExit \in Nat /\ DoctorTTL \in Nat

VARIABLES
    bound,     \* the bounds of this history
    port,      \* who listens: "free", "socket" (systemd), "agent" (detached)
    enabled,   \* the socket's unit is enabled
    agent,     \* "down", "up", "closing": Shutdown has been called
    at,        \* where each request is
    kind, token, result,  \* its route and token, what auth said
    known,     \* the token of the configuration when it was sent
    asked,     \* what --doctor would report when it was sent
    answer,    \* the report of its run, or of its answer
    busy, idleFor,        \* requests in auth; time the watchdog sees since the last one
    watch,     \* the watchdog
    since,     \* requests begun since it read busy and decided to stop
    docMu, docOut, docAge,   \* "none" or a request; the cached report, 0 if none
    world,     \* what --doctor reports now
    file,      \* the token in agent.json, 0 if there is none
    pair, reset, cfg,     \* --pair, its option, its token
    issued,    \* the tokens of the codes printed so far
    setup      \* --setup --agent

requestVars == <<at, kind, token, result, known, asked, answer>>
serverVars == <<busy, idleFor, watch, since, docMu, docOut, docAge>>
pairVars == <<bound, file, pair, reset, cfg, issued>>
vars == <<port, enabled, agent, requestVars, serverVars, world, pairVars, setup>>

Handled == {"work", "doclock", "docrun", "docout"}
Handling(r) == at[r] \in Handled

TypeOK ==
    /\ bound \in Bounds
    /\ port \in {"free", "socket", "agent"} /\ enabled \in BOOLEAN
    /\ agent \in {"down", "up", "closing"}
    /\ at \in [Req -> Handled \cup {"off", "queued", "accepted", "flush"}]
    /\ kind \in [Req -> Kind \cup {"none"}] /\ result \in [Req -> {"none", "ok", "refused"}]
    /\ token \in [Req -> 0..bound.tokens] /\ known \in [Req -> 0..bound.tokens]
    /\ asked \in [Req -> 0..bound.worlds] /\ answer \in [Req -> 0..bound.worlds]
    /\ busy = Cardinality({r \in Req : Handling(r)})
    /\ idleFor \in 0..(IdleExit + 1) /\ docAge \in 0..(DoctorTTL + 1)
    /\ watch \in {"none", "sleep", "woke", "idle", "shutdown"}
    /\ since \subseteq Req /\ docMu \in Req \cup {"none"}
    /\ docOut \in 0..bound.worlds /\ world \in 1..bound.worlds
    /\ file \in 0..bound.tokens /\ cfg \in 0..bound.tokens /\ issued \subseteq 1..bound.tokens
    /\ pair \in {"off", "load", "save1", "init", "save2", "print", "listen"}
    /\ reset \in BOOLEAN /\ setup \in {"off", "pair", "units", "done"}
    /\ \A r \in Req : at[r] \in {"docrun", "docout"} <=> docMu = r
    /\ agent = "down" => \A r \in Req : ~Handling(r)

Init ==
    /\ bound \in Bounds
    /\ port = "free" /\ enabled = FALSE /\ agent = "down"
    /\ at = [r \in Req |-> "off"] /\ kind = [r \in Req |-> "none"]
    /\ token = [r \in Req |-> 0] /\ result = [r \in Req |-> "none"]
    /\ known = [r \in Req |-> 0] /\ asked = [r \in Req |-> 0] /\ answer = [r \in Req |-> 0]
    /\ busy = 0 /\ idleFor = 0 /\ watch = "none" /\ since = {}
    /\ docMu = "none" /\ docOut = 0 /\ docAge = 0 /\ world = 1
    /\ file = 0 /\ pair = "off" /\ reset = FALSE /\ cfg = 0 /\ issued = {}
    /\ setup = "off"

-----------------------------------------------------------------------------
(* The server's life.                                                      *)

\* Requests that are over: their slots can be used again.
Free(S) ==
    LET Clear(f, v) == [r \in Req |-> IF r \in S THEN v ELSE f[r]]
    IN  /\ at' = Clear(at, "off") /\ kind' = Clear(kind, "none")
        /\ token' = Clear(token, 0) /\ result' = Clear(result, "none")
        /\ known' = Clear(known, 0) /\ asked' = Clear(asked, 0) /\ answer' = Clear(answer, 0)

Serves(state, dog) ==
    /\ agent' = state /\ watch' = dog
    /\ busy' = 0 /\ idleFor' = 0 /\ since' = {}
    /\ docMu' = "none" /\ docOut' = 0 /\ docAge' = 0

\* What of agent.json requests and --pair read: the token, 0 if there is none.
LoadAgentConfig == file

\* systemd starts the service for a waiting connection; serveAgent needs a token.
SystemdStart ==
    /\ port = "socket" /\ agent = "down" /\ LoadAgentConfig # 0
    /\ \E r \in Req : at[r] = "queued"
    /\ Serves("up", "sleep")
    /\ UNCHANGED <<port, enabled, requestVars, world, pairVars, setup>>

\* The process ends: the requests it has accepted are cut.
Ends ==
    /\ Serves("down", "none")
    /\ Free({r \in Req : at[r] # "queued"})

\* Five seconds.
Tick ==
    /\ agent = "up" /\ watch \in {"none", "sleep"}
    /\ watch' = IF watch = "sleep" THEN "woke" ELSE "none"
    /\ idleFor' = IF watch = "none" \/ idleFor > IdleExit THEN idleFor ELSE idleFor + 1
    /\ docAge' = IF docOut = 0 \/ docAge > DoctorTTL THEN docAge ELSE docAge + 1
    /\ UNCHANGED <<port, enabled, agent, requestVars, busy, since, docMu, docOut, world,
                   pairVars, setup>>

Watchdog(from, to) ==
    /\ watch = from /\ watch' = to
    /\ UNCHANGED <<port, enabled, requestVars, busy, idleFor, docMu, docOut, docAge, world,
                   pairVars, setup>>

\* Mutant: the watchdog looks once.
WatchOnce ==
    /\ Watchdog("woke", IF idleFor > IdleExit THEN "idle" ELSE "none")
    /\ UNCHANGED <<agent, since>>

\* idleWatchdog reads last, then busy, then calls Shutdown.
WatchIdle ==
    /\ Watchdog("woke", IF idleFor > IdleExit THEN "idle" ELSE "sleep")
    /\ UNCHANGED <<agent, since>>

\* Mutant: requests that take long count as idle.
WatchTimeOnly == Watchdog("idle", "shutdown") /\ since' = {} /\ UNCHANGED agent

WatchBusy ==
    /\ Watchdog("idle", IF busy = 0 THEN "shutdown" ELSE "sleep")
    /\ since' = {} /\ UNCHANGED agent

Shutdown == Watchdog("shutdown", "none") /\ agent' = "closing" /\ UNCHANGED since

\* Serve returns as soon as Shutdown has closed the listener, and serveAgent ends.
ServeReturns ==
    /\ agent = "closing" /\ Ends
    /\ UNCHANGED <<port, enabled, world, pairVars, setup>>

\* Nothing restarts a detached agent that is killed.
Killed ==
    /\ port = "agent" /\ port' = "free" /\ Ends
    /\ UNCHANGED <<enabled, world, pairVars, setup>>

\* The machine restarts: what listens then is the socket, if it is enabled.
Boot ==
    /\ enabled /\ port # "socket" /\ port' = "socket"
    /\ Ends
    /\ pair' = "off" /\ setup' = "off" /\ reset' = FALSE /\ cfg' = 0
    /\ UNCHANGED <<bound, enabled, world, file, issued>>

-----------------------------------------------------------------------------
(* Requests.                                                               *)

Set(f, r, v) == f' = [f EXCEPT ![r] = v]
NotServer == UNCHANGED <<port, enabled, agent, world, pairVars, setup>>
NotDoctor == UNCHANGED <<docMu, docOut, docAge>>

\* A client that has a code sends a request.
Connect(r) ==
    /\ at[r] = "off"
    /\ \/ port = "socket" /\ Set(at, r, "queued")
       \/ port = "agent" /\ agent = "up" /\ Set(at, r, "accepted")
    /\ \E k \in bound.routes : Set(kind, r, k)
    /\ \E t \in issued : Set(token, r, t)
    /\ Set(result, r, "none") /\ Set(known, r, file) /\ Set(asked, r, world) /\ Set(answer, r, 0)
    /\ NotServer /\ UNCHANGED serverVars

Accept(r) ==
    /\ at[r] = "queued" /\ agent = "up" /\ Set(at, r, "accepted")
    /\ UNCHANGED <<kind, token, result, known, asked, answer>>
    /\ NotServer /\ UNCHANGED serverVars

Route(r) == IF kind[r] \in {"doctor", "refresh"} THEN "doclock" ELSE "work"
TrialRuns == \E s \in Req : at[s] = "work" /\ kind[s] = "trial"

Noted(r) ==
    /\ idleFor' = 0
    /\ since' = IF watch = "shutdown" \/ agent = "closing" THEN since \cup {r} ELSE since

\* auth, with the configuration of this moment; a second trial is answered 409.
Begin(r) ==
    /\ agent # "down" /\ at[r] = "accepted"
    /\ LET in == token[r] = LoadAgentConfig /\ ~(kind[r] = "trial" /\ TrialRuns)
       IN /\ Set(at, r, IF in THEN Route(r) ELSE "flush")
          /\ busy' = IF in THEN busy + 1 ELSE busy
    /\ Set(result, r, IF token[r] = LoadAgentConfig THEN "ok" ELSE "refused")
    /\ Noted(r)
    /\ UNCHANGED <<kind, token, known, asked, answer, watch>>
    /\ NotServer /\ NotDoctor

\* The handler returns; net/http still has the end of the answer to write.
Returns(r) == Set(at, r, "flush") /\ busy' = busy - 1

Work(r) ==
    /\ at[r] = "work" /\ Returns(r)
    /\ UNCHANGED <<kind, token, result, known, asked, answer, idleFor, watch, since>>
    /\ NotServer /\ NotDoctor

\* Mutant: a report that has just been made is good enough for everybody.
CacheJustMade(r) == docOut # 0 /\ docAge <= DoctorTTL /\ (kind[r] = "doctor" \/ docAge = 0)

\* The cache is for requests without refresh=1, while it is young.
CacheServes(r) == docOut # 0 /\ docAge <= DoctorTTL /\ kind[r] = "doctor"

\* doctor: a cached report is the answer; else --doctor runs, under docMu.
DocLock(r) ==
    /\ at[r] = "doclock" /\ docMu = "none"
    /\ \/ CacheServes(r) /\ Returns(r) /\ Set(answer, r, docOut) /\ UNCHANGED docMu
       \/ ~CacheServes(r) /\ Set(at, r, "docrun") /\ docMu' = r /\ UNCHANGED <<busy, answer>>
    /\ UNCHANGED <<kind, token, result, known, asked, idleFor, watch, since, docOut, docAge>>
    /\ NotServer

\* --doctor looks at the machine, then prints its report.
DocRun(r) ==
    /\ at[r] = "docrun" /\ Set(at, r, "docout") /\ Set(answer, r, world)
    /\ UNCHANGED <<kind, token, result, known, asked, serverVars>>
    /\ NotServer

\* It ends with its report, or without one (killed, 120 s, client gone): 503.
DocEnd(r) ==
    /\ docMu = r /\ docMu' = "none" /\ Returns(r)
    /\ \/ at[r] = "docout" /\ docOut' = answer[r] /\ docAge' = 0 /\ UNCHANGED answer
       \/ Set(answer, r, 0) /\ UNCHANGED <<docOut, docAge>>
    /\ UNCHANGED <<kind, token, result, known, asked, idleFor, watch, since>>
    /\ NotServer

Flush(r) ==
    /\ at[r] = "flush" /\ Free({r})
    /\ UNCHANGED serverVars
    /\ NotServer

WorldChanges ==
    /\ world < bound.worlds /\ world' = world + 1
    /\ UNCHANGED <<port, enabled, agent, requestVars, serverVars, pairVars, setup>>

-----------------------------------------------------------------------------
(* --pair and --setup --agent.                                             *)

Pair(from, to) == pair = from /\ pair' = to
OnlyPair == UNCHANGED <<port, enabled, agent, requestVars, serverVars, world>>
NewToken(t) == t < bound.tokens   \* a token never made before: the next number

PairStart ==
    /\ bound.again \/ port = "free"
    /\ Pair("off", "load") /\ setup \in {"off", "done"} /\ reset' \in BOOLEAN
    /\ UNCHANGED <<bound, file, cfg, issued, setup>> /\ OnlyPair

\* cmdPair: --reset makes a token and saves it first.
PairLoad ==
    /\ \/ reset /\ NewToken(LoadAgentConfig) /\ Pair("load", "save1") /\ cfg' = LoadAgentConfig + 1
       \/ ~reset /\ Pair("load", "init") /\ cfg' = LoadAgentConfig
    /\ UNCHANGED <<bound, file, reset, issued, setup>> /\ OnlyPair

\* Mutant: the configuration is written in place.
SaveInPlace(from, to) ==
    /\ \/ file # 0 /\ file' = 0 /\ pair = from /\ UNCHANGED pair
       \/ file = 0 /\ file' = cfg /\ Pair(from, to)
    /\ UNCHANGED <<bound, reset, cfg, issued, setup>> /\ OnlyPair

\* saveAgentConfig: agent.json.tmp, which nobody reads, is renamed.
Save(from, to) ==
    /\ Pair(from, to) /\ file' = cfg
    /\ UNCHANGED <<bound, reset, cfg, issued, setup>> /\ OnlyPair

\* agentInit reads the configuration again; a first --pair makes the token here.
PairInit ==
    /\ Pair("init", "save2")
    /\ \/ LoadAgentConfig # 0 /\ cfg' = LoadAgentConfig
       \/ LoadAgentConfig = 0 /\ NewToken(0) /\ cfg' = 1
    /\ UNCHANGED <<bound, file, reset, issued, setup>> /\ OnlyPair

PairPrint ==
    /\ Pair("print", "listen") /\ issued' = issued \cup {cfg}
    /\ UNCHANGED <<bound, file, reset, cfg, setup>> /\ OnlyPair

\* agentListening, else startAgentDetached, which waits until it listens.
PairListen ==
    /\ Pair("listen", "off")
    /\ IF port = "free" THEN port' = "agent" /\ Serves("up", "none")
       ELSE UNCHANGED <<port, agent, serverVars>>
    /\ setup' = IF setup = "pair" THEN "units" ELSE setup
    /\ reset' = FALSE /\ cfg' = 0
    /\ UNCHANGED <<bound, enabled, requestVars, world, file, issued>>

\* --pair is interrupted, or fails; so does the setup that called it.
StopPair ==
    /\ pair # "off" /\ pair' = "off"
    /\ setup' = IF setup = "pair" THEN "off" ELSE setup
    /\ reset' = FALSE /\ cfg' = 0
    /\ UNCHANGED <<bound, file, issued>> /\ OnlyPair

\* installAgent: portFree, --pair, units, systemctl enable --now.
SetupPair ==
    /\ setup = "off" /\ port = "free" /\ setup' = "pair"
    /\ Pair("off", "load") /\ reset' = FALSE
    /\ UNCHANGED <<bound, file, cfg, issued>> /\ OnlyPair

SetupEnable ==
    /\ setup = "units" /\ setup' = "done" /\ enabled' = TRUE
    /\ port' = IF port = "free" THEN "socket" ELSE port
    /\ UNCHANGED <<agent, requestVars, serverVars, world, pairVars>>

PairStep ==
    \/ PairStart \/ PairLoad \/ Save("save1", "init") \/ PairInit \/ Save("save2", "print")
    \/ PairPrint \/ PairListen \/ StopPair

WatchStep == WatchIdle \/ WatchBusy \/ Shutdown \/ ServeReturns

Handler(r) == Accept(r) \/ Begin(r) \/ DocLock(r) \/ DocRun(r) \/ DocEnd(r) \/ Flush(r)

Next ==
    \/ SystemdStart \/ Tick \/ WatchStep \/ Killed \/ Boot \/ WorldChanges
    \/ PairStep \/ SetupPair \/ SetupEnable
    \/ \E r \in Req : Connect(r) \/ Handler(r) \/ Work(r)

Spec == Init /\ [][Next]_vars

\* Time passes, systemd starts what a connection waits for, the watchdog and the
\* handlers go on; the work of a request takes as long as it takes.
FairSpec ==
    /\ Spec /\ WF_vars(Tick) /\ WF_vars(SystemdStart) /\ WF_vars(WatchStep)
    /\ \A r \in Req : WF_vars(Handler(r))

-----------------------------------------------------------------------------
(* Properties.                                                             *)

\* agent_http.go:37: no stop during a trial, or any other request: a request that
\* was handled when the watchdog read busy is not cut by the stop (idleWatchdog).
StopsOnlyIdle == agent = "closing" => \A r \in Req : Handling(r) => r \in since

\* docs/agent.md: an agent of systemd ends by itself when no request comes
\* (idleWatchdog): it is not up for ever with nobody there.
IdleStops ==
    []<>(agent = "down" \/ port # "socket" \/ \E r \in Req : at[r] # "off")

\* A client is refused only if a --reset has replaced its token, whatever --pair
\* is writing at that moment or wherever it was stopped, and the old token works
\* no more for a request sent after the --reset (auth, saveAgentConfig).
TokensMean ==
    \A r \in Req :
        /\ result[r] = "refused" => token[r] < file
        /\ result[r] = "ok" => token[r] >= known[r]

\* The answer to refresh=1 is about the machine as it was when the request was
\* sent or later, whoever else runs --doctor (doctor, docMu).
RefreshIsNew ==
    \A r \in Req : kind[r] = "refresh" /\ at[r] = "flush" /\ answer[r] # 0
                     => answer[r] >= asked[r]
=============================================================================
